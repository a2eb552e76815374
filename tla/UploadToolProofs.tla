-------------------------- MODULE UploadToolProofs ----------------------------
(***************************************************************************)
(* Theorems about the upload tool, for any contents, owners and ids typed, *)
(* and any number of calls and of publications by other clients.           *)
(***************************************************************************)
EXTENDS UploadTool, SequenceTheorems, TLAPS

\* What a call that was done says is in the catalogue.
InCatalogue(c) ==
  /\ c.op = "upload_model" => /\ c.result \in DOMAIN shelf
                              /\ shelf[c.result] = c.data
  /\ c.op = "upload_ad" => /\ c.result \in DOMAIN banners
                           /\ banners[c.result].data = c.data
                           /\ banners[c.result].owner = c.owner
  /\ c.op = "create_subs" =>
       /\ c.result \in DOMAIN keys
       /\ keys[c.result] = [owner |-> c.owner, model |-> c.model, ad |-> c.ad]

\* The client has a result only of a call that was done.
Answered(c) == /\ c.done => InCatalogue(c)
               /\ c.client \in {"given", "shown"} => c.done

CallsTrue == \A n \in DOMAIN calls : Answered(calls[n])

\* The window waits for the last click on Create and for no other, and shows no
\* key meanwhile.
IsCreate(n) == calls[n].op = "create_subs"
Awaited ==
  /\ \A n \in DOMAIN calls :
       IsCreate(n) /\ calls[n].client \notin {"shown", "over"} => blocked = n
  /\ blocked # 0 =>
       /\ blocked \in DOMAIN calls /\ IsCreate(blocked)
       /\ \A k \in DOMAIN calls : IsCreate(k) => k <= blocked

\* An id in a box was typed, or a call gave it.
Boxed(op, id) == id \in Untold \/ \E n \in DOMAIN calls : Gave(n, op, id)
BoxesGiven == Boxed("upload_model", modelBox) /\ Boxed("upload_ad", adBox)

\* A key that is shown was given by the last click on Create.
KeyGiven ==
  shown => \E n \in DOMAIN calls :
             /\ IsCreate(n) /\ \A k \in DOMAIN calls : IsCreate(k) => k <= n
             /\ Gave(n, "create_subs", keyBox)

IInv == TypeOK /\ CallsTrue /\ Awaited /\ BoxesGiven /\ KeyGiven

-----------------------------------------------------------------------------
(* The catalogue of the service *)

\* Nothing published is altered or withdrawn.
Grows ==
  /\ \A i \in DOMAIN shelf : i \in DOMAIN shelf' /\ shelf'[i] = shelf[i]
  /\ \A i \in DOMAIN banners : i \in DOMAIN banners' /\ banners'[i] = banners[i]
  /\ \A h \in DOMAIN keys : h \in DOMAIN keys' /\ keys'[h] = keys[h]

LEMMA Appended ==
  ASSUME NEW S, NEW s \in Seq(S), NEW e \in S
  PROVE  /\ Append(s, e) \in Seq(S) /\ DOMAIN s = 1..Len(s) /\ Len(s) \in Nat
         /\ Len(Append(s, e)) = Len(s) + 1
         /\ DOMAIN Append(s, e) = DOMAIN s \union {Len(s) + 1}
         /\ Append(s, e)[Len(s) + 1] = e
         /\ \A i \in DOMAIN s : i <= Len(s) /\ Append(s, e)[i] = s[i]
<1>1. Append(s, e) \in Seq(S) /\ Len(Append(s, e)) = Len(s) + 1
  OBVIOUS
<1>2. /\ Len(s) \in Nat /\ DOMAIN s = 1..Len(s)
      /\ DOMAIN Append(s, e) = 1..(Len(s) + 1)
  BY <1>1, LenProperties
<1>3. 1..(Len(s) + 1) = (1..Len(s)) \union {Len(s) + 1}
  BY <1>2
<1>4. /\ Append(s, e)[Len(s) + 1] = e
      /\ \A i \in 1..Len(s) : i <= Len(s) /\ Append(s, e)[i] = s[i]
  BY <1>2
<1> QED  BY <1>1, <1>2, <1>3, <1>4

LEMMA StoreGrows ==
  ASSUME Store!TypeOK, Store!Next
  PROVE  /\ Store!TypeOK' /\ Grows
         /\ Store!PublishModel =>
              Len(shelf') \in DOMAIN shelf' /\ Len(shelf') \in Nat
         /\ Store!PublishAd =>
              Len(banners') \in DOMAIN banners' /\ Len(banners') \in Nat
<1>0. /\ shelf \in Seq(Data) /\ banners \in Seq(Store!Banner)
      /\ DOMAIN keys \subseteq Hashes
      /\ \A h \in DOMAIN keys : keys[h] \in
           [owner : Owners, model : DOMAIN shelf, ad : DOMAIN banners]
  BY DEF Store!TypeOK
<1>1. ASSUME DOMAIN shelf \subseteq DOMAIN shelf',
             DOMAIN banners \subseteq DOMAIN banners', keys' = keys
      PROVE  /\ DOMAIN keys' \subseteq Hashes
             /\ \A h \in DOMAIN keys' : keys'[h] \in
                  [owner : Owners, model : DOMAIN shelf', ad : DOMAIN banners']
  <2>1. ASSUME NEW h \in DOMAIN keys
        PROVE  keys[h] \in
                 [owner : Owners, model : DOMAIN shelf', ad : DOMAIN banners']
    BY <1>0, <1>1, <2>1
  <2> QED  BY <1>0, <1>1, <2>1
<1>2. CASE Store!PublishModel
  <2>1. PICK d \in Data : shelf' = Append(shelf, d)
    BY <1>2 DEF Store!PublishModel
  <2>2. /\ shelf' \in Seq(Data) /\ Len(shelf') = Len(shelf) + 1
        /\ DOMAIN shelf' = DOMAIN shelf \union {Len(shelf) + 1}
        /\ Len(shelf) \in Nat
        /\ \A i \in DOMAIN shelf : shelf'[i] = shelf[i]
    BY <1>0, <2>1, Appended
  <2>3. banners' = banners /\ keys' = keys
    BY <1>2 DEF Store!PublishModel
  <2>4. Store!TypeOK'
    BY <1>0, <1>1, <2>2, <2>3 DEF Store!TypeOK
  <2>5. ~ Store!PublishAd
    <3>1. Len(shelf') # Len(shelf)
      BY <2>2
    <3> QED  BY <3>1 DEF Store!PublishAd
  <2> QED  BY <2>2, <2>3, <2>4, <2>5 DEF Grows
<1>3. CASE Store!PublishAd
  <2>1. PICK b \in Store!Banner : banners' = Append(banners, b)
    BY <1>3 DEF Store!PublishAd, Store!Banner
  <2>2. /\ banners' \in Seq(Store!Banner) /\ Len(banners') = Len(banners) + 1
        /\ DOMAIN banners' = DOMAIN banners \union {Len(banners) + 1}
        /\ Len(banners) \in Nat
        /\ \A i \in DOMAIN banners : banners'[i] = banners[i]
    BY <1>0, <2>1, Appended
  <2>3. shelf' = shelf /\ keys' = keys
    BY <1>3 DEF Store!PublishAd
  <2>4. Store!TypeOK'
    BY <1>0, <1>1, <2>2, <2>3 DEF Store!TypeOK, Store!Banner
  <2>5. ~ Store!PublishModel
    <3>1. Len(banners') # Len(banners)
      BY <2>2
    <3> QED  BY <3>1 DEF Store!PublishModel
  <2> QED  BY <2>2, <2>3, <2>4, <2>5 DEF Grows
<1>4. CASE Store!Subscribe
  <2>1. PICK h \in Hashes, o \in Owners, m \in DOMAIN shelf, a \in DOMAIN banners :
          /\ h \notin DOMAIN keys
          /\ keys' = [k \in DOMAIN keys \union {h} |->
                        IF k = h THEN [owner |-> o, model |-> m, ad |-> a]
                                 ELSE keys[k]]
    BY <1>4 DEF Store!Subscribe
  <2>2. shelf' = shelf /\ banners' = banners
    BY <1>4 DEF Store!Subscribe
  <2>3. /\ DOMAIN keys' = DOMAIN keys \union {h} /\ h \in DOMAIN keys'
        /\ \A k \in DOMAIN keys : keys'[k] = keys[k]
        /\ keys'[h] = [owner |-> o, model |-> m, ad |-> a]
    BY <2>1
  <2>4. Store!TypeOK'
    BY <1>0, <2>2, <2>3 DEF Store!TypeOK, Store!Banner
  <2>5. ~ Store!PublishModel /\ ~ Store!PublishAd
    <3>1. h \in DOMAIN keys' /\ h \notin DOMAIN keys
      BY <2>1, <2>3
    <3> QED  BY <3>1 DEF Store!PublishModel, Store!PublishAd
  <2> QED  BY <2>2, <2>3, <2>4, <2>5 DEF Grows
<1> QED  BY <1>2, <1>3, <1>4 DEF Store!Next

-----------------------------------------------------------------------------
(* The calls of the tool *)

LEMMA SameCatalogue ==
  ASSUME Store!TypeOK, UNCHANGED catalogue
  PROVE  Store!TypeOK' /\ Grows
BY DEF catalogue, Grows, Store!TypeOK, Store!Banner

\* What does not depend on the boxes, when the calls and the window's wait stay.
LEMMA CallsStay ==
  ASSUME IInv, Grows, UNCHANGED <<calls, blocked>>
  PROVE  /\ CallsTrue' /\ Awaited'
         /\ \A op, id : Boxed(op, id) => Boxed(op, id)'
<1>1. CallsTrue'
  BY DEF IInv, CallsTrue, Grows, Answered, InCatalogue
<1>2. Awaited'
  BY DEF IInv, Awaited, IsCreate
<1>3. \A op, id : Boxed(op, id) => Boxed(op, id)'
  BY DEF Boxed, Gave
<1> QED  BY <1>1, <1>2, <1>3

\* One call becomes c, which is the same question: the other calls, and what
\* they gave, stay.
SameQuestion(c, d) ==
  /\ c.op = d.op /\ c.owner = d.owner /\ c.data = d.data
  /\ c.model = d.model /\ c.ad = d.ad

LEMMA CallReplaced ==
  ASSUME IInv, Grows, NEW n \in DOMAIN calls, NEW c \in Call,
         calls' = [calls EXCEPT ![n] = c], SameQuestion(c, calls[n]),
         calls[n].client # "shown",
         c.done => InCatalogue(c)', c.client \in {"given", "shown"} => c.done
  PROVE  /\ calls' \in Seq(Call) /\ Len(calls') = Len(calls)
         /\ DOMAIN calls' = DOMAIN calls /\ calls'[n] = c
         /\ \A m \in DOMAIN calls : m # n => calls'[m] = calls[m]
         /\ \A m \in DOMAIN calls : IsCreate(m)' <=> IsCreate(m)
         /\ \A m \in DOMAIN calls : \A op, id : Gave(m, op, id) => Gave(m, op, id)'
         /\ CallsTrue'
<1>0. calls \in Seq(Call) /\ DOMAIN calls = 1..Len(calls)
  <2>1. calls \in Seq(Call)
    BY DEF IInv, TypeOK
  <2> QED  BY <2>1, LenProperties
<1>1. /\ calls' \in Seq(Call) /\ Len(calls') = Len(calls)
      /\ \A m \in 1..Len(calls) : calls'[m] = IF m = n THEN c ELSE calls[m]
  BY <1>0, ExceptSeq
<1>2. DOMAIN calls' = DOMAIN calls
  BY <1>0, <1>1, LenProperties
<1>3. \A m \in DOMAIN calls : IsCreate(m)' <=> IsCreate(m)
  BY <1>0, <1>1 DEF IsCreate, SameQuestion
<1>4. ASSUME NEW m \in DOMAIN calls, NEW op, NEW id, Gave(m, op, id)
      PROVE  Gave(m, op, id)'
  <2>1. m # n
    BY <1>4 DEF Gave
  <2> QED  BY <1>0, <1>1, <1>4, <2>1 DEF Gave
<1>5. CallsTrue'
  <2> SUFFICES ASSUME NEW m \in DOMAIN calls'  PROVE  Answered(calls[m])'
    BY DEF CallsTrue
  <2>1. CASE m = n
    BY <1>0, <1>1, <2>1 DEF Answered, InCatalogue
  <2>2. CASE m # n
    <3>1. calls'[m] = calls[m] /\ Answered(calls[m])
      BY <1>0, <1>1, <1>2, <2>2 DEF IInv, CallsTrue
    <3> QED  BY <3>1 DEF Grows, Answered, InCatalogue
  <2> QED  BY <2>1, <2>2
<1> QED  BY <1>0, <1>1, <1>2, <1>3, <1>4, <1>5

-----------------------------------------------------------------------------
(* Each step keeps the invariant *)

LEMMA QuietKeeps ==
  ASSUME IInv, Open \/ TypeId \/ Elsewhere \/ UNCHANGED vars
  PROVE  IInv'
<1>1. UNCHANGED <<calls, blocked, keyBox, shown>>
  BY DEF Open, TypeId, Elsewhere, vars, boxes
<1>2. Store!TypeOK' /\ Grows
  <2>1. Store!TypeOK
    BY DEF IInv, TypeOK
  <2>2. Store!Next \/ UNCHANGED catalogue
    BY DEF Open, TypeId, Elsewhere, vars
  <2> QED  BY <2>1, <2>2, StoreGrows, SameCatalogue
<1>3. modelBox' \in {modelBox} \union TypedIds /\ adBox' \in {adBox} \union TypedIds
  BY DEF Open, TypeId, Elsewhere, vars, boxes
<1>4. open' \in BOOLEAN
  BY DEF IInv, TypeOK, Open, TypeId, Elsewhere, vars
<1>5. TypeOK'
  BY <1>1, <1>2, <1>3, <1>4 DEF IInv, TypeOK, Ids
<1>6. CallsTrue' /\ Awaited' /\ \A op, id : Boxed(op, id) => Boxed(op, id)'
  BY <1>1, <1>2, CallsStay
<1>7. BoxesGiven'
  <2>1. \A op, id : id \in TypedIds => Boxed(op, id)'
    BY DEF Boxed, Untold
  <2>2. Boxed("upload_model", modelBox) /\ Boxed("upload_ad", adBox)
    BY DEF IInv, BoxesGiven
  <2>3. Boxed("upload_model", modelBox)'
    BY <1>1, <1>3, <2>2 DEF Boxed, Gave, Untold
  <2>4. Boxed("upload_ad", adBox)'
    BY <1>1, <1>3, <2>2 DEF Boxed, Gave, Untold
  <2> QED  BY <2>3, <2>4 DEF BoxesGiven
<1>8. KeyGiven'
  BY <1>1 DEF IInv, KeyGiven, IsCreate, Gave
<1> QED  BY <1>5, <1>6, <1>7, <1>8 DEF IInv

LEMMA CloseKeeps == IInv /\ Close => IInv'
<1> SUFFICES ASSUME IInv, Close  PROVE  IInv'
  OBVIOUS
<1>1. /\ calls' = <<>> /\ blocked' = 0 /\ modelBox' = Empty /\ adBox' = Empty
      /\ keyBox' = NoKey /\ shown' = FALSE /\ open' = FALSE
      /\ UNCHANGED catalogue
  BY DEF Close
<1>2. Store!TypeOK'
  BY <1>1, SameCatalogue DEF IInv, TypeOK
<1>3. calls' \in Seq(Call) /\ Len(calls') = 0 /\ DOMAIN calls' = {}
  BY <1>1, EmptySeq
<1>4. TypeOK'
  <2>1. Empty \in Ids /\ blocked' \in 0..Len(calls')
    BY <1>1, <1>3 DEF Ids, Empty
  <2> QED  BY <1>1, <1>2, <1>3, <2>1 DEF TypeOK
<1>5. CallsTrue' /\ Awaited' /\ KeyGiven'
  BY <1>1, <1>3 DEF CallsTrue, Awaited, KeyGiven
<1>6. BoxesGiven'
  BY <1>1 DEF BoxesGiven, Boxed, Untold
<1> QED  BY <1>4, <1>5, <1>6 DEF IInv

\* A click makes one more call and blocks the window if it is on Create.
LEMMA ClickKeeps ==
  ASSUME IInv, ClickUpload \/ ClickCreate
  PROVE  IInv'
<1> DEFINE l == Len(calls)
<1>0. /\ calls \in Seq(Call) /\ l \in Nat /\ DOMAIN calls = 1..l
      /\ TypeOK /\ CallsTrue /\ Awaited /\ BoxesGiven /\ KeyGiven
  <2>1. calls \in Seq(Call)
    BY DEF IInv, TypeOK
  <2> QED  BY <2>1, LenProperties DEF IInv
<1>1. /\ blocked = 0 /\ UNCHANGED <<catalogue, open, modelBox, adBox, keyBox>>
  BY DEF ClickUpload, ClickCreate, Responsive, boxes
<1>2. PICK c \in Call : /\ calls' = Append(calls, c) /\ ~ c.done
                        /\ c.client = "waiting"
                        /\ \/ /\ c.op = "create_subs" /\ blocked' = l + 1
                              /\ shown' = FALSE
                           \/ /\ c.op # "create_subs" /\ blocked' = blocked
                              /\ shown' = shown
  <2> DEFINE New(op, o, d, m, a) ==
        [op |-> op, owner |-> o, data |-> d, model |-> m, ad |-> a,
         done |-> FALSE, result |-> NoId, client |-> "waiting"]
  <2>0. Empty \in Ids /\ modelBox \in Ids /\ adBox \in Ids
    BY <1>0 DEF TypeOK, Ids, Empty
  <2>1. CASE ClickUpload
    <3>1. PICK op \in {"upload_model", "upload_ad"}, o \in Owners, d \in Data :
            calls' = Append(calls, New(op, o, d, Empty, Empty))
      BY <2>1 DEF ClickUpload, Send
    <3>2. New(op, o, d, Empty, Empty) \in Call
      BY <2>0 DEF Call
    <3> QED  BY <2>1, <3>1, <3>2 DEF ClickUpload, boxes
  <2>2. CASE ClickCreate
    <3>1. PICK o \in Owners :
            calls' = Append(calls, New("create_subs", o, NoData, modelBox, adBox))
      BY <2>2 DEF ClickCreate, Send
    <3>2. New("create_subs", o, NoData, modelBox, adBox) \in Call
      BY <2>0 DEF Call
    <3> QED  BY <2>2, <3>1, <3>2 DEF ClickCreate, KeyHidden
  <2> QED  BY <2>1, <2>2
<1> HIDE DEF l
<1>k. PICK k \in Nat : k = l + 1
  BY <1>0
<1>3. /\ calls' \in Seq(Call) /\ Len(calls') = k
      /\ DOMAIN calls' = DOMAIN calls \union {k}
      /\ calls'[k] = c
      /\ \A i \in DOMAIN calls : i <= l /\ calls'[i] = calls[i]
  BY <1>0, <1>2, <1>k, Appended DEF l
<1>4. TypeOK'
  <2>1. Store!TypeOK'
    BY <1>0, <1>1, SameCatalogue DEF TypeOK
  <2>2. blocked' \in 0..Len(calls')
    BY <1>0, <1>1, <1>2, <1>3, <1>k
  <2> QED  BY <1>0, <1>1, <1>2, <1>3, <2>1, <2>2 DEF TypeOK
<1>5. CallsTrue'
  <2> SUFFICES ASSUME NEW n \in DOMAIN calls'  PROVE  Answered(calls[n])'
    BY DEF CallsTrue
  <2>1. CASE n = k
    BY <1>2, <1>3, <2>1 DEF Answered
  <2>2. CASE n \in DOMAIN calls
    <3>1. calls'[n] = calls[n] /\ Answered(calls[n])
      BY <1>0, <1>3, <2>2 DEF CallsTrue
    <3> QED  BY <1>1, <3>1 DEF Answered, InCatalogue, catalogue
  <2> QED  BY <1>3, <2>1, <2>2
<1>6. /\ \A n \in DOMAIN calls : IsCreate(n)' <=> IsCreate(n)
      /\ \A n \in DOMAIN calls : \A op, id : Gave(n, op, id) => Gave(n, op, id)'
      /\ IsCreate(k)' <=> c.op = "create_subs"
  <2>1. \A n \in DOMAIN calls : IsCreate(n)' <=> IsCreate(n)
    BY <1>3 DEF IsCreate
  <2>2. \A n \in DOMAIN calls : \A op, id : Gave(n, op, id) => Gave(n, op, id)'
    BY <1>3 DEF Gave
  <2>3. IsCreate(k)' <=> c.op = "create_subs"
    BY <1>3 DEF IsCreate
  <2> QED  BY <2>1, <2>2, <2>3
<1>7. Awaited'
  <2>1. \A n \in DOMAIN calls : IsCreate(n) => calls[n].client \in {"shown", "over"}
    <3>1. \A n \in DOMAIN calls : n # 0
      BY <1>0
    <3> QED  BY <1>0, <1>1, <3>1 DEF Awaited
  <2>2. CASE c.op = "create_subs" /\ blocked' = k
    <3>1. \A n \in DOMAIN calls' :
            IsCreate(n)' /\ calls'[n].client \notin {"shown", "over"} => blocked' = n
      BY <1>3, <1>6, <2>1, <2>2
    <3>2. blocked' \in DOMAIN calls' /\ IsCreate(k)'
      BY <1>3, <1>6, <2>2
    <3>3. \A n \in DOMAIN calls' : n <= blocked'
      BY <1>0, <1>3, <1>k, <2>2
    <3> QED  BY <2>2, <3>1, <3>2, <3>3 DEF Awaited, IsCreate
  <2>3. CASE c.op # "create_subs" /\ blocked' = blocked
    <3>1. \A n \in DOMAIN calls' :
            IsCreate(n)' => calls'[n].client \in {"shown", "over"}
      BY <1>3, <1>6, <2>1, <2>3
    <3> QED  BY <1>1, <2>3, <3>1 DEF Awaited, IsCreate
  <2> QED  BY <1>2, <1>k, <2>2, <2>3
<1>8. BoxesGiven'
  <2>1. Boxed("upload_model", modelBox)'
    BY <1>0, <1>1, <1>3, <1>6 DEF BoxesGiven, Boxed, Gave
  <2>2. Boxed("upload_ad", adBox)'
    BY <1>0, <1>1, <1>3, <1>6 DEF BoxesGiven, Boxed, Gave
  <2> QED  BY <2>1, <2>2 DEF BoxesGiven
<1>9. KeyGiven'
  <2>1. CASE shown' = FALSE
    BY <2>1 DEF KeyGiven
  <2>2. CASE c.op # "create_subs" /\ shown' = shown
    BY <1>0, <1>1, <1>3, <1>6, <2>2 DEF KeyGiven, Gave, IsCreate
  <2> QED  BY <1>2, <2>1, <2>2
<1> QED  BY <1>4, <1>5, <1>7, <1>8, <1>9 DEF IInv

\* The service carries out call n, which the client has not been given yet.
LEMMA ServiceKeeps ==
  ASSUME IInv, NEW n, Service(n)
  PROVE  IInv'
<1>0. /\ TypeOK /\ CallsTrue /\ Awaited /\ BoxesGiven /\ KeyGiven
      /\ n \in DOMAIN calls /\ ~ calls[n].done
      /\ UNCHANGED <<open, boxes, blocked>>
  BY DEF IInv, Service, ServeModel, ServeAd, ServeSubs, Carries, Serve
<1>1. calls[n] \in Call /\ calls[n].client \notin {"given", "shown"}
  <2>1. calls \in Seq(Call)
    BY <1>0 DEF TypeOK
  <2>2. calls[n] \in Call
    BY <1>0, <2>1, LenProperties, ElementOfSeq
  <2> QED  BY <1>0, <2>2 DEF CallsTrue, Answered
<1>2. Store!TypeOK' /\ Grows
  <2>1. Store!TypeOK /\ Store!Next
    BY <1>0 DEF TypeOK, Service, ServeModel, ServeAd, ServeSubs, Store!Next
  <2> QED  BY <2>1, StoreGrows
<1> DEFINE Done(r) == [calls[n] EXCEPT !.done = TRUE, !.result = r]
<1>3. ASSUME NEW r \in Nat \union Hashes,
             calls' = [calls EXCEPT ![n].done = TRUE, ![n].result = r]
      PROVE  \E c \in Call :
               /\ calls' = [calls EXCEPT ![n] = c] /\ SameQuestion(c, calls[n])
               /\ c.done /\ c.result = r /\ c.client = calls[n].client
  <2>1. PICK c \in Call : c = Done(r)
    BY <1>1 DEF Call
  <2>2. c.done /\ c.result = r /\ c.client = calls[n].client
    BY <1>1, <2>1 DEF Call
  <2>3. SameQuestion(c, calls[n])
    BY <1>1, <2>1 DEF Call, SameQuestion
  <2>4. calls' = [calls EXCEPT ![n] = Done(r)]
    BY <1>3
  <2> QED  BY <2>1, <2>2, <2>3, <2>4
<1>4. PICK c \in Call :
        /\ calls' = [calls EXCEPT ![n] = c] /\ SameQuestion(c, calls[n])
        /\ c.done /\ InCatalogue(c)' /\ c.client = calls[n].client
  <2>0. Store!TypeOK
    BY <1>0 DEF TypeOK
  <2>1. CASE ServeModel(n)
    <3>1. PICK r \in Nat : r = Len(shelf')
      BY <2>0, <2>1, StoreGrows DEF ServeModel, Store!Next
    <3>2. /\ r \in DOMAIN shelf' /\ shelf'[r] = calls[n].data
          /\ calls' = [calls EXCEPT ![n].done = TRUE, ![n].result = r]
          /\ calls[n].op = "upload_model"
      BY <2>0, <2>1, <3>1, StoreGrows DEF ServeModel, Carries, Serve, Store!Next
    <3>3. PICK c \in Call :
            /\ calls' = [calls EXCEPT ![n] = c] /\ SameQuestion(c, calls[n])
            /\ c.done /\ c.result = r /\ c.client = calls[n].client
      BY <1>3, <3>2
    <3>4. InCatalogue(c)'
      BY <3>2, <3>3 DEF InCatalogue, SameQuestion
    <3> QED  BY <3>3, <3>4
  <2>2. CASE ServeAd(n)
    <3>1. PICK r \in Nat : r = Len(banners')
      BY <2>0, <2>2, StoreGrows DEF ServeAd, Store!Next
    <3>2. /\ r \in DOMAIN banners' /\ banners'[r].data = calls[n].data
          /\ banners'[r].owner = calls[n].owner
          /\ calls' = [calls EXCEPT ![n].done = TRUE, ![n].result = r]
          /\ calls[n].op = "upload_ad"
      BY <2>0, <2>2, <3>1, StoreGrows DEF ServeAd, Carries, Serve, Store!Next
    <3>3. PICK c \in Call :
            /\ calls' = [calls EXCEPT ![n] = c] /\ SameQuestion(c, calls[n])
            /\ c.done /\ c.result = r /\ c.client = calls[n].client
      BY <1>3, <3>2
    <3>4. InCatalogue(c)'
      BY <3>2, <3>3 DEF InCatalogue, SameQuestion
    <3> QED  BY <3>3, <3>4
  <2>3. CASE ServeSubs(n)
    <3>1. PICK r \in DOMAIN keys' :
            /\ keys'[r] = Asked(n)
            /\ calls' = [calls EXCEPT ![n].done = TRUE, ![n].result = r]
      BY <2>3 DEF ServeSubs, Serve
    <3>2. r \in Hashes /\ calls[n].op = "create_subs"
      BY <1>2, <2>3, <3>1 DEF Store!TypeOK, ServeSubs, Carries
    <3>3. PICK c \in Call :
            /\ calls' = [calls EXCEPT ![n] = c] /\ SameQuestion(c, calls[n])
            /\ c.done /\ c.result = r /\ c.client = calls[n].client
      BY <1>3, <3>1, <3>2
    <3>4. InCatalogue(c)'
      BY <3>1, <3>2, <3>3 DEF InCatalogue, SameQuestion, Asked
    <3> QED  BY <3>3, <3>4
  <2> QED  BY <2>1, <2>2, <2>3 DEF Service
<1>5. /\ calls' \in Seq(Call) /\ Len(calls') = Len(calls)
      /\ DOMAIN calls' = DOMAIN calls /\ calls'[n] = c
      /\ \A m \in DOMAIN calls : m # n => calls'[m] = calls[m]
      /\ \A m \in DOMAIN calls : IsCreate(m)' <=> IsCreate(m)
      /\ \A m \in DOMAIN calls : \A op, id : Gave(m, op, id) => Gave(m, op, id)'
      /\ CallsTrue'
  BY <1>0, <1>1, <1>2, <1>4, CallReplaced
<1>6. TypeOK'
  BY <1>0, <1>2, <1>5 DEF TypeOK, boxes
<1>7. Awaited'
  <2>1. calls'[n].client = calls[n].client
    BY <1>4, <1>5
  <2>2. \A m \in DOMAIN calls : calls'[m].client = calls[m].client
    BY <1>5, <2>1
  <2>3. blocked' = blocked
    BY <1>0
  <2> QED  BY <1>0, <1>5, <2>2, <2>3 DEF Awaited, IsCreate
<1>8. BoxesGiven'
  <2>1. modelBox' = modelBox /\ adBox' = adBox
    BY <1>0 DEF boxes
  <2>2. Boxed("upload_model", modelBox)'
    BY <1>0, <1>5, <2>1 DEF BoxesGiven, Boxed, Gave
  <2>3. Boxed("upload_ad", adBox)'
    BY <1>0, <1>5, <2>1 DEF BoxesGiven, Boxed, Gave
  <2> QED  BY <2>2, <2>3 DEF BoxesGiven
<1>9. KeyGiven'
  <2>1. keyBox' = keyBox /\ shown' = shown
    BY <1>0 DEF boxes
  <2> QED  BY <1>0, <1>5, <2>1 DEF KeyGiven, IsCreate, Gave
<1> QED  BY <1>5, <1>6, <1>7, <1>8, <1>9 DEF IInv

\* A client's step alters where the client is with call n and nothing else that
\* is recorded of a call.
LEMMA ClientMoves ==
  ASSUME IInv, UNCHANGED catalogue, NEW n \in DOMAIN calls,
         NEW out \in {"given", "failed", "shown", "over"},
         calls' = [calls EXCEPT ![n].client = out],
         calls[n].client # "shown",
         out \in {"given", "shown"} => calls[n].done
  PROVE  /\ Store!TypeOK' /\ calls[n] \in Call
         /\ calls' \in Seq(Call) /\ Len(calls') = Len(calls)
         /\ DOMAIN calls' = DOMAIN calls
         /\ calls'[n].client = out /\ calls'[n].result = calls[n].result
         /\ calls'[n].op = calls[n].op
         /\ \A m \in DOMAIN calls : m # n => calls'[m] = calls[m]
         /\ \A m \in DOMAIN calls : IsCreate(m)' <=> IsCreate(m)
         /\ \A m \in DOMAIN calls : \A op, id : Gave(m, op, id) => Gave(m, op, id)'
         /\ CallsTrue'
<1>1. calls[n] \in Call /\ Answered(calls[n])
  <2>1. calls \in Seq(Call)
    BY DEF IInv, TypeOK
  <2>2. calls[n] \in Call
    BY <2>1, LenProperties, ElementOfSeq
  <2> QED  BY <2>2 DEF IInv, CallsTrue
<1>2. PICK c \in Call : c = [calls[n] EXCEPT !.client = out]
  BY <1>1 DEF Call
<1>3. /\ c.client = out /\ c.done = calls[n].done /\ c.result = calls[n].result
      /\ SameQuestion(c, calls[n])
  BY <1>1, <1>2 DEF Call, SameQuestion
<1>4. calls' = [calls EXCEPT ![n] = c]
  BY <1>2
<1>5. Store!TypeOK' /\ Grows
  BY SameCatalogue DEF IInv, TypeOK
<1>6. c.done => InCatalogue(c)'
  <2>1. c.done => InCatalogue(calls[n])
    BY <1>1, <1>3 DEF Answered
  <2>2. c.done => InCatalogue(c)
    BY <1>3, <2>1 DEF InCatalogue, SameQuestion
  <2> QED  BY <2>2 DEF InCatalogue, catalogue
<1>7. c.client \in {"given", "shown"} => c.done
  BY <1>3
<1>8. /\ calls' \in Seq(Call) /\ Len(calls') = Len(calls)
      /\ DOMAIN calls' = DOMAIN calls /\ calls'[n] = c
      /\ \A m \in DOMAIN calls : m # n => calls'[m] = calls[m]
      /\ \A m \in DOMAIN calls : IsCreate(m)' <=> IsCreate(m)
      /\ \A m \in DOMAIN calls : \A op, id : Gave(m, op, id) => Gave(m, op, id)'
      /\ CallsTrue'
  BY <1>3, <1>4, <1>5, <1>6, <1>7, CallReplaced
<1> QED  BY <1>1, <1>3, <1>5, <1>8 DEF SameQuestion

\* The call returns, with a result if the service carried it out.
LEMMA ReturnKeeps ==
  ASSUME IInv, NEW n, Return(n)
  PROVE  IInv'
<1>0. /\ TypeOK /\ Awaited /\ BoxesGiven /\ KeyGiven
      /\ n \in DOMAIN calls /\ calls[n].client = "waiting"
      /\ UNCHANGED <<catalogue, open, boxes, blocked>>
  BY DEF IInv, Return
<1>1. PICK out \in {"given", "failed"} :
        /\ calls' = [calls EXCEPT ![n].client = out]
        /\ out = "given" => calls[n].done
  BY DEF Return, Outcomes
<1>2. /\ Store!TypeOK' /\ calls' \in Seq(Call) /\ Len(calls') = Len(calls)
      /\ DOMAIN calls' = DOMAIN calls
      /\ \A m \in DOMAIN calls : m # n => calls'[m] = calls[m]
      /\ \A m \in DOMAIN calls : IsCreate(m)' <=> IsCreate(m)
      /\ \A m \in DOMAIN calls : \A op, id : Gave(m, op, id) => Gave(m, op, id)'
      /\ CallsTrue'
  BY <1>0, <1>1, ClientMoves
<1>3. TypeOK'
  BY <1>0, <1>2 DEF TypeOK, boxes
<1>4. Awaited'
  <2>1. \A m \in DOMAIN calls :
          calls'[m].client \notin {"shown", "over"} =>
            calls[m].client \notin {"shown", "over"}
    BY <1>0, <1>2
  <2> QED  BY <1>0, <1>2, <2>1 DEF Awaited, IsCreate
<1>5. BoxesGiven'
  <2>1. modelBox' = modelBox /\ adBox' = adBox
    BY <1>0 DEF boxes
  <2>2. Boxed("upload_model", modelBox)'
    BY <1>0, <1>2, <2>1 DEF BoxesGiven, Boxed, Gave
  <2>3. Boxed("upload_ad", adBox)'
    BY <1>0, <1>2, <2>1 DEF BoxesGiven, Boxed, Gave
  <2> QED  BY <2>2, <2>3 DEF BoxesGiven
<1>6. KeyGiven'
  <2>1. keyBox' = keyBox /\ shown' = shown
    BY <1>0 DEF boxes
  <2> QED  BY <1>0, <1>2, <2>1 DEF KeyGiven, IsCreate, Gave
<1> QED  BY <1>2, <1>3, <1>4, <1>5, <1>6 DEF IInv

\* Call n's result is from this step on what it gave.
Shows(n, op) == \A id : id = calls[n].result => Gave(n, op, id)'

\* A call that returned is over: what it gave, if anything, is now shown.
LEMMA Finished ==
  ASSUME IInv, NEW op, NEW n, Returned(n, op), Finish(n), UNCHANGED catalogue
  PROVE  /\ Store!TypeOK' /\ n \in DOMAIN calls /\ calls[n].op = op
         /\ Given(n) => InCatalogue(calls[n]) /\ Shows(n, op)
         /\ calls' \in Seq(Call) /\ Len(calls') = Len(calls)
         /\ DOMAIN calls' = DOMAIN calls
         /\ calls'[n].client \in {"shown", "over"}
         /\ ~ Given(n) => calls'[n].client = "over"
         /\ \A m \in DOMAIN calls : m # n => calls'[m] = calls[m]
         /\ \A m \in DOMAIN calls : IsCreate(m)' <=> IsCreate(m)
         /\ \A m \in DOMAIN calls : \A o, id : Gave(m, o, id) => Gave(m, o, id)'
         /\ CallsTrue'
<1>0. /\ n \in DOMAIN calls /\ calls[n].op = op
      /\ calls[n].client \in {"given", "failed"}
  BY DEF Returned
<1>1. Answered(calls[n])
  BY <1>0 DEF IInv, CallsTrue
<1>2. Given(n) => calls[n].done /\ InCatalogue(calls[n])
  BY <1>1 DEF Given, Answered
<1>3. PICK out \in {"shown", "over"} :
        /\ calls' = [calls EXCEPT ![n].client = out]
        /\ Given(n) => out = "shown"
        /\ ~ Given(n) => out = "over"
  BY DEF Finish
<1>4. /\ Store!TypeOK' /\ calls' \in Seq(Call) /\ Len(calls') = Len(calls)
      /\ DOMAIN calls' = DOMAIN calls
      /\ calls'[n].client = out /\ calls'[n].result = calls[n].result
      /\ calls'[n].op = calls[n].op
      /\ \A m \in DOMAIN calls : m # n => calls'[m] = calls[m]
      /\ \A m \in DOMAIN calls : IsCreate(m)' <=> IsCreate(m)
      /\ \A m \in DOMAIN calls : \A o, id : Gave(m, o, id) => Gave(m, o, id)'
      /\ CallsTrue'
  BY <1>0, <1>2, <1>3, ClientMoves
<1>5. Given(n) => InCatalogue(calls[n]) /\ Shows(n, op)
  <2> SUFFICES ASSUME Given(n)
               PROVE  InCatalogue(calls[n]) /\ Shows(n, op)
    OBVIOUS
  <2>1. calls'[n].client = "shown"
    BY <1>3, <1>4
  <2> QED  BY <1>0, <1>2, <1>4, <2>1 DEF Gave, Shows
<1> QED  BY <1>0, <1>3, <1>4, <1>5

\* A callback of an upload writes the id the call was given, or -1.
LEMMA CallbackKeeps ==
  ASSUME IInv, NEW n, MyModelCallback(n) \/ MyAdCallback(n)
  PROVE  IInv'
<1>0. /\ TypeOK /\ Awaited /\ BoxesGiven /\ KeyGiven
      /\ UNCHANGED <<catalogue, open, keyBox, shown, blocked>> /\ Finish(n)
  BY DEF IInv, MyModelCallback, MyAdCallback
<1>d. PICK id : id = IdOf(n)
  OBVIOUS
<1>1. PICK op \in {"upload_model", "upload_ad"} :
        /\ Returned(n, op) /\ id = IdOf(n)
        /\ \/ op = "upload_model" /\ modelBox' = id /\ adBox' = adBox
           \/ op = "upload_ad" /\ adBox' = id /\ modelBox' = modelBox
  BY <1>d DEF MyModelCallback, MyAdCallback, AdIdBox
<1>2. /\ Store!TypeOK' /\ n \in DOMAIN calls /\ calls[n].op = op
      /\ Given(n) => InCatalogue(calls[n]) /\ Shows(n, op)
      /\ calls' \in Seq(Call) /\ Len(calls') = Len(calls)
      /\ DOMAIN calls' = DOMAIN calls
      /\ calls'[n].client \in {"shown", "over"}
      /\ \A m \in DOMAIN calls : m # n => calls'[m] = calls[m]
      /\ \A m \in DOMAIN calls : IsCreate(m)' <=> IsCreate(m)
      /\ \A m \in DOMAIN calls : \A o, i : Gave(m, o, i) => Gave(m, o, i)'
      /\ CallsTrue'
  BY <1>0, <1>1, Finished
<1>3. id \in Ids /\ Boxed(op, id)'
  <2>1. CASE Given(n)
    <3>1. id = calls[n].result
      BY <1>1, <2>1 DEF IdOf
    <3>2. id \in Nat
      <4>1. DOMAIN shelf = 1..Len(shelf) /\ DOMAIN banners = 1..Len(banners)
        BY <1>0, LenProperties DEF TypeOK, Store!TypeOK, Store!Banner
      <4>2. Len(shelf) \in Nat /\ Len(banners) \in Nat
        BY <1>0, LenProperties DEF TypeOK, Store!TypeOK, Store!Banner
      <4> QED  BY <1>1, <1>2, <2>1, <3>1, <4>1, <4>2 DEF InCatalogue
    <3>3. Gave(n, op, id)'
      BY <1>2, <2>1, <3>1 DEF Shows
    <3> QED  BY <1>2, <3>2, <3>3 DEF Ids, Boxed
  <2>2. CASE ~ Given(n)
    BY <1>1, <2>2 DEF IdOf, Ids, Boxed, Untold
  <2> QED  BY <2>1, <2>2
<1>4. TypeOK'
  BY <1>0, <1>1, <1>2, <1>3 DEF TypeOK
<1>5. Awaited'
  <2>1. \A m \in DOMAIN calls :
          calls'[m].client \notin {"shown", "over"} =>
            calls[m].client \notin {"shown", "over"}
    BY <1>2
  <2> QED  BY <1>0, <1>2, <2>1 DEF Awaited, IsCreate
<1>6. BoxesGiven'
  <2>1. op = "upload_model" \/ Boxed("upload_model", modelBox)'
    BY <1>0, <1>1, <1>2 DEF BoxesGiven, Boxed, Gave
  <2>2. op = "upload_ad" \/ Boxed("upload_ad", adBox)'
    BY <1>0, <1>1, <1>2 DEF BoxesGiven, Boxed, Gave
  <2> QED  BY <1>1, <1>3, <2>1, <2>2 DEF BoxesGiven, Boxed, Gave
<1>7. KeyGiven'
  BY <1>0, <1>2 DEF KeyGiven, IsCreate, Gave
<1> QED  BY <1>2, <1>4, <1>5, <1>6, <1>7 DEF IInv

\* create_subs is over: the call is the last click on Create, since the window
\* waited for it.
LEMMA ShowKeyKeeps ==
  ASSUME IInv, NEW n, ShowKey(n)
  PROVE  IInv'
<1>0. /\ TypeOK /\ Awaited /\ BoxesGiven /\ KeyGiven
      /\ Returned(n, "create_subs") /\ Finish(n) /\ blocked' = 0
      /\ UNCHANGED <<catalogue, open, modelBox, adBox>>
  BY DEF IInv, ShowKey
<1>1. \/ Given(n) /\ keyBox' = calls[n].result /\ shown' = TRUE
      \/ ~ Given(n) /\ keyBox' = keyBox /\ shown' = shown
  BY DEF ShowKey
<1>2. /\ Store!TypeOK' /\ n \in DOMAIN calls /\ calls[n].op = "create_subs"
      /\ Given(n) => InCatalogue(calls[n]) /\ Shows(n, "create_subs")
      /\ calls' \in Seq(Call) /\ Len(calls') = Len(calls)
      /\ DOMAIN calls' = DOMAIN calls
      /\ calls'[n].client \in {"shown", "over"}
      /\ \A m \in DOMAIN calls : m # n => calls'[m] = calls[m]
      /\ \A m \in DOMAIN calls : IsCreate(m)' <=> IsCreate(m)
      /\ \A m \in DOMAIN calls : \A o, i : Gave(m, o, i) => Gave(m, o, i)'
      /\ CallsTrue'
  BY <1>0, Finished
<1>3. IsCreate(n) /\ blocked = n /\ \A k \in DOMAIN calls : IsCreate(k) => k <= n
  <2>1. calls[n].client \notin {"shown", "over"} /\ IsCreate(n)
    BY <1>0, <1>2 DEF Returned, IsCreate
  <2>2. blocked = n
    BY <1>0, <1>2, <2>1 DEF Awaited
  <2>3. n # 0
    <3>1. calls \in Seq(Call)
      BY <1>0 DEF TypeOK
    <3> QED  BY <1>2, <3>1, LenProperties
  <2> QED  BY <1>0, <2>1, <2>2, <2>3 DEF Awaited
<1>4. TypeOK'
  <2>1. keyBox' \in Hashes \union {NoKey} /\ shown' \in BOOLEAN
    <3>1. DOMAIN keys \subseteq Hashes
      BY <1>0 DEF TypeOK, Store!TypeOK
    <3>2. Given(n) => calls[n].result \in Hashes
      BY <1>2, <3>1 DEF InCatalogue
    <3> QED  BY <1>0, <1>1, <3>2 DEF TypeOK
  <2>2. blocked' \in 0..Len(calls')
    <3>1. Len(calls') \in Nat
      BY <1>2, LenProperties
    <3> QED  BY <1>0, <3>1
  <2> QED  BY <1>0, <1>2, <2>1, <2>2 DEF TypeOK
<1>5. Awaited'
  <2>1. \A m \in DOMAIN calls' :
          IsCreate(m)' => calls'[m].client \in {"shown", "over"}
    <3> SUFFICES ASSUME NEW m \in DOMAIN calls', IsCreate(m)', m # n
                 PROVE  calls'[m].client \in {"shown", "over"}
      BY <1>2
    <3>1. calls'[m] = calls[m] /\ IsCreate(m)
      BY <1>2
    <3> QED  BY <1>0, <1>2, <1>3, <3>1 DEF Awaited
  <2> QED  BY <1>0, <2>1 DEF Awaited, IsCreate
<1>6. BoxesGiven'
  <2>1. Boxed("upload_model", modelBox)'
    BY <1>0, <1>2 DEF BoxesGiven, Boxed, Gave
  <2>2. Boxed("upload_ad", adBox)'
    BY <1>0, <1>2 DEF BoxesGiven, Boxed, Gave
  <2> QED  BY <2>1, <2>2 DEF BoxesGiven
<1>7. KeyGiven'
  <2>1. CASE Given(n)
    <3>1. PICK id : id = calls[n].result
      OBVIOUS
    <3>2. Gave(n, "create_subs", id)' /\ keyBox' = id
      BY <1>1, <1>2, <2>1, <3>1 DEF Shows
    <3>3. IsCreate(n)' /\ \A k \in DOMAIN calls' : IsCreate(k)' => k <= n
      BY <1>2, <1>3
    <3> QED  BY <1>2, <3>2, <3>3 DEF KeyGiven, IsCreate, Gave
  <2>2. CASE ~ Given(n)
    <3>0. keyBox' = keyBox /\ shown' = shown
      BY <1>1, <2>2
    <3> SUFFICES ASSUME shown  PROVE  KeyGiven'
      BY <3>0 DEF KeyGiven
    <3>1. PICK m \in DOMAIN calls :
            /\ IsCreate(m) /\ \A k \in DOMAIN calls : IsCreate(k) => k <= m
            /\ Gave(m, "create_subs", keyBox)
      BY <1>0 DEF KeyGiven
    <3>2. PICK id : id = keyBox
      OBVIOUS
    <3>3. Gave(m, "create_subs", id)'
      BY <1>2, <3>1, <3>2
    <3>4. IsCreate(m)' /\ \A k \in DOMAIN calls' : IsCreate(k)' => k <= m
      BY <1>2, <3>1
    <3> QED  BY <1>2, <3>0, <3>2, <3>3, <3>4 DEF KeyGiven, IsCreate, Gave
  <2> QED  BY <2>1, <2>2
<1> QED  BY <1>2, <1>4, <1>5, <1>6, <1>7 DEF IInv

-----------------------------------------------------------------------------
(* The theorems *)

LEMMA InitFits == Init => IInv
<1> SUFFICES ASSUME Init  PROVE  IInv
  OBVIOUS
<1>1. /\ calls = <<>> /\ blocked = 0 /\ modelBox = Empty /\ adBox = Empty
      /\ keyBox = NoKey /\ shown = FALSE /\ open = FALSE /\ Store!Init
  BY DEF Init
<1>2. Store!TypeOK
  <2>1. /\ shelf = <<>> /\ banners = <<>> /\ keys = [h \in {} |-> <<>>]
    BY <1>1 DEF Store!Init
  <2>2. shelf \in Seq(Data) /\ banners \in Seq(Store!Banner)
    BY <2>1, EmptySeq
  <2>3. DOMAIN keys = {}
    BY <2>1
  <2> QED  BY <2>2, <2>3 DEF Store!TypeOK, Store!Banner
<1>3. calls \in Seq(Call) /\ Len(calls) = 0 /\ DOMAIN calls = {}
  BY <1>1, EmptySeq
<1>4. TypeOK
  <2>1. Empty \in Ids /\ blocked \in 0..Len(calls)
    BY <1>1, <1>3 DEF Ids, Empty
  <2> QED  BY <1>1, <1>2, <1>3, <2>1 DEF TypeOK
<1>5. CallsTrue /\ Awaited /\ KeyGiven
  BY <1>1, <1>3 DEF CallsTrue, Awaited, KeyGiven
<1>6. BoxesGiven
  BY <1>1 DEF BoxesGiven, Boxed, Untold
<1> QED  BY <1>4, <1>5, <1>6 DEF IInv

LEMMA StepKeeps == IInv /\ [Next]_vars => IInv'
<1> SUFFICES ASSUME IInv, [Next]_vars  PROVE  IInv'
  OBVIOUS
<1>1. CASE Open \/ TypeId \/ Elsewhere \/ UNCHANGED vars
  BY <1>1, QuietKeeps
<1>2. CASE Close
  BY <1>2, CloseKeeps
<1>3. CASE ClickUpload \/ ClickCreate
  BY <1>3, ClickKeeps
<1>4. ASSUME NEW n \in 1..MaxCalls, Service(n)
      PROVE  IInv'
  BY <1>4, ServiceKeeps
<1>5. ASSUME NEW n \in 1..MaxCalls, Client(n)
      PROVE  IInv'
  <2>1. CASE Return(n)
    BY <2>1, ReturnKeeps
  <2>2. CASE MyModelCallback(n) \/ MyAdCallback(n)
    BY <2>2, CallbackKeeps
  <2>3. CASE ShowKey(n)
    BY <2>3, ShowKeyKeeps
  <2> QED  BY <1>5, <2>1, <2>2, <2>3 DEF Client
<1> QED  BY <1>1, <1>2, <1>3, <1>4, <1>5 DEF Next

\* What the tool has been told of each call is in the catalogue, what its boxes
\* hold was typed or told, and a blocked window waits for the last create_subs.
THEOREM ToolInductive == Spec => []IInv
BY InitFits, StepKeeps, PTL DEF Spec

\* Every variable of the upload tool has its type.
THEOREM ToolTypes == Spec => []TypeOK
<1>1. IInv => TypeOK
  BY DEF IInv
<1> QED  BY <1>1, ToolInductive, PTL

\* An id in IDC_EDIT_MODEL_ID or IDC_EDIT_AD_ID that nobody typed is that of what
\* a call of this tool uploaded, in whatever order MyModelCallback and
\* MyAdCallback run and whatever other clients publish.
THEOREM BoxesAlwaysTrue == Spec => []BoxesTrue
<1>1. ASSUME IInv  PROVE  BoxesTrue
  <2>1. BoxesGiven /\ CallsTrue
    BY <1>1 DEF IInv
  <2>2. ASSUME NEW n \in DOMAIN calls, NEW op, NEW id, Gave(n, op, id)
        PROVE  InCatalogue(calls[n])
    BY <2>1, <2>2 DEF Gave, CallsTrue, Answered
  <2>3. \A n \in DOMAIN calls : Gave(n, "upload_model", modelBox) =>
          shelf[modelBox] = calls[n].data
    BY <2>2 DEF Gave, InCatalogue
  <2>4. \A n \in DOMAIN calls : Gave(n, "upload_ad", adBox) =>
          /\ banners[adBox].data = calls[n].data
          /\ banners[adBox].owner = calls[n].owner
    BY <2>2 DEF Gave, InCatalogue
  <2> QED  BY <2>1, <2>3, <2>4 DEF BoxesGiven, Boxed, BoxesTrue
<1> QED  BY <1>1, ToolInductive, PTL

\* The key OnBnClickedBtnCreateSubs leaves on display is that of its last call
\* and denotes what that call asked for: after one that failed none is shown.
THEOREM KeyShownAlwaysLast == Spec => []KeyShownIsLast
<1>1. ASSUME IInv  PROVE  KeyShownIsLast
  <2>1. KeyGiven /\ CallsTrue
    BY <1>1 DEF IInv
  <2> SUFFICES ASSUME shown
               PROVE  \E n \in {k \in DOMAIN calls : IsCreate(k)} :
                        /\ \A k \in DOMAIN calls : IsCreate(k) => k <= n
                        /\ Gave(n, "create_subs", keyBox)
                        /\ keys[keyBox] = Asked(n)
    BY DEF KeyShownIsLast, IsCreate
  <2>2. PICK n \in DOMAIN calls :
          /\ IsCreate(n) /\ \A k \in DOMAIN calls : IsCreate(k) => k <= n
          /\ Gave(n, "create_subs", keyBox)
    BY <2>1 DEF KeyGiven
  <2>3. InCatalogue(calls[n])
    BY <2>1, <2>2 DEF Gave, CallsTrue, Answered
  <2>4. keys[keyBox] = Asked(n)
    BY <2>2, <2>3 DEF Gave, InCatalogue, Asked
  <2> QED  BY <2>2, <2>4
<1> QED  BY <1>1, ToolInductive, PTL
=============================================================================
