---------------------------- MODULE PublishStore ----------------------------
(***************************************************************************)
(* What the publish service promises, without handlers, tables or files:   *)
(* a catalogue of models, advertisements and subscriptions in which every  *)
(* publication is one atomic step, nothing published is ever altered or    *)
(* withdrawn, and a subscription key denotes a published model and a       *)
(* published advertisement.  PublishServer implements it.                  *)
(***************************************************************************)
EXTENDS Naturals, Sequences

CONSTANTS Data,     \* the contents a client can upload
          Owners,   \* the rows of tbl_owner_desc
          Hashes    \* the values a subscription's HashId can take

VARIABLES shelf,    \* content of every published model, by model id
          banners,  \* [data, url, owner] of every advertisement, by ad id
          keys      \* subscription key -> [owner, model, ad]

vars == <<shelf, banners, keys>>

Banner == [data : Data, url : Data, owner : Owners]

Init ==
  /\ shelf = <<>>
  /\ banners = <<>>
  /\ keys = [h \in {} |-> {}]

PublishModel ==
  /\ \E d \in Data : shelf' = Append(shelf, d)
  /\ UNCHANGED <<banners, keys>>

\* The image and the target address of an advertisement arrive in one upload.
PublishAd ==
  /\ \E d \in Data, o \in Owners :
       banners' = Append(banners, [data |-> d, url |-> d, owner |-> o])
  /\ UNCHANGED <<shelf, keys>>

Subscribe ==
  /\ \E h \in Hashes, o \in Owners, m \in DOMAIN shelf, a \in DOMAIN banners :
       /\ h \notin DOMAIN keys
       /\ keys' = [k \in DOMAIN keys \union {h} |->
                     IF k = h THEN [owner |-> o, model |-> m, ad |-> a]
                              ELSE keys[k]]
  /\ UNCHANGED <<shelf, banners>>

Next == PublishModel \/ PublishAd \/ Subscribe

Spec == Init /\ [][Next]_vars

-----------------------------------------------------------------------------
\* The catalogue has its type: models, advertisements and keys are total.
TypeOK ==
  /\ shelf \in Seq(Data)
  /\ banners \in Seq(Banner)
  /\ DOMAIN keys \subseteq Hashes
  /\ \A h \in DOMAIN keys :
       keys[h] \in [owner : Owners, model : DOMAIN shelf, ad : DOMAIN banners]
=============================================================================
