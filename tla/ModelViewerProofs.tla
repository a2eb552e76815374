-------------------------- MODULE ModelViewerProofs ---------------------------
(***************************************************************************)
(* Theorems about the viewer and its cache: for any number of viewers, of  *)
(* subscriptions, of launches and of clicks, and then for one viewer at a  *)
(* time.                                                                   *)
(***************************************************************************)
EXTENDS ModelViewer, SequenceTheorems, WellFoundedInduction, TLAPS

\* A viewer that does not run has nothing under way, and before it has opened
\* cache.dat it has no copy of it.
Resting(v) ==
  /\ phase[v] # "running" =>
       /\ slotM[v] = NoData /\ slotA[v] = NoData
       /\ queue[v] = <<>>
       /\ modelThread[v] = "off" /\ adThread[v] = "off"
       /\ adUrl[v] = NoUrl /\ newUrl[v] = NoUrl
       /\ busy[v] = "no"
  /\ phase[v] \notin {"load", "running"} => mem[v] = <<>>
  /\ handle[v] = "exclusive" => phase[v] = "close"
  /\ handle[v] = "shared" => phase[v] \in {"load", "running"}

\* The slots are filled with what the server or the cache has of the one
\* subscription of the process.
Slots(v) == slotM[v] \in {subsid[v], NoData} /\ slotA[v] \in {subsid[v], NoData}

\* What a call of the cache that is under way goes on to write.
Writing(v) ==
  /\ busy[v] = "append" =>
       /\ mem[v] # <<>> /\ mem[v][Len(mem[v])].subs = subsid[v]
       /\ handle[v] = "shared"
       /\ at[v] # None
  /\ busy[v] = "write_ad" =>
       /\ adLock[v] \in DOMAIN bundles
       /\ bundles[adLock[v]].model = subsid[v]
       /\ Holds(v, subsid[v])

IInv == /\ TypeOK /\ EntriesWhole
        /\ \A v \in Viewers : Resting(v) /\ Slots(v) /\ Writing(v)

\* The image of the advertisement that came with a url.
ImageOf(url) == IF url = NoUrl THEN NoData ELSE url

IsAd(v, i) == queue[v][i].kind = "ad"
AdPosted(v) == \E i \in DOMAIN queue[v] : IsAd(v, i)

\* How far the advertisement that AdThread asks for has come.
AdAsked(v) == /\ ~ AdPosted(v) /\ busy[v] \notin {"write_ad", "free_ad"}
              /\ newUrl[v] = NoUrl
AdReceived(v) == /\ ~ AdPosted(v) /\ busy[v] \notin {"write_ad", "free_ad"}
                 /\ adUrl[v] = TornUrl /\ slotA[v] = ImageOf(newUrl[v])
AdWaiting(v) == /\ AdPosted(v) /\ busy[v] \notin {"write_ad", "free_ad"}
                /\ \A i, j \in DOMAIN queue[v] :
                     IsAd(v, i) /\ IsAd(v, j) => i = j
                /\ adUrl[v] = newUrl[v] /\ slotA[v] = ImageOf(newUrl[v])
AdShown(v) == /\ ~ AdPosted(v)
              /\ adUrl[v] = newUrl[v] /\ clickable[v] = ImageOf(newUrl[v])

AdArrives(v) ==
  modelThread[v] # "off" =>
    \/ adThread[v] = "asking" /\ AdAsked(v)
    \/ adThread[v] = "assigning" /\ AdReceived(v)
    \/ adThread[v] = "done" /\ (AdWaiting(v) \/ AdShown(v))

AdsArrive == clicks = 0 => \A v \in Viewers : AdArrives(v)

-----------------------------------------------------------------------------
(* One viewer at a time *)

Alone == \A v, w \in Viewers : v = w

\* The copy has each subscription of the table, and the entry to be written is
\* not in the table yet and goes behind it.
Covered(v) ==
  /\ handle[v] = "shared" =>
       \A i \in DOMAIN table : \E j \in DOMAIN mem[v] :
         mem[v][j].subs = table[i].subs
  /\ busy[v] = "append" =>
       /\ at[v] = Len(table) + 1
       /\ \A i \in DOMAIN table : table[i].subs # subsid[v]

TableInv == OneEntryEach /\ \A v \in Viewers : Covered(v)

\* Initialize ends with the table open.
Opened(v) ==
  /\ phase[v] \in {"off", "probe", "create", "reopen"} => handle[v] = "none"
  /\ phase[v] \in {"close", "reopen", "load", "running"} => dat
  /\ phase[v] \in {"load", "running"} => handle[v] = "shared"

\* While it is open, the copy has what the table has.
Agree(v) ==
  phase[v] \in {"load", "running"} =>
    /\ Len(mem[v]) = Len(table) + Beyond(v)
    /\ \A i \in DOMAIN table : /\ mem[v][i].subs = table[i].subs
                              /\ mem[v][i].file = table[i].file

CopyInv == \A v \in Viewers : Opened(v) /\ Agree(v)
-----------------------------------------------------------------------------
(* Sequences and entries *)

\* A set of natural numbers has a least one, so the first entry is there.
LEMMA Least ==
  ASSUME NEW T, T \subseteq Nat, T # {}
  PROVE  \E x \in T : \A y \in T : x <= y
<1> DEFINE R == {p \in Nat \X Nat : p[1] < p[2]}
<1>1. IsWellFoundedOn(R, Nat)
  BY NatLessThanWellFounded DEF OpToRel
<1>2. \A x, y \in Nat : y < x => <<y, x>> \in R
  OBVIOUS
<1> HIDE DEF R
<1>3. PICK x \in T : \A y \in T : ~ (<<y, x>> \in R)
  BY <1>1, WFMin
<1>4. ASSUME NEW y \in T  PROVE  x <= y
  <2>1. x \in Nat /\ y \in Nat /\ ~ (y < x)
    BY <1>2, <1>3
  <2> QED  BY <2>1
<1> QED  BY <1>4

\* Append, Head and Tail, for the queues, the copies and the bundles.
LEMMA Appended ==
  ASSUME NEW S, NEW s \in Seq(S), NEW e \in S
  PROVE  /\ Append(s, e) \in Seq(S)
         /\ Len(s) \in Nat /\ DOMAIN s = 1..Len(s)
         /\ Len(Append(s, e)) = Len(s) + 1
         /\ DOMAIN Append(s, e) = DOMAIN s \union {Len(s) + 1}
         /\ Append(s, e)[Len(s) + 1] = e
         /\ \A i \in DOMAIN s : i # Len(s) + 1 /\ Append(s, e)[i] = s[i]
<1>1. Append(s, e) \in Seq(S) /\ Len(Append(s, e)) = Len(s) + 1
  OBVIOUS
<1>2. /\ Len(s) \in Nat /\ DOMAIN s = 1..Len(s)
      /\ DOMAIN Append(s, e) = 1..(Len(s) + 1)
  BY <1>1, LenProperties
<1>3. 1..(Len(s) + 1) = (1..Len(s)) \union {Len(s) + 1}
  BY <1>2
<1>4. /\ Append(s, e)[Len(s) + 1] = e
      /\ \A i \in 1..Len(s) : i # Len(s) + 1 /\ Append(s, e)[i] = s[i]
  BY <1>2
<1> QED  BY <1>1, <1>2, <1>3, <1>4

LEMMA Taken ==
  ASSUME NEW S, NEW s \in Seq(S), s # <<>>
  PROVE  /\ Tail(s) \in Seq(S) /\ Head(s) \in S
         /\ 1 \in DOMAIN s /\ Head(s) = s[1]
         /\ \A i \in DOMAIN Tail(s) : i + 1 \in DOMAIN s /\ Tail(s)[i] = s[i + 1]
         /\ \A i \in DOMAIN s : i # 1 =>
              i - 1 \in DOMAIN Tail(s) /\ Tail(s)[i - 1] = s[i]
         /\ DOMAIN s \subseteq Nat /\ DOMAIN Tail(s) \subseteq Nat
<1>1. /\ Tail(s) \in Seq(S) /\ Head(s) \in S
      /\ Len(Tail(s)) = Len(s) - 1
      /\ \A i \in 1..Len(Tail(s)) : Tail(s)[i] = s[i + 1]
  BY HeadTailProperties
<1>2. /\ Len(s) \in Nat \ {0} /\ DOMAIN s = 1..Len(s)
      /\ DOMAIN Tail(s) = 1..(Len(s) - 1)
  BY <1>1, LenProperties, EmptySeq
<1>3. Head(s) = s[1]
  OBVIOUS
<1> QED  BY <1>1, <1>2, <1>3

LEMMA EntryFound ==
  ASSUME TypeOK, NEW v \in Viewers, NEW s, Holds(v, s)
  PROVE  /\ EntryOf(v, s) \in DOMAIN mem[v]
         /\ mem[v][EntryOf(v, s)].subs = s
         /\ mem[v][EntryOf(v, s)] \in Entry
<1> DEFINE T == {i \in DOMAIN mem[v] : mem[v][i].subs = s}
<1>1. mem[v] \in Seq(Entry)
  BY DEF TypeOK
<1>2. DOMAIN mem[v] \subseteq Nat /\ \A i \in DOMAIN mem[v] : mem[v][i] \in Entry
  BY <1>1, LenProperties, ElementOfSeq
<1>3. DOMAIN mem[v] = 1..Len(mem[v]) /\ Len(mem[v]) \in Nat
  BY <1>1, LenProperties
<1>4. PICK x \in T : \A y \in T : x <= y
  BY <1>2, Least DEF Holds
<1>5. \A j \in 1..(x - 1) : mem[v][j].subs # s
  BY <1>3, <1>4
<1>6. \E i \in DOMAIN mem[v] : /\ mem[v][i].subs = s
                               /\ \A j \in 1..(i - 1) : mem[v][j].subs # s
  BY <1>4, <1>5
<1>7. EntryOf(v, s) \in DOMAIN mem[v] /\ mem[v][EntryOf(v, s)].subs = s
  BY <1>6 DEF EntryOf
<1> QED  BY <1>2, <1>7

-----------------------------------------------------------------------------
(* What the calls of the cache change *)

\* The files of a bundle stay: only its advertisement is ever written again.
BundlesStay ==
  \A f \in DOMAIN bundles : /\ f \in DOMAIN bundles'
                            /\ bundles'[f].model = bundles[f].model

LEMMA Sequences ==
  ASSUME TypeOK, NEW v \in Viewers
  PROVE  /\ DOMAIN bundles = 1..Len(bundles) /\ Len(bundles) \in Nat
         /\ \A f \in DOMAIN bundles : bundles[f] \in Bundle
         /\ DOMAIN table = 1..Len(table) /\ Len(table) \in Nat
         /\ \A i \in DOMAIN table : table[i] \in Entry
         /\ DOMAIN mem[v] = 1..Len(mem[v]) /\ Len(mem[v]) \in Nat
         /\ mem[v] # <<>> => Len(mem[v]) \in DOMAIN mem[v]
         /\ \A i \in DOMAIN mem[v] : mem[v][i] \in Entry
<1>1. bundles \in Seq(Bundle) /\ table \in Seq(Entry) /\ mem[v] \in Seq(Entry)
  BY DEF TypeOK
<1>2. mem[v] # <<>> => Len(mem[v]) # 0
  BY <1>1, EmptySeq
<1> QED  BY <1>1, <1>2, LenProperties, ElementOfSeq

LEMMA PushChanges ==
  ASSUME TypeOK, NEW v \in Viewers, Slots(v), ModelToCache(v)
  PROVE  /\ bundles' \in Seq(Bundle) /\ BundlesStay
         /\ \A f \in DOMAIN bundles : bundles'[f] = bundles[f]
         /\ Len(bundles) + 1 \in DOMAIN bundles'
         /\ bundles'[Len(bundles) + 1] = [model |-> subsid[v], ad |-> NoData]
         /\ mem'[v] \in Seq(Entry) /\ mem' \in [Viewers -> Seq(Entry)]
         /\ Len(mem'[v]) = Len(mem[v]) + 1 /\ mem'[v] # <<>>
         /\ DOMAIN mem'[v] = DOMAIN mem[v] \union {Len(mem[v]) + 1}
         /\ mem'[v][Len(mem[v]) + 1] =
              [subs |-> subsid[v], file |-> Len(bundles) + 1, url |-> adUrl[v]]
         /\ \A i \in DOMAIN mem[v] : mem'[v][i] = mem[v][i]
         /\ \A w \in Viewers : w # v => mem'[w] = mem[w]
         /\ at' \in [Viewers -> Nat] /\ at'[v] = Len(table) + 1 /\ at'[v] # None
         /\ dat' = dat /\ table' = table /\ handle' = handle /\ adLock' = adLock
<1> DEFINE new == [model |-> subsid[v], ad |-> NoData]
           e == [subs |-> subsid[v], file |-> Len(bundles) + 1, url |-> adUrl[v]]
<1>0. /\ subsid[v] \in Subsids /\ slotM[v] = subsid[v] /\ adUrl[v] \in Urls
      /\ PushEntry(v, subsid[v], slotM[v], adUrl[v])
  BY DEF TypeOK, Slots, ModelToCache
<1>1. new \in Bundle /\ e \in Entry
  BY <1>0, Sequences DEF Bundle, Contents, Entry
<1>2. /\ bundles' = Append(bundles, new)
      /\ mem' = [mem EXCEPT ![v] = Append(mem[v], e)]
  BY <1>0 DEF PushEntry, SavedModel
<1> HIDE DEF new, e
<1>4. /\ bundles' \in Seq(Bundle) /\ BundlesStay
      /\ \A f \in DOMAIN bundles : bundles'[f] = bundles[f]
      /\ Len(bundles) + 1 \in DOMAIN bundles'
      /\ bundles'[Len(bundles) + 1] = new
  <2>1. bundles \in Seq(Bundle)
    BY DEF TypeOK
  <2> QED  BY <1>1, <1>2, <2>1, Appended DEF BundlesStay
<1>5. /\ mem'[v] = Append(mem[v], e)
      /\ mem \in [Viewers -> Seq(Entry)] /\ mem[v] \in Seq(Entry)
      /\ \A w \in Viewers : w # v => mem'[w] = mem[w]
  BY <1>2 DEF TypeOK
<1>6. /\ mem'[v] \in Seq(Entry)
      /\ Len(mem'[v]) = Len(mem[v]) + 1
      /\ DOMAIN mem'[v] = DOMAIN mem[v] \union {Len(mem[v]) + 1}
      /\ mem'[v][Len(mem[v]) + 1] = e
      /\ \A i \in DOMAIN mem[v] : mem'[v][i] = mem[v][i]
  BY <1>1, <1>5, Appended
<1>7. mem'[v] # <<>> /\ mem' \in [Viewers -> Seq(Entry)]
  <2>1. DOMAIN mem'[v] # {}
    BY <1>6
  <2> QED  BY <1>2, <1>5, <1>6, <2>1
<1>8. at' \in [Viewers -> Nat] /\ at'[v] = Len(table) + 1 /\ at'[v] # None
  BY <1>0, Sequences DEF PushEntry, SeekEnd, TypeOK, None
<1>9. dat' = dat /\ table' = table /\ handle' = handle /\ adLock' = adLock
  BY <1>0 DEF PushEntry
<1> QED  BY <1>4, <1>5, <1>6, <1>7, <1>8, <1>9 DEF new, e

\* The last entry of the copy gets a place of the table, which keeps the others.
LEMMA WriteChanges ==
  ASSUME TypeOK, NEW v \in Viewers, mem[v] # <<>>, WriteEntry(v)
  PROVE  /\ table' \in Seq(Entry) /\ Len(table') >= Len(table)
         /\ \A i \in DOMAIN table : i \in DOMAIN table'
         /\ \A i \in DOMAIN table' :
              \/ table'[i] = mem[v][Len(mem[v])]
              \/ i \in DOMAIN table /\ table'[i] = table[i]
         /\ at' = [at EXCEPT ![v] = None] /\ at' \in [Viewers -> Nat]
         /\ dat' = dat /\ bundles' = bundles /\ handle' = handle
         /\ mem' = mem /\ adLock' = adLock
<1> DEFINE e == mem[v][Len(mem[v])]
<1>1. e \in Entry /\ table \in Seq(Entry) /\ Len(table) \in Nat
      /\ DOMAIN table = 1..Len(table)
  BY Sequences DEF TypeOK
<1>2. \/ at[v] \in DOMAIN table /\ table' = [table EXCEPT ![at[v]] = e]
      \/ table' = Append(table, e)
      \/ table' = table
  BY DEF WriteEntry
<1>3. /\ at' = [at EXCEPT ![v] = None] /\ at' \in [Viewers -> Nat]
      /\ dat' = dat /\ bundles' = bundles /\ handle' = handle
      /\ mem' = mem /\ adLock' = adLock
  BY DEF WriteEntry, TypeOK, None
<1> HIDE DEF e
<1>4. CASE at[v] \in DOMAIN table /\ table' = [table EXCEPT ![at[v]] = e]
  <2>1. /\ table' \in Seq(Entry) /\ Len(table') = Len(table)
        /\ \A j \in 1..Len(table) : table'[j] = IF j = at[v] THEN e ELSE table[j]
    BY <1>1, <1>4, ExceptSeq
  <2>2. DOMAIN table' = 1..Len(table)
    BY <1>1, <2>1, LenProperties
  <2> QED  BY <1>1, <1>3, <2>1, <2>2 DEF e
<1>5. CASE table' = Append(table, e)
  <2>1. /\ table' \in Seq(Entry) /\ Len(table') = Len(table) + 1
        /\ DOMAIN table' = DOMAIN table \union {Len(table) + 1}
        /\ table'[Len(table) + 1] = e
        /\ \A i \in DOMAIN table : table'[i] = table[i]
    BY <1>1, <1>5, Appended
  <2> QED  BY <1>1, <1>3, <2>1 DEF e
<1>6. CASE table' = table
  BY <1>1, <1>3, <1>6
<1> QED  BY <1>2, <1>4, <1>5, <1>6

\* One bundle gets an advertisement, one entry of the copy a url, or neither.
LEMMA AdChanges ==
  ASSUME TypeOK, NEW v \in Viewers, NEW s, Holds(v, s), NEW data \in Contents,
         NEW url \in Urls, adLock[v] \in DOMAIN bundles, WriteAd(v, s, data, url)
  PROVE  /\ bundles' \in Seq(Bundle) /\ BundlesStay
         /\ DOMAIN bundles' = DOMAIN bundles
         /\ \A f \in DOMAIN bundles : \/ bundles'[f].ad = bundles[f].ad
                                      \/ f = adLock[v] /\ bundles'[f].ad = data
         /\ mem' \in [Viewers -> Seq(Entry)]
         /\ DOMAIN mem'[v] = DOMAIN mem[v] /\ Len(mem'[v]) = Len(mem[v])
         /\ \A i \in DOMAIN mem[v] :
              /\ mem'[v][i].subs = mem[v][i].subs
              /\ mem'[v][i].file = mem[v][i].file
              /\ \/ mem'[v][i].url = mem[v][i].url
                 \/ mem[v][i].subs = s /\ mem'[v][i].url = url
         /\ \A w \in Viewers : w # v => mem'[w] = mem[w]
         /\ adLock' = [adLock EXCEPT ![v] = None] /\ adLock' \in [Viewers -> Nat]
         /\ dat' = dat /\ table' = table /\ handle' = handle /\ at' = at
<1>1. /\ adLock' = [adLock EXCEPT ![v] = None] /\ adLock' \in [Viewers -> Nat]
      /\ dat' = dat /\ table' = table /\ handle' = handle /\ at' = at
  BY DEF WriteAd, TypeOK, None
<1>2. CASE UNCHANGED <<bundles, mem>>
  BY <1>1, <1>2 DEF TypeOK, BundlesStay
<1>3. CASE /\ bundles' = [bundles EXCEPT ![adLock[v]].ad = data]
           /\ mem' = [mem EXCEPT ![v][EntryOf(v, s)].url = url]
  <2> DEFINE k == EntryOf(v, s)
             l == adLock[v]
             b == [bundles[l] EXCEPT !.ad = data]
             e == [mem[v][k] EXCEPT !.url = url]
  <2>1. k \in DOMAIN mem[v] /\ mem[v][k].subs = s /\ mem[v][k] \in Entry
    BY EntryFound
  <2>2. bundles \in Seq(Bundle) /\ mem \in [Viewers -> Seq(Entry)]
    BY DEF TypeOK
  <2>3. b \in Bundle /\ b.model = bundles[l].model /\ b.ad = data
    BY Sequences DEF Bundle
  <2>4. /\ e \in Entry /\ e.subs = mem[v][k].subs /\ e.file = mem[v][k].file
        /\ e.url = url
    BY <2>1 DEF Entry
  <2>5. bundles' = [bundles EXCEPT ![l] = b]
    BY <1>3
  <2>6. /\ mem'[v] = [mem[v] EXCEPT ![k] = e]
        /\ mem' = [mem EXCEPT ![v] = mem'[v]]
        /\ \A w \in Viewers : w # v => mem'[w] = mem[w]
    BY <1>3, <2>2
  <2>7. /\ l \in 1..Len(bundles) /\ DOMAIN bundles = 1..Len(bundles)
        /\ k \in 1..Len(mem[v]) /\ DOMAIN mem[v] = 1..Len(mem[v])
        /\ mem[v] \in Seq(Entry)
    BY <2>1, Sequences DEF TypeOK
  <2> HIDE DEF k, l, b, e
  <2>8. /\ bundles' \in Seq(Bundle) /\ DOMAIN bundles' = DOMAIN bundles
        /\ \A f \in DOMAIN bundles :
             bundles'[f] = IF f = l THEN b ELSE bundles[f]
    BY <2>2, <2>3, <2>5, <2>7, ExceptSeq
  <2>9. /\ mem'[v] \in Seq(Entry) /\ Len(mem'[v]) = Len(mem[v])
        /\ DOMAIN mem'[v] = DOMAIN mem[v]
        /\ \A i \in DOMAIN mem[v] : mem'[v][i] = IF i = k THEN e ELSE mem[v][i]
    BY <2>4, <2>6, <2>7, ExceptSeq
  <2>10. mem' \in [Viewers -> Seq(Entry)]
    BY <2>2, <2>6, <2>9
  <2>11. BundlesStay
    BY <2>3, <2>8 DEF BundlesStay
  <2>12. \A f \in DOMAIN bundles : \/ bundles'[f].ad = bundles[f].ad
                                   \/ f = adLock[v] /\ bundles'[f].ad = data
    BY <2>3, <2>8 DEF l
  <2>13. \A i \in DOMAIN mem[v] :
              /\ mem'[v][i].subs = mem[v][i].subs
              /\ mem'[v][i].file = mem[v][i].file
              /\ \/ mem'[v][i].url = mem[v][i].url
                 \/ mem[v][i].subs = s /\ mem'[v][i].url = url
    BY <2>1, <2>4, <2>9
  <2> QED  BY <1>1, <2>6, <2>8, <2>9, <2>10, <2>11, <2>12, <2>13
<1> QED  BY <1>2, <1>3 DEF WriteAd

-----------------------------------------------------------------------------
(* Each step keeps the invariant *)

Step(v) ==
  Start(v) \/ Answer(v) \/ WindowProc(v) \/ ClickHistory(v) \/ Leave(v)

\* A step of one viewer leaves what another one has alone.
Same(w) ==
  /\ phase'[w] = phase[w] /\ subsid'[w] = subsid[w]
  /\ handle'[w] = handle[w] /\ mem'[w] = mem[w]
  /\ at'[w] = at[w] /\ adLock'[w] = adLock[w]
  /\ slotM'[w] = slotM[w] /\ slotA'[w] = slotA[w] /\ queue'[w] = queue[w]
  /\ modelThread'[w] = modelThread[w] /\ adThread'[w] = adThread[w]
  /\ newUrl'[w] = newUrl[w] /\ adUrl'[w] = adUrl[w]
  /\ clickable'[w] = clickable[w] /\ busy'[w] = busy[w]

WindowSame(w) ==
  /\ phase'[w] = phase[w] /\ subsid'[w] = subsid[w]
  /\ slotM'[w] = slotM[w] /\ slotA'[w] = slotA[w] /\ queue'[w] = queue[w]
  /\ modelThread'[w] = modelThread[w] /\ adThread'[w] = adThread[w]
  /\ newUrl'[w] = newUrl[w] /\ adUrl'[w] = adUrl[w]
  /\ clickable'[w] = clickable[w] /\ busy'[w] = busy[w]
CacheSame(w) ==
  /\ handle'[w] = handle[w] /\ mem'[w] = mem[w]
  /\ at'[w] = at[w] /\ adLock'[w] = adLock[w]

LEMMA OneViewerActs ==
  ASSUME TypeOK, NEW v \in Viewers, Step(v), NEW w \in Viewers, w # v
  PROVE  Same(w)
<1> SUFFICES WindowSame(w) /\ CacheSame(w)
  BY DEF Same, WindowSame, CacheSame
<1>1. CASE Start(v)
  <2>1. CASE \E s \in Subsids : Launch(v, s)
    BY <2>1 DEF TypeOK, Launch, Enter, WindowSame, CacheSame, cacheVars, slots,
                threads
  <2>2. CASE Initialize(v)
    <3>1. WindowSame(w)
      BY <2>2 DEF TypeOK, Initialize, Enter, WindowSame, window, slots, threads
    <3>2. CacheSame(w)
      BY <2>2 DEF TypeOK, Initialize, OpenDat, CreateDat, CloseDat, CacheSame,
                  cacheVars
    <3> QED  BY <3>1, <3>2
  <2>3. CASE Load3DScanFromUrl(v)
    <3>1. CASE LoadFromCache(v)
      BY <2>3, <3>1 DEF TypeOK, Load3DScanFromUrl, LoadFromCache, Enter,
                        WindowSame, CacheSame, cacheVars
    <3>2. CASE LoadFromServer(v)
      BY <2>3, <3>2 DEF TypeOK, Load3DScanFromUrl, LoadFromServer, Enter,
                        WindowSame, CacheSame, cacheVars, slots
    <3> QED  BY <2>3, <3>1, <3>2 DEF Load3DScanFromUrl
  <2> QED  BY <1>1, <2>1, <2>2, <2>3 DEF Start
<1>2. CASE Answer(v)
  <2>1. CASE AnswerModel(v)
    BY <2>1 DEF TypeOK, AnswerModel, Post, WindowSame, CacheSame, cacheVars
  <2>2. CASE AnswerAd(v)
    BY <2>2 DEF TypeOK, AnswerAd, WindowSame, CacheSame, cacheVars
  <2>3. CASE PostAd(v)
    BY <2>3 DEF TypeOK, PostAd, Post, WindowSame, CacheSame, cacheVars, slots
  <2> QED  BY <1>2, <2>1, <2>2, <2>3 DEF Answer
<1>3. CASE WindowProc(v)
  <2>1. CASE ModelDownloaded(v)
    BY <2>1 DEF TypeOK, ModelDownloaded, ModelToCache, ModelNotToCache, Take,
                PushEntry, WindowSame, CacheSame, cacheVars, threads
  <2>2. CASE ModelAdded(v)
    BY <2>2 DEF TypeOK, ModelAdded, WriteEntry, WindowSame, CacheSame, threads
  <2>3. CASE AdDownloaded(v)
    BY <2>3 DEF TypeOK, AdDownloaded, AdToCache, AdNotToCache, Take, LockAd,
                WindowSame, CacheSame, cacheVars, slots, threads
  <2>4. CASE AdHandled(v)
    BY <2>4 DEF TypeOK, AdHandled, WriteAd, WindowSame, CacheSame, cacheVars,
                threads
  <2> QED  BY <1>3, <2>1, <2>2, <2>3, <2>4 DEF WindowProc
<1>4. CASE ClickHistory(v)
  BY <1>4 DEF TypeOK, ClickHistory, WindowSame, CacheSame, cacheVars, slots,
              threads
<1>5. CASE Leave(v)
  BY <1>5 DEF TypeOK, Leave, CleanUp, Enter, WindowSame, CacheSame
<1> QED  BY <1>1, <1>2, <1>3, <1>4, <1>5 DEF Step

LEMMA OthersKept ==
  ASSUME IInv, BundlesStay, NEW w \in Viewers, Same(w)
  PROVE  Resting(w)' /\ Slots(w)' /\ Writing(w)'
<1>1. Resting(w) /\ Slots(w) /\ Writing(w)
  BY DEF IInv
<1>2. Holds(w, subsid[w])' <=> Holds(w, subsid[w])
  BY DEF Same, Holds
<1>3. Resting(w)' /\ Slots(w)'
  BY <1>1 DEF Same, Resting, Slots
<1>4. Writing(w)'
  BY <1>1, <1>2 DEF Same, Writing, BundlesStay
<1> QED  BY <1>3, <1>4

WholeNext(e) == /\ e.file \in DOMAIN bundles'
                /\ bundles'[e.file].model = e.subs
                /\ bundles'[e.file].ad \in {e.subs, NoData}

LEMMA WholeAfter ==
  ASSUME \A i \in DOMAIN table' : WholeNext(table'[i]),
         \A v \in Viewers : \A i \in DOMAIN mem'[v] : WholeNext(mem'[v][i])
  PROVE  EntriesWhole'
BY DEF EntriesWhole, Whole, WholeNext

\* A step that leaves the cache alone leaves the entries whole.
LEMMA WholeKept ==
  ASSUME EntriesWhole, UNCHANGED cacheVars
  PROVE  EntriesWhole' /\ BundlesStay
<1>1. table' = table /\ bundles' = bundles /\ mem' = mem
  BY DEF cacheVars
<1> QED  BY <1>1 DEF EntriesWhole, Whole, BundlesStay

Fits(v) == Resting(v) /\ Slots(v) /\ Writing(v)
Keeps(v) == TypeOK' /\ EntriesWhole' /\ BundlesStay /\ Fits(v)'

LEMMA StartKeeps ==
  ASSUME IInv, NEW v \in Viewers, Start(v)
  PROVE  Keeps(v)
<1>0. TypeOK /\ EntriesWhole /\ Resting(v) /\ Slots(v) /\ Writing(v)
  BY DEF IInv
<1>1. CASE \E s \in Subsids : Launch(v, s)
  <2>1. TypeOK'
    BY <1>0, <1>1 DEF TypeOK, Launch, Enter, Phases, cacheVars, slots, threads
  <2>2. EntriesWhole' /\ BundlesStay
    BY <1>0, <1>1, WholeKept DEF Launch
  <2>3. Fits(v)'
    BY <1>0, <1>1 DEF TypeOK, Launch, Enter, Fits, Resting, Slots, Writing,
                      cacheVars, slots, threads
  <2> QED  BY <2>1, <2>2, <2>3 DEF Keeps
<1>2. CASE Initialize(v)
  <2>0. /\ UNCHANGED <<launches, clicks, window>> /\ bundles' = bundles
        /\ BundlesStay /\ at' = at /\ adLock' = adLock
    BY <1>2 DEF Initialize, OpenDat, CreateDat, CloseDat, cacheVars, BundlesStay
  <2>6. /\ clicks' = clicks /\ subsid' = subsid /\ slotM' = slotM
         /\ slotA' = slotA /\ queue' = queue /\ modelThread' = modelThread
         /\ adThread' = adThread /\ newUrl' = newUrl /\ adUrl' = adUrl
         /\ clickable' = clickable /\ downloading' = downloading
         /\ busy' = busy /\ launches' = launches
    BY <2>0 DEF window, slots, threads
  <2>1. phase[v] \in Phases \ {"off", "load", "running"} /\ busy[v] = "no"
    BY <1>0, <1>2 DEF Initialize, Resting, Phases
  <2>2. CASE OpenDat(v) /\ Enter(v, "load")
    <3>1. mem' = [mem EXCEPT ![v] = table] /\ table' = table
      BY <2>2 DEF OpenDat
    <3>2. TypeOK'
      BY <1>0, <2>0, <2>6, <2>2 DEF TypeOK, OpenDat, Enter, Phases
    <3>3. EntriesWhole'
      BY <1>0, <2>0, <3>1 DEF TypeOK, EntriesWhole, Whole
    <3>4. Fits(v)'
      BY <1>0, <2>0, <2>6, <2>1, <2>2
         DEF TypeOK, OpenDat, Enter, Fits, Resting, Slots, Writing
    <3> QED  BY <2>0, <3>2, <3>3, <3>4 DEF Keeps
  <2>3. CASE UNCHANGED cacheVars /\ \E p \in {"create", "load"} : Enter(v, p)
    <3>2. TypeOK'
      BY <1>0, <2>0, <2>6, <2>3 DEF TypeOK, Enter, Phases, cacheVars
    <3>3. EntriesWhole'
      BY <1>0, <2>3, WholeKept
    <3>4. Fits(v)'
      <4>1. handle[v] = "exclusive" => phase[v] = "close"
        BY <1>0 DEF Resting
      <4>2. UNCHANGED cacheVars => phase[v] # "close"
        <5>1. phase[v] = "close" => CloseDat(v) /\ Enter(v, "reopen")
          BY <1>2 DEF Initialize
        <5>2. ~ Enter(v, "reopen")
          BY <1>0, <2>3 DEF Enter, TypeOK
        <5> QED  BY <5>1, <5>2
      <4> QED  BY <1>0, <2>0, <2>6, <2>1, <2>3, <4>1, <4>2
           DEF TypeOK, Enter, Fits, Resting, Slots, Writing, cacheVars
    <3> QED  BY <2>0, <3>2, <3>3, <3>4 DEF Keeps
  <2>4. CASE /\ phase[v] = "create" /\ CreateDat(v) /\ Enter(v, "close")
    <3>1. mem' = mem /\ table' = table
      BY <2>4 DEF CreateDat, SavedTable
    <3>2. TypeOK'
      BY <1>0, <2>0, <2>6, <2>4, <3>1 DEF TypeOK, CreateDat, Enter, Phases
    <3>3. EntriesWhole'
      BY <1>0, <2>0, <3>1 DEF EntriesWhole, Whole
    <3>4. Fits(v)'
      BY <1>0, <2>0, <2>6, <2>1, <2>4, <3>1
         DEF TypeOK, CreateDat, Enter, Fits, Resting, Slots, Writing
    <3> QED  BY <2>0, <3>2, <3>3, <3>4 DEF Keeps
  <2>5. CASE CloseDat(v) /\ Enter(v, "reopen")
    <3>1. mem' = mem /\ table' = table /\ dat' = dat
      BY <2>5 DEF CloseDat
    <3>2. TypeOK'
      BY <1>0, <2>0, <2>6, <2>5, <3>1 DEF TypeOK, CloseDat, Enter, Phases
    <3>3. EntriesWhole'
      BY <1>0, <2>0, <3>1 DEF EntriesWhole, Whole
    <3>4. Fits(v)'
      BY <1>0, <2>0, <2>6, <2>1, <2>5, <3>1
         DEF TypeOK, CloseDat, Enter, Fits, Resting, Slots, Writing, Phases
    <3> QED  BY <2>0, <3>2, <3>3, <3>4 DEF Keeps
  <2> QED  BY <1>2, <2>2, <2>3, <2>4, <2>5 DEF Initialize
<1>3. CASE Load3DScanFromUrl(v)
  <2>1. /\ UNCHANGED cacheVars /\ launches' = launches /\ clicks' = clicks
        /\ subsid' = subsid /\ newUrl' = newUrl /\ adUrl' = adUrl
        /\ clickable' = clickable /\ busy' = busy
        /\ phase' = [phase EXCEPT ![v] = "running"] /\ phase[v] = "load"
    BY <1>3 DEF Load3DScanFromUrl, Enter
  <2>2. EntriesWhole' /\ BundlesStay
    BY <1>0, <2>1, WholeKept
  <2>3. CASE LoadFromCache(v)
    <3> DEFINE f == mem[v][EntryOf(v, subsid[v])].file
    <3>1. f \in DOMAIN bundles /\ bundles[f].model = subsid[v]
          /\ bundles[f].ad \in {subsid[v], NoData}
      BY <1>0, <2>3, EntryFound DEF EntriesWhole, Whole, LoadFromCache
    <3>2. /\ slotM' = [slotM EXCEPT ![v] = bundles[f].model]
          /\ slotA' = [slotA EXCEPT ![v] = AdOf(f)]
          /\ adThread' = [adThread EXCEPT ![v] =
                            IF AdOf(f) = NoData THEN "asking" ELSE @]
          /\ queue' = [queue EXCEPT ![v] =
                         <<Msg("model", TRUE), Msg("ad", TRUE)>>]
          /\ modelThread' = modelThread /\ downloading' = downloading
      BY <2>3 DEF LoadFromCache
    <3>3. AdOf(f) \in {subsid[v], NoData}
      BY <3>1 DEF AdOf
    <3> HIDE DEF f
    <3>4. <<Msg("model", TRUE), Msg("ad", TRUE)>> \in Seq(Message)
      <4> DEFINE a == Msg("model", TRUE)
                 b == Msg("ad", TRUE)
      <4>1. a \in Message /\ b \in Message
        BY DEF Msg, Message
      <4> HIDE DEF a, b
      <4>2. <<a, b>> \in Seq(Message)
        BY <4>1
      <4> QED  BY <4>2 DEF a, b
    <3>5. TypeOK'
      BY <1>0, <2>1, <3>1, <3>2, <3>3, <3>4
         DEF TypeOK, Phases, Contents, cacheVars
    <3>6. Fits(v)'
      BY <1>0, <2>1, <3>1, <3>2, <3>3
         DEF TypeOK, Fits, Resting, Slots, Writing, cacheVars
    <3> QED  BY <2>2, <3>5, <3>6 DEF Keeps
  <2>4. CASE LoadFromServer(v)
    <3>1. TypeOK'
      BY <1>0, <2>1, <2>4 DEF TypeOK, LoadFromServer, Phases, cacheVars, slots
    <3>2. Fits(v)'
      BY <1>0, <2>1, <2>4
         DEF TypeOK, LoadFromServer, Fits, Resting, Slots, Writing, cacheVars,
             slots
    <3> QED  BY <2>2, <3>1, <3>2 DEF Keeps
  <2> QED  BY <1>3, <2>3, <2>4 DEF Load3DScanFromUrl
<1> QED  BY <1>1, <1>2, <1>3 DEF Start

LEMMA AnswerKeeps ==
  ASSUME IInv, NEW v \in Viewers, Answer(v)
  PROVE  Keeps(v)
<1>0. TypeOK /\ EntriesWhole /\ Resting(v) /\ Slots(v) /\ Writing(v)
  BY DEF IInv
<1>1. EntriesWhole' /\ BundlesStay
  BY <1>0, WholeKept DEF Answer, AnswerModel, AnswerAd, PostAd
<1>2. queue' \in [Viewers -> Seq(Message)]
  <2>1. \A c \in BOOLEAN, k \in {"model", "ad"} :
          Append(queue[v], Msg(k, c)) \in Seq(Message)
    <3>1. \A c \in BOOLEAN, k \in {"model", "ad"} : Msg(k, c) \in Message
      BY DEF Msg, Message
    <3>2. queue[v] \in Seq(Message)
      BY <1>0 DEF TypeOK
    <3> QED  BY <3>1, <3>2, Appended
  <2>2. \/ \E m \in {Msg("model", FALSE), Msg("ad", FALSE)} :
             queue' = [queue EXCEPT ![v] = Append(queue[v], m)]
        \/ queue' = queue
    BY DEF Answer, AnswerModel, AnswerAd, PostAd, Post
  <2>3. \A s \in Seq(Message) :
          [queue EXCEPT ![v] = s] \in [Viewers -> Seq(Message)]
    BY <1>0 DEF TypeOK
  <2>4. queue \in [Viewers -> Seq(Message)]
    BY <1>0 DEF TypeOK
  <2> QED  BY <2>1, <2>2, <2>3, <2>4
<1>3. subsid[v] \in Subsids /\ Answers(v) \subseteq Contents
  BY <1>0 DEF TypeOK, Answers, Contents
<1>4. TypeOK'
  <2>1. CASE AnswerModel(v)
    BY <1>0, <1>2, <1>3, <2>1 DEF TypeOK, AnswerModel, cacheVars
  <2>2. CASE AnswerAd(v)
    BY <1>0, <1>2, <1>3, <2>2
       DEF TypeOK, AnswerAd, Answers, Urls, Contents, cacheVars
  <2>3. CASE PostAd(v)
    BY <1>0, <1>2, <1>3, <2>3
       DEF TypeOK, PostAd, AssignedUrl, Urls, cacheVars, slots
  <2> QED  BY <2>1, <2>2, <2>3 DEF Answer
<1>5. Fits(v)'
  <2>1. /\ phase' = phase /\ subsid' = subsid /\ handle' = handle /\ mem' = mem
        /\ at' = at /\ adLock' = adLock /\ bundles' = bundles /\ busy' = busy
        /\ modelThread[v] # "off" \/ adThread[v] # "off"
    BY DEF Answer, AnswerModel, AnswerAd, PostAd, cacheVars
  <2>2. phase[v] = "running"
    BY <1>0, <2>1 DEF Resting
  <2>3. slotM'[v] \in {slotM[v], subsid[v], NoData}
        /\ slotA'[v] \in {slotA[v], subsid[v], NoData}
    BY <1>0 DEF TypeOK, Answer, AnswerModel, AnswerAd, PostAd, Answers, slots
  <2>4. Resting(v)'
    BY <1>0, <2>1, <2>2 DEF Resting
  <2> QED  BY <1>0, <2>1, <2>3, <2>4 DEF Fits, Slots, Writing, Holds
<1> QED  BY <1>1, <1>4, <1>5 DEF Keeps

LEMMA ClickLeaveKeeps ==
  ASSUME IInv, NEW v \in Viewers, ClickHistory(v) \/ Leave(v)
  PROVE  Keeps(v)
<1>0. TypeOK /\ EntriesWhole /\ Resting(v) /\ Slots(v) /\ Writing(v)
  BY DEF IInv
<1>1. CASE ClickHistory(v)
  <2>1. EntriesWhole' /\ BundlesStay
    BY <1>0, <1>1, WholeKept DEF ClickHistory
  <2>2. PICK i \in DOMAIN mem[v] :
          /\ clickable' = [clickable EXCEPT ![v] = AdOf(mem[v][i].file)]
          /\ adUrl' = [adUrl EXCEPT ![v] = mem[v][i].url]
    BY <1>1 DEF ClickHistory
  <2>3. mem[v][i].url \in Urls
    BY <1>0, Sequences DEF Entry
  <2>4. AdOf(mem[v][i].file) \in Contents
    <3>1. Whole(mem[v][i]) /\ mem[v][i].subs \in Subsids
      BY <1>0, Sequences DEF EntriesWhole, Entry
    <3> QED  BY <3>1 DEF Whole, AdOf, Contents
  <2>5. TypeOK'
    BY <1>0, <1>1, <2>2, <2>3, <2>4
       DEF TypeOK, ClickHistory, cacheVars, slots, threads
  <2>6. Fits(v)'
    BY <1>0, <1>1, <2>2 DEF TypeOK, ClickHistory, Idle, Fits, Resting, Slots,
                            Writing, Holds, cacheVars, slots, threads
  <2> QED  BY <2>1, <2>5, <2>6 DEF Keeps
<1>2. CASE Leave(v)
  <2>1. /\ mem' = [mem EXCEPT ![v] = <<>>]
        /\ table' = table /\ bundles' = bundles /\ dat' = dat
    BY <1>2 DEF Leave, CleanUp
  <2>2. EntriesWhole' /\ BundlesStay
    BY <1>0, <2>1 DEF TypeOK, EntriesWhole, Whole, BundlesStay
  <2>3. TypeOK'
    <3>1. mem' \in [Viewers -> Seq(Entry)]
      BY <1>0, <2>1 DEF TypeOK
    <3> QED  BY <1>0, <1>2, <2>1, <3>1
         DEF TypeOK, Leave, CleanUp, Enter, Phases, Contents, Urls, None
  <2>4. Fits(v)'
    BY <1>0, <1>2 DEF TypeOK, Leave, CleanUp, Enter, Fits, Resting, Slots, Writing
  <2> QED  BY <2>2, <2>3, <2>4 DEF Keeps
<1> QED  BY <1>1, <1>2

\* The window: of the two halves of AddModelToCache and AddAdToCache, the first
\* prepares what the second will find.
LEMMA ModelDownloadedKeeps ==
  ASSUME IInv, NEW v \in Viewers, ModelDownloaded(v)
  PROVE  Keeps(v)
<1>0. TypeOK /\ EntriesWhole /\ Resting(v) /\ Slots(v) /\ Writing(v)
  BY DEF IInv
<1>1. /\ phase[v] = "running" /\ busy[v] = "no"
      /\ queue' = [queue EXCEPT ![v] = Tail(queue[v])] /\ queue[v] # <<>>
      /\ launches' = launches /\ clicks' = clicks /\ phase' = phase
      /\ subsid' = subsid /\ slotA' = slotA /\ modelThread' = modelThread
      /\ adThread' = adThread /\ newUrl' = newUrl /\ adUrl' = adUrl
      /\ clickable' = clickable
  BY DEF ModelDownloaded, Handles, Idle, Take, threads
<1>2. queue' \in [Viewers -> Seq(Message)]
  <2>1. Tail(queue[v]) \in Seq(Message)
    BY <1>0, <1>1, Taken DEF TypeOK
  <2> QED  BY <1>0, <1>1, <2>1 DEF TypeOK
<1>3. CASE ModelToCache(v)
  <2> DEFINE n == Len(mem[v]) + 1
             b == Len(bundles) + 1
  <2>3. /\ bundles' \in Seq(Bundle) /\ BundlesStay
        /\ \A f \in DOMAIN bundles : bundles'[f] = bundles[f]
        /\ b \in DOMAIN bundles'
        /\ bundles'[b].model = subsid[v] /\ bundles'[b].ad = NoData
        /\ mem'[v] # <<>> /\ Len(mem'[v]) = n
        /\ mem' \in [Viewers -> Seq(Entry)]
        /\ DOMAIN mem'[v] = DOMAIN mem[v] \union {n}
        /\ mem'[v][n].subs = subsid[v] /\ mem'[v][n].file = b
        /\ \A i \in DOMAIN mem[v] : mem'[v][i] = mem[v][i]
        /\ \A w \in Viewers : w # v => mem'[w] = mem[w]
        /\ at' \in [Viewers -> Nat] /\ at'[v] # None
        /\ dat' = dat /\ table' = table /\ handle' = handle /\ adLock' = adLock
    <3>1. /\ bundles'[b] = [model |-> subsid[v], ad |-> NoData]
          /\ mem'[v][n] = [subs |-> subsid[v], file |-> b, url |-> adUrl[v]]
      BY <1>0, <1>3, PushChanges
    <3> HIDE DEF n, b
    <3>2. /\ bundles'[b].model = subsid[v] /\ bundles'[b].ad = NoData
          /\ mem'[v][n].subs = subsid[v] /\ mem'[v][n].file = b
      BY <3>1
    <3> QED  BY <1>0, <1>3, <3>2, PushChanges DEF n, b
  <2> HIDE DEF n, b
  <2>4. /\ slotM' = slotM /\ downloading' = downloading
        /\ busy' = [busy EXCEPT ![v] = "append"] /\ handle[v] = "shared"
    BY <1>3 DEF ModelToCache, CanAddModel
  <2>5. TypeOK'
    BY <1>0, <1>1, <1>2, <2>3, <2>4 DEF TypeOK
  <2>6. EntriesWhole'
    <3>1. \A e : Whole(e) => WholeNext(e)
      BY <2>3 DEF Whole, WholeNext, BundlesStay
    <3>2. WholeNext(mem'[v][n])
      BY <2>3 DEF WholeNext
    <3>3. \A i \in DOMAIN table' : WholeNext(table'[i])
      BY <1>0, <2>3, <3>1 DEF EntriesWhole
    <3>4. ASSUME NEW w \in Viewers, NEW i \in DOMAIN mem'[w]
          PROVE  WholeNext(mem'[w][i])
      <4>1. CASE w = v /\ i = n
        BY <3>2, <4>1
      <4>2. CASE ~ (w = v /\ i = n)
        <5>1. i \in DOMAIN mem[w] /\ mem'[w][i] = mem[w][i]
          <6>1. CASE w = v
            <7>1. i \in DOMAIN mem[v] \union {n} /\ i # n
              BY <2>3, <3>4, <4>2, <6>1
            <7> QED  BY <2>3, <6>1, <7>1
          <6>2. CASE w # v
            BY <2>3, <3>4, <6>2
          <6> QED  BY <6>1, <6>2
        <5> QED  BY <1>0, <3>1, <5>1 DEF EntriesWhole
      <4> QED  BY <4>1, <4>2
    <3> QED  BY <3>3, <3>4, WholeAfter
  <2>7. Fits(v)'
    BY <1>0, <1>1, <2>3, <2>4 DEF TypeOK, Fits, Resting, Slots, Writing
  <2> QED  BY <2>3, <2>5, <2>6, <2>7 DEF Keeps
<1>4. CASE ModelNotToCache(v)
  <2>1. EntriesWhole' /\ BundlesStay
    BY <1>0, <1>4, WholeKept DEF ModelNotToCache
  <2>2. TypeOK'
    BY <1>0, <1>1, <1>2, <1>4
       DEF TypeOK, ModelNotToCache, EndDownload, Contents, cacheVars
  <2>3. Fits(v)'
    BY <1>0, <1>1, <1>4 DEF TypeOK, ModelNotToCache, Fits, Resting, Slots,
                            Writing, Holds, cacheVars
  <2> QED  BY <2>1, <2>2, <2>3 DEF Keeps
<1> QED  BY <1>3, <1>4 DEF ModelDownloaded

LEMMA ModelAddedKeeps ==
  ASSUME IInv, NEW v \in Viewers, ModelAdded(v)
  PROVE  Keeps(v)
<1>0. TypeOK /\ EntriesWhole /\ Resting(v) /\ Slots(v) /\ Writing(v)
  BY DEF IInv
<1>1. /\ busy[v] = "append" /\ busy' = [busy EXCEPT ![v] = "no"]
      /\ slotM' = [slotM EXCEPT ![v] = NoData]
      /\ downloading' = [downloading EXCEPT ![v] = FALSE]
      /\ launches' = launches /\ clicks' = clicks /\ phase' = phase
      /\ subsid' = subsid /\ slotA' = slotA /\ queue' = queue
      /\ modelThread' = modelThread /\ adThread' = adThread
      /\ newUrl' = newUrl /\ adUrl' = adUrl /\ clickable' = clickable
  BY DEF ModelAdded, EndDownload, threads
<1>2. mem[v] # <<>> /\ WriteEntry(v)
  BY <1>0, <1>1 DEF Writing, ModelAdded
<1>3. /\ table' \in Seq(Entry)
      /\ \A i \in DOMAIN table' :
           \/ table'[i] = mem[v][Len(mem[v])]
           \/ i \in DOMAIN table /\ table'[i] = table[i]
      /\ at' \in [Viewers -> Nat]
      /\ dat' = dat /\ bundles' = bundles /\ handle' = handle
      /\ mem' = mem /\ adLock' = adLock
  BY <1>0, <1>2, WriteChanges
<1>4. TypeOK'
  BY <1>0, <1>1, <1>3 DEF TypeOK, Contents
<1>5. EntriesWhole'
  <2>1. \A e : Whole(e) => WholeNext(e)
    BY <1>3 DEF Whole, WholeNext
  <2>2. \A i \in DOMAIN table' : WholeNext(table'[i])
    <3>1. Len(mem[v]) \in DOMAIN mem[v]
      BY <1>0, <1>2, Sequences
    <3> QED  BY <1>0, <1>3, <2>1, <3>1 DEF EntriesWhole
  <2>3. \A w \in Viewers : \A i \in DOMAIN mem'[w] : WholeNext(mem'[w][i])
    BY <1>0, <1>3, <2>1 DEF EntriesWhole
  <2> QED  BY <2>2, <2>3, WholeAfter
<1>6. BundlesStay
  BY <1>3 DEF BundlesStay
<1>7. Fits(v)'
  BY <1>0, <1>1, <1>3 DEF TypeOK, Fits, Resting, Slots, Writing
<1> QED  BY <1>4, <1>5, <1>6, <1>7 DEF Keeps

LEMMA AdDownloadedKeeps ==
  ASSUME IInv, NEW v \in Viewers, AdDownloaded(v)
  PROVE  Keeps(v)
<1>0. TypeOK /\ EntriesWhole /\ Resting(v) /\ Slots(v) /\ Writing(v)
  BY DEF IInv
<1>1. /\ phase[v] = "running" /\ busy[v] = "no"
      /\ queue' = [queue EXCEPT ![v] = Tail(queue[v])] /\ queue[v] # <<>>
      /\ clickable' = [clickable EXCEPT ![v] = slotA[v]]
      /\ launches' = launches /\ clicks' = clicks /\ phase' = phase
      /\ subsid' = subsid /\ slotM' = slotM /\ slotA' = slotA
      /\ modelThread' = modelThread /\ adThread' = adThread
      /\ newUrl' = newUrl /\ adUrl' = adUrl /\ downloading' = downloading
  BY DEF AdDownloaded, AdImage, Handles, Idle, Take, slots, threads
<1>2. queue' \in [Viewers -> Seq(Message)]
  <2>1. Tail(queue[v]) \in Seq(Message)
    BY <1>0, <1>1, Taken DEF TypeOK
  <2> QED  BY <1>0, <1>1, <2>1 DEF TypeOK
<1>3. CASE AdToCache(v)
  <2> DEFINE e == mem[v][EntryOf(v, subsid[v])]
  <2>1. /\ Holds(v, subsid[v]) /\ adLock' = [adLock EXCEPT ![v] = e.file]
        /\ busy' = [busy EXCEPT ![v] = "write_ad"]
        /\ dat' = dat /\ table' = table /\ bundles' = bundles
        /\ handle' = handle /\ mem' = mem /\ at' = at
    BY <1>3 DEF AdToCache, CanLockAd, LockAd
  <2>2. e.subs = subsid[v] /\ Whole(e) /\ e.file \in Nat
    BY <1>0, <2>1, EntryFound DEF EntriesWhole, Entry
  <2>3. e.file \in DOMAIN bundles /\ bundles[e.file].model = subsid[v]
    BY <2>2 DEF Whole
  <2> HIDE DEF e
  <2>4. TypeOK'
    BY <1>0, <1>1, <1>2, <2>1, <2>2 DEF TypeOK
  <2>5. EntriesWhole' /\ BundlesStay
    BY <1>0, <2>1 DEF EntriesWhole, Whole, BundlesStay
  <2>6. Fits(v)'
    BY <1>0, <1>1, <2>1, <2>3 DEF TypeOK, Fits, Resting, Slots, Writing, Holds
  <2> QED  BY <2>4, <2>5, <2>6 DEF Keeps
<1>4. CASE AdNotToCache(v)
  <2>1. EntriesWhole' /\ BundlesStay
    BY <1>0, <1>4, WholeKept DEF AdNotToCache
  <2>2. TypeOK'
    BY <1>0, <1>1, <1>2, <1>4 DEF TypeOK, AdNotToCache, cacheVars
  <2>3. Fits(v)'
    BY <1>0, <1>1, <1>4 DEF TypeOK, AdNotToCache, Fits, Resting, Slots,
                            Writing, Holds, cacheVars
  <2> QED  BY <2>1, <2>2, <2>3 DEF Keeps
<1> QED  BY <1>3, <1>4 DEF AdDownloaded

LEMMA AdHandledKeeps ==
  ASSUME IInv, NEW v \in Viewers, AdHandled(v)
  PROVE  Keeps(v)
<1>0. TypeOK /\ EntriesWhole /\ Resting(v) /\ Slots(v) /\ Writing(v)
  BY DEF IInv
<1>1. /\ busy[v] \in {"write_ad", "free_ad"}
      /\ busy' = [busy EXCEPT ![v] = "no"]
      /\ slotA' = [slotA EXCEPT ![v] = NoData]
      /\ launches' = launches /\ clicks' = clicks /\ phase' = phase
      /\ subsid' = subsid /\ slotM' = slotM /\ queue' = queue
      /\ modelThread' = modelThread /\ adThread' = adThread
      /\ newUrl' = newUrl /\ adUrl' = adUrl /\ clickable' = clickable
      /\ downloading' = downloading
  BY DEF AdHandled, threads
<1>2. CASE busy[v] = "write_ad" /\ WriteAd(v, subsid[v], slotA[v], adUrl[v])
  <2> DEFINE l == adLock[v]
  <2>0. Holds(v, subsid[v]) /\ l \in DOMAIN bundles
        /\ bundles[l].model = subsid[v] /\ slotA[v] \in {subsid[v], NoData}
        /\ slotA[v] \in Contents /\ adUrl[v] \in Urls
    BY <1>0, <1>2 DEF TypeOK, Writing, Slots
  <2>1. /\ bundles' \in Seq(Bundle) /\ BundlesStay
        /\ DOMAIN bundles' = DOMAIN bundles
        /\ \A f \in DOMAIN bundles : \/ bundles'[f].ad = bundles[f].ad
                                     \/ f = l /\ bundles'[f].ad = slotA[v]
        /\ mem' \in [Viewers -> Seq(Entry)]
        /\ DOMAIN mem'[v] = DOMAIN mem[v]
        /\ \A i \in DOMAIN mem[v] : /\ mem'[v][i].subs = mem[v][i].subs
                                    /\ mem'[v][i].file = mem[v][i].file
        /\ \A w \in Viewers : w # v => mem'[w] = mem[w]
        /\ adLock' \in [Viewers -> Nat]
        /\ dat' = dat /\ table' = table /\ handle' = handle /\ at' = at
    BY <1>0, <1>2, <2>0, AdChanges
  <2> HIDE DEF l
  <2>2. TypeOK'
    BY <1>0, <1>1, <2>1 DEF TypeOK, Contents
  <2>3. EntriesWhole'
    <3>1. \A e : Whole(e) => WholeNext(e)
      <4> SUFFICES ASSUME NEW e, Whole(e)  PROVE  WholeNext(e)
        OBVIOUS
      <4>1. /\ e.file \in DOMAIN bundles /\ bundles[e.file].model = e.subs
            /\ bundles[e.file].ad \in {e.subs, NoData}
        BY DEF Whole
      <4>2. bundles'[e.file].ad \in {e.subs, NoData}
        BY <2>0, <2>1, <4>1
      <4> QED  BY <2>1, <4>1, <4>2 DEF WholeNext, BundlesStay
    <3>2. \A i \in DOMAIN table' : WholeNext(table'[i])
      BY <1>0, <2>1, <3>1 DEF EntriesWhole
    <3>3. ASSUME NEW w \in Viewers, NEW i \in DOMAIN mem'[w]
          PROVE  WholeNext(mem'[w][i])
      <4>1. CASE w = v
        <5>1. i \in DOMAIN mem[v] /\ WholeNext(mem[v][i])
          BY <1>0, <2>1, <3>1, <3>3, <4>1 DEF EntriesWhole
        <5> QED  BY <2>1, <4>1, <5>1 DEF WholeNext
      <4>2. CASE w # v
        BY <1>0, <2>1, <3>1, <3>3, <4>2 DEF EntriesWhole
      <4> QED  BY <4>1, <4>2
    <3> QED  BY <3>2, <3>3, WholeAfter
  <2>4. Fits(v)'
    <3>1. phase[v] \in {"load", "running"}
      BY <1>0, <1>2 DEF Resting
    <3> QED  BY <1>0, <1>1, <2>1, <3>1 DEF TypeOK, Fits, Resting, Slots, Writing
  <2> QED  BY <2>1, <2>2, <2>3, <2>4 DEF Keeps
<1>3. CASE UNCHANGED cacheVars
  <2>1. EntriesWhole' /\ BundlesStay
    BY <1>0, <1>3, WholeKept
  <2>2. TypeOK'
    BY <1>0, <1>1, <1>3 DEF TypeOK, Contents, cacheVars
  <2>3. Fits(v)'
    BY <1>0, <1>1, <1>3
       DEF TypeOK, Fits, Resting, Slots, Writing, Holds, cacheVars
  <2> QED  BY <2>1, <2>2, <2>3 DEF Keeps
<1> QED  BY <1>2, <1>3 DEF AdHandled

LEMMA StepKeeps ==
  ASSUME IInv, NEW v \in Viewers, Step(v)
  PROVE  IInv' /\ BundlesStay
<1>1. Keeps(v)
  BY StartKeeps, AnswerKeeps, ModelDownloadedKeeps, ModelAddedKeeps,
     AdDownloadedKeeps, AdHandledKeeps, ClickLeaveKeeps DEF Step, WindowProc
<1>2. ASSUME NEW w \in Viewers  PROVE  Resting(w)' /\ Slots(w)' /\ Writing(w)'
  <2>1. CASE w = v
    BY <1>1, <2>1 DEF Keeps, Fits
  <2>2. CASE w # v
    BY <1>1, <2>2, OneViewerActs, OthersKept DEF Keeps, IInv
  <2> QED  BY <2>1, <2>2
<1> QED  BY <1>1, <1>2 DEF Keeps, IInv

LEMMA StutterKeeps ==
  ASSUME IInv, UNCHANGED vars
  PROVE  IInv'
BY DEF IInv, TypeOK, EntriesWhole, Whole, Resting, Slots, Writing, Holds, vars,
       window, slots, threads, cacheVars

LEMMA InitFits == Init => IInv
<1> SUFFICES ASSUME Init  PROVE  IInv
  OBVIOUS
<1>1. TypeOK
  <2>1. <<>> \in Seq(Entry) /\ <<>> \in Seq(Bundle) /\ <<>> \in Seq(Message)
    BY EmptySeq
  <2> QED  BY <2>1 DEF Init, CacheInit, TypeOK, Phases, Contents, Urls, None
<1>2. EntriesWhole
  BY DEF Init, CacheInit, EntriesWhole
<1> QED  BY <1>1, <1>2 DEF Init, CacheInit, IInv, Resting, Slots, Writing

\* IInv holds in every state: whatever viewers run at once, are closed, die or
\* fail to write, a viewer that writes has what it needs for the whole entry.
THEOREM CacheInductive == Spec => []IInv
<1>1. Init => IInv
  BY InitFits
<1>2. IInv /\ [Next]_vars => IInv'
  BY StepKeeps, StutterKeeps DEF Next, Step
<1> QED  BY <1>1, <1>2, PTL DEF Spec

\* The variables of every viewer and the cache keep their types through all the
\* handlers of ModelViewerDlg.cpp and the calls of CModelCache they make.
THEOREM ViewerTypes == Spec => []TypeOK
<1>1. IInv => TypeOK
  BY DEF IInv
<1> QED  BY <1>1, CacheInductive, PTL

\* AddModelToCache and AddAdToCache keep the entries whole: each names the whole
\* model of its subscription and its advertisement or none.
THEOREM EntriesAlwaysWhole == Spec => []EntriesWhole
<1>1. IInv => EntriesWhole
  BY DEF IInv
<1> QED  BY <1>1, CacheInductive, PTL

\* Only WriteEntry touches the entries of the table.
LEMMA TableChanges ==
  ASSUME IInv, NEW v \in Viewers, Step(v)
  PROVE  \/ table' = table
         \/ busy[v] = "append" /\ WriteEntry(v)
<1>1. CASE Start(v)
  BY <1>1 DEF Start, Launch, Initialize, Load3DScanFromUrl, OpenDat, CreateDat,
              SavedTable, CloseDat, cacheVars
<1>2. CASE Answer(v)
  BY <1>2 DEF Answer, AnswerModel, AnswerAd, PostAd, cacheVars
<1>3. CASE WindowProc(v)
  BY <1>3 DEF WindowProc, ModelDownloaded, ModelToCache, ModelNotToCache,
              PushEntry, ModelAdded, AdDownloaded, AdToCache, AdNotToCache,
              LockAd, AdHandled, WriteAd, cacheVars
<1>4. CASE ClickHistory(v) \/ Leave(v)
  BY <1>4 DEF ClickHistory, Leave, CleanUp, cacheVars
<1> QED  BY <1>1, <1>2, <1>3, <1>4 DEF Step

\* No step of any viewer shortens cache.dat: OPEN_ALWAYS keeps a table that is
\* there, and WriteEntry replaces or appends.
THEOREM TableNeverShortened == Spec => TableNeverShrinks
<1>1. ASSUME IInv, [Next]_vars  PROVE  Len(table') >= Len(table)
  <2>0. Len(table) \in Nat /\ TypeOK
    BY <1>1, LenProperties DEF IInv, TypeOK
  <2>1. CASE UNCHANGED vars
    BY <2>0, <2>1 DEF vars, cacheVars
  <2>2. CASE Next
    <3>1. PICK v \in Viewers : Step(v)
      BY <2>2 DEF Next, Step
    <3>2. CASE table' = table
      BY <2>0, <3>2
    <3>3. CASE busy[v] = "append" /\ WriteEntry(v)
      <4>1. mem[v] # <<>>
        BY <1>1, <3>3 DEF IInv, Writing
      <4> QED  BY <2>0, <3>3, <4>1, WriteChanges
    <3> QED  BY <1>1, <3>1, <3>2, <3>3, TableChanges
  <2> QED  BY <1>1, <2>1, <2>2
<1> QED  BY <1>1, CacheInductive, PTL DEF Spec, TableNeverShrinks

-----------------------------------------------------------------------------
(* The advertisement that was asked for, while nobody clicks on the history *)

LEMMA ClicksGrow ==
  ASSUME TypeOK, NEW v \in Viewers, Step(v), clicks' = 0
  PROVE  clicks = 0 /\ ~ ClickHistory(v)
<1>1. clicks \in Nat
  BY DEF TypeOK
<1>2. ~ ClickHistory(v)
  BY <1>1 DEF ClickHistory
<1>3. clicks' = clicks
  BY <1>2 DEF Step, Start, Launch, Initialize, Load3DScanFromUrl, Answer,
     AnswerModel, AnswerAd, PostAd, WindowProc, ModelDownloaded, ModelAdded,
     AdDownloaded, AdHandled, Leave
<1> QED  BY <1>2, <1>3

ArrivesSame(w) ==
  /\ modelThread'[w] = modelThread[w] /\ adThread'[w] = adThread[w]
  /\ busy'[w] = busy[w] /\ queue'[w] = queue[w] /\ slotA'[w] = slotA[w]
  /\ newUrl'[w] = newUrl[w] /\ adUrl'[w] = adUrl[w]
  /\ clickable'[w] = clickable[w]

LEMMA ArrivesKept ==
  ASSUME NEW w \in Viewers, AdArrives(w), ArrivesSame(w)
  PROVE  AdArrives(w)'
<1>1. AdPosted(w)' = AdPosted(w)
  BY DEF ArrivesSame, AdPosted, IsAd
<1>2. /\ AdAsked(w)' = AdAsked(w) /\ AdReceived(w)' = AdReceived(w)
      /\ AdWaiting(w)' = AdWaiting(w) /\ AdShown(w)' = AdShown(w)
  BY <1>1 DEF ArrivesSame, AdAsked, AdReceived, AdWaiting, AdShown, IsAd
<1> QED  BY <1>2 DEF AdArrives, ArrivesSame

\* A message at the end of the queue is the only new one there.
LEMMA Posted ==
  ASSUME TypeOK, NEW v \in Viewers, NEW m \in Message,
         queue' = [queue EXCEPT ![v] = Append(queue[v], m)]
  PROVE  /\ AdPosted(v)' <=> AdPosted(v) \/ m.kind = "ad"
         /\ m.kind # "ad" =>
              \A i \in DOMAIN queue'[v] :
                IsAd(v, i)' => i \in DOMAIN queue[v] /\ IsAd(v, i)
         /\ ~ AdPosted(v) =>
              \A i, j \in DOMAIN queue'[v] : IsAd(v, i)' /\ IsAd(v, j)' => i = j
<1> DEFINE q == queue[v]
           r == queue'[v]
<1>1. q \in Seq(Message) /\ r = Append(q, m)
  BY DEF TypeOK
<1> HIDE DEF q, r
<1>2. /\ DOMAIN r = DOMAIN q \union {Len(q) + 1}
      /\ r[Len(q) + 1] = m
      /\ \A i \in DOMAIN q : i # Len(q) + 1 /\ r[i] = q[i]
  BY <1>1, Appended
<1>3. /\ AdPosted(v) <=> \E i \in DOMAIN q : q[i].kind = "ad"
      /\ AdPosted(v)' <=> \E i \in DOMAIN r : r[i].kind = "ad"
      /\ \A i : (IsAd(v, i) <=> q[i].kind = "ad")
                /\ (IsAd(v, i)' <=> r[i].kind = "ad")
  BY DEF AdPosted, IsAd, q, r
<1>4. AdPosted(v)' <=> AdPosted(v) \/ m.kind = "ad"
  BY <1>2, <1>3
<1>5. m.kind # "ad" =>
        \A i \in DOMAIN r : IsAd(v, i)' => i \in DOMAIN q /\ IsAd(v, i)
  BY <1>2, <1>3
<1>6. ~ AdPosted(v) =>
        \A i, j \in DOMAIN r : IsAd(v, i)' /\ IsAd(v, j)' => i = j
  BY <1>2, <1>3
<1> QED  BY <1>4, <1>5, <1>6 DEF q, r

\* The first message is taken: the others stay in their order.
LEMMA TakenAd ==
  ASSUME TypeOK, NEW v \in Viewers, queue[v] # <<>>, Take(v)
  PROVE  /\ IsAd(v, 1) => AdPosted(v)
         /\ ~ IsAd(v, 1) => (AdPosted(v)' <=> AdPosted(v))
         /\ ~ AdPosted(v) => ~ AdPosted(v)'
         /\ (\A i, j \in DOMAIN queue[v] : IsAd(v, i) /\ IsAd(v, j) => i = j)
              => /\ IsAd(v, 1) => ~ AdPosted(v)'
                 /\ \A i, j \in DOMAIN queue'[v] :
                      IsAd(v, i)' /\ IsAd(v, j)' => i = j
<1> DEFINE q == queue[v]
           r == queue'[v]
<1>1. q \in Seq(Message) /\ q # <<>> /\ r = Tail(q)
  BY DEF TypeOK, Take
<1> HIDE DEF q, r
<1>2. /\ 1 \in DOMAIN q
      /\ \A i \in DOMAIN r : i + 1 \in DOMAIN q /\ r[i] = q[i + 1]
      /\ \A i \in DOMAIN q : i # 1 => i - 1 \in DOMAIN r /\ r[i - 1] = q[i]
      /\ DOMAIN q \subseteq Nat /\ DOMAIN r \subseteq 1..Len(r) /\ Len(r) \in Nat
  BY <1>1, Taken, LenProperties
<1>3. /\ AdPosted(v) <=> \E i \in DOMAIN q : q[i].kind = "ad"
      /\ AdPosted(v)' <=> \E i \in DOMAIN r : r[i].kind = "ad"
      /\ \A i : (IsAd(v, i) <=> q[i].kind = "ad")
                /\ (IsAd(v, i)' <=> r[i].kind = "ad")
  BY DEF AdPosted, IsAd, q, r
<1>4. IsAd(v, 1) => AdPosted(v)
  BY <1>2, <1>3
<1>5. ~ IsAd(v, 1) => (AdPosted(v)' <=> AdPosted(v))
  <2>1. AdPosted(v)' => AdPosted(v)
    BY <1>2, <1>3
  <2>2. ~ IsAd(v, 1) /\ AdPosted(v) => AdPosted(v)'
    BY <1>2, <1>3
  <2> QED  BY <2>1, <2>2
<1>6. ~ AdPosted(v) => ~ AdPosted(v)'
  BY <1>2, <1>3
<1>7. ASSUME \A i, j \in DOMAIN q : IsAd(v, i) /\ IsAd(v, j) => i = j
      PROVE  /\ IsAd(v, 1) => ~ AdPosted(v)'
             /\ \A i, j \in DOMAIN r : IsAd(v, i)' /\ IsAd(v, j)' => i = j
  <2>1. ASSUME NEW i \in DOMAIN r, IsAd(v, i)'
        PROVE  i + 1 \in DOMAIN q /\ IsAd(v, i + 1) /\ i \in Nat /\ i # 0
    BY <1>2, <1>3, <2>1
  <2>2. IsAd(v, 1) => ~ AdPosted(v)'
    BY <1>2, <1>3, <1>7, <2>1
  <2>3. \A i, j \in DOMAIN r : IsAd(v, i)' /\ IsAd(v, j)' => i = j
    <3> SUFFICES ASSUME NEW i \in DOMAIN r, NEW j \in DOMAIN r,
                        IsAd(v, i)', IsAd(v, j)'
                 PROVE  i = j
      OBVIOUS
    <3>1. i + 1 = j + 1 /\ i \in Nat /\ j \in Nat
      BY <1>7, <2>1
    <3> QED  BY <3>1
  <2> QED  BY <2>2, <2>3
<1> QED  BY <1>4, <1>5, <1>6, <1>7 DEF q, r

\* What the threads do.
LEMMA AnswerArrives ==
  ASSUME IInv, NEW v \in Viewers, AdArrives(v), Answer(v)
  PROVE  AdArrives(v)'
<1>0. TypeOK /\ Resting(v) /\ subsid[v] \in Subsids
  BY DEF IInv, TypeOK
<1>1. CASE modelThread[v] = "off"
  <2>1. modelThread'[v] = "off"
    BY <1>0, <1>1 DEF TypeOK, Answer, AnswerModel, AnswerAd, PostAd
  <2> QED  BY <2>1 DEF AdArrives
<1>2. CASE modelThread[v] # "off" /\ AnswerModel(v)
  <2> DEFINE m == Msg("model", FALSE)
  <2>1. /\ adThread' = adThread /\ busy' = busy /\ slotA' = slotA
        /\ newUrl' = newUrl /\ adUrl' = adUrl /\ clickable' = clickable
        /\ queue' = [queue EXCEPT ![v] = Append(queue[v], m)]
    BY <1>2 DEF AnswerModel, Post
  <2>2. m \in Message /\ m.kind # "ad"
    BY DEF Msg, Message
  <2> HIDE DEF m
  <2>3. /\ AdPosted(v)' <=> AdPosted(v)
        /\ \A i \in DOMAIN queue'[v] :
             IsAd(v, i)' => i \in DOMAIN queue[v] /\ IsAd(v, i)
    BY <1>0, <2>1, <2>2, Posted
  <2>4. AdAsked(v) => AdAsked(v)'
    BY <2>1, <2>3 DEF AdAsked
  <2>5. AdReceived(v) => AdReceived(v)'
    BY <2>1, <2>3 DEF AdReceived, ImageOf
  <2>6. AdWaiting(v) => AdWaiting(v)'
    BY <2>1, <2>3 DEF AdWaiting, ImageOf
  <2>7. AdShown(v) => AdShown(v)'
    BY <2>1, <2>3 DEF AdShown, ImageOf
  <2> QED  BY <1>2, <2>1, <2>4, <2>5, <2>6, <2>7 DEF AdArrives
<1>3. CASE modelThread[v] # "off" /\ AnswerAd(v)
  <2>1. AdAsked(v)
    BY <1>3 DEF AdArrives, AnswerAd
  <2>2. PICK d \in Answers(v) :
          /\ slotA' = [slotA EXCEPT ![v] = d]
          /\ newUrl' = [newUrl EXCEPT ![v] = IF d = NoData THEN NoUrl ELSE d]
    BY <1>3 DEF AnswerAd
  <2>3. d # NoUrl \/ d = NoData
    BY <1>0, <2>2, CacheAssumption DEF Answers
  <2>4. slotA'[v] = ImageOf(newUrl'[v]) /\ adUrl'[v] = TornUrl
    BY <1>0, <1>3, <2>2, <2>3 DEF TypeOK, ImageOf, AnswerAd
  <2>5. adThread'[v] = "assigning" /\ queue' = queue /\ busy' = busy
    BY <1>0, <1>3 DEF TypeOK, AnswerAd
  <2>6. AdReceived(v)'
    BY <2>1, <2>4, <2>5 DEF AdReceived, AdAsked, AdPosted, IsAd, ImageOf
  <2> QED  BY <2>5, <2>6 DEF AdArrives
<1>4. CASE modelThread[v] # "off" /\ PostAd(v)
  <2> DEFINE m == Msg("ad", FALSE)
  <2>1. AdReceived(v)
    BY <1>4 DEF AdArrives, PostAd
  <2>2. /\ adUrl'[v] = newUrl[v] /\ newUrl' = newUrl /\ slotA' = slotA
        /\ busy' = busy /\ adThread'[v] = "done"
        /\ queue' = [queue EXCEPT ![v] = Append(queue[v], m)]
    BY <1>0, <1>4, <2>1 DEF TypeOK, PostAd, Post, AssignedUrl, AdReceived, slots
  <2>3. m \in Message /\ m.kind = "ad"
    BY DEF Msg, Message
  <2> HIDE DEF m
  <2>4. /\ AdPosted(v)'
        /\ \A i, j \in DOMAIN queue'[v] : IsAd(v, i)' /\ IsAd(v, j)' => i = j
    BY <1>0, <2>1, <2>2, <2>3, Posted DEF AdReceived
  <2>5. AdWaiting(v)'
    BY <2>1, <2>2, <2>4 DEF AdReceived, AdWaiting, ImageOf
  <2> QED  BY <2>2, <2>5 DEF AdArrives
<1> QED  BY <1>1, <1>2, <1>3, <1>4 DEF Answer

\* What the window does.
LEMMA WindowArrives ==
  ASSUME IInv, NEW v \in Viewers, AdArrives(v), WindowProc(v)
  PROVE  AdArrives(v)'
<1>0. TypeOK
  BY DEF IInv
<1>1. /\ modelThread' = modelThread /\ adThread' = adThread
      /\ newUrl' = newUrl /\ adUrl' = adUrl
  BY DEF WindowProc, ModelDownloaded, ModelAdded, AdDownloaded, AdHandled, threads
<1>2. CASE modelThread[v] = "off"
  BY <1>1, <1>2 DEF AdArrives
<1>3. CASE ModelDownloaded(v)
  <2>1. /\ queue[v] # <<>> /\ Take(v) /\ ~ IsAd(v, 1)
    BY <1>0, <1>3, Taken DEF TypeOK, ModelDownloaded, Handles, IsAd
  <2>2. /\ slotA' = slotA /\ clickable' = clickable
        /\ busy[v] = "no" /\ busy'[v] \in {"no", "append"}
    BY <1>0, <1>3 DEF TypeOK, ModelDownloaded, ModelToCache, ModelNotToCache,
                      Handles, Idle
  <2>3. AdPosted(v)' <=> AdPosted(v)
    BY <1>0, <2>1, TakenAd
  <2>4. (\A i, j \in DOMAIN queue[v] : IsAd(v, i) /\ IsAd(v, j) => i = j)
           => (\A i, j \in DOMAIN queue'[v] : IsAd(v, i)' /\ IsAd(v, j)' => i = j)
    BY <1>0, <2>1, TakenAd
  <2>5. AdAsked(v) => AdAsked(v)'
    BY <1>1, <2>2, <2>3 DEF AdAsked
  <2>6. AdReceived(v) => AdReceived(v)'
    BY <1>1, <2>2, <2>3 DEF AdReceived, ImageOf
  <2>7. AdWaiting(v) => AdWaiting(v)'
    BY <1>1, <2>2, <2>3, <2>4 DEF AdWaiting, ImageOf
  <2>8. AdShown(v) => AdShown(v)'
    BY <1>1, <2>2, <2>3 DEF AdShown, ImageOf
  <2> QED  BY <1>1, <2>5, <2>6, <2>7, <2>8 DEF AdArrives
<1>4. CASE ModelAdded(v)
  <2>1. /\ busy[v] = "append" /\ busy'[v] = "no" /\ queue' = queue
        /\ slotA' = slotA /\ clickable' = clickable
    BY <1>0, <1>4 DEF TypeOK, ModelAdded
  <2> QED  BY <1>1, <2>1 DEF AdArrives, AdAsked, AdReceived, AdWaiting, AdShown,
                             AdPosted, IsAd, ImageOf
<1>5. CASE AdDownloaded(v) /\ modelThread[v] # "off"
  <2>1. queue[v] # <<>> /\ Take(v) /\ IsAd(v, 1) /\ clickable'[v] = slotA[v]
    BY <1>0, <1>5, Taken DEF TypeOK, AdDownloaded, AdImage, Handles, IsAd
  <2>2. AdPosted(v)
    BY <1>0, <2>1, TakenAd
  <2>3. adThread[v] = "done" /\ AdWaiting(v)
    BY <1>5, <2>2 DEF AdArrives, AdAsked, AdReceived, AdShown
  <2>4. ~ AdPosted(v)'
    BY <1>0, <2>1, <2>3, TakenAd DEF AdWaiting
  <2>5. AdShown(v)'
    BY <1>1, <2>1, <2>3, <2>4 DEF AdShown, AdWaiting, ImageOf
  <2> QED  BY <1>1, <2>3, <2>5 DEF AdArrives
<1>6. CASE AdHandled(v) /\ modelThread[v] # "off"
  <2>1. /\ busy[v] \in {"write_ad", "free_ad"} /\ queue' = queue
        /\ clickable' = clickable
    BY <1>6 DEF AdHandled
  <2>2. adThread[v] = "done" /\ AdShown(v)
    BY <1>6, <2>1 DEF AdArrives, AdAsked, AdReceived, AdWaiting
  <2> QED  BY <1>1, <2>1, <2>2 DEF AdArrives, AdShown, AdPosted, IsAd, ImageOf
<1> QED  BY <1>2, <1>3, <1>4, <1>5, <1>6 DEF WindowProc

LEMMA StartArrives ==
  ASSUME IInv, NEW v \in Viewers, AdArrives(v), Start(v)
  PROVE  AdArrives(v)'
<1>0. TypeOK /\ Resting(v)
  BY DEF IInv
<1>1. CASE (\E s \in Subsids : Launch(v, s)) \/ Initialize(v)
  <2>1. ArrivesSame(v)
    BY <1>1 DEF Launch, Initialize, ArrivesSame, window, slots, threads
  <2> QED  BY <2>1, ArrivesKept
<1>2. CASE Load3DScanFromUrl(v)
  <2>1. /\ queue[v] = <<>> /\ modelThread[v] = "off" /\ adThread[v] = "off"
        /\ newUrl[v] = NoUrl /\ busy[v] = "no"
        /\ newUrl' = newUrl /\ busy' = busy
    BY <1>0, <1>2 DEF Load3DScanFromUrl, Resting
  <2>2. CASE LoadFromCache(v)
    <3>1. modelThread'[v] = "off"
      BY <2>1, <2>2 DEF LoadFromCache
    <3> QED  BY <3>1 DEF AdArrives
  <2>3. CASE LoadFromServer(v)
    <3>1. queue'[v] = <<>> /\ adThread'[v] = "asking"
      BY <1>0, <2>1, <2>3 DEF TypeOK, LoadFromServer
    <3>2. AdAsked(v)'
      BY <2>1, <3>1 DEF AdAsked, AdPosted
    <3> QED  BY <3>1, <3>2 DEF AdArrives
  <2> QED  BY <1>2, <2>2, <2>3 DEF Load3DScanFromUrl
<1> QED  BY <1>1, <1>2 DEF Start

LEMMA AdsAlwaysArrive == Spec => []AdsArrive
<1>1. Init => AdsArrive
  BY DEF Init, AdsArrive, AdArrives
<1>2. ASSUME IInv, AdsArrive, [Next]_vars  PROVE  AdsArrive'
  <2>0. TypeOK
    BY <1>2 DEF IInv
  <2>1. CASE UNCHANGED vars
    <3>1. clicks' = clicks /\ \A w \in Viewers : ArrivesSame(w)
      BY <2>1 DEF vars, window, threads, slots, ArrivesSame
    <3> QED  BY <1>2, <3>1, ArrivesKept DEF AdsArrive
  <2>2. ASSUME NEW v \in Viewers, Step(v), clicks' = 0, NEW w \in Viewers
        PROVE  AdArrives(w)'
    <3>1. clicks = 0 /\ ~ ClickHistory(v)
      BY <2>0, <2>2, ClicksGrow
    <3>2. AdArrives(v) /\ AdArrives(w)
      BY <1>2, <3>1 DEF AdsArrive
    <3>3. CASE w = v
      <4>1. CASE Leave(v)
        <5>1. modelThread'[v] = "off"
          BY <2>0, <4>1 DEF TypeOK, Leave
        <5> QED  BY <3>3, <5>1 DEF AdArrives
      <4> QED  BY <1>2, <2>2, <3>1, <3>2, <3>3, <4>1, AnswerArrives,
                  WindowArrives, StartArrives DEF Step
    <3>4. CASE w # v
      <4>1. ArrivesSame(w)
        BY <2>0, <2>2, <3>4, OneViewerActs DEF Same, ArrivesSame
      <4> QED  BY <3>2, <4>1, ArrivesKept
    <3> QED  BY <3>3, <3>4
  <2> QED  BY <1>2, <2>1, <2>2 DEF AdsArrive, Next, Step
<1> QED  BY <1>1, <1>2, CacheInductive, PTL DEF Spec

\* As long as nobody clicks on the history, a viewer that asked the server for
\* its model shows and opens the advertisement AdThread received, whatever the
\* order of the two threads' answers, messages and handlers.
THEOREM DownloadedAdAlwaysOpens == Spec => [](clicks = 0 => DownloadedAdOpens)
<1>1. AdsArrive => (clicks = 0 => DownloadedAdOpens)
  <2> SUFFICES ASSUME AdsArrive, clicks = 0, NEW v \in Viewers, Settled(v),
                      modelThread[v] = "done", newUrl[v] # NoUrl
               PROVE  clickable[v] = newUrl[v] /\ adUrl[v] = newUrl[v]
    BY DEF DownloadedAdOpens
  <2>1. AdArrives(v) /\ ~ AdPosted(v)
    BY DEF AdsArrive, Settled, AdPosted
  <2>2. AdShown(v)
    BY <2>1 DEF AdArrives, Settled, AdWaiting
  <2> QED  BY <2>2 DEF AdShown, ImageOf
<1> QED  BY <1>1, AdsAlwaysArrive, PTL

-----------------------------------------------------------------------------
(* One viewer at a time: the table only grows, and has each subscription once *)

\* With nobody else writing, the place that was sought is still the end.
LEMMA WriteAppends ==
  ASSUME TypeOK, NEW v \in Viewers, mem[v] # <<>>, WriteEntry(v),
         at[v] = Len(table) + 1
  PROVE  \/ DiskFull /\ table' = table
         \/ /\ Len(table') = Len(table) + 1
            /\ DOMAIN table' = DOMAIN table \union {Len(table) + 1}
            /\ Len(table) + 1 \notin DOMAIN table
            /\ table'[Len(table) + 1] = mem[v][Len(mem[v])]
            /\ \A i \in DOMAIN table : table'[i] = table[i]
<1> DEFINE e == mem[v][Len(mem[v])]
<1>1. e \in Entry /\ table \in Seq(Entry)
  BY Sequences DEF TypeOK
<1>2. at[v] \notin DOMAIN table
  BY Sequences
<1>3. (DiskFull /\ table' = table) \/ table' = Append(table, e)
  BY <1>2 DEF WriteEntry
<1> HIDE DEF e
<1>4. CASE table' = Append(table, e)
  <2>1. /\ Len(table') = Len(table) + 1
        /\ DOMAIN table' = DOMAIN table \union {Len(table) + 1}
        /\ table'[Len(table) + 1] = e
        /\ \A i \in DOMAIN table : table'[i] = table[i]
    BY <1>1, <1>4, Appended
  <2> QED  BY <1>2, <2>1 DEF e
<1> QED  BY <1>3, <1>4

\* Which of the steps change what the table and its copy say: the copy is read
\* or given up, an entry is pushed on it, or the entry is written.
LEMMA CopyChanges ==
  ASSUME IInv, NEW v \in Viewers, Step(v)
  PROVE  \/ /\ table' = table /\ mem'[v] = table /\ handle'[v] = "shared"
            /\ busy'[v] = "no" /\ phase'[v] = "load" /\ dat /\ dat'
         \/ /\ table' = table /\ handle'[v] # "shared" /\ busy'[v] = "no"
            /\ \/ phase'[v] \notin {"load", "running"}
               \/ phase[v] = "create" /\ ~ CanCreate
               \/ phase[v] = "reopen" /\ ~ CanOpen
         \/ /\ table' = table /\ handle'[v] = handle[v] /\ dat' = dat
            /\ busy'[v] = "append" <=> busy[v] = "append"
            /\ at'[v] = at[v] /\ subsid'[v] = subsid[v]
            /\ phase[v] \in {"load", "running"} /\ phase'[v] = "running"
            /\ DOMAIN mem'[v] = DOMAIN mem[v] /\ Len(mem'[v]) = Len(mem[v])
            /\ \A i \in DOMAIN mem[v] : /\ mem'[v][i].subs = mem[v][i].subs
                                        /\ mem'[v][i].file = mem[v][i].file
         \/ /\ table' = table /\ handle'[v] = handle[v] /\ dat' = dat
            /\ busy[v] = "no" /\ busy'[v] = "append" /\ subsid'[v] = subsid[v]
            /\ phase[v] = "running" /\ phase'[v] = "running"
            /\ handle[v] = "shared" /\ ~ Holds(v, subsid[v])
            /\ at'[v] = Len(table) + 1
            /\ DOMAIN mem'[v] = DOMAIN mem[v] \union {Len(mem[v]) + 1}
            /\ Len(mem'[v]) = Len(mem[v]) + 1
            /\ \A i \in DOMAIN mem[v] : mem'[v][i] = mem[v][i]
         \/ /\ ModelAdded(v) /\ mem[v] # <<>> /\ WriteEntry(v)
            /\ busy[v] = "append" /\ busy'[v] = "no" /\ subsid' = subsid
            /\ phase' = phase /\ mem' = mem /\ handle' = handle /\ dat' = dat
<1>0. TypeOK /\ Resting(v) /\ Writing(v) /\ Slots(v)
  BY DEF IInv
<1>1. CASE \E s \in Subsids : Launch(v, s)
  BY <1>0, <1>1 DEF TypeOK, Launch, Enter, Resting, cacheVars
<1>2. CASE Initialize(v)
  <2>1. busy'[v] = "no" /\ handle[v] # "shared" /\ phase[v] # "off"
    BY <1>0, <1>2 DEF Initialize, Resting, window
  <2>2. CASE CanOpen /\ OpenDat(v) /\ Enter(v, "load")
    BY <1>0, <2>1, <2>2 DEF TypeOK, OpenDat, CanOpen, Enter
  <2>3. CASE /\ UNCHANGED cacheVars
             /\ \/ phase[v] = "probe" /\ Enter(v, "create")
                \/ phase[v] = "reopen" /\ ~ CanOpen /\ Enter(v, "load")
                \/ phase[v] = "create" /\ ~ CanCreate /\ Enter(v, "load")
    BY <1>0, <2>1, <2>3 DEF TypeOK, Enter, cacheVars
  <2>4. CASE CreateDat(v) /\ Enter(v, "close")
    BY <1>0, <2>1, <2>4 DEF TypeOK, CreateDat, SavedTable, Enter
  <2>5. CASE CloseDat(v) /\ Enter(v, "reopen")
    BY <1>0, <2>1, <2>5 DEF TypeOK, CloseDat, Enter
  <2> QED  BY <1>2, <2>2, <2>3, <2>4, <2>5 DEF Initialize
<1>3. CASE Load3DScanFromUrl(v)
  BY <1>0, <1>3 DEF TypeOK, Load3DScanFromUrl, Enter, cacheVars
<1>4. CASE Answer(v)
  BY <1>0, <1>4
     DEF TypeOK, Answer, AnswerModel, AnswerAd, PostAd, Resting, cacheVars
<1>5. CASE ModelDownloaded(v)
  <2>0. /\ phase[v] = "running" /\ phase' = phase /\ subsid' = subsid
        /\ busy[v] = "no"
    BY <1>5 DEF ModelDownloaded, Handles, Idle
  <2>1. CASE ModelToCache(v)
    <3>1. handle[v] = "shared" /\ ~ Holds(v, subsid[v]) /\ busy'[v] = "append"
      BY <1>0, <2>1 DEF TypeOK, ModelToCache, CanAddModel
    <3>2. /\ DOMAIN mem'[v] = DOMAIN mem[v] \union {Len(mem[v]) + 1}
          /\ Len(mem'[v]) = Len(mem[v]) + 1
          /\ \A i \in DOMAIN mem[v] : mem'[v][i] = mem[v][i]
          /\ at'[v] = Len(table) + 1
          /\ table' = table /\ handle' = handle /\ dat' = dat
      BY <1>0, <2>1, PushChanges
    <3> QED  BY <2>0, <3>1, <3>2
  <2>2. CASE ModelNotToCache(v)
    BY <2>0, <2>2 DEF ModelNotToCache, cacheVars
  <2> QED  BY <1>5, <2>1, <2>2 DEF ModelDownloaded
<1>6. CASE ModelAdded(v)
  BY <1>0, <1>6 DEF TypeOK, ModelAdded, Writing, WriteEntry
<1>7. CASE AdDownloaded(v)
  <2>1. /\ phase[v] = "running" /\ phase' = phase /\ subsid' = subsid
        /\ busy[v] = "no" /\ busy'[v] # "append"
        /\ table' = table /\ handle' = handle /\ dat' = dat /\ at' = at
        /\ mem' = mem
    BY <1>0, <1>7 DEF TypeOK, AdDownloaded, AdToCache, AdNotToCache, LockAd,
                      Handles, Idle, cacheVars
  <2> QED  BY <2>1
<1>8. CASE AdHandled(v)
  <2>0. /\ phase[v] = "running" /\ phase' = phase /\ subsid' = subsid
        /\ busy[v] # "append" /\ busy'[v] = "no"
    BY <1>0, <1>8 DEF TypeOK, AdHandled, Resting
  <2>1. CASE busy[v] = "write_ad" /\ WriteAd(v, subsid[v], slotA[v], adUrl[v])
    <3>1. /\ Holds(v, subsid[v]) /\ adLock[v] \in DOMAIN bundles
          /\ slotA[v] \in Contents /\ adUrl[v] \in Urls
      BY <1>0, <2>1 DEF TypeOK, Writing
    <3>2. /\ DOMAIN mem'[v] = DOMAIN mem[v] /\ Len(mem'[v]) = Len(mem[v])
          /\ \A i \in DOMAIN mem[v] : /\ mem'[v][i].subs = mem[v][i].subs
                                      /\ mem'[v][i].file = mem[v][i].file
          /\ table' = table /\ handle' = handle /\ dat' = dat /\ at' = at
      BY <1>0, <2>1, <3>1, AdChanges
    <3> QED  BY <2>0, <3>2
  <2>2. CASE UNCHANGED cacheVars
    BY <2>0, <2>2 DEF cacheVars
  <2> QED  BY <1>8, <2>1, <2>2 DEF AdHandled
<1>9. CASE ClickHistory(v)
  BY <1>9 DEF ClickHistory, Idle, cacheVars
<1>10. CASE Leave(v)
  BY <1>0, <1>10 DEF TypeOK, Leave, CleanUp, Enter
<1> QED  BY <1>1, <1>2, <1>3, <1>4, <1>5, <1>6, <1>7, <1>8, <1>9, <1>10
         DEF Step, Start, WindowProc

\* With one viewer, a step keeps every entry of the table, and appends at most
\* one whose subscription the table does not have.
LEMMA AloneTable ==
  ASSUME Alone, IInv, TableInv, NEW v \in Viewers, Step(v)
  PROVE  /\ TableInv'
         /\ \A i \in DOMAIN table : i \in DOMAIN table' /\ table'[i] = table[i]
<1>0. /\ TypeOK /\ Covered(v) /\ OneEntryEach /\ Writing(v)
      /\ \A w \in Viewers : w = v
  BY DEF Alone, IInv, TableInv
<1>1. CASE table' = table
  <2>1. OneEntryEach'
    BY <1>0, <1>1 DEF OneEntryEach
  <2>2. Covered(v)'
    <3>1. CASE /\ mem'[v] = table /\ handle'[v] = "shared" /\ busy'[v] = "no"
      BY <1>1, <3>1 DEF Covered
    <3>2. CASE handle'[v] # "shared" /\ busy'[v] = "no"
      BY <3>2 DEF Covered
    <3>3. CASE /\ handle'[v] = handle[v]
               /\ busy'[v] = "append" <=> busy[v] = "append"
               /\ at'[v] = at[v] /\ subsid'[v] = subsid[v]
               /\ DOMAIN mem'[v] = DOMAIN mem[v]
               /\ \A i \in DOMAIN mem[v] : mem'[v][i].subs = mem[v][i].subs
      <4>1. handle'[v] = "shared" =>
              \A i \in DOMAIN table' : \E j \in DOMAIN mem'[v] :
                mem'[v][j].subs = table'[i].subs
        BY <1>0, <1>1, <3>3 DEF Covered
      <4>2. busy'[v] = "append" =>
              /\ at'[v] = Len(table') + 1
              /\ \A i \in DOMAIN table' : table'[i].subs # subsid'[v]
        BY <1>0, <1>1, <3>3 DEF Covered
      <4> QED  BY <4>1, <4>2 DEF Covered
    <3>4. CASE /\ handle'[v] = handle[v] /\ subsid'[v] = subsid[v]
               /\ handle[v] = "shared" /\ ~ Holds(v, subsid[v])
               /\ at'[v] = Len(table) + 1
               /\ \A i \in DOMAIN mem[v] :
                    i \in DOMAIN mem'[v] /\ mem'[v][i] = mem[v][i]
      <4>1. \A i \in DOMAIN table : \E j \in DOMAIN mem[v] :
              mem[v][j].subs = table[i].subs
        BY <1>0, <3>4 DEF Covered
      <4>2. \A i \in DOMAIN table : table[i].subs # subsid[v]
        BY <3>4, <4>1 DEF Holds
      <4> QED  BY <1>1, <3>4, <4>1, <4>2 DEF Covered
    <3>5. CASE ModelAdded(v) /\ mem' = mem /\ handle' = handle /\ busy'[v] = "no"
      BY <1>0, <1>1, <3>5 DEF Covered
    <3> QED  BY <1>0, <3>1, <3>2, <3>3, <3>4, <3>5, CopyChanges
  <2> QED  BY <1>0, <1>1, <2>1, <2>2 DEF TableInv
<1>2. CASE table' # table
  <2>1. /\ busy[v] = "append" /\ WriteEntry(v) /\ mem[v] # <<>>
        /\ at[v] = Len(table) + 1
    BY <1>0, <1>2, TableChanges DEF Writing, Covered
  <2>2. mem' = mem /\ handle' = handle /\ busy'[v] = "no"
    BY <1>2, CopyChanges
  <2> DEFINE k == Len(table) + 1
             e == mem[v][Len(mem[v])]
  <2>3. /\ Len(mem[v]) \in DOMAIN mem[v] /\ e.subs = subsid[v]
        /\ \A i \in DOMAIN table : table[i].subs # subsid[v]
    BY <1>0, <2>1, Sequences DEF Writing, Covered
  <2>4. /\ DOMAIN table' = DOMAIN table \union {k} /\ k \notin DOMAIN table
        /\ table'[k] = e
        /\ \A i \in DOMAIN table : table'[i] = table[i]
    BY <1>0, <1>2, <2>1, WriteAppends
  <2>5. \A i \in DOMAIN table : \E j \in DOMAIN mem[v] :
          mem[v][j].subs = table[i].subs
    BY <1>0, <2>1 DEF Covered, Writing
  <2>6. \E j \in DOMAIN mem[v] : mem[v][j].subs = e.subs
    BY <2>3
  <2> HIDE DEF k, e
  <2>7. OneEntryEach'
    <3> SUFFICES ASSUME NEW i \in DOMAIN table', NEW j \in DOMAIN table',
                        table'[i].subs = table'[j].subs
                 PROVE  i = j
      BY DEF OneEntryEach
    <3> QED  BY <1>0, <2>3, <2>4 DEF OneEntryEach
  <2>8. Covered(v)'
    BY <2>2, <2>4, <2>5, <2>6 DEF Covered
  <2> QED  BY <1>0, <2>4, <2>7, <2>8 DEF TableInv
<1> QED  BY <1>1, <1>2

LEMMA AloneTableAlways == ASSUME Alone PROVE Spec => []TableInv
<1>1. Init => TableInv
  <2>1. DOMAIN <<>> = {}
    OBVIOUS
  <2> QED  BY <2>1 DEF Init, CacheInit, TableInv, OneEntryEach, Covered
<1>2. ASSUME IInv, TableInv, [Next]_vars  PROVE  TableInv'
  <2>1. CASE UNCHANGED vars
    BY <1>2, <2>1 DEF TableInv, OneEntryEach, Covered, vars, cacheVars, window
  <2> QED  BY <1>2, <2>1, AloneTable DEF Next, Step
<1> QED  BY <1>1, <1>2, CacheInductive, PTL DEF Spec

\* One viewer at a time, launched and killed any number of times and whether or
\* not writes fail, enters each subscription once: AddModelToCache searches the
\* copy, and the copy has every subscription of cache.dat.
THEOREM OneEntryEachAlways == ASSUME Alone PROVE Spec => []OneEntryEach
<1>1. TableInv => OneEntryEach
  BY DEF TableInv
<1> QED  BY <1>1, AloneTableAlways, PTL

\* With one viewer at a time WriteFile never replaces an entry: the position
\* SetFilePointer found is still the end of cache.dat.
THEOREM EntriesAlwaysKept == ASSUME Alone PROVE Spec => EntriesKept
<1>1. ASSUME IInv, TableInv, [Next]_vars
      PROVE  \A i \in DOMAIN table : i \in DOMAIN table' /\ table'[i] = table[i]
  <2>1. CASE UNCHANGED vars
    BY <2>1 DEF vars, cacheVars
  <2> QED  BY <1>1, <2>1, AloneTable DEF Next, Step
<1> QED  BY <1>1, CacheInductive, AloneTableAlways, PTL DEF Spec, EntriesKept

\* With nobody else there to keep the file, Initialize succeeds.
LEMMA AloneOpens ==
  ASSUME Alone, IInv, NEW v \in Viewers, Opened(v), Step(v)
  PROVE  /\ Opened(v)'
         /\ ~ (phase[v] = "create" /\ ~ CanCreate)
         /\ ~ (phase[v] = "reopen" /\ ~ CanOpen)
<1>0. /\ TypeOK /\ Resting(v) /\ \A w \in Viewers : w = v
      /\ phase[v] \in Phases
  BY DEF Alone, IInv, TypeOK
<1>1. phase[v] = "create" => CanCreate
  BY <1>0 DEF Opened, CanCreate
<1>2. phase[v] = "reopen" => CanOpen
  BY <1>0 DEF Opened, CanOpen
<1>3. Opened(v)'
  <2>1. CASE \E s \in Subsids : Launch(v, s)
    BY <1>0, <2>1 DEF TypeOK, Opened, Launch, Enter, cacheVars
  <2>2. CASE Initialize(v)
    <3>1. CASE /\ phase[v] \in {"probe", "reopen"} /\ CanOpen
               /\ OpenDat(v) /\ Enter(v, "load")
      BY <1>0, <3>1 DEF TypeOK, Opened, OpenDat, CanOpen, Enter
    <3>2. CASE phase[v] = "probe" /\ Enter(v, "create") /\ UNCHANGED cacheVars
      BY <1>0, <3>2 DEF TypeOK, Opened, Enter, cacheVars
    <3>3. CASE phase[v] = "create" /\ CreateDat(v) /\ Enter(v, "close")
      BY <1>0, <3>3 DEF TypeOK, Opened, CreateDat, Enter
    <3>4. CASE phase[v] = "close" /\ CloseDat(v) /\ Enter(v, "reopen")
      BY <1>0, <3>4 DEF TypeOK, Opened, CloseDat, Enter
    <3> QED  BY <1>1, <1>2, <2>2, <3>1, <3>2, <3>3, <3>4 DEF Initialize
  <2>3. CASE Load3DScanFromUrl(v)
    BY <1>0, <2>3 DEF TypeOK, Opened, Load3DScanFromUrl, Enter, cacheVars
  <2>4. CASE Answer(v)
    BY <2>4 DEF Opened, Answer, AnswerModel, AnswerAd, PostAd, cacheVars
  <2>5. CASE WindowProc(v)
    BY <2>5 DEF Opened, WindowProc, ModelDownloaded, ModelToCache,
       ModelNotToCache, PushEntry, ModelAdded, WriteEntry, AdDownloaded,
       AdToCache, AdNotToCache, LockAd, AdHandled, WriteAd, cacheVars
  <2>6. CASE ClickHistory(v)
    BY <2>6 DEF Opened, ClickHistory, cacheVars
  <2>7. CASE Leave(v)
    BY <1>0, <2>7 DEF TypeOK, Opened, Leave, CleanUp, Enter
  <2> QED  BY <2>1, <2>2, <2>3, <2>4, <2>5, <2>6, <2>7 DEF Step, Start
<1> QED  BY <1>1, <1>2, <1>3

LEMMA AloneAgrees ==
  ASSUME Alone, ~ DiskFull, IInv, TableInv, NEW v \in Viewers,
         Opened(v), Agree(v), Step(v)
  PROVE  Agree(v)'
<1>0. /\ TypeOK /\ Resting(v) /\ Writing(v) /\ Covered(v)
      /\ Len(table) \in Nat /\ DOMAIN table = 1..Len(table)
      /\ DOMAIN mem[v] = 1..Len(mem[v]) /\ Len(mem[v]) \in Nat
      /\ \A w \in Viewers : w = v
  BY Sequences DEF Alone, IInv, TableInv
<1>1. CASE table' = table /\ mem'[v] = table /\ busy'[v] = "no"
  BY <1>0, <1>1 DEF Agree, Beyond
<1>2. CASE phase'[v] \notin {"load", "running"}
  BY <1>2 DEF Agree
<1>3. CASE /\ table' = table
           /\ busy'[v] = "append" <=> busy[v] = "append"
           /\ phase[v] \in {"load", "running"}
           /\ DOMAIN mem'[v] = DOMAIN mem[v] /\ Len(mem'[v]) = Len(mem[v])
           /\ \A i \in DOMAIN mem[v] : /\ mem'[v][i].subs = mem[v][i].subs
                                       /\ mem'[v][i].file = mem[v][i].file
  <2>1. \A i \in DOMAIN table : i \in DOMAIN mem[v]
    BY <1>0, <1>3 DEF Agree, Beyond
  <2>2. Beyond(v)' = Beyond(v)
    BY <1>3 DEF Beyond
  <2> QED  BY <1>3, <2>1, <2>2 DEF Agree
<1>4. CASE /\ table' = table /\ busy[v] = "no" /\ busy'[v] = "append"
           /\ phase[v] = "running"
           /\ Len(mem'[v]) = Len(mem[v]) + 1
           /\ \A i \in DOMAIN mem[v] : mem'[v][i] = mem[v][i]
  <2>1. Len(mem[v]) = Len(table) /\ \A i \in DOMAIN table : i \in DOMAIN mem[v]
    BY <1>0, <1>4 DEF Agree, Beyond
  <2>2. Beyond(v)' = 1
    BY <1>4 DEF Beyond
  <2> QED  BY <1>0, <1>4, <2>1, <2>2 DEF Agree
<1>5. CASE /\ mem[v] # <<>> /\ WriteEntry(v) /\ mem' = mem /\ phase' = phase
           /\ busy[v] = "append" /\ busy'[v] = "no"
  <2>1. /\ Len(table') = Len(table) + 1
        /\ DOMAIN table' = DOMAIN table \union {Len(table) + 1}
        /\ table'[Len(table) + 1] = mem[v][Len(mem[v])]
        /\ \A i \in DOMAIN table : table'[i] = table[i]
    BY <1>0, <1>5, WriteAppends DEF Covered
  <2>2. phase[v] = "running"
    BY <1>0, <1>5 DEF Resting
  <2>3. Len(mem[v]) = Len(table) + 1
    BY <1>5, <2>2 DEF Agree, Beyond
  <2>4. \A i \in DOMAIN table' : /\ mem[v][i].subs = table'[i].subs
                                /\ mem[v][i].file = table'[i].file
    BY <2>1, <2>2, <2>3 DEF Agree
  <2>5. Len(mem[v]) = Len(table') + Beyond(v)'
    BY <1>0, <1>5, <2>1, <2>3 DEF Beyond
  <2> QED  BY <1>5, <2>4, <2>5 DEF Agree
<1> QED  BY <1>1, <1>2, <1>3, <1>4, <1>5, AloneOpens, CopyChanges

\* One viewer at a time, whose writes succeed, has in its copy what cache.dat
\* has, but for the urls and an entry about to be written, after every handler
\* and also after a kill: Initialize always opens the table, and
\* AddModelToCache brings both up to date.
THEOREM CopyIsAlwaysTable == ASSUME Alone, ~ DiskFull PROVE Spec => []CopyIsTable
<1>1. Init => CopyInv
  BY DEF Init, CacheInit, CopyInv, Opened, Agree
<1>2. ASSUME IInv, TableInv, CopyInv, [Next]_vars  PROVE  CopyInv'
  <2>1. CASE UNCHANGED vars
    BY <1>2, <2>1 DEF CopyInv, Opened, Agree, Beyond, vars, cacheVars, window
  <2>2. CASE Next
    <3>1. PICK v \in Viewers : Step(v)
      BY <2>2 DEF Next, Step
    <3>2. Opened(v)' /\ Agree(v)'
      BY <1>2, <3>1, AloneOpens, AloneAgrees DEF CopyInv
    <3> QED  BY <3>2 DEF Alone, CopyInv
  <2> QED  BY <1>2, <2>1, <2>2
<1>3. CopyInv => CopyIsTable
  BY DEF CopyInv, CopyIsTable, Opened, Agree
<1> QED  BY <1>1, <1>2, <1>3, CacheInductive, AloneTableAlways, PTL DEF Spec
=============================================================================
