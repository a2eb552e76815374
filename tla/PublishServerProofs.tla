------------------------- MODULE PublishServerProofs ------------------------
(***************************************************************************)
(* Theorems about PublishServer, for every value of its constants.         *)
(*                                                                         *)
(* The inductive invariant IInv joins the type invariant, the referential  *)
(* integrity of the stored data and what each position in a handler knows  *)
(* about the handler's own variables.  Most steps leave the stored data    *)
(* alone or extend it; the relation Extends captures what a handler that   *)
(* does not move may rely on.                                              *)
(***************************************************************************)
EXTENDS PublishServer, SequenceTheorems, TLAPS

GetLabels    == {"sel_subs", "sel_model", "sel_file", "sel_ad", "open_b64",
                 "open_bin", "create_b64", "fill_b64"}
FileLabels   == {"open_b64", "open_bin", "create_b64", "fill_b64"}
UploadLabels == {"create_file", "write_file", "ins_file", "ins_model",
                 "last_model", "ins_ad", "last_ad"}
SubsLabels   == {"sel_owner", "chk_model", "chk_ad", "pick_hash", "ins_subs",
                 "last_subs"}

\* The request a handler works on suits the position it is in.
RequestFits(p) ==
  /\ pc[p] = "connect" => req[p] # NoRequest
  /\ pc[p] \in GetLabels => req[p] \in GetRequest
  /\ pc[p] = "auth" => req[p] \in UploadRequest \union SubsRequest
  /\ pc[p] \in UploadLabels => req[p] \in UploadRequest /\ req[p].user \in Owners
  /\ pc[p] \in SubsLabels => req[p] \in SubsRequest
  /\ pc[p] \in SubsLabels \ {"sel_owner"} => req[p].owner \in Owners

\* What the file a handler works on is known to be.
FileFits(p) ==
  /\ pc[p] \in FileLabels \union {"write_file"} => uuid[p] \in DOMAIN disk
  /\ pc[p] \in {"ins_file", "ins_ad"} => Published(uuid[p])
  /\ pc[p] \in {"write_file", "ins_file", "ins_ad"} =>
       disk[uuid[p]].data = req[p].data

\* What the other variables of a handler are known to hold.
LocalsFit(p) ==
  /\ pc[p] = "fill_b64" => pos[p] < NChunks
  /\ pc[p] = "pick_hash" => rng[p] \in Rng
  /\ pc[p] = "ins_subs" => key[p] \in Hashes

HandlersFit == \A p \in Handlers : RequestFits(p) /\ FileFits(p) /\ LocalsFit(p)

IInv == TypeOK /\ RowsResolve /\ HandlersFit

-----------------------------------------------------------------------------
(* Sequences that grow *)

\* Appending keeps a sequence's elements and adds one position.
LEMMA AppendGrows ==
  ASSUME NEW S, NEW s \in Seq(S), NEW e \in S
  PROVE  /\ Append(s, e) \in Seq(S)
         /\ DOMAIN s = 1..Len(s)
         /\ DOMAIN Append(s, e) = 1..(Len(s) + 1)
         /\ DOMAIN Append(s, e) = DOMAIN s \union {Len(s) + 1}
         /\ Len(s) + 1 \notin DOMAIN s
         /\ Len(s) \in Nat
         /\ Append(s, e)[Len(s) + 1] = e
         /\ \A i \in DOMAIN s : Append(s, e)[i] = s[i]
<1>1. /\ Len(s) \in Nat
      /\ DOMAIN s = 1..Len(s)
  BY LenProperties
<1>2. /\ Append(s, e) \in Seq(S)
      /\ Len(Append(s, e)) = Len(s) + 1
      /\ \A i \in 1..Len(s) : Append(s, e)[i] = s[i]
      /\ Append(s, e)[Len(s) + 1] = e
  BY AppendProperties
<1>3. DOMAIN Append(s, e) = 1..(Len(s) + 1)
  BY <1>2, LenProperties
<1>4. QED
  BY <1>1, <1>2, <1>3

\* Changing one element of a sequence changes no other.
LEMMA ExceptOthers ==
  ASSUME NEW S, NEW s \in Seq(S), NEW i \in DOMAIN s, NEW e
  PROVE  /\ DOMAIN [s EXCEPT ![i] = e] = DOMAIN s
         /\ [s EXCEPT ![i] = e][i] = e
         /\ \A j \in DOMAIN s : j # i => [s EXCEPT ![i] = e][j] = s[j]
  OBVIOUS

\* Changing one element keeps a sequence's positions.
LEMMA ExceptKeeps ==
  ASSUME NEW S, NEW s \in Seq(S), NEW i \in DOMAIN s, NEW e \in S
  PROVE  /\ [s EXCEPT ![i] = e] \in Seq(S)
         /\ DOMAIN [s EXCEPT ![i] = e] = DOMAIN s
         /\ [s EXCEPT ![i] = e][i] = e
         /\ \A j \in DOMAIN s : j # i => [s EXCEPT ![i] = e][j] = s[j]
<1>1. DOMAIN s = 1..Len(s)
  BY LenProperties
<1>2. QED
  BY <1>1, ExceptSeq

-----------------------------------------------------------------------------
(* The type invariant *)

\* The elements of the stored data have their types.
LEMMA StoredTypes ==
  ASSUME TypeOK
  PROVE  /\ \A i \in DOMAIN files : files[i] \in Nat
         /\ \A i \in DOMAIN models : models[i] \in Nat
         /\ \A i \in DOMAIN ads : ads[i] \in Ad
         /\ \A i \in DOMAIN subs : subs[i] \in Subs
         /\ \A i \in DOMAIN disk : disk[i] \in File
<1>1. /\ files \in Seq(Nat) /\ models \in Seq(Nat)
      /\ ads \in Seq(Ad) /\ subs \in Seq(Subs) /\ disk \in Seq(File)
  BY DEF TypeOK
<1>2. \A S : \A s \in Seq(S) : \A i \in DOMAIN s : s[i] \in S
  BY LenProperties, ElementOfSeq
<1>3. QED
  BY <1>1, <1>2

\* Opaque views of a step of the handlers: positions and answers keep their
\* types whatever label or code they are given.
LEMMA GoTypes ==
  ASSUME TypeOK, NEW p \in Handlers, NEW l \in Labels, Go(p, l)
  PROVE  pc' \in [Handlers -> Labels]
  BY DEF TypeOK, Go

LEMMA FinishTypes ==
  ASSUME TypeOK, NEW p \in Handlers, NEW c \in Codes, Finish(p, c)
  PROVE  pc' \in [Handlers -> Labels] /\ code' \in [Handlers -> Codes]
  BY GoTypes DEF TypeOK, Finish, Labels, Go

LEMMA RaiseTypes ==
  ASSUME TypeOK, NEW p \in Handlers, Raise(p)
  PROVE  /\ pc' \in [Handlers -> Labels]
         /\ code' \in [Handlers -> Codes]
         /\ leaked' \in Nat
  BY FinishTypes DEF TypeOK, Raise, Codes

LEMMA InitTypes == Init => TypeOK
  BY ServerAssumption DEF Init, TypeOK, Labels, Codes, Body, NoBody, Chunks, NoId, Request

\* The steps of the process and those every method shares.
LEMMA SharedTypes ==
  ASSUME IInv, NEW p \in Handlers,
         Arrive(p) \/ Connect(p) \/ Throw(p) \/ Reply(p) \/ ReplyThrows(p)
  PROVE  TypeOK'
<1> USE DEF IInv, stored, tables, locals
<1>1. CASE ArriveGet(p)
  BY <1>1, GoTypes DEF ArriveGet, TypeOK, Request, Labels
<1>2. CASE ArrivePost(p)
  <2>1. PICK r \in UploadRequest \union SubsRequest : req' = [req EXCEPT ![p] = r]
    BY <1>2 DEF ArrivePost
  <2>2. req' \in [Handlers -> Request]
    BY <2>1 DEF TypeOK, Request
  <2>3. pc' \in [Handlers -> Labels]
    BY <1>2, GoTypes DEF ArrivePost, Labels
  <2>4. UNCHANGED <<server, crashes, files, models, ads, subs, disk, leaked, row,
                    lastId, uuid, rng, key, pos, code, got>>
    BY <1>2 DEF ArrivePost
  <2> QED  BY <2>2, <2>3, <2>4 DEF TypeOK
<1>3. CASE Reject(p)
  BY <1>3, FinishTypes DEF Reject, TypeOK, Codes
<1>4. CASE Connect(p)
  BY <1>4, GoTypes, FinishTypes DEF Connect, TypeOK, Codes, Labels, FirstStep
<1>5. CASE Throw(p)
  BY <1>5, RaiseTypes DEF Throw, TypeOK
<1>6. CASE Reply(p)
  BY <1>6, GoTypes, ServerAssumption
     DEF Reply, TypeOK, Labels, Codes, Body, NoBody, NoId, Request
<1>7. CASE ReplyThrows(p)
  BY <1>7, FinishTypes DEF ReplyThrows, TypeOK, Codes, Body, NoBody
<1>8. QED
  BY <1>1, <1>2, <1>3, <1>4, <1>5, <1>6, <1>7 DEF Arrive

LEMMA GetTypes ==
  ASSUME IInv, NEW p \in Handlers, Get(p)
  PROVE  TypeOK'
<1> USE DEF IInv, stored, tables, locals
<1>1. CASE SelectSubs(p)
  <2>1. \A i \in DOMAIN subs : subs[i].ad \in Int /\ subs[i].model \in Int
    BY StoredTypes DEF Subs
  <2>2. QED
    BY <1>1, <2>1, GoTypes, FinishTypes
       DEF SelectSubs, RowsOf, TypeOK, Codes, Labels
<1>2. CASE SelectModel(p)
  <2>1. \A i \in DOMAIN models : models[i] \in Int
    BY StoredTypes
  <2>2. QED
    BY <1>2, <2>1, GoTypes, FinishTypes DEF SelectModel, TypeOK, Codes, Labels
<1>3. CASE SelectFile(p)
  <2>1. \A i \in DOMAIN files : files[i] \in Nat
    BY StoredTypes
  <2>2. QED
    BY <1>3, <2>1, GoTypes, FinishTypes DEF SelectFile, TypeOK, Codes, Labels
<1>4. CASE SelectAd(p)
  <2>1. \A i \in DOMAIN ads : ads[i].uuid \in Nat
    BY StoredTypes DEF Ad
  <2>2. QED
    BY <1>4, <2>1, GoTypes, FinishTypes DEF SelectAd, TypeOK, Codes, Labels
<1>5. CASE ReadCompanion(p)
  <2>1. disk[uuid[p]].have \in SUBSET Chunks
    BY <1>5, StoredTypes
       DEF File, ReadCompanion, HandlersFit, FileFits, FileLabels
  <2>2. QED
    BY <1>5, <2>1, FinishTypes DEF ReadCompanion, TypeOK, Codes, Body
<1>6. CASE MissCompanion(p)
  BY <1>6, GoTypes DEF MissCompanion, TypeOK, Labels
<1>7. CASE OpenBinary(p)
  BY <1>7, GoTypes, FinishTypes DEF OpenBinary, TypeOK, Codes, Labels
<1>8. CASE CreateCompanion(p)
  <2>1. disk' \in Seq(File)
    <3>1. uuid[p] \in DOMAIN disk /\ disk \in Seq(File)
      BY <1>8 DEF TypeOK, CreateCompanion, HandlersFit, FileFits, FileLabels
    <3>2. [disk[uuid[p]] EXCEPT !.b64 = TRUE, !.have = {}] \in File
      BY <3>1, StoredTypes DEF File
    <3>3. disk' = [disk EXCEPT ![uuid[p]] =
                     [disk[uuid[p]] EXCEPT !.b64 = TRUE, !.have = {}]]
      BY <1>8, <3>1, Zenon DEF CreateCompanion
    <3>4. QED
      BY <3>1, <3>2, <3>3, ExceptKeeps
  <2>2. pc' \in [Handlers -> Labels]
    BY <1>8, GoTypes DEF CreateCompanion, Labels
  <2>3. pos' \in [Handlers -> 0..NChunks]
    BY <1>8, ServerAssumption DEF CreateCompanion, TypeOK
  <2>4. QED
    BY <1>8, <2>1, <2>2, <2>3 DEF CreateCompanion, TypeOK
<1>9. CASE FillCompanion(p)
  <2>1. pos[p] \in 0..NChunks /\ pos[p] < NChunks
    BY <1>9 DEF FillCompanion, TypeOK, HandlersFit, LocalsFit
  <2>2. disk' \in Seq(File)
    <3>1. uuid[p] \in DOMAIN disk /\ disk \in Seq(File)
      BY <1>9 DEF TypeOK, FillCompanion, HandlersFit, FileFits, FileLabels
    <3> DEFINE f == [disk[uuid[p]] EXCEPT !.have = @ \union {pos[p] + 1}]
    <3>2. f \in File
      <4>1. disk[uuid[p]] \in File
        BY <3>1, StoredTypes
      <4>2. pos[p] + 1 \in Chunks
        BY <2>1, ServerAssumption DEF Chunks
      <4>3. QED
        BY <4>1, <4>2 DEF File
    <3>3. disk' = disk \/ disk' = [disk EXCEPT ![uuid[p]] = f]
      BY <1>9 DEF FillCompanion
    <3>4. QED
      BY <3>1, <3>2, <3>3, ExceptKeeps
  <2>3. pos' \in [Handlers -> 0..NChunks]
    BY <1>9, <2>1, ServerAssumption DEF FillCompanion, TypeOK
  <2>4. /\ pc' \in [Handlers -> Labels]
        /\ code' \in [Handlers -> Codes]
        /\ got' \in [Handlers -> Body]
    <3>1. CASE LastChunk(p)
      <4>1. Finish(p, "OK") /\ got' = [got EXCEPT ![p] = Whole]
        BY <1>9, <3>1, Zenon DEF FillCompanion
      <4>2. QED
        BY <4>1, FinishTypes DEF TypeOK, Codes, Body, Whole
    <3>2. CASE ~ LastChunk(p)
      BY <1>9, <3>2 DEF FillCompanion, TypeOK
    <3>3. QED
      BY <3>1, <3>2
  <2>5. QED
    BY <1>9, <2>2, <2>3, <2>4 DEF FillCompanion, TypeOK
<1>10. QED
  BY <1>1, <1>2, <1>3, <1>4, <1>5, <1>6, <1>7, <1>8, <1>9 DEF Get

LEMMA UploadTypes ==
  ASSUME IInv, NEW p \in Handlers, Upload(p)
  PROVE  TypeOK'
<1> USE DEF IInv, stored, tables, locals
<1>1. CASE Authenticate(p)
  BY <1>1, GoTypes, FinishTypes
     DEF Authenticate, TypeOK, Codes, Labels, AfterAuth
<1>2. CASE CreateFile(p)
  <2>1. disk' \in Seq(File)
    <3>1. req[p].data \in Data
      BY <1>2 DEF CreateFile, HandlersFit, RequestFits, UploadLabels, UploadRequest
    <3>2. [data |-> req[p].data, bin |-> "open", b64 |-> FALSE, have |-> {}]
             \in File
      BY <3>1 DEF File
    <3>3. QED
      BY <1>2, <3>2, AppendGrows DEF CreateFile, TypeOK
  <2>2. NewUuid \in Nat
    BY LenProperties DEF NewUuid, TypeOK
  <2>3. QED
    BY <1>2, <2>1, <2>2, GoTypes DEF CreateFile, TypeOK, Labels
<1>3. CASE WriteFile(p)
  <2>1. PICK b \in {"whole", "short"} : disk' = [disk EXCEPT ![uuid[p]].bin = b]
    BY <1>3 DEF WriteFile
  <2>2. uuid[p] \in DOMAIN disk /\ disk \in Seq(File)
    BY <1>3 DEF TypeOK, WriteFile, HandlersFit, FileFits
  <2>3. [disk[uuid[p]] EXCEPT !.bin = b] \in File
    BY <2>2, StoredTypes DEF File
  <2>4. disk' = [disk EXCEPT ![uuid[p]] = [disk[uuid[p]] EXCEPT !.bin = b]]
    BY <2>1
  <2>5. disk' \in Seq(File)
    BY <2>2, <2>3, <2>4, ExceptKeeps
  <2>6. QED
    BY <1>3, <2>5, GoTypes DEF WriteFile, TypeOK, Labels, AfterWrite
<1>4. CASE InsertFile(p)
  <2>1. uuid[p] \in Nat
    BY <1>4, LenProperties
       DEF InsertFile, TypeOK, HandlersFit, FileFits, Published
  <2>2. files' \in Seq(Nat) /\ Len(files) + 1 \in Nat
    BY <1>4, <2>1, AppendGrows DEF InsertFile, TypeOK
  <2>3. QED
    BY <1>4, <2>2, GoTypes DEF InsertFile, TypeOK, Labels
<1>5. CASE InsertModel(p)
  <2>1. CASE LastInsertId(p) \in DOMAIN files
    <3>1. LastInsertId(p) \in Nat
      BY <2>1, LenProperties DEF TypeOK
    <3>2. models' \in Seq(Nat) /\ Len(models) + 1 \in Nat
      <4>1. models \in Seq(Nat) /\ models' = Append(models, LastInsertId(p))
        BY <1>5, <2>1 DEF InsertModel, TypeOK
      <4>2. QED
        BY <4>1, <3>1, AppendGrows
    <3>3. QED
      BY <1>5, <2>1, <3>2, GoTypes DEF InsertModel, TypeOK, Labels
  <2>2. CASE LastInsertId(p) \notin DOMAIN files
    BY <1>5, <2>2, RaiseTypes DEF InsertModel, TypeOK
  <2>3. QED
    BY <2>1, <2>2
<1>6. CASE AnswerModelId(p)
  BY <1>6, FinishTypes DEF AnswerModelId, LastInsertId, TypeOK, Codes, NoId
<1>7. CASE InsertAd(p)
  <2>1. [owner |-> req[p].user, uuid |-> uuid[p], url |-> req[p].data] \in Ad
    <3>1. req[p].user \in Owners /\ req[p].data \in Data
      BY <1>7 DEF InsertAd, HandlersFit, RequestFits, UploadLabels, UploadRequest
    <3>2. uuid[p] \in Nat
      BY <1>7, LenProperties
         DEF InsertAd, TypeOK, HandlersFit, FileFits, Published
    <3>3. QED
      BY <3>1, <3>2 DEF Ad
  <2>2. ads' \in Seq(Ad) /\ Len(ads) + 1 \in Nat
    BY <1>7, <2>1, AppendGrows DEF InsertAd, TypeOK
  <2>3. QED
    BY <1>7, <2>2, GoTypes DEF InsertAd, TypeOK, Labels
<1>8. CASE AnswerAdId(p)
  BY <1>8, FinishTypes DEF AnswerAdId, LastInsertId, TypeOK, Codes, NoId
<1>9. QED
  BY <1>1, <1>2, <1>3, <1>4, <1>5, <1>6, <1>7, <1>8 DEF Upload

LEMMA SubsTypes ==
  ASSUME IInv, NEW p \in Handlers, CreateSubs(p)
  PROVE  TypeOK'
<1> USE DEF IInv, stored, tables, locals
<1>1. CASE SelectOwner(p)
  BY <1>1, GoTypes, FinishTypes DEF SelectOwner, TypeOK, Codes, Labels
<1>2. CASE CheckModel(p)
  <2>1. req[p].model_id \in Int
    BY <1>2, ServerAssumption
       DEF CheckModel, HandlersFit, RequestFits, SubsLabels, SubsRequest
  <2>2. QED
    BY <1>2, <2>1, GoTypes DEF CheckModel, TypeOK, Codes, Labels
<1>3. CASE CheckAd(p)
  <2>1. rng' \in [Handlers -> Rng \union {NoRng}]
    BY <1>3, ServerAssumption DEF CheckAd, TypeOK
  <2>2. pc' \in [Handlers -> Labels] /\ code' \in [Handlers -> Codes]
    BY <1>3, GoTypes DEF CheckAd, TypeOK, Codes, Labels
  <2>3. QED
    BY <1>3, <2>1, <2>2 DEF CheckAd, TypeOK
<1>4. CASE PickHash(p)
  <2>1. /\ RandHash[rng[p]] \in Hashes
        /\ RandNext[rng[p]] \in Rng
    BY <1>4, ServerAssumption DEF PickHash, HandlersFit, LocalsFit
  <2>2. QED
    BY <1>4, <2>1, GoTypes DEF PickHash, NextDraw, TypeOK, Labels
<1>5. CASE InsertSubs(p)
  <2>1. CASE KeyIsFree(p) /\ ForeignKeysResolve(p)
    <3>1. [owner |-> req[p].owner, hash |-> key[p], model |-> req[p].model_id,
           ad |-> req[p].ad_id] \in Subs
      <4>1. /\ req[p].owner \in Owners
            /\ req[p].model_id \in Int /\ req[p].ad_id \in Int
        BY <1>5, ServerAssumption
           DEF InsertSubs, HandlersFit, RequestFits, SubsLabels, SubsRequest
      <4>2. key[p] \in Hashes
        BY <1>5 DEF InsertSubs, HandlersFit, LocalsFit
      <4>3. QED
        BY <4>1, <4>2 DEF Subs
    <3>2. subs' \in Seq(Subs) /\ Len(subs) + 1 \in Nat
      <4>1. /\ subs \in Seq(Subs)
            /\ subs' = Append(subs, [owner |-> req[p].owner, hash |-> key[p],
                                     model |-> req[p].model_id,
                                     ad |-> req[p].ad_id])
        BY <1>5, <2>1 DEF InsertSubs, TypeOK
      <4>2. QED
        BY <4>1, <3>1, AppendGrows
    <3>3. QED
      BY <1>5, <2>1, <3>2, GoTypes DEF InsertSubs, TypeOK, Labels
  <2>2. CASE ~ (KeyIsFree(p) /\ ForeignKeysResolve(p))
    BY <1>5, <2>2, RaiseTypes DEF InsertSubs, TypeOK
  <2>3. QED
    BY <2>1, <2>2
<1>6. CASE AnswerSubsId(p)
  BY <1>6, FinishTypes DEF AnswerSubsId, TypeOK, Codes
<1>7. QED
  BY <1>1, <1>2, <1>3, <1>4, <1>5, <1>6 DEF CreateSubs

\* Every step keeps the types.
LEMMA TypeStep == IInv /\ [Next]_vars => TypeOK'
<1> SUFFICES ASSUME IInv, [Next]_vars PROVE TypeOK'
  OBVIOUS
<1>1. CASE Start \/ Stop \/ Close
  BY <1>1 DEF Start, Stop, Close, IInv, TypeOK, stored, tables, locals
<1>2. CASE Crash
  BY <1>2, ServerAssumption
     DEF Crash, IInv, TypeOK, stored, tables, Labels, Codes, Body, NoBody, NoId,
         Request
<1>3. CASE \E p \in Handlers : Arrive(p) \/ Handle(p)
  BY <1>3, SharedTypes, GetTypes, UploadTypes, SubsTypes DEF Handle, Work
<1>4. CASE UNCHANGED vars
  BY <1>4 DEF IInv, TypeOK, vars, stored, tables, locals
<1>5. QED
  BY <1>1, <1>2, <1>3, <1>4 DEF Next

-----------------------------------------------------------------------------
(* What is stored is only ever extended *)

\* Rows stay as they are; a file keeps its contents and stays published.
Extends ==
  /\ \A i \in DOMAIN files : i \in DOMAIN files' /\ files'[i] = files[i]
  /\ \A i \in DOMAIN models : i \in DOMAIN models' /\ models'[i] = models[i]
  /\ \A i \in DOMAIN ads : i \in DOMAIN ads' /\ ads'[i] = ads[i]
  /\ \A i \in DOMAIN subs : i \in DOMAIN subs' /\ subs'[i] = subs[i]
  /\ \A u \in DOMAIN disk : u \in DOMAIN disk' /\ disk'[u].data = disk[u].data
  /\ \A u \in DOMAIN disk : Published(u) => Published(u)'

DiskStep(p) == CreateCompanion(p) \/ FillCompanion(p) \/ CreateFile(p) \/ WriteFile(p)
RowStep(p)  == InsertFile(p) \/ InsertModel(p) \/ InsertAd(p) \/ InsertSubs(p)

LEMMA StoredSame ==
  ASSUME UNCHANGED stored
  PROVE  Extends
  BY DEF stored, tables, Extends, Published

\* The file steps and what each leaves on the disk.
LEMMA DiskExtends ==
  ASSUME IInv, NEW p \in Handlers, DiskStep(p)
  PROVE  Extends /\ UNCHANGED tables
<1>1. disk \in Seq(File)
  BY DEF IInv, TypeOK
<1>2. CASE CreateFile(p)
  <2>1. disk' = Append(disk, [data |-> req[p].data, bin |-> "open",
                              b64 |-> FALSE, have |-> {}])
        /\ UNCHANGED tables
    BY <1>2 DEF CreateFile
  <2>2. req[p].data \in Data
    BY <1>2 DEF IInv, CreateFile, HandlersFit, RequestFits, UploadLabels,
                UploadRequest
  <2>3. [data |-> req[p].data, bin |-> "open", b64 |-> FALSE, have |-> {}] \in File
    BY <2>2 DEF File
  <2>4. \A u \in DOMAIN disk : u \in DOMAIN disk' /\ disk'[u] = disk[u]
    BY <1>1, <2>1, <2>3, AppendGrows
  <2>5. QED
    BY <2>1, <2>4 DEF tables, Extends, Published
<1>3. CASE CreateCompanion(p) \/ FillCompanion(p) \/ WriteFile(p)
  <2>1. UNCHANGED tables
    BY <1>3 DEF CreateCompanion, FillCompanion, WriteFile
  <2>2. /\ DOMAIN disk' = DOMAIN disk
        /\ \A v \in DOMAIN disk :
             /\ disk'[v].data = disk[v].data
             /\ \/ disk'[v].bin = disk[v].bin
                \/ disk'[v].bin = "whole"
                \/ disk'[v].bin = "short" /\ DiskFull
    <3>1. \A v \in DOMAIN disk : disk[v] \in File
      BY StoredTypes DEF IInv
    <3> DEFINE u == uuid[p]
               Kept(f) == /\ f.data = disk[u].data
                          /\ \/ f.bin = disk[u].bin
                             \/ f.bin = "whole"
                             \/ f.bin = "short" /\ DiskFull
    <3>2. u \in DOMAIN disk
      BY <1>3 DEF IInv, CreateCompanion, FillCompanion, WriteFile, HandlersFit,
                  FileFits, FileLabels
    <3>3. ASSUME NEW f, Kept(f), disk' = [disk EXCEPT ![u] = f]
          PROVE  /\ DOMAIN disk' = DOMAIN disk
                 /\ \A v \in DOMAIN disk :
                      /\ disk'[v].data = disk[v].data
                      /\ \/ disk'[v].bin = disk[v].bin
                         \/ disk'[v].bin = "whole"
                         \/ disk'[v].bin = "short" /\ DiskFull
      <4>1. /\ DOMAIN disk' = DOMAIN disk
            /\ disk'[u] = f
            /\ \A v \in DOMAIN disk : v # u => disk'[v] = disk[v]
        BY <1>1, <3>2, <3>3, ExceptOthers
      <4>2. QED
        BY <3>3, <4>1
    <3>4. CASE CreateCompanion(p)
      <4> DEFINE f == [disk[u] EXCEPT !.b64 = TRUE, !.have = {}]
      <4>1. disk' = [disk EXCEPT ![u] = f]
        BY <3>4, Zenon DEF CreateCompanion
      <4>2. Kept(f)
        BY <3>1, <3>2 DEF File
      <4> HIDE DEF f, Kept
      <4>3. QED
        BY <3>3, <4>1, <4>2
    <3>5. CASE FillCompanion(p)
      <4> DEFINE f == [disk[u] EXCEPT !.have = @ \union {pos[p] + 1}]
      <4>1. disk' = disk \/ disk' = [disk EXCEPT ![u] = f]
        BY <3>5 DEF FillCompanion
      <4>2. Kept(f)
        BY <3>1, <3>2 DEF File
      <4> HIDE DEF f, Kept
      <4>3. QED
        BY <3>3, <4>1, <4>2
    <3>6. CASE WriteFile(p)
      <4>1. PICK b \in {"whole"} \union (IF DiskFull THEN {"short"} ELSE {}) :
              disk' = [disk EXCEPT ![u].bin = b]
        BY <3>6 DEF WriteFile
      <4> DEFINE f == [disk[u] EXCEPT !.bin = b]
      <4>2. disk' = [disk EXCEPT ![u] = f]
        BY <4>1
      <4>3. Kept(f)
        BY <3>1, <3>2, <4>1 DEF File
      <4> HIDE DEF f, Kept
      <4>4. QED
        BY <3>3, <4>2, <4>3
    <3>7. QED
      BY <1>3, <3>4, <3>5, <3>6
  <2>3. QED
    BY <2>1, <2>2 DEF tables, Extends, Published
<1>4. QED
  BY <1>2, <1>3 DEF DiskStep

\* An INSERT adds a row at the end of one table or fails.
LEMMA RowExtends ==
  ASSUME IInv, NEW p \in Handlers, RowStep(p)
  PROVE  Extends /\ disk' = disk
<1>0. \A S, e : \A s \in Seq(S) :
        \A i \in DOMAIN s : i \in DOMAIN Append(s, e) /\ Append(s, e)[i] = s[i]
  BY LenProperties
<1>1. /\ files \in Seq(Nat) /\ models \in Seq(Nat)
      /\ ads \in Seq(Ad) /\ subs \in Seq(Subs)
  BY DEF IInv, TypeOK
<1>2. CASE InsertFile(p)
  BY <1>0, <1>1, <1>2 DEF InsertFile, Extends, Published
<1>3. CASE InsertModel(p)
  <2>1. models' = models \/ models' = Append(models, LastInsertId(p))
    BY <1>3 DEF InsertModel
  <2>2. \A i \in DOMAIN models : i \in DOMAIN models' /\ models'[i] = models[i]
    <3>1. CASE models' = models
      BY <3>1
    <3>2. CASE \E e : models' = Append(models, e)
      BY <1>0, <1>1, <3>2
    <3>3. QED
      BY <2>1, <3>1, <3>2
  <2>3. UNCHANGED <<files, ads, subs, disk>>
    BY <1>3 DEF InsertModel
  <2>4. QED
    BY <2>2, <2>3 DEF Extends, Published
<1>4. CASE InsertAd(p)
  BY <1>0, <1>1, <1>4 DEF InsertAd, Extends, Published
<1>5. CASE InsertSubs(p)
  <2>1. subs' = subs \/ \E e : subs' = Append(subs, e)
    BY <1>5 DEF InsertSubs
  <2>2. \A i \in DOMAIN subs : i \in DOMAIN subs' /\ subs'[i] = subs[i]
    <3>1. CASE subs' = subs
      BY <3>1
    <3>2. CASE \E e : subs' = Append(subs, e)
      BY <1>0, <1>1, <3>2
    <3>3. QED
      BY <2>1, <3>1, <3>2
  <2>3. UNCHANGED <<files, models, ads, disk>>
    BY <1>5 DEF InsertSubs
  <2>4. QED
    BY <2>2, <2>3 DEF Extends, Published
<1>6. QED
  BY <1>2, <1>3, <1>4, <1>5 DEF RowStep

\* Every other step leaves the stored data alone.
LEMMA OtherSteps ==
  ASSUME [Next]_vars, \A p \in Handlers : ~ DiskStep(p) /\ ~ RowStep(p)
  PROVE  UNCHANGED stored
<1>1. CASE Start \/ Stop \/ Close \/ Crash
  BY <1>1 DEF Start, Stop, Close, Crash
<1>2. ASSUME NEW p \in Handlers, Arrive(p) \/ Handle(p)
      PROVE  UNCHANGED stored
  <2>1. CASE Arrive(p)
    BY <2>1 DEF Arrive, ArriveGet, ArrivePost, Reject
  <2>2. CASE Connect(p) \/ Throw(p) \/ Reply(p) \/ ReplyThrows(p)
    BY <2>2 DEF Connect, Throw, Reply, ReplyThrows
  <2>3. CASE Get(p)
    BY <2>3 DEF Get, DiskStep, SelectSubs, SelectModel, SelectFile, SelectAd,
                ReadCompanion, MissCompanion, OpenBinary
  <2>4. CASE Upload(p)
    BY <2>4 DEF Upload, DiskStep, RowStep, Authenticate, AnswerModelId, AnswerAdId
  <2>5. CASE CreateSubs(p)
    BY <2>5 DEF CreateSubs, RowStep, SelectOwner, CheckModel, CheckAd, PickHash,
                AnswerSubsId
  <2>6. QED
    BY <1>2, <2>1, <2>2, <2>3, <2>4, <2>5 DEF Handle, Work
<1>3. CASE UNCHANGED vars
  BY <1>3 DEF vars
<1>4. QED
  BY <1>1, <1>2, <1>3 DEF Next

LEMMA StepExtends == IInv /\ [Next]_vars => Extends
  BY StoredSame, DiskExtends, RowExtends, OtherSteps

-----------------------------------------------------------------------------
(* Referential integrity *)

LEMMA InitRows == Init => RowsResolve
  BY DEF Init, RowsResolve, FilesOnDisk, ModelsFiled, AdsOnDisk, SubsResolve

\* No row is lost and no file withdrawn, so rows keep resolving.
LEMMA RowsKept ==
  ASSUME RowsResolve, Extends, UNCHANGED tables
  PROVE  RowsResolve'
<1>1. FilesOnDisk'
  BY DEF RowsResolve, FilesOnDisk, Extends, Published, tables
<1>2. ModelsFiled'
  BY DEF RowsResolve, ModelsFiled, tables
<1>3. AdsOnDisk'
  <2>1. UNCHANGED ads
    BY DEF tables
  <2>2. \A i \in DOMAIN ads : /\ Published(ads[i].uuid)
                              /\ ads[i].uuid \in DOMAIN disk
                              /\ disk[ads[i].uuid].data = ads[i].url
    BY DEF RowsResolve, AdsOnDisk, Published
  <2>3. \A u \in DOMAIN disk : /\ Published(u) => Published(u)'
                               /\ disk'[u].data = disk[u].data
    BY DEF Extends
  <2>4. \A i \in DOMAIN ads : /\ Published(ads[i].uuid)'
                              /\ disk'[ads[i].uuid].data = ads[i].url
    BY <2>1, <2>2, <2>3 DEF Published
  <2>5. QED
    BY <2>1, <2>4 DEF AdsOnDisk
<1>4. SubsResolve'
  BY DEF RowsResolve, SubsResolve, tables
<1>5. QED
  BY <1>1, <1>2, <1>3, <1>4 DEF RowsResolve

\* An INSERT adds a row that resolves: the file was closed before, the foreign
\* keys were checked.
LEMMA RowsAdded ==
  ASSUME IInv, NEW p \in Handlers, RowStep(p)
  PROVE  RowsResolve'
<1>1. disk' = disk /\ RowsResolve
  BY RowExtends DEF IInv
<1>2. /\ files \in Seq(Nat) /\ models \in Seq(Nat)
      /\ ads \in Seq(Ad) /\ subs \in Seq(Subs)
  BY DEF IInv, TypeOK
<1>3. \A u \in DOMAIN disk : Published(u)' = Published(u)
  BY <1>1 DEF Published
<1>4. CASE InsertFile(p)
  <2>1. Published(uuid[p]) /\ uuid[p] \in Nat
    BY <1>4, LenProperties
       DEF IInv, TypeOK, InsertFile, HandlersFit, FileFits, Published
  <2>2. files' = Append(files, uuid[p]) /\ UNCHANGED <<models, ads, subs>>
    BY <1>4 DEF InsertFile
  <2>3. /\ DOMAIN files' = DOMAIN files \union {Len(files) + 1}
        /\ \A i \in DOMAIN files' : files'[i] = uuid[p] \/ \E j \in DOMAIN files :
                                       files'[i] = files[j]
    BY <1>2, <2>1, <2>2, AppendGrows
  <2>4. QED
    BY <1>1, <2>1, <2>2, <2>3
       DEF RowsResolve, FilesOnDisk, ModelsFiled, AdsOnDisk, SubsResolve, Published
<1>5. CASE InsertModel(p)
  <2>1. CASE LastInsertId(p) \in DOMAIN files
    <3>1. LastInsertId(p) \in Nat
      BY <1>2, <2>1, LenProperties
    <3>2. /\ models' = Append(models, LastInsertId(p))
          /\ UNCHANGED <<files, ads, subs>>
      BY <1>5, <2>1 DEF InsertModel
    <3>3. /\ DOMAIN models' = DOMAIN models \union {Len(models) + 1}
          /\ \A i \in DOMAIN models' : models'[i] \in DOMAIN files
      BY <1>1, <1>2, <2>1, <3>1, <3>2, AppendGrows DEF RowsResolve, ModelsFiled
    <3>4. QED
      BY <1>1, <3>2, <3>3
         DEF RowsResolve, FilesOnDisk, ModelsFiled, AdsOnDisk, SubsResolve, Published
  <2>2. CASE LastInsertId(p) \notin DOMAIN files
    <3>1. UNCHANGED tables
      BY <1>5, <2>2 DEF InsertModel, tables
    <3>2. QED
      BY <1>1, <3>1, RowExtends, RowsKept
  <2>3. QED
    BY <2>1, <2>2
<1>6. CASE InsertAd(p)
  <2> DEFINE ad == [owner |-> req[p].user, uuid |-> uuid[p], url |-> req[p].data]
  <2>1. /\ Published(uuid[p])
        /\ uuid[p] \in Nat
        /\ disk[uuid[p]].data = req[p].data
        /\ req[p].user \in Owners /\ req[p].data \in Data
    BY <1>6, LenProperties
       DEF IInv, TypeOK, InsertAd, HandlersFit, FileFits, Published, RequestFits,
           UploadLabels, UploadRequest
  <2>2. ad \in Ad /\ Published(ad.uuid) /\ disk[ad.uuid].data = ad.url
    BY <2>1 DEF Ad
  <2>3. ads' = Append(ads, ad) /\ UNCHANGED <<files, models, subs>>
    BY <1>6 DEF InsertAd
  <2> HIDE DEF ad
  <2>4. /\ DOMAIN ads' = DOMAIN ads \union {Len(ads) + 1}
        /\ \A i \in DOMAIN ads' : /\ Published(ads'[i].uuid)
                                  /\ disk[ads'[i].uuid].data = ads'[i].url
    BY <1>1, <1>2, <2>2, <2>3, AppendGrows DEF RowsResolve, AdsOnDisk
  <2>5. QED
    BY <1>1, <2>3, <2>4
       DEF RowsResolve, FilesOnDisk, ModelsFiled, AdsOnDisk, SubsResolve, Published
<1>7. CASE InsertSubs(p)
  <2> DEFINE sub == [owner |-> req[p].owner, hash |-> key[p],
                     model |-> req[p].model_id, ad |-> req[p].ad_id]
  <2>1. CASE subs' = subs
    <3>1. UNCHANGED tables
      BY <1>7, <2>1 DEF InsertSubs, tables
    <3>2. QED
      BY <1>1, <3>1, RowExtends, RowsKept
  <2>2. CASE subs' # subs
    <3>1. subs' = Append(subs, sub) /\ UNCHANGED <<files, models, ads>>
      BY <1>7, <2>2 DEF InsertSubs
    <3>2. sub.model \in DOMAIN models /\ sub.ad \in DOMAIN ads
      BY <1>7, <2>2 DEF InsertSubs, ForeignKeysResolve
    <3>3. sub \in Subs
      <4>1. subs' \in Seq(Subs)
        BY <1>7, SubsTypes DEF CreateSubs, TypeOK
      <4>2. req[p].owner \in Owners /\ key[p] \in Hashes
        BY <1>7 DEF IInv, InsertSubs, HandlersFit, RequestFits, LocalsFit, SubsLabels
      <4>3. req[p].model_id \in Int /\ req[p].ad_id \in Int
        BY <1>2, <3>2, LenProperties
      <4>4. QED
        BY <4>2, <4>3 DEF Subs
    <3> HIDE DEF sub
    <3>4. \A i \in DOMAIN subs' : /\ subs'[i].model \in DOMAIN models
                                  /\ subs'[i].ad \in DOMAIN ads
      <4>1. \A i \in DOMAIN subs' :
              subs'[i] = sub \/ (i \in DOMAIN subs /\ subs'[i] = subs[i])
        BY <1>2, <3>1, <3>3, AppendGrows
      <4>2. QED
        BY <1>1, <3>2, <4>1 DEF RowsResolve, SubsResolve
    <3>5. QED
      BY <1>1, <3>1, <3>4
         DEF RowsResolve, FilesOnDisk, ModelsFiled, AdsOnDisk, SubsResolve, Published
  <2>3. QED
    BY <2>1, <2>2
<1>8. QED
  BY <1>4, <1>5, <1>6, <1>7 DEF RowStep

\* Every step keeps every row resolving.
LEMMA RowsStep == IInv /\ [Next]_vars => RowsResolve'
<1> SUFFICES ASSUME IInv, [Next]_vars PROVE RowsResolve'
  OBVIOUS
<1>1. CASE \E p \in Handlers : RowStep(p)
  BY <1>1, RowsAdded
<1>2. CASE \E p \in Handlers : DiskStep(p)
  BY <1>2, DiskExtends, RowsKept DEF IInv
<1>3. CASE UNCHANGED stored
  BY <1>3, StoredSame, RowsKept DEF IInv, stored
<1>4. QED
  BY <1>1, <1>2, <1>3, OtherSteps

-----------------------------------------------------------------------------
(* What a handler knows about its own variables *)

Fits(p) == RequestFits(p) /\ FileFits(p) /\ LocalsFit(p)

\* Nothing of a handler's own changed.
Rests(p) == /\ pc'[p] = pc[p] /\ req'[p] = req[p] /\ uuid'[p] = uuid[p]
            /\ pos'[p] = pos[p] /\ rng'[p] = rng[p] /\ key'[p] = key[p]

LEMMA InitFits == Init => HandlersFit
  BY DEF Init, HandlersFit, RequestFits, FileFits, LocalsFit, GetLabels, FileLabels,
         UploadLabels, SubsLabels

\* What a resting handler knows survives the steps of the others.
LEMMA OthersFit ==
  ASSUME Extends, NEW p \in Handlers, Fits(p), Rests(p)
  PROVE  Fits(p)'
<1>1. RequestFits(p)'
  BY DEF Fits, Rests, RequestFits
<1>2. FileFits(p)'
  <2>1. \A u : Published(u) => Published(u)'
    BY DEF Extends, Published
  <2>2. \A u \in DOMAIN disk : u \in DOMAIN disk' /\ disk'[u].data = disk[u].data
    BY DEF Extends
  <2>3. pc[p] \in {"write_file", "ins_file", "ins_ad"} => uuid[p] \in DOMAIN disk
    BY DEF Fits, FileFits, Published
  <2>4. QED
    BY <2>1, <2>2, <2>3 DEF Fits, Rests, FileFits
<1>3. LocalsFit(p)'
  BY DEF Fits, Rests, LocalsFit
<1>4. QED
  BY <1>1, <1>2, <1>3 DEF Fits

\* A handler that replies, or waits for a request, knows nothing.
LEMMA NothingToFit ==
  ASSUME NEW p \in Handlers, pc'[p] \in {"idle", "reply"}
  PROVE  Fits(p)'
  BY DEF Fits, RequestFits, FileFits, LocalsFit, GetLabels, FileLabels, UploadLabels,
         SubsLabels

\* The steps every method shares.
LEMMA SharedFits ==
  ASSUME IInv, NEW p \in Handlers,
         Arrive(p) \/ Connect(p) \/ Throw(p) \/ Reply(p) \/ ReplyThrows(p)
  PROVE  Fits(p)' /\ \A q \in Handlers \ {p} : Rests(q)
<1> USE DEF IInv, TypeOK, stored, tables, locals, Go, Finish
<1>1. CASE ArriveGet(p)
  <2>1. PICK r \in GetRequest : req' = [req EXCEPT ![p] = r]
    BY <1>1 DEF ArriveGet
  <2>2. r # NoRequest
    BY DEF GetRequest, NoRequest, GetOps
  <2>3. QED
    BY <1>1, <2>1, <2>2
       DEF ArriveGet, Fits, RequestFits, FileFits, LocalsFit, GetLabels,
           FileLabels, UploadLabels, SubsLabels, Rests
<1>2. CASE ArrivePost(p)
  <2>1. PICK r \in UploadRequest \union SubsRequest : req' = [req EXCEPT ![p] = r]
    BY <1>2 DEF ArrivePost
  <2>2. r # NoRequest
    BY DEF UploadRequest, SubsRequest, NoRequest, UploadOps
  <2>3. QED
    BY <1>2, <2>1, <2>2
       DEF ArrivePost, Fits, RequestFits, FileFits, LocalsFit, GetLabels,
           FileLabels, UploadLabels, SubsLabels, Rests
<1>3. CASE Reject(p)
  BY <1>3, NothingToFit DEF Reject, Rests
<1>4. CASE Connect(p)
  <2>1. CASE ConnectionGranted
    <3>1. req[p] \in GetRequest \union UploadRequest \union SubsRequest
      BY <1>4 DEF Connect, HandlersFit, RequestFits, Request
    <3>2. IF req[p].op \in GetOps THEN req[p] \in GetRequest
                                  ELSE req[p] \in UploadRequest \union SubsRequest
      BY <3>1 DEF GetRequest, UploadRequest, SubsRequest, GetOps, UploadOps
    <3>3. QED
      BY <1>4, <2>1, <3>2
         DEF Connect, FirstStep, Fits, RequestFits, FileFits, LocalsFit, GetLabels,
             FileLabels, UploadLabels, SubsLabels, Rests
  <2>2. CASE ~ ConnectionGranted
    BY <1>4, <2>2, NothingToFit DEF Connect, Rests
  <2>3. QED
    BY <2>1, <2>2
<1>5. CASE Throw(p)
  BY <1>5, NothingToFit DEF Throw, Raise, Rests
<1>6. CASE Reply(p)
  BY <1>6, NothingToFit DEF Reply, Rests
<1>7. CASE ReplyThrows(p)
  BY <1>7, NothingToFit DEF ReplyThrows, Rests
<1>8. QED
  BY <1>1, <1>2, <1>3, <1>4, <1>5, <1>6, <1>7 DEF Arrive

LEMMA GetFits ==
  ASSUME IInv, NEW p \in Handlers, Get(p), Extends
  PROVE  Fits(p)' /\ \A q \in Handlers \ {p} : Rests(q)
<1> USE DEF IInv, TypeOK, stored, tables, locals, Go, Finish
<1>0. Fits(p) /\ RowsResolve
  BY DEF HandlersFit, Fits
<1>1. CASE SelectSubs(p)
  BY <1>0, <1>1
     DEF SelectSubs, Rests, Fits, RequestFits, FileFits, LocalsFit, GetLabels,
           FileLabels, UploadLabels, SubsLabels
<1>2. CASE SelectModel(p)
  BY <1>0, <1>2
     DEF SelectModel, Rests, Fits, RequestFits, FileFits, LocalsFit, GetLabels,
           FileLabels, UploadLabels, SubsLabels
<1>3. CASE SelectFile(p)
  <2>1. \A i \in DOMAIN files : files[i] \in DOMAIN disk
    BY <1>0 DEF RowsResolve, FilesOnDisk, Published
  <2>2. UNCHANGED disk
    BY <1>3 DEF SelectFile
  <2>3. QED
    BY <1>0, <1>3, <2>1, <2>2
       DEF SelectFile, Rests, Fits, RequestFits, FileFits, LocalsFit, GetLabels,
           FileLabels, UploadLabels, SubsLabels
<1>4. CASE SelectAd(p)
  <2>1. \A i \in DOMAIN ads : ads[i].uuid \in DOMAIN disk
    BY <1>0 DEF RowsResolve, AdsOnDisk, Published
  <2>2. UNCHANGED disk
    BY <1>4 DEF SelectAd
  <2>3. QED
    BY <1>0, <1>4, <2>1, <2>2
       DEF SelectAd, Rests, Fits, RequestFits, FileFits, LocalsFit, GetLabels,
           FileLabels, UploadLabels, SubsLabels
<1>5. CASE ReadCompanion(p)
  BY <1>5, NothingToFit DEF ReadCompanion, Rests
<1>6. CASE MissCompanion(p)
  BY <1>0, <1>6
     DEF MissCompanion, Rests, Fits, RequestFits, FileFits, LocalsFit, GetLabels,
           FileLabels, UploadLabels, SubsLabels
<1>7. CASE OpenBinary(p)
  BY <1>0, <1>7
     DEF OpenBinary, Rests, Fits, RequestFits, FileFits, LocalsFit, GetLabels,
           FileLabels, UploadLabels, SubsLabels
<1>8. CASE CreateCompanion(p)
  <2>1. /\ pc' = [pc EXCEPT ![p] = "fill_b64"]
        /\ pos' = [pos EXCEPT ![p] = 0]
        /\ UNCHANGED <<req, uuid, rng, key>>
        /\ uuid[p] \in DOMAIN disk'
        /\ req[p] \in GetRequest
    BY <1>0, <1>8 DEF CreateCompanion, Extends, Fits, RequestFits, FileFits, LocalsFit, GetLabels,
           FileLabels, UploadLabels, SubsLabels
  <2>2. QED
    BY <2>1, ServerAssumption
       DEF Rests, Fits, RequestFits, FileFits, LocalsFit, GetLabels,
           FileLabels, UploadLabels, SubsLabels
<1>9. CASE FillCompanion(p)
  <2>1. /\ pos' = [pos EXCEPT ![p] = pos[p] + 1]
        /\ UNCHANGED <<req, uuid, rng, key>>
        /\ uuid[p] \in DOMAIN disk'
        /\ req[p] \in GetRequest
        /\ pos[p] \in 0..NChunks /\ pos[p] < NChunks
        /\ pc[p] = "fill_b64"
    BY <1>0, <1>9 DEF FillCompanion, Extends, Fits, RequestFits, FileFits, LocalsFit, GetLabels,
           FileLabels, UploadLabels, SubsLabels
  <2>2. CASE LastChunk(p)
    BY <1>9, <2>1, <2>2, NothingToFit DEF FillCompanion, Rests
  <2>3. CASE ~ LastChunk(p)
    <3>1. pc' = pc /\ pos[p] + 1 < NChunks
      BY <1>9, <2>1, <2>3, ServerAssumption DEF FillCompanion, LastChunk
    <3>2. QED
      BY <2>1, <3>1
         DEF Rests, Fits, RequestFits, FileFits, LocalsFit, GetLabels,
           FileLabels, UploadLabels, SubsLabels
  <2>4. QED
    BY <2>2, <2>3
<1>10. QED
  BY <1>1, <1>2, <1>3, <1>4, <1>5, <1>6, <1>7, <1>8, <1>9 DEF Get

LEMMA UploadFits ==
  ASSUME IInv, NEW p \in Handlers, Upload(p), Extends
  PROVE  Fits(p)' /\ \A q \in Handlers \ {p} : Rests(q)
<1> USE DEF IInv, TypeOK, stored, tables, locals, Go, Finish
<1>0. Fits(p)
  BY DEF HandlersFit, Fits
<1>1. CASE Authenticate(p)
  <2>1. CASE req[p].user \in Owners
    <3>1. IF req[p].op \in UploadOps THEN req[p] \in UploadRequest
                                     ELSE req[p] \in SubsRequest
      BY <1>0, <1>1
         DEF Authenticate, Fits, RequestFits, UploadRequest, SubsRequest, UploadOps
    <3>2. QED
      BY <1>1, <2>1, <3>1
         DEF Authenticate, AfterAuth, Rests, Fits, RequestFits, FileFits, LocalsFit, GetLabels,
           FileLabels, UploadLabels, SubsLabels
  <2>2. CASE req[p].user \notin Owners
    BY <1>1, <2>2, NothingToFit DEF Authenticate, Rests
  <2>3. QED
    BY <2>1, <2>2
<1>2. CASE CreateFile(p)
  <2> DEFINE f == [data |-> req[p].data, bin |-> "open", b64 |-> FALSE,
                   have |-> {}]
  <2>1. f \in File /\ f.data = req[p].data
    BY <1>0, <1>2 DEF CreateFile, File, UploadRequest, Fits, RequestFits, FileFits, LocalsFit, GetLabels,
           FileLabels, UploadLabels, SubsLabels
  <2>2. disk' = Append(disk, f)
    BY <1>2 DEF CreateFile
  <2> HIDE DEF f
  <2>3. NewUuid \in DOMAIN disk' /\ disk'[NewUuid].data = req[p].data
    BY <2>1, <2>2, AppendGrows DEF NewUuid
  <2>4. /\ pc' = [pc EXCEPT ![p] = "write_file"]
        /\ uuid' = [uuid EXCEPT ![p] = NewUuid]
        /\ UNCHANGED <<req, pos, rng, key>>
    BY <1>2 DEF CreateFile
  <2>5. req[p] \in UploadRequest /\ req[p].user \in Owners
    BY <1>0, <1>2 DEF CreateFile, Fits, RequestFits, FileFits, LocalsFit, GetLabels,
           FileLabels, UploadLabels, SubsLabels
  <2>6. QED
    BY <2>3, <2>4, <2>5
       DEF Rests, Fits, RequestFits, FileFits, LocalsFit, GetLabels,
           FileLabels, UploadLabels, SubsLabels
<1>3. CASE WriteFile(p)
  <2>1. /\ pc' = [pc EXCEPT ![p] = AfterWrite(req[p].op)]
        /\ UNCHANGED <<req, uuid, pos, rng, key>>
    BY <1>3 DEF WriteFile
  <2>2. /\ uuid[p] \in DOMAIN disk
        /\ disk[uuid[p]].data = req[p].data
        /\ req[p] \in UploadRequest /\ req[p].user \in Owners
    BY <1>0, <1>3 DEF WriteFile, Fits, RequestFits, FileFits, LocalsFit, GetLabels,
           FileLabels, UploadLabels, SubsLabels
  <2>3. /\ uuid[p] \in DOMAIN disk'
        /\ disk'[uuid[p]].data = req[p].data
    BY <2>2 DEF Extends
  <2>4. Published(uuid[p])'
    <3>1. PICK b \in {"whole"} \union (IF DiskFull THEN {"short"} ELSE {}) :
            disk' = [disk EXCEPT ![uuid[p]].bin = b]
      BY <1>3 DEF WriteFile
    <3>2. disk[uuid[p]] \in File
      BY <2>2, StoredTypes
    <3>3. disk'[uuid[p]] = [disk[uuid[p]] EXCEPT !.bin = b]
      BY <2>2, <3>1
    <3>4. disk'[uuid[p]].bin = b
      BY <3>2, <3>3 DEF File
    <3>5. QED
      BY <2>1, <2>3, <3>1, <3>4 DEF Published
  <2>5. QED
    BY <2>1, <2>2, <2>3, <2>4
       DEF AfterWrite, Rests, Fits, RequestFits, FileFits, LocalsFit, GetLabels,
           FileLabels, UploadLabels, SubsLabels
<1>4. CASE InsertFile(p)
  BY <1>0, <1>4
     DEF InsertFile, Rests, Fits, RequestFits, FileFits, LocalsFit, GetLabels,
           FileLabels, UploadLabels, SubsLabels
<1>5. CASE InsertModel(p)
  <2>1. CASE LastInsertId(p) \in DOMAIN files
    BY <1>0, <1>5, <2>1
       DEF InsertModel, Rests, Fits, RequestFits, FileFits, LocalsFit, GetLabels,
           FileLabels, UploadLabels, SubsLabels
  <2>2. CASE LastInsertId(p) \notin DOMAIN files
    BY <1>5, <2>2, NothingToFit DEF InsertModel, Raise, Rests
  <2>3. QED
    BY <2>1, <2>2
<1>6. CASE AnswerModelId(p)
  BY <1>6, NothingToFit DEF AnswerModelId, Rests
<1>7. CASE InsertAd(p)
  BY <1>0, <1>7
     DEF InsertAd, Rests, Fits, RequestFits, FileFits, LocalsFit, GetLabels,
           FileLabels, UploadLabels, SubsLabels
<1>8. CASE AnswerAdId(p)
  BY <1>8, NothingToFit DEF AnswerAdId, Rests
<1>9. QED
  BY <1>1, <1>2, <1>3, <1>4, <1>5, <1>6, <1>7, <1>8 DEF Upload

LEMMA SubsFits ==
  ASSUME IInv, NEW p \in Handlers, CreateSubs(p)
  PROVE  Fits(p)' /\ \A q \in Handlers \ {p} : Rests(q)
<1> USE DEF IInv, TypeOK, stored, tables, locals, Go, Finish
<1>0. Fits(p)
  BY DEF HandlersFit, Fits
<1>1. CASE SelectOwner(p)
  BY <1>0, <1>1
     DEF SelectOwner, Rests, Fits, RequestFits, FileFits, LocalsFit, GetLabels,
           FileLabels, UploadLabels, SubsLabels
<1>2. CASE CheckModel(p)
  BY <1>0, <1>2
     DEF CheckModel, Rests, Fits, RequestFits, FileFits, LocalsFit, GetLabels,
           FileLabels, UploadLabels, SubsLabels
<1>3. CASE CheckAd(p)
  <2>1. CASE AdExists(p) /\ row[p] # NoId
    <3>1. PICK t \in Ticks : rng' = [rng EXCEPT ![p] = t]
      BY <1>3, <2>1 DEF CheckAd
    <3>2. t \in Rng
      BY ServerAssumption
    <3>3. QED
      BY <1>0, <1>3, <2>1, <3>1, <3>2
         DEF CheckAd, Rests, Fits, RequestFits, FileFits, LocalsFit, GetLabels,
           FileLabels, UploadLabels, SubsLabels
  <2>2. CASE ~ (AdExists(p) /\ row[p] # NoId)
    BY <1>3, <2>2, NothingToFit DEF CheckAd, Rests
  <2>3. QED
    BY <2>1, <2>2
<1>4. CASE PickHash(p)
  <2>1. /\ rng[p] \in Rng
        /\ RandHash[rng[p]] \in Hashes
        /\ RandNext[rng[p]] \in Rng
    BY <1>0, <1>4, ServerAssumption DEF PickHash, Fits, LocalsFit
  <2>2. QED
    BY <1>0, <1>4, <2>1
       DEF PickHash, NextDraw, Rests, Fits, RequestFits, FileFits, LocalsFit, GetLabels,
           FileLabels, UploadLabels, SubsLabels
<1>5. CASE InsertSubs(p)
  <2>1. CASE KeyIsFree(p) /\ ForeignKeysResolve(p)
    BY <1>0, <1>5, <2>1
       DEF InsertSubs, Rests, Fits, RequestFits, FileFits, LocalsFit, GetLabels,
           FileLabels, UploadLabels, SubsLabels
  <2>2. CASE ~ (KeyIsFree(p) /\ ForeignKeysResolve(p))
    BY <1>5, <2>2, NothingToFit DEF InsertSubs, Raise, Rests
  <2>3. QED
    BY <2>1, <2>2
<1>6. CASE AnswerSubsId(p)
  BY <1>6, NothingToFit DEF AnswerSubsId, Rests
<1>7. QED
  BY <1>1, <1>2, <1>3, <1>4, <1>5, <1>6 DEF CreateSubs

\* Every step keeps what every handler knows.
LEMMA FitsStep == IInv /\ [Next]_vars => HandlersFit'
<1> SUFFICES ASSUME IInv, [Next]_vars, NEW q \in Handlers PROVE Fits(q)'
  BY DEF HandlersFit, Fits
<1>1. Extends /\ Fits(q)
  BY StepExtends DEF IInv, HandlersFit, Fits
<1>2. CASE \E p \in Handlers : Arrive(p) \/ Handle(p)
  <2>1. PICK p \in Handlers : Arrive(p) \/ Handle(p)
    BY <1>2
  <2>2. Fits(p)' /\ \A r \in Handlers \ {p} : Rests(r)
    BY <1>1, <2>1, SharedFits, GetFits, UploadFits, SubsFits DEF Handle, Work
  <2>3. QED
    BY <1>1, <2>2, OthersFit
<1>3. CASE Crash
  BY <1>3, NothingToFit DEF Crash
<1>4. CASE Start \/ Stop \/ Close \/ UNCHANGED vars
  <2>1. Rests(q)
    BY <1>4 DEF Start, Stop, Close, vars, locals, Rests
  <2>2. QED
    BY <1>1, <2>1, OthersFit
<1>5. QED
  BY <1>2, <1>3, <1>4 DEF Next

-----------------------------------------------------------------------------
(* The theorems *)

\* The invariant holds initially and every step, a crash included, keeps it.
THEOREM Inductive == Spec => []IInv
<1>1. Init => IInv
  BY InitTypes, InitRows, InitFits DEF IInv
<1>2. IInv /\ [Next]_vars => IInv'
  BY TypeStep, RowsStep, FitsStep DEF IInv
<1>3. QED
  BY <1>1, <1>2, PTL DEF Spec

\* Every variable keeps its type in every run of the server.
THEOREM TypeCorrect == Spec => []TypeOK
<1>1. IInv => TypeOK
  BY DEF IInv
<1>2. QED
  BY Inductive, <1>1, PTL

\* Whatever handlers interleave, fail or crash between their statements, each
\* row of the database leads to rows and finished files that exist.
THEOREM RowsAlwaysResolve == Spec => []RowsResolve
<1>1. IInv => RowsResolve
  BY DEF IInv
<1>2. QED
  BY Inductive, <1>1, PTL

\* Nothing published is lost or altered: rows are never changed or removed,
\* and a published file keeps its contents.
THEOREM StoredForGood == Spec => [][Extends]_vars
<1>1. IInv /\ [Next]_vars => [Extends]_vars
  BY StepExtends
<1>2. QED
  BY Inductive, <1>1, PTL DEF Spec

-----------------------------------------------------------------------------
(* Subscription keys *)

LEMMA KeysInit == Init => KeysDistinct
  BY DEF Init, KeysDistinct

\* Only InsertSubs adds a row, and the schema refuses a key that is taken
\* whatever the handler saw when it drew the key.
LEMMA KeysStep == IInv /\ KeysDistinct /\ [Next]_vars => KeysDistinct'
<1> SUFFICES ASSUME IInv, KeysDistinct, [Next]_vars PROVE KeysDistinct'
  OBVIOUS
<1>1. CASE subs' = subs
  BY <1>1 DEF KeysDistinct
<1>2. CASE subs' # subs
  <2>1. PICK p \in Handlers : DiskStep(p) \/ RowStep(p)
    BY <1>2, OtherSteps DEF stored, tables
  <2>2. InsertSubs(p)
    BY <1>2, <2>1, DiskExtends
       DEF RowStep, tables, InsertFile, InsertModel, InsertAd
  <2> DEFINE sub == [owner |-> req[p].owner, hash |-> key[p],
                     model |-> req[p].model_id, ad |-> req[p].ad_id]
  <2>3. /\ subs' = Append(subs, sub)
        /\ sub.hash = key[p]
        /\ \A i \in DOMAIN subs : subs[i].hash # key[p]
    BY <1>2, <2>2 DEF InsertSubs, KeyIsFree, RowsOf
  <2>4. subs \in Seq(Subs) /\ Append(subs, sub) \in Seq(Subs)
    BY <2>2, <2>3, SubsTypes DEF IInv, TypeOK, CreateSubs
  <2> HIDE DEF sub
  <2>5. DOMAIN subs' = DOMAIN subs \union {Len(subs) + 1}
    BY <2>3, <2>4, LenProperties
  <2>6. /\ subs'[Len(subs) + 1] = sub
        /\ \A i \in DOMAIN subs : subs'[i] = subs[i]
    BY <2>3, <2>4, LenProperties
  <2>7. QED
    BY <2>3, <2>5, <2>6 DEF KeysDistinct
<1>3. QED
  BY <1>1, <1>2

\* Two handlers that draw the same key never both store it.
THEOREM KeysAlwaysDistinct == Spec => []KeysDistinct
<1>1. QED
  BY Inductive, KeysInit, KeysStep, PTL DEF Spec
=============================================================================
