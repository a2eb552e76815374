------------------------ MODULE PublishAnswersProofs ------------------------
(***************************************************************************)
(* Theorems about what PublishServer answers and about the files it works  *)
(* on, for every value of the constants: an answer with error_code OK is   *)
(* true, no two publications share a file, a companion file that lacks     *)
(* chunks is being written, a server that was shut down is quiet, and the  *)
(* server implements PublishStore.                                         *)
(*                                                                         *)
(* The invariant Told says what a handler has learnt on its way to an      *)
(* answer: which row its LAST_INSERT_ID names, which subscription the row  *)
(* or file it read belongs to.  It survives the steps of the other         *)
(* handlers because rows are only ever added.                              *)
(***************************************************************************)
EXTENDS PublishServerProofs

-----------------------------------------------------------------------------
(* What a handler has learnt *)

Model(i, d) == i \in DOMAIN models /\ disk[files[models[i]]].data = d

Advert(i, r) == /\ i \in DOMAIN ads
                /\ ads[i].owner = r.user
                /\ disk[ads[i].uuid].data = r.data

\* An upload: its method, and what LAST_INSERT_ID() names.
UploadTold(p) ==
  /\ pc[p] \in {"ins_file", "ins_model", "last_model"} => req[p].op = "upload_model"
  /\ pc[p] \in {"ins_ad", "last_ad"} => req[p].op = "upload_ad"
  /\ pc[p] = "ins_model" => /\ lastId[p] \in DOMAIN files
                            /\ disk[files[lastId[p]]].data = req[p].data
  /\ pc[p] = "last_model" => Model(lastId[p], req[p].data)
  /\ pc[p] = "last_ad" => Advert(lastId[p], req[p])
  /\ Succeeded(p, "upload_model") => Model(row[p], req[p].data)
  /\ Succeeded(p, "upload_ad") => Advert(row[p], req[p])

Subscribed(p) ==
  \E i \in DOMAIN subs :
    subs[i] = [owner |-> req[p].owner, hash |-> key[p],
               model |-> req[p].model_id, ad |-> req[p].ad_id]

SubsTold(p) ==
  pc[p] = "last_subs" \/ Succeeded(p, "create_subs") => Subscribed(p)

AskedFor(p, i) == i \in DOMAIN subs /\ subs[i].hash = req[p].subsid

\* The file of the model, or of the advertisement, a key denotes.
FileOfKey(p) ==
  /\ req[p].op \in {"get", "getinfo"} =>
       \E i \in DOMAIN subs : AskedFor(p, i) /\ uuid[p] = ModelFile(i)
  /\ req[p].op = "getad" =>
       \E i \in DOMAIN subs : /\ AskedFor(p, i)
                              /\ row[p] = subs[i].ad
                              /\ uuid[p] = ads[row[p]].uuid

GetTold(p) ==
  /\ pc[p] \in {"sel_model", "sel_file"} => req[p].op \in {"get", "getinfo"}
  /\ pc[p] = "sel_ad" => req[p].op = "getad"
  /\ pc[p] = "sel_model" =>
       \E i \in DOMAIN subs : AskedFor(p, i) /\ row[p] = subs[i].model
  /\ pc[p] = "sel_file" =>
       \E i \in DOMAIN subs : AskedFor(p, i) /\ row[p] = models[subs[i].model]
  /\ pc[p] = "sel_ad" =>
       \E i \in DOMAIN subs : AskedFor(p, i) /\ row[p] = subs[i].ad
  /\ pc[p] \in FileLabels \/ (pc[p] = "reply" /\ code[p] = "OK") => FileOfKey(p)

\* Only an answer carries error_code OK.
Pending(p) == pc[p] # "reply" => code[p] # "OK"

Told(p) == Pending(p) /\ UploadTold(p) /\ SubsTold(p) /\ GetTold(p)

AllTold == \A p \in Handlers : Told(p)

-----------------------------------------------------------------------------
(* Which files are spoken for *)

\* A handler holds the UUID of a file it has not yet named in a row.
Holds(p) == pc[p] \in {"write_file", "ins_file", "ins_ad"}

Named(u) == \/ \E i \in DOMAIN files : files[i] = u
            \/ \E i \in DOMAIN ads : ads[i].uuid = u

FilesHeld ==
  /\ \A p \in Handlers : Holds(p) => ~ Named(uuid[p])
  /\ \A p, q \in Handlers : Holds(p) /\ Holds(q) /\ uuid[p] = uuid[q] => p = q

-----------------------------------------------------------------------------
(* A step of one handler moves no other *)

Still(p) ==
  /\ pc'[p] = pc[p] /\ req'[p] = req[p] /\ code'[p] = code[p]
  /\ row'[p] = row[p] /\ lastId'[p] = lastId[p] /\ uuid'[p] = uuid[p]
  /\ key'[p] = key[p] /\ pos'[p] = pos[p]

LEMMA OthersStill ==
  ASSUME TypeOK, NEW p \in Handlers, Arrive(p) \/ Handle(p),
         NEW q \in Handlers, q # p
  PROVE  Still(q)
<1> USE DEF TypeOK, stored, tables, locals, Go, Finish, Raise, Still
<1>1. CASE Arrive(p)
  BY <1>1 DEF Arrive, ArriveGet, ArrivePost, Reject
<1>2. CASE Connect(p) \/ Throw(p) \/ Reply(p) \/ ReplyThrows(p)
  BY <1>2 DEF Connect, Throw, Reply, ReplyThrows
<1>3. CASE SelectSubs(p) \/ SelectModel(p) \/ SelectFile(p) \/ SelectAd(p)
  BY <1>3 DEF SelectSubs, SelectModel, SelectFile, SelectAd
<1>4. CASE ReadCompanion(p) \/ MissCompanion(p) \/ OpenBinary(p)
             \/ CreateCompanion(p) \/ FillCompanion(p)
  BY <1>4 DEF ReadCompanion, MissCompanion, OpenBinary, CreateCompanion,
              FillCompanion
<1>5. CASE Authenticate(p) \/ CreateFile(p) \/ WriteFile(p) \/ InsertFile(p)
  BY <1>5 DEF Authenticate, CreateFile, WriteFile, InsertFile
<1>6. CASE InsertModel(p) \/ AnswerModelId(p) \/ InsertAd(p) \/ AnswerAdId(p)
  BY <1>6 DEF InsertModel, AnswerModelId, InsertAd, AnswerAdId
<1>7. CASE SelectOwner(p) \/ CheckModel(p) \/ CheckAd(p)
  BY <1>7 DEF SelectOwner, CheckModel, CheckAd
<1>8. CASE PickHash(p) \/ InsertSubs(p) \/ AnswerSubsId(p)
  BY <1>8 DEF PickHash, InsertSubs, AnswerSubsId
<1>9. QED
  BY <1>1, <1>2, <1>3, <1>4, <1>5, <1>6, <1>7, <1>8
     DEF Handle, Work, Get, Upload, CreateSubs

-----------------------------------------------------------------------------
(* A file belongs to one publication *)

\* A step that neither creates a file nor names one in a row keeps both the
\* rows and the files in hand; a handler that ends lets go of its file.
LEMMA HeldKept ==
  ASSUME FilesUnshared, FilesHeld, UNCHANGED <<files, ads>>,
         \A q \in Handlers : Holds(q)' => Holds(q) /\ uuid'[q] = uuid[q]
  PROVE  FilesUnshared' /\ FilesHeld'
<1>1. FilesUnshared'
  BY DEF FilesUnshared
<1>2. \A u : Named(u)' <=> Named(u)
  BY DEF Named
<1>3. FilesHeld'
  BY <1>2 DEF FilesHeld
<1>4. QED
  BY <1>1, <1>3

\* UuidCreate returns a name no row and no other handler knows.
LEMMA HeldCreated ==
  ASSUME IInv, FilesUnshared, FilesHeld, NEW p \in Handlers, CreateFile(p)
  PROVE  FilesUnshared' /\ FilesHeld'
<1>1. /\ UNCHANGED <<files, ads>>
      /\ uuid' = [uuid EXCEPT ![p] = Len(disk) + 1]
      /\ pc' = [pc EXCEPT ![p] = "write_file"]
  BY DEF CreateFile, NewUuid, Go, tables
<1>2. Len(disk) + 1 \notin DOMAIN disk
  BY LenProperties DEF IInv, TypeOK
<1>3. /\ \A i \in DOMAIN files : files[i] \in DOMAIN disk
      /\ \A i \in DOMAIN ads : ads[i].uuid \in DOMAIN disk
  BY DEF IInv, RowsResolve, FilesOnDisk, AdsOnDisk, Published
<1>4. \A q \in Handlers : Holds(q) => uuid[q] \in DOMAIN disk
  BY DEF IInv, HandlersFit, FileFits, Holds, Published
<1>5. \A u : Named(u)' <=> Named(u)
  BY <1>1 DEF Named
<1>6. ~ Named(Len(disk) + 1)
  BY <1>2, <1>3 DEF Named
<1>7. /\ uuid'[p] = Len(disk) + 1
      /\ \A q \in Handlers : q # p => uuid'[q] = uuid[q] /\ (Holds(q)' <=> Holds(q))
  BY <1>1 DEF IInv, TypeOK, Holds
<1>8. FilesHeld'
  <2>1. ASSUME NEW q \in Handlers, Holds(q)' PROVE ~ Named(uuid'[q])
    BY <1>6, <1>7, <2>1 DEF FilesHeld
  <2>2. ASSUME NEW q \in Handlers, NEW r \in Handlers, Holds(q)', Holds(r)',
               uuid'[q] = uuid'[r]
        PROVE  q = r
    BY <1>2, <1>4, <1>7, <2>2 DEF FilesHeld
  <2>3. QED
    BY <1>5, <2>1, <2>2 DEF FilesHeld
<1>9. FilesUnshared'
  BY <1>1 DEF FilesUnshared
<1>10. QED
  BY <1>8, <1>9

\* The row that names a file in hand is the first, and the handler is done
\* with the file.
LEMMA HeldNamed ==
  ASSUME IInv, FilesUnshared, FilesHeld, NEW p \in Handlers,
         InsertFile(p) \/ InsertAd(p)
  PROVE  FilesUnshared' /\ FilesHeld'
<1>1. /\ uuid' = uuid /\ Holds(p) /\ ~ Holds(p)'
      /\ \A q \in Handlers : q # p => (Holds(q)' <=> Holds(q))
  BY DEF InsertFile, InsertAd, Go, IInv, TypeOK, Holds
<1>2. ~ Named(uuid[p])
  BY <1>1 DEF FilesHeld
<1>3. (\A u : Named(u)' => Named(u) \/ u = uuid[p]) /\ FilesUnshared'
  <2>1. CASE InsertFile(p)
    <3>1. files' = Append(files, uuid[p]) /\ ads' = ads
      BY <2>1 DEF InsertFile
    <3>2. files \in Seq(Nat) /\ uuid[p] \in Nat
      BY <2>1, LenProperties
         DEF IInv, TypeOK, InsertFile, HandlersFit, FileFits, Published
    <3>3. /\ DOMAIN files' = DOMAIN files \union {Len(files) + 1}
          /\ files'[Len(files) + 1] = uuid[p]
          /\ \A i \in DOMAIN files : files'[i] = files[i]
      BY <3>1, <3>2, AppendGrows
    <3>4. \A u : Named(u)' => Named(u) \/ u = uuid[p]
      BY <3>1, <3>3 DEF Named
    <3>5. FilesUnshared'
      BY <1>2, <3>1, <3>3 DEF FilesUnshared, Named
    <3>6. QED
      BY <3>4, <3>5
  <2>2. CASE InsertAd(p)
    <3> DEFINE ad == [owner |-> req[p].user, uuid |-> uuid[p], url |-> req[p].data]
    <3>1. ads' = Append(ads, ad) /\ files' = files
      BY <2>2 DEF InsertAd
    <3>2. ad \in Ad /\ ad.uuid = uuid[p]
      <4>1. req[p].user \in Owners /\ req[p].data \in Data /\ uuid[p] \in Nat
        BY <2>2, LenProperties
           DEF IInv, TypeOK, InsertAd, HandlersFit, FileFits, Published, RequestFits,
               UploadLabels, UploadRequest
      <4>2. QED
        BY <4>1 DEF Ad
    <3>3. ads \in Seq(Ad)
      BY DEF IInv, TypeOK
    <3> HIDE DEF ad
    <3>4. /\ DOMAIN ads' = DOMAIN ads \union {Len(ads) + 1}
          /\ ads'[Len(ads) + 1] = ad
          /\ \A i \in DOMAIN ads : ads'[i] = ads[i]
      BY <3>1, <3>2, <3>3, AppendGrows
    <3>5. \A u : Named(u)' => Named(u) \/ u = uuid[p]
      BY <3>1, <3>2, <3>4 DEF Named
    <3>6. FilesUnshared'
      BY <1>2, <3>1, <3>2, <3>4 DEF FilesUnshared, Named
    <3>7. QED
      BY <3>5, <3>6
  <2>3. QED
    BY <2>1, <2>2
<1>4. FilesHeld'
  <2>1. \A q \in Handlers : Holds(q)' => Holds(q) /\ q # p
    BY <1>1
  <2>2. \A q \in Handlers : Holds(q)' => ~ Named(uuid[q])'
    BY <1>1, <1>3, <2>1 DEF FilesHeld
  <2>3. QED
    BY <1>1, <2>1, <2>2 DEF FilesHeld
<1>5. QED
  BY <1>3, <1>4

\* No other step touches the rows that name files or takes up a file.
LEMMA HeldByOthers ==
  ASSUME TypeOK, NEW p \in Handlers, Arrive(p) \/ Handle(p),
         ~ CreateFile(p), ~ InsertFile(p), ~ InsertAd(p)
  PROVE  /\ UNCHANGED <<files, ads>>
         /\ Holds(p)' => Holds(p) /\ uuid'[p] = uuid[p]
<1> USE DEF TypeOK, stored, tables, locals, Go, Finish, Raise, Holds
<1>1. CASE Arrive(p)
  BY <1>1 DEF Arrive, ArriveGet, ArrivePost, Reject
<1>2. CASE Connect(p) \/ Throw(p) \/ Reply(p) \/ ReplyThrows(p)
  BY <1>2 DEF Connect, FirstStep, Throw, Reply, ReplyThrows
<1>3. CASE SelectSubs(p) \/ SelectModel(p) \/ SelectFile(p) \/ SelectAd(p)
  BY <1>3 DEF SelectSubs, SelectModel, SelectFile, SelectAd
<1>4. CASE ReadCompanion(p) \/ MissCompanion(p) \/ OpenBinary(p)
             \/ CreateCompanion(p) \/ FillCompanion(p)
  BY <1>4 DEF ReadCompanion, MissCompanion, OpenBinary, CreateCompanion,
              FillCompanion
<1>5. CASE Authenticate(p) \/ WriteFile(p)
  BY <1>5 DEF Authenticate, AfterAuth, WriteFile
<1>6. CASE InsertModel(p) \/ AnswerModelId(p) \/ AnswerAdId(p)
  BY <1>6 DEF InsertModel, AnswerModelId, AnswerAdId
<1>7. CASE SelectOwner(p) \/ CheckModel(p) \/ CheckAd(p)
  BY <1>7 DEF SelectOwner, CheckModel, CheckAd
<1>8. CASE PickHash(p) \/ InsertSubs(p) \/ AnswerSubsId(p)
  BY <1>8 DEF PickHash, InsertSubs, AnswerSubsId
<1>9. QED
  BY <1>1, <1>2, <1>3, <1>4, <1>5, <1>6, <1>7, <1>8
     DEF Handle, Work, Get, Upload, CreateSubs

LEMMA HeldStep ==
  IInv /\ FilesUnshared /\ FilesHeld /\ [Next]_vars => FilesUnshared' /\ FilesHeld'
<1> SUFFICES ASSUME IInv, FilesUnshared, FilesHeld, [Next]_vars
             PROVE  FilesUnshared' /\ FilesHeld'
  OBVIOUS
<1>1. CASE Start \/ Stop \/ Close \/ UNCHANGED vars
  <2>1. UNCHANGED <<files, ads, pc, uuid>>
    BY <1>1 DEF Start, Stop, Close, vars, stored, tables, locals
  <2>2. QED
    BY <2>1, HeldKept DEF Holds
<1>2. CASE Crash
  <2>1. UNCHANGED <<files, ads>> /\ \A q \in Handlers : ~ Holds(q)'
    BY <1>2 DEF Crash, stored, tables, Holds
  <2>2. QED
    BY <2>1, HeldKept
<1>3. ASSUME NEW p \in Handlers, Arrive(p) \/ Handle(p)
      PROVE  FilesUnshared' /\ FilesHeld'
  <2>1. CASE CreateFile(p)
    BY <2>1, HeldCreated
  <2>2. CASE InsertFile(p) \/ InsertAd(p)
    BY <2>2, HeldNamed
  <2>3. CASE ~ CreateFile(p) /\ ~ InsertFile(p) /\ ~ InsertAd(p)
    <3>1. /\ UNCHANGED <<files, ads>>
          /\ Holds(p)' => Holds(p) /\ uuid'[p] = uuid[p]
      BY <1>3, <2>3, HeldByOthers DEF IInv
    <3>2. \A q \in Handlers : Holds(q)' => Holds(q) /\ uuid'[q] = uuid[q]
      BY <1>3, <3>1, OthersStill DEF IInv, Still, Holds
    <3>3. QED
      BY <3>1, <3>2, HeldKept
  <2>4. QED
    BY <2>1, <2>2, <2>3
<1>4. QED
  BY <1>1, <1>2, <1>3 DEF Next

\* No two publications share a file: not two models, not two advertisements,
\* not a model and an advertisement, whatever uploads run at the same time.
THEOREM FilesNeverShared == Spec => []FilesUnshared
<1>1. Init => FilesUnshared /\ FilesHeld
  BY DEF Init, FilesUnshared, FilesHeld, Holds
<1>2. QED
  BY Inductive, <1>1, HeldStep, PTL DEF Spec

-----------------------------------------------------------------------------
(* Companion files *)

\* The handler q is writing the companion of u, and its part is on disk.
Writes(q, u) == /\ pc[q] = "fill_b64"
                /\ uuid[q] = u
                /\ 1..pos[q] \subseteq disk[u].have

Lacking(u) == u \in DOMAIN disk /\ disk[u].b64 /\ disk[u].have # Chunks

\* Nothing but its own writes happens to a handler that is filling a companion.
LEMMA OnlyFills ==
  ASSUME NEW p \in Handlers, Arrive(p) \/ Handle(p), ~ FillCompanion(p)
  PROVE  pc[p] # "fill_b64"
  BY DEF Arrive, ArriveGet, ArrivePost, Reject, Handle, Work, Connect,
         Throw, Reply, ReplyThrows, Get, SelectSubs, SelectModel, SelectFile,
         SelectAd, ReadCompanion, MissCompanion, OpenBinary, CreateCompanion,
         Upload, Authenticate, CreateFile, WriteFile, InsertFile,
         InsertModel, AnswerModelId, InsertAd, AnswerAdId, CreateSubs,
         SelectOwner, CheckModel, CheckAd, PickHash, InsertSubs, AnswerSubsId

\* Only the steps that create or write a file change the disk.
LEMMA DiskKept ==
  ASSUME IInv, NEW p \in Handlers, Arrive(p) \/ Handle(p), ~ DiskStep(p)
  PROVE  UNCHANGED disk
  BY RowExtends DEF Arrive, ArriveGet, ArrivePost, Reject, Handle, Work, Connect,
         Throw, Reply, ReplyThrows, Get, SelectSubs, SelectModel, SelectFile,
         SelectAd, ReadCompanion, MissCompanion, OpenBinary,
         Upload, Authenticate, AnswerModelId, AnswerAdId, CreateSubs,
         SelectOwner, CheckModel, CheckAd, PickHash, AnswerSubsId, stored,
         DiskStep, RowStep

\* The companions after a step: whoever truncates one writes it, every other
\* that still lacks chunks lacked them before and has lost none.
LEMMA CompanionsAfter ==
  ASSUME IInv, ~ DiskFull, NEW p \in Handlers, DiskStep(p),
         NEW u \in DOMAIN disk', Lacking(u)'
  PROVE  \/ CreateCompanion(p) /\ u = uuid[p]
         \/ Lacking(u) /\ disk[u].have \subseteq disk'[u].have
<1>1. disk \in Seq(File) /\ \A v \in DOMAIN disk : disk[v] \in File
  BY StoredTypes DEF IInv, TypeOK
<1>2. ASSUME UNCHANGED disk PROVE Lacking(u)
  BY <1>2 DEF Lacking
<1>3. CASE CreateFile(p)
  <2> DEFINE f == [data |-> req[p].data, bin |-> "open", b64 |-> FALSE, have |-> {}]
  <2>1. disk' = Append(disk, f) /\ f \in File /\ ~ f.b64
    BY <1>3 DEF IInv, CreateFile, HandlersFit, RequestFits, UploadLabels, UploadRequest, File
  <2> HIDE DEF f
  <2>2. disk'[u] = f \/ (u \in DOMAIN disk /\ disk'[u] = disk[u])
    <3>1. /\ DOMAIN disk' = DOMAIN disk \union {Len(disk) + 1}
          /\ disk'[Len(disk) + 1] = f
          /\ \A v \in DOMAIN disk : disk'[v] = disk[v]
      BY <1>1, <2>1, AppendGrows
    <3>2. QED
      BY <3>1
  <2>3. QED
    BY <2>1, <2>2 DEF Lacking
<1>4. ASSUME NEW v \in DOMAIN disk, NEW f \in File, disk' = [disk EXCEPT ![v] = f],
             f.b64 = disk[v].b64, disk[v].have \subseteq f.have
      PROVE  Lacking(u) /\ disk[u].have \subseteq disk'[u].have
  <2>1. /\ DOMAIN disk' = DOMAIN disk
        /\ disk'[v] = f
        /\ \A w \in DOMAIN disk : w # v => disk'[w] = disk[w]
    BY <1>1, <1>4, ExceptOthers
  <2>2. f.have \subseteq Chunks
    BY DEF File
  <2>3. QED
    BY <1>4, <2>1, <2>2 DEF Lacking
<1>5. CASE FillCompanion(p)
  <2>1. uuid[p] \in DOMAIN disk /\ pos[p] \in Nat /\ pos[p] < NChunks
    BY <1>5 DEF FillCompanion, IInv, HandlersFit, FileFits, LocalsFit, FileLabels, TypeOK
  <2> DEFINE f == [disk[uuid[p]] EXCEPT !.have = @ \union {pos[p] + 1}]
  <2>2. disk' = [disk EXCEPT ![uuid[p]] = f]
    BY <1>5 DEF FillCompanion
  <2>3. disk[uuid[p]] \in File /\ pos[p] + 1 \in Chunks
    BY <1>1, <2>1, ServerAssumption DEF Chunks
  <2>4. /\ f \in File
        /\ f.b64 = disk[uuid[p]].b64 /\ disk[uuid[p]].have \subseteq f.have
    BY <2>3 DEF File
  <2> HIDE DEF f
  <2>5. QED
    BY <1>4, <2>1, <2>2, <2>4
<1>6. CASE WriteFile(p)
  <2>1. uuid[p] \in DOMAIN disk
    BY <1>6 DEF WriteFile, IInv, HandlersFit, FileFits
  <2>2. disk' = [disk EXCEPT ![uuid[p]].bin = "whole"]
    BY <1>6 DEF WriteFile
  <2> DEFINE f == [disk[uuid[p]] EXCEPT !.bin = "whole"]
  <2>3. disk' = [disk EXCEPT ![uuid[p]] = f]
    BY <2>2
  <2>4. disk[uuid[p]] \in File
    BY <1>1, <2>1
  <2>5. /\ f \in File
        /\ f.b64 = disk[uuid[p]].b64 /\ disk[uuid[p]].have \subseteq f.have
    BY <2>4 DEF File
  <2> HIDE DEF f
  <2>6. QED
    BY <1>4, <2>1, <2>3, <2>5
<1>7. CASE CreateCompanion(p)
  <2>1. uuid[p] \in DOMAIN disk
    BY <1>7 DEF CreateCompanion, IInv, HandlersFit, FileFits, FileLabels
  <2> DEFINE f == [disk[uuid[p]] EXCEPT !.b64 = TRUE, !.have = {}]
  <2>2. disk' = [disk EXCEPT ![uuid[p]] = f]
    BY <1>7, Zenon DEF CreateCompanion
  <2> HIDE DEF f
  <2>3. DOMAIN disk' = DOMAIN disk /\ (u # uuid[p] => disk'[u] = disk[u])
    BY <1>1, <2>1, <2>2, ExceptOthers
  <2>4. QED
    BY <1>7, <2>3 DEF Lacking
<1>8. QED
  BY <1>3, <1>5, <1>6, <1>7 DEF DiskStep

\* The handler that truncates a companion writes it from the start.
LEMMA TruncatorWrites ==
  ASSUME IInv, NEW p \in Handlers, CreateCompanion(p)
  PROVE  Writes(p, uuid[p])'
<1>1. pc' = [pc EXCEPT ![p] = "fill_b64"] /\ pos' = [pos EXCEPT ![p] = 0]
      /\ uuid' = uuid
  BY DEF CreateCompanion, Go
<1>2. pc'[p] = "fill_b64" /\ pos'[p] = 0
  BY <1>1 DEF IInv, TypeOK
<1>3. 1..0 = {}
  OBVIOUS
<1>4. QED
  BY <1>1, <1>2, <1>3 DEF Writes

\* A handler keeps writing until the companion is whole.
LEMMA WriterGoesOn ==
  ASSUME IInv, ~ DiskFull, NEW p \in Handlers, FillCompanion(p),
         NEW u, Writes(p, u), Lacking(u)'
  PROVE  Writes(p, u)'
<1>1. /\ pos[p] \in Nat /\ pos[p] < NChunks
      /\ uuid[p] = u /\ u \in DOMAIN disk
      /\ uuid' = uuid /\ pos' = [pos EXCEPT ![p] = pos[p] + 1]
      /\ pos'[p] = pos[p] + 1
  BY DEF FillCompanion, IInv, HandlersFit, FileFits, LocalsFit, FileLabels, TypeOK, Writes
<1>2. disk \in Seq(File) /\ disk[u] \in File
  BY <1>1, StoredTypes DEF IInv, TypeOK
<1>3. disk'[u].have = disk[u].have \union {pos[p] + 1}
  <2>1. disk' = [disk EXCEPT ![uuid[p]].have = @ \union {pos[p] + 1}]
    BY DEF FillCompanion
  <2>2. disk'[u] = [disk[u] EXCEPT !.have = @ \union {pos[p] + 1}]
    BY <1>1, <2>1
  <2>3. QED
    BY <1>2, <2>2 DEF File
<1>4. 1..pos'[p] \subseteq disk'[u].have
  BY <1>1, <1>3 DEF Writes
<1>5. ~ LastChunk(p)
  <2>1. SUFFICES ASSUME LastChunk(p) PROVE FALSE
    OBVIOUS
  <2>2. pos'[p] = NChunks
    BY <1>1, <2>1 DEF LastChunk
  <2>3. disk'[u].have \subseteq Chunks
    BY <1>1, <1>2, <1>3, ServerAssumption DEF File, Chunks
  <2>4. QED
    BY <1>4, <2>2, <2>3 DEF Lacking, Chunks
<1>6. pc' = pc
  BY <1>5 DEF FillCompanion
<1>7. QED
  BY <1>1, <1>4, <1>6 DEF Writes

LEMMA CompanionStep ==
  IInv /\ CompanionInProgress /\ [Next]_vars => CompanionInProgress'
<1> SUFFICES ASSUME IInv, CompanionInProgress, [Next]_vars,
                    NEW u \in DOMAIN disk', Lacking(u)', crashes' = 0, ~ DiskFull
             PROVE  \E p \in Handlers : Writes(p, u)'
  BY DEF CompanionInProgress, Lacking, Writes
<1>1. Lacking(u) /\ crashes = 0 => \E p \in Handlers : Writes(p, u)
  BY DEF CompanionInProgress, Lacking, Writes
<1>2. CASE Start \/ Stop \/ Close \/ UNCHANGED vars
  <2>1. UNCHANGED <<disk, pc, uuid, pos, crashes>>
    BY <1>2 DEF Start, Stop, Close, vars, stored, tables, locals
  <2>2. QED
    BY <1>1, <2>1 DEF Lacking, Writes
<1>3. CASE Crash
  BY <1>3 DEF Crash, IInv, TypeOK
<1>4. ASSUME NEW p \in Handlers, Arrive(p) \/ Handle(p)
      PROVE  \E q \in Handlers : Writes(q, u)'
  <2>1. UNCHANGED crashes
    BY <1>4 DEF Arrive, ArriveGet, ArrivePost, Reject, Handle, Work, Connect,
         Throw, Reply, ReplyThrows, Get, SelectSubs, SelectModel, SelectFile,
         SelectAd, ReadCompanion, MissCompanion, OpenBinary, CreateCompanion,
         FillCompanion, Upload, Authenticate, CreateFile, WriteFile, InsertFile,
         InsertModel, AnswerModelId, InsertAd, AnswerAdId, CreateSubs,
         SelectOwner, CheckModel, CheckAd, PickHash, InsertSubs, AnswerSubsId
  <2>2. CASE CreateCompanion(p) /\ u = uuid[p]
    BY <2>2, TruncatorWrites DEF CreateCompanion, Writes
  <2>3. CASE Lacking(u) /\ disk[u].have \subseteq disk'[u].have
    <3>1. PICK q \in Handlers : Writes(q, u)
      BY <1>1, <2>1, <2>3
    <3>2. CASE q = p
      <4>1. FillCompanion(p)
        BY <1>4, <3>1, <3>2, OnlyFills DEF Writes
      <4>2. QED
        BY <3>1, <3>2, <4>1, WriterGoesOn
    <3>3. CASE q # p
      <4>1. Still(q)
        BY <1>4, <3>3, OthersStill DEF IInv
      <4>2. QED
        BY <2>3, <3>1, <4>1 DEF Still, Writes
    <3>4. QED
      BY <3>2, <3>3
  <2>4. CASE DiskStep(p)
    BY <2>2, <2>3, <2>4, CompanionsAfter
  <2>5. CASE ~ DiskStep(p)
    <3>1. UNCHANGED disk
      BY <1>4, <2>5, DiskKept
    <3>2. QED
      BY <2>3, <3>1 DEF Lacking
  <2>6. QED
    BY <2>4, <2>5
<1>5. QED
  BY <1>2, <1>3, <1>4 DEF Next

\* As long as the process has not crashed and no write came up short, a
\* companion that lacks chunks is being written: two handlers that fetch the
\* same model for the first time truncate each other's file, but the last to
\* truncate it writes all of it.
THEOREM CompanionAlwaysInProgress == Spec => []CompanionInProgress
<1>1. Init => CompanionInProgress
  BY DEF Init, CompanionInProgress
<1>2. QED
  BY Inductive, <1>1, CompanionStep, PTL DEF Spec

-----------------------------------------------------------------------------
(* What has been learnt stays true *)

\* Rows are only added and files keep their contents.
LEMMA RowsStay ==
  ASSUME RowsResolve, Extends, NEW i, NEW d, NEW r
  PROVE  /\ i \in DOMAIN files /\ disk[files[i]].data = d =>
              i \in DOMAIN files' /\ disk'[files'[i]].data = d
         /\ Model(i, d) => Model(i, d)'
         /\ Advert(i, r) => Advert(i, r)'
         /\ i \in DOMAIN subs => /\ i \in DOMAIN subs' /\ subs'[i] = subs[i]
                                 /\ models'[subs[i].model] = models[subs[i].model]
                                 /\ ModelFile(i)' = ModelFile(i)
                                 /\ ads'[subs[i].ad] = ads[subs[i].ad]
<1>1. i \in DOMAIN files /\ disk[files[i]].data = d =>
        i \in DOMAIN files' /\ disk'[files'[i]].data = d
  BY DEF RowsResolve, FilesOnDisk, Published, Extends
<1>2. Model(i, d) => Model(i, d)'
  BY DEF RowsResolve, FilesOnDisk, ModelsFiled, Published, Extends, Model
<1>3. Advert(i, r) => Advert(i, r)'
  BY DEF RowsResolve, AdsOnDisk, Published, Extends, Advert
<1>4. ASSUME i \in DOMAIN subs
      PROVE  /\ i \in DOMAIN subs' /\ subs'[i] = subs[i]
             /\ models'[subs[i].model] = models[subs[i].model]
             /\ ModelFile(i)' = ModelFile(i)
             /\ ads'[subs[i].ad] = ads[subs[i].ad]
  BY <1>4 DEF RowsResolve, ModelsFiled, SubsResolve, Extends, ModelFile
<1>5. QED
  BY <1>1, <1>2, <1>3, <1>4

\* The file of the key asked for, once read, stays the file of that key.
LEMMA FileOfKeyStays ==
  ASSUME RowsResolve, Extends, NEW p \in Handlers, FileOfKey(p),
         req'[p] = req[p], row'[p] = row[p], uuid'[p] = uuid[p]
  PROVE  FileOfKey(p)'
<1>1. \A i \in DOMAIN subs : /\ i \in DOMAIN subs' /\ subs'[i] = subs[i]
                             /\ ModelFile(i)' = ModelFile(i)
                             /\ ads'[subs[i].ad] = ads[subs[i].ad]
  BY RowsStay
<1>2. ASSUME req[p].op \in {"get", "getinfo"}
      PROVE  \E i \in DOMAIN subs' : AskedFor(p, i)' /\ uuid'[p] = ModelFile(i)'
  <2>1. PICK i \in DOMAIN subs : AskedFor(p, i) /\ uuid[p] = ModelFile(i)
    BY <1>2 DEF FileOfKey
  <2>2. QED
    BY <1>1, <2>1 DEF AskedFor
<1>3. ASSUME req[p].op = "getad"
      PROVE  \E i \in DOMAIN subs' : /\ AskedFor(p, i)'
                                     /\ row'[p] = subs'[i].ad
                                     /\ uuid'[p] = ads'[row'[p]].uuid
  <2>1. PICK i \in DOMAIN subs : /\ AskedFor(p, i)
                                 /\ row[p] = subs[i].ad
                                 /\ uuid[p] = ads[row[p]].uuid
    BY <1>3 DEF FileOfKey
  <2>2. QED
    BY <1>1, <2>1 DEF AskedFor
<1>4. QED
  BY <1>2, <1>3 DEF FileOfKey

\* What a handler that does not move has learnt stays true.
LEMMA ToldStays ==
  ASSUME RowsResolve, Extends, NEW p \in Handlers, Told(p), Still(p)
  PROVE  Told(p)'
<1> USE DEF Told, Still
<1>1. Pending(p)'
  BY DEF Pending
<1>2. UploadTold(p)'
  <2>1. UploadTold(p)
    OBVIOUS
  <2>2. \A op : Succeeded(p, op)' <=> Succeeded(p, op)
    BY DEF Succeeded
  <2>3. \A i, d : /\ i \in DOMAIN files /\ disk[files[i]].data = d =>
                        i \in DOMAIN files' /\ disk'[files'[i]].data = d
                  /\ Model(i, d) => i \in DOMAIN models' /\ disk'[files'[models'[i]]].data = d
    BY RowsStay DEF Model
  <2>4. \A i, r : Advert(i, r) => /\ i \in DOMAIN ads' /\ ads'[i].owner = r.user
                                  /\ disk'[ads'[i].uuid].data = r.data
    BY RowsStay DEF Advert
  <2>5. Succeeded(p, "upload_model") => Model(row[p], req[p].data)'
    BY <2>1, <2>3 DEF UploadTold, Model
  <2>6. Succeeded(p, "upload_ad") => Advert(row[p], req[p])'
    BY <2>1, <2>4 DEF UploadTold, Advert
  <2>7. pc[p] = "last_model" => Model(lastId[p], req[p].data)'
    BY <2>1, <2>3 DEF UploadTold, Model
  <2>8. pc[p] = "last_ad" => Advert(lastId[p], req[p])'
    BY <2>1, <2>4 DEF UploadTold, Advert
  <2>9. QED
    BY <2>1, <2>2, <2>3, <2>5, <2>6, <2>7, <2>8 DEF UploadTold
<1>3. SubsTold(p)'
  BY DEF SubsTold, Subscribed, Succeeded, Extends
<1>4. GetTold(p)'
  <2>1. FileOfKey(p) => FileOfKey(p)'
    BY FileOfKeyStays
  <2>2. \A i \in DOMAIN subs : /\ i \in DOMAIN subs' /\ subs'[i] = subs[i]
                               /\ models'[subs[i].model] = models[subs[i].model]
    BY RowsStay
  <2>3. QED
    BY <2>1, <2>2 DEF GetTold, AskedFor
<1>5. QED
  BY <1>1, <1>2, <1>3, <1>4

-----------------------------------------------------------------------------
(* What each step tells a handler *)

\* Positions at which a handler has learnt nothing yet.
EarlyLabels == {"idle", "connect", "sel_subs", "auth", "create_file", "write_file",
                "sel_owner", "chk_model", "chk_ad", "pick_hash", "ins_subs"}

LEMMA Untold ==
  ASSUME NEW p \in Handlers, pc'[p] \in EarlyLabels \union {"reply"},
         code'[p] # "OK"
  PROVE  Told(p)'
  BY DEF Told, Pending, UploadTold, SubsTold, GetTold, Succeeded, EarlyLabels,
         FileLabels

\* The steps that tell nothing: they leave the handler early or answer an error.
LEMMA QuietSteps ==
  ASSUME IInv, NEW p \in Handlers, Told(p),
         \/ Arrive(p) \/ Connect(p) \/ Throw(p) \/ Reply(p) \/ ReplyThrows(p)
         \/ Authenticate(p) \/ CreateFile(p) \/ SelectOwner(p) \/ CheckModel(p)
         \/ CheckAd(p) \/ PickHash(p)
  PROVE  Told(p)'
<1> USE DEF IInv, TypeOK, stored, tables, locals, Go, Finish, EarlyLabels
<1>1. pc[p] # "reply" => code[p] # "OK"
  BY DEF Told, Pending
<1>2. CASE Arrive(p)
  BY <1>1, <1>2, Untold DEF Arrive, ArriveGet, ArrivePost, Reject
<1>3. CASE Connect(p) \/ Throw(p)
  BY <1>1, <1>3, Untold DEF Connect, FirstStep, Throw, Connected, Raise
<1>4. CASE Reply(p) \/ ReplyThrows(p)
  BY <1>4, Untold DEF Reply, ReplyThrows
<1>5. CASE Authenticate(p) \/ CreateFile(p)
  BY <1>1, <1>5, Untold DEF Authenticate, AfterAuth, CreateFile
<1>6. CASE SelectOwner(p) \/ CheckModel(p)
  BY <1>1, <1>6, Untold DEF SelectOwner, CheckModel
<1>7. CASE CheckAd(p) \/ PickHash(p)
  BY <1>1, <1>7, Untold DEF CheckAd, PickHash
<1>8. QED
  BY <1>2, <1>3, <1>4, <1>5, <1>6, <1>7

\* The methods that fetch: a handler whose file is known only passes it on.
LEMMA FileTold ==
  ASSUME NEW p \in Handlers, pc'[p] \in FileLabels \union {"reply"},
         pc'[p] # "reply" => code'[p] # "OK",
         req'[p] \in GetRequest, FileOfKey(p)'
  PROVE  Told(p)'
  BY DEF Told, Pending, UploadTold, SubsTold, GetTold, Succeeded, FileLabels,
         GetRequest, GetOps

\* Reading the subscription, the model row, the file address and the
\* advertisement follows the key from row to row.
LEMMA SelectsTell ==
  ASSUME IInv, NEW p \in Handlers, Told(p),
         SelectSubs(p) \/ SelectModel(p) \/ SelectFile(p) \/ SelectAd(p)
  PROVE  Told(p)'
<1> USE DEF IInv, TypeOK, stored, tables, locals, Go, Finish
<1>0. /\ req[p] \in GetRequest /\ req' = req /\ code[p] # "OK"
      /\ UNCHANGED <<files, models, ads, subs>>
  BY DEF SelectSubs, SelectModel, SelectFile, SelectAd, HandlersFit, RequestFits,
         GetLabels, Told, Pending
<1>1. CASE pc'[p] = "reply"
  <2>1. code'[p] # "OK"
    BY <1>0, <1>1 DEF SelectSubs, SelectModel, SelectFile, SelectAd
  <2>2. QED
    BY <1>1, <2>1, Untold
<1>2. CASE SelectSubs(p) /\ pc'[p] # "reply"
  <2>1. PICK i \in RowsOf(req[p].subsid) :
          /\ row' = [row EXCEPT ![p] = IF req[p].op = "getad" THEN subs[i].ad
                                                             ELSE subs[i].model]
          /\ pc' = [pc EXCEPT ![p] = IF req[p].op = "getad" THEN "sel_ad"
                                                           ELSE "sel_model"]
          /\ code' = code
    BY <1>2 DEF SelectSubs
  <2>2. AskedFor(p, i)
    BY <2>1 DEF RowsOf, AskedFor
  <2>3. CASE req[p].op = "getad"
    <3>1. pc'[p] = "sel_ad" /\ row'[p] = subs[i].ad
      BY <2>1, <2>3
    <3>2. QED
      BY <1>0, <2>1, <2>2, <2>3, <3>1
         DEF AskedFor, Told, Pending, UploadTold, SubsTold, GetTold, Succeeded, FileLabels
  <2>4. CASE req[p].op # "getad"
    <3>1. pc'[p] = "sel_model" /\ row'[p] = subs[i].model
      BY <2>1, <2>4
    <3>2. req[p].op \in {"get", "getinfo"}
      BY <1>0, <2>4 DEF GetRequest, GetOps
    <3>3. QED
      BY <1>0, <2>1, <2>2, <3>1, <3>2
         DEF AskedFor, Told, Pending, UploadTold, SubsTold, GetTold, Succeeded, FileLabels
  <2>5. QED
    BY <2>3, <2>4
<1>3. CASE SelectModel(p) /\ pc'[p] # "reply"
  <2>1. PICK i \in DOMAIN subs : AskedFor(p, i) /\ row[p] = subs[i].model
    BY <1>3 DEF SelectModel, Told, GetTold
  <2>2. /\ row'[p] = models[row[p]] /\ pc'[p] = "sel_file" /\ code' = code
        /\ req[p].op \in {"get", "getinfo"}
    BY <1>3 DEF SelectModel, Told, GetTold
  <2>3. QED
    BY <1>0, <2>1, <2>2
       DEF AskedFor, Told, Pending, UploadTold, SubsTold, GetTold, Succeeded, FileLabels
<1>4. CASE SelectFile(p) /\ pc'[p] # "reply"
  <2>1. PICK i \in DOMAIN subs : AskedFor(p, i) /\ row[p] = models[subs[i].model]
    BY <1>4 DEF SelectFile, Told, GetTold
  <2>2. /\ uuid'[p] = files[row[p]] /\ pc'[p] \in FileLabels /\ code' = code
        /\ req[p].op \in {"get", "getinfo"}
    BY <1>4 DEF SelectFile, Told, GetTold, FileLabels
  <2>3. FileOfKey(p)'
    BY <1>0, <2>1, <2>2 DEF FileOfKey, AskedFor, ModelFile
  <2>4. QED
    BY <1>0, <2>2, <2>3, FileTold
<1>5. CASE SelectAd(p) /\ pc'[p] # "reply"
  <2>1. PICK i \in DOMAIN subs : AskedFor(p, i) /\ row[p] = subs[i].ad
    BY <1>5 DEF SelectAd, Told, GetTold
  <2>2. /\ uuid'[p] = ads[row[p]].uuid /\ pc'[p] \in FileLabels /\ code' = code
        /\ row' = row /\ req[p].op = "getad"
    BY <1>5 DEF SelectAd, Told, GetTold, FileLabels
  <2>3. FileOfKey(p)'
    BY <1>0, <2>1, <2>2 DEF FileOfKey, AskedFor
  <2>4. QED
    BY <1>0, <2>2, <2>3, FileTold
<1>6. QED
  BY <1>1, <1>2, <1>3, <1>4, <1>5

\* Reading, encoding and writing the file do not change which file it is.
LEMMA FilesTell ==
  ASSUME IInv, Extends, NEW p \in Handlers, Told(p),
         \/ ReadCompanion(p) \/ MissCompanion(p) \/ OpenBinary(p)
         \/ CreateCompanion(p) \/ FillCompanion(p)
  PROVE  Told(p)'
<1> USE DEF IInv, TypeOK, stored, tables, locals, Go, Finish, FileLabels
<1>1. /\ req[p] \in GetRequest /\ code[p] # "OK" /\ FileOfKey(p)
      /\ req' = req /\ row' = row /\ uuid' = uuid
  BY DEF ReadCompanion, MissCompanion, OpenBinary, CreateCompanion, FillCompanion,
         HandlersFit, RequestFits, GetLabels, Told, Pending, GetTold
<1>2. FileOfKey(p)'
  BY <1>1, FileOfKeyStays
<1>3. CASE ReadCompanion(p) \/ MissCompanion(p) \/ OpenBinary(p) \/ CreateCompanion(p)
  BY <1>1, <1>2, <1>3, FileTold
     DEF ReadCompanion, MissCompanion, OpenBinary, CreateCompanion
<1>4. CASE FillCompanion(p)
  BY <1>1, <1>2, <1>4, FileTold DEF FillCompanion
<1>5. QED
  BY <1>3, <1>4

\* LAST_INSERT_ID() names the row the handler itself inserted, whatever rows
\* others add before it is read.
LEMMA UploadsTell ==
  ASSUME IInv, NEW p \in Handlers, Told(p),
         \/ WriteFile(p) \/ InsertFile(p) \/ InsertModel(p) \/ AnswerModelId(p)
         \/ InsertAd(p) \/ AnswerAdId(p)
  PROVE  Told(p)'
<1> USE DEF IInv, TypeOK, stored, tables, locals, Go, Finish
<1>0. /\ req[p] \in UploadRequest /\ req[p].op \in {"upload_model", "upload_ad"}
      /\ req' = req /\ code[p] # "OK"
  BY DEF WriteFile, InsertFile, InsertModel, AnswerModelId, InsertAd, AnswerAdId,
         HandlersFit, RequestFits, UploadLabels, UploadRequest, UploadOps, Told, Pending
<1> DEFINE Learns == Pending(p)' /\ UploadTold(p)'
<1>a. ASSUME Learns, pc'[p] \in UploadLabels \union {"reply"} PROVE Told(p)'
  <2>1. req'[p].op \in {"upload_model", "upload_ad"}
    BY <1>0
  <2>2. SubsTold(p)'
    BY <1>a, <2>1 DEF SubsTold, Succeeded, UploadLabels
  <2>3. GetTold(p)'
    BY <1>a, <2>1 DEF GetTold, FileOfKey, FileLabels, UploadLabels
  <2>4. QED
    BY <1>a, <2>2, <2>3 DEF Told
<1> HIDE DEF Learns
<1>1. CASE WriteFile(p)
  <2>1. pc'[p] = IF req[p].op = "upload_model" THEN "ins_file" ELSE "ins_ad"
    BY <1>1 DEF WriteFile, AfterWrite
  <2>2. code' = code
    BY <1>1 DEF WriteFile
  <2>3. QED
    BY <1>0, <1>a, <2>1, <2>2
       DEF Learns, Pending, UploadTold, Succeeded, UploadLabels
<1>2. CASE InsertFile(p)
  <2>1. /\ files' = Append(files, uuid[p])
        /\ lastId'[p] = Len(files) + 1
        /\ pc'[p] = "ins_model" /\ code' = code /\ disk' = disk
        /\ req[p].op = "upload_model"
    BY <1>2 DEF InsertFile, Told, UploadTold
  <2>2. uuid[p] \in Nat /\ disk[uuid[p]].data = req[p].data
    BY <1>2, LenProperties DEF InsertFile, HandlersFit, FileFits, Published
  <2>3. lastId'[p] \in DOMAIN files' /\ files'[lastId'[p]] = uuid[p]
    <3>1. /\ DOMAIN Append(files, uuid[p]) = DOMAIN files \union {Len(files) + 1}
          /\ Append(files, uuid[p])[Len(files) + 1] = uuid[p]
      BY <2>2, AppendGrows
    <3>2. QED
      BY <2>1, <3>1
  <2>4. QED
    BY <1>0, <1>a, <2>1, <2>2, <2>3
       DEF Learns, Pending, UploadTold, Succeeded, UploadLabels
<1>3. CASE InsertModel(p)
  <2>1. CASE lastId[p] \in DOMAIN files
    <3>1. /\ models' = Append(models, lastId[p])
          /\ lastId'[p] = Len(models) + 1
          /\ pc'[p] = "last_model" /\ code' = code /\ disk' = disk /\ files' = files
          /\ req[p].op = "upload_model"
          /\ disk[files[lastId[p]]].data = req[p].data
      BY <1>3, <2>1 DEF InsertModel, LastInsertId, Told, UploadTold
    <3>2. lastId[p] \in Nat
      BY <2>1, LenProperties
    <3>3. lastId'[p] \in DOMAIN models' /\ models'[lastId'[p]] = lastId[p]
      <4>1. /\ DOMAIN Append(models, lastId[p]) = DOMAIN models \union {Len(models) + 1}
            /\ Append(models, lastId[p])[Len(models) + 1] = lastId[p]
        BY <3>2, AppendGrows
      <4>2. QED
        BY <3>1, <4>1
    <3>4. Model(lastId[p], req[p].data)'
      BY <1>0, <3>1, <3>3 DEF Model
    <3>5. QED
      BY <1>0, <1>a, <3>1, <3>4
         DEF Learns, Pending, UploadTold, Succeeded, UploadLabels
  <2>2. CASE lastId[p] \notin DOMAIN files
    BY <1>3, <2>2, Untold DEF InsertModel, LastInsertId, Raise
  <2>3. QED
    BY <2>1, <2>2
<1>4. CASE AnswerModelId(p)
  <2>1. /\ row'[p] = lastId[p] /\ pc'[p] = "reply"
        /\ UNCHANGED <<models, files, disk>>
        /\ req[p].op = "upload_model" /\ Model(lastId[p], req[p].data)
    BY <1>4 DEF AnswerModelId, LastInsertId, Told, UploadTold
  <2>2. Model(row[p], req[p].data)'
    BY <1>0, <2>1 DEF Model
  <2>3. QED
    BY <1>0, <1>a, <2>1, <2>2
       DEF Learns, Pending, UploadTold, Succeeded, UploadLabels
<1>5. CASE InsertAd(p)
  <2> DEFINE ad == [owner |-> req[p].user, uuid |-> uuid[p], url |-> req[p].data]
  <2>1. /\ ads' = Append(ads, ad)
        /\ lastId'[p] = Len(ads) + 1
        /\ pc'[p] = "last_ad" /\ code' = code /\ disk' = disk
        /\ req[p].op = "upload_ad"
    BY <1>5 DEF InsertAd, Told, UploadTold
  <2>2. /\ uuid[p] \in Nat /\ disk[uuid[p]].data = req[p].data
        /\ req[p].user \in Owners /\ req[p].data \in Data
    BY <1>5, LenProperties DEF InsertAd, HandlersFit, FileFits, Published, RequestFits,
                               UploadLabels, UploadRequest
  <2>3. ad \in Ad /\ ad.owner = req[p].user /\ ad.uuid = uuid[p]
    BY <2>2 DEF Ad
  <2> HIDE DEF ad
  <2>4. lastId'[p] \in DOMAIN ads' /\ ads'[lastId'[p]] = ad
    <3>1. /\ DOMAIN Append(ads, ad) = DOMAIN ads \union {Len(ads) + 1}
          /\ Append(ads, ad)[Len(ads) + 1] = ad
      BY <2>3, AppendGrows
    <3>2. QED
      BY <2>1, <3>1
  <2>5. Advert(lastId[p], req[p])'
    BY <1>0, <2>1, <2>2, <2>3, <2>4 DEF Advert
  <2>6. QED
    BY <1>0, <1>a, <2>1, <2>5
       DEF Learns, Pending, UploadTold, Succeeded, UploadLabels
<1>6. CASE AnswerAdId(p)
  <2>1. /\ row'[p] = lastId[p] /\ pc'[p] = "reply"
        /\ UNCHANGED <<ads, disk>>
        /\ req[p].op = "upload_ad" /\ Advert(lastId[p], req[p])
    BY <1>6 DEF AnswerAdId, LastInsertId, Told, UploadTold
  <2>2. Advert(row[p], req[p])'
    BY <1>0, <2>1 DEF Advert
  <2>3. QED
    BY <1>0, <1>a, <2>1, <2>2
       DEF Learns, Pending, UploadTold, Succeeded, UploadLabels
<1>7. QED
  BY <1>1, <1>2, <1>3, <1>4, <1>5, <1>6

\* The row a create_subs request stores is the one it named, and szHash is not
\* drawn again before it is sent.
LEMMA SubsTell ==
  ASSUME IInv, NEW p \in Handlers, Told(p), InsertSubs(p) \/ AnswerSubsId(p)
  PROVE  Told(p)'
<1> USE DEF IInv, TypeOK, stored, tables, locals, Go, Finish
<1>0. /\ req[p] \in SubsRequest /\ req[p].op = "create_subs"
      /\ req' = req /\ key' = key /\ code[p] # "OK"
  BY DEF InsertSubs, AnswerSubsId, HandlersFit, RequestFits, SubsLabels, SubsRequest,
         Told, Pending
<1>1. ASSUME Subscribed(p)', pc'[p] \in {"last_subs", "reply"},
             pc'[p] # "reply" => code'[p] # "OK"
      PROVE  Told(p)'
  BY <1>0, <1>1 DEF Told, Pending, UploadTold, SubsTold, GetTold, FileOfKey, Succeeded,
                    FileLabels
<1>2. CASE InsertSubs(p) /\ KeyIsFree(p) /\ ForeignKeysResolve(p)
  <2> DEFINE sub == [owner |-> req[p].owner, hash |-> key[p],
                     model |-> req[p].model_id, ad |-> req[p].ad_id]
  <2>1. /\ subs' = Append(subs, sub)
        /\ pc'[p] = "last_subs" /\ code' = code
    BY <1>2 DEF InsertSubs
  <2>2. subs' \in Seq(Subs)
    BY <1>2, SubsTypes DEF CreateSubs
  <2>3. Subscribed(p)'
    <3>1. Len(subs) + 1 \in DOMAIN subs' /\ subs'[Len(subs) + 1] = sub
      <4> HIDE DEF sub
      <4>1. /\ Len(subs) + 1 \in DOMAIN Append(subs, sub)
            /\ Append(subs, sub)[Len(subs) + 1] = sub
        BY <2>1, <2>2, LenProperties
      <4>2. QED
        BY <2>1, <4>1
    <3>2. QED
      BY <1>0, <3>1 DEF Subscribed
  <2>4. QED
    BY <1>0, <1>1, <2>1, <2>3
<1>3. CASE InsertSubs(p) /\ ~ (KeyIsFree(p) /\ ForeignKeysResolve(p))
  BY <1>3, Untold DEF InsertSubs, Raise
<1>4. CASE AnswerSubsId(p)
  <2>1. Subscribed(p) /\ subs' = subs /\ pc'[p] = "reply"
    BY <1>4 DEF AnswerSubsId, Told, SubsTold
  <2>2. Subscribed(p)'
    BY <1>0, <2>1 DEF Subscribed
  <2>3. QED
    BY <1>0, <1>1, <2>1, <2>2
<1>5. QED
  BY <1>2, <1>3, <1>4

\* Every step keeps what every handler has learnt.
LEMMA ToldStep == IInv /\ AllTold /\ [Next]_vars => AllTold'
<1> SUFFICES ASSUME IInv, AllTold, [Next]_vars, NEW q \in Handlers PROVE Told(q)'
  BY DEF AllTold
<1>1. Extends /\ RowsResolve /\ Told(q)
  BY StepExtends DEF IInv, AllTold
<1>2. CASE Start \/ Stop \/ Close \/ UNCHANGED vars
  <2>1. Still(q)
    BY <1>2 DEF Start, Stop, Close, vars, stored, locals, Still
  <2>2. QED
    BY <1>1, <2>1, ToldStays
<1>3. CASE Crash
  BY <1>3, Untold DEF Crash, EarlyLabels
<1>4. ASSUME NEW p \in Handlers, Arrive(p) \/ Handle(p) PROVE Told(q)'
  <2>1. CASE q = p
    BY <1>1, <1>4, <2>1, QuietSteps, SelectsTell, FilesTell, UploadsTell, SubsTell
       DEF Handle, Work, Get, Upload, CreateSubs
  <2>2. CASE q # p
    BY <1>1, <1>4, <2>2, OthersStill, ToldStays DEF IInv
  <2>3. QED
    BY <2>1, <2>2
<1>5. QED
  BY <1>2, <1>3, <1>4 DEF Next

\* What a handler has learnt from the rows it read and inserted is true in every
\* state of every run.
THEOREM ToldAlways == Spec => []AllTold
<1>1. Init => AllTold
  BY DEF Init, AllTold, Told, Pending, UploadTold, SubsTold, GetTold, Succeeded, FileLabels
<1>2. QED
  BY Inductive, <1>1, ToldStep, PTL DEF Spec

\* An id answered with error_code OK names what this very request uploaded,
\* whatever the other handlers inserted before LAST_INSERT_ID() was read.
THEOREM UploadAnswersAlwaysTrue == Spec => []UploadAnswersTrue
<1>1. AllTold => UploadAnswersTrue
  BY DEF AllTold, Told, UploadTold, Model, Advert, UploadAnswersTrue
<1>2. QED
  BY ToldAlways, <1>1, PTL

\* A key answered with error_code OK is stored and denotes the owner, model and
\* advertisement the request named.
THEOREM SubsAnswersAlwaysTrue == Spec => []SubsAnswersTrue
<1>1. AllTold => SubsAnswersTrue
  BY DEF AllTold, Told, SubsTold, Subscribed, SubsAnswersTrue
<1>2. QED
  BY ToldAlways, <1>1, PTL

\* A file answered with error_code OK belongs to the subscription asked for.
THEOREM GetAnswersAlwaysTrue == Spec => []GetAnswersTrue
<1>1. AllTold => GetAnswersTrue
  BY DEF AllTold, Told, GetTold, FileOfKey, AskedFor, Succeeded, GetAnswersTrue
<1>2. QED
  BY ToldAlways, <1>1, PTL

-----------------------------------------------------------------------------
(* PublishServer implements PublishStore: as long as no write comes up       *)
(* short, every step of the server is one atomic publication of the          *)
(* catalogue or changes nothing in it.  The INSERT into tbl_model_desc       *)
(* publishes a model, the INSERT into tbl_advertisement an advertisement,    *)
(* the INSERT into tbl_subscription a key; files are created, written and    *)
(* named by rows that the catalogue does not show yet.                       *)

\* The catalogue of PublishStore, as PublishServer's tables and files show it.
Shelf == [i \in DOMAIN models |-> Content(files[models[i]])]

Banners == [i \in DOMAIN ads |-> [data |-> Content(ads[i].uuid),
                                  url |-> ads[i].url,
                                  owner |-> ads[i].owner]]

Denotes(s, h) == LET i == CHOOSE i \in DOMAIN s : s[i].hash = h
                 IN  [owner |-> s[i].owner, model |-> s[i].model, ad |-> s[i].ad]

Keys == [h \in {subs[i].hash : i \in DOMAIN subs} |-> Denotes(subs, h)]

LEMMA StoreInit == Init => Store!Init
<1> SUFFICES ASSUME Init PROVE Store!Init
  OBVIOUS
<1>1. models = <<>> /\ ads = <<>> /\ subs = <<>>
  BY DEF Init
<1>2. [i \in DOMAIN models |-> Content(files[models[i]])] = <<>>
  BY <1>1
<1>3. [i \in DOMAIN ads |-> [data |-> Content(ads[i].uuid), url |-> ads[i].url,
                             owner |-> ads[i].owner]] = <<>>
  BY <1>1
<1>4. Keys = [h \in {} |-> {}]
  BY <1>1 DEF Keys
<1>5. QED
  BY <1>2, <1>3, <1>4 DEF Store!Init, Keys, Denotes

-----------------------------------------------------------------------------
(* The catalogue shows a published file as it was uploaded, for good *)

\* The models and advertisements there are keep what they show.
LEMMA ShownStays ==
  ASSUME ~ DiskFull, IInv, Extends
  PROVE  /\ \A i \in DOMAIN files : /\ Content(files[i]) \in Data
                                     /\ Content(files[i])' = Content(files[i])
         /\ \A i \in DOMAIN models : /\ Content(files[models[i]]) \in Data
                                      /\ Content(files[models[i]])' = Content(files[models[i]])
         /\ \A i \in DOMAIN ads : /\ Content(ads[i].uuid) \in Data
                                   /\ Content(ads[i].uuid)' = Content(ads[i].uuid)
<1>1. \A u : Published(u) => disk[u].bin = "whole" /\ disk'[u].bin = "whole"
                             /\ disk'[u].data = disk[u].data /\ disk[u].data \in Data
  BY StoredTypes DEF IInv, Published, Extends, File
<1>2. /\ \A i \in DOMAIN files : Published(files[i])
      /\ \A i \in DOMAIN models : models[i] \in DOMAIN files
      /\ \A i \in DOMAIN ads : Published(ads[i].uuid)
  BY DEF IInv, RowsResolve, FilesOnDisk, ModelsFiled, AdsOnDisk
<1>3. QED
  BY <1>1, <1>2 DEF Content, Extends

LEMMA CatalogueKept ==
  ASSUME ~ DiskFull, IInv, Extends, UNCHANGED <<models, ads, subs>>
  PROVE  UNCHANGED Store!vars
<1>1. Shelf' = Shelf
  BY ShownStays DEF Shelf
<1>2. Banners' = Banners
  BY ShownStays DEF Banners
<1>3. Keys' = Keys
  BY DEF Keys, Denotes
<1>4. QED
  BY <1>1, <1>2, <1>3 DEF Store!vars, Shelf, Banners, Keys, Denotes

-----------------------------------------------------------------------------
(* The three publications *)

\* A function on 1..n is a sequence of n elements.
LEMMA FunctionIsSeq ==
  ASSUME NEW S, NEW n \in Nat, NEW f \in [1..n -> S]
  PROVE  f \in Seq(S) /\ DOMAIN f = 1..n /\ Len(f) = n
<1>1. f \in Seq(S)
  BY SeqDef, Zenon
<1>2. QED
  BY <1>1, LenProperties

\* A function on 1..n+1 that extends a sequence of n elements appends to it.
LEMMA AppendsTo ==
  ASSUME NEW S, NEW s \in Seq(S), NEW t \in Seq(S), NEW e \in S,
         DOMAIN t = 1..(Len(s) + 1), t[Len(s) + 1] = e,
         \A i \in 1..Len(s) : t[i] = s[i]
  PROVE  t = Append(s, e)
<1>1. /\ Append(s, e) \in Seq(S)
      /\ Len(Append(s, e)) = Len(s) + 1
      /\ \A i \in 1..Len(s) : Append(s, e)[i] = s[i]
      /\ Append(s, e)[Len(s) + 1] = e
  BY AppendProperties
<1>2. Len(t) = Len(s) + 1 /\ Len(s) \in Nat
  BY LenProperties
<1>3. \A i \in 1..Len(t) : t[i] = Append(s, e)[i]
  <2>1. \A i \in 1..Len(t) : i \in 1..Len(s) \/ i = Len(s) + 1
    BY <1>2
  <2>2. QED
    BY <1>1, <2>1
<1>4. QED
  BY <1>1, <1>2, <1>3, SeqEqual

\* The INSERT into tbl_model_desc, whose file address was closed and named
\* before, publishes the model.
LEMMA InsertPublishesModel ==
  ASSUME ~ DiskFull, IInv, NEW p \in Handlers, InsertModel(p),
         LastInsertId(p) \in DOMAIN files
  PROVE  Store!PublishModel
<1> DEFINE id == LastInsertId(p)
           d == Content(files[id])
<1>1. Extends /\ disk' = disk
  BY RowExtends DEF RowStep
<1>2. models' = Append(models, id) /\ UNCHANGED <<files, ads, subs>>
  BY DEF InsertModel
<1>3. models \in Seq(Nat) /\ id \in Nat
  BY LenProperties DEF IInv, TypeOK
<1>4. DOMAIN models = 1..Len(models) /\ Len(models) \in Nat
  BY <1>3, LenProperties
<1>5. /\ DOMAIN models' = 1..(Len(models) + 1)
      /\ models'[Len(models) + 1] = id
      /\ \A i \in DOMAIN models : models'[i] = models[i]
  BY <1>2, <1>3, AppendGrows
<1>6. d \in Data /\ \A i \in DOMAIN models : Content(files[models[i]]) \in Data
  BY <1>1, ShownStays
<1>7. Shelf \in Seq(Data) /\ DOMAIN Shelf = 1..Len(models) /\ Len(Shelf) = Len(models)
  BY <1>4, <1>6 DEF Shelf
<1>8. \A u : Content(u)' = Content(u)
  BY <1>1 DEF Content
<1>9. /\ Shelf' \in Seq(Data) /\ DOMAIN Shelf' = 1..(Len(models) + 1)
      /\ Shelf'[Len(models) + 1] = d
      /\ \A i \in 1..Len(models) : Shelf'[i] = Shelf[i]
  BY <1>2, <1>4, <1>5, <1>6, <1>8 DEF Shelf
<1>10. Shelf' = Append(Shelf, d)
  BY <1>6, <1>7, <1>9, AppendsTo
<1>11. Banners' = Banners
  BY <1>1, <1>2 DEF Banners, Content
<1>12. Keys' = Keys
  BY <1>2 DEF Keys, Denotes
<1>13. QED
  BY <1>6, <1>10, <1>11, <1>12
     DEF Store!PublishModel, Shelf, Banners, Keys, Denotes

\* The INSERT into tbl_advertisement publishes the image and the url at once.
LEMMA InsertPublishesAd ==
  ASSUME ~ DiskFull, IInv, NEW p \in Handlers, InsertAd(p)
  PROVE  Store!PublishAd
<1> DEFINE ad == [owner |-> req[p].user, uuid |-> uuid[p], url |-> req[p].data]
           b == [data |-> req[p].data, url |-> req[p].data, owner |-> req[p].user]
           S == [data : Data, url : Data, owner : Owners]
<1>1. disk' = disk /\ Extends
  BY RowExtends DEF RowStep
<1>2. ads' = Append(ads, ad) /\ UNCHANGED <<files, models, subs>>
  BY DEF InsertAd
<1>3. /\ req[p].user \in Owners /\ req[p].data \in Data /\ uuid[p] \in Nat
      /\ Published(uuid[p]) /\ disk[uuid[p]].data = req[p].data
  BY LenProperties DEF IInv, TypeOK, InsertAd, HandlersFit, FileFits, Published,
                       RequestFits, UploadLabels, UploadRequest
<1>4. /\ ads \in Seq(Ad) /\ ad \in Ad /\ b \in S
      /\ ad.owner = req[p].user /\ ad.uuid = uuid[p] /\ ad.url = req[p].data
  BY <1>3 DEF IInv, TypeOK, Ad
<1> HIDE DEF ad
<1>5. DOMAIN ads = 1..Len(ads) /\ Len(ads) \in Nat
  BY <1>4, LenProperties
<1>6. /\ DOMAIN ads' = 1..(Len(ads) + 1)
      /\ ads'[Len(ads) + 1] = ad
      /\ \A i \in DOMAIN ads : ads'[i] = ads[i]
  BY <1>2, <1>4, AppendGrows
<1>7. Content(uuid[p]) = req[p].data
  BY <1>3 DEF Content, Published
<1>8. \A i \in DOMAIN ads : /\ Content(ads[i].uuid) \in Data
                            /\ ads[i].url \in Data /\ ads[i].owner \in Owners
  BY <1>1, ShownStays, StoredTypes DEF IInv, Ad
<1>9. \A u : Content(u)' = Content(u)
  BY <1>1 DEF Content
<1>10. Banners \in Seq(S) /\ Len(Banners) = Len(ads)
  BY <1>5, <1>8 DEF Banners
<1>11. /\ Banners = [i \in 1..Len(ads) |->
                       [data |-> Content(ads[i].uuid), url |-> ads[i].url,
                        owner |-> ads[i].owner]]
       /\ Banners' = [i \in 1..(Len(ads) + 1) |->
                        [data |-> Content(ads'[i].uuid), url |-> ads'[i].url,
                         owner |-> ads'[i].owner]]
  BY <1>5, <1>6, <1>9 DEF Banners
<1>12. Banners'[Len(ads) + 1] = b
  BY <1>4, <1>5, <1>6, <1>7, <1>11
<1>13. \A i \in 1..Len(ads) : Banners'[i] = Banners[i] /\ Banners'[i] \in S
  <2>1. \A i \in 1..Len(ads) : Banners'[i] = Banners[i]
    BY <1>5, <1>6, <1>11
  <2>2. \A i \in 1..Len(ads) : Banners[i] \in S
    BY <1>5, <1>8, <1>11
  <2>3. QED
    BY <2>1, <2>2
<1>14. Banners' \in Seq(S) /\ DOMAIN Banners' = 1..(Len(ads) + 1)
  <2>1. \A i \in 1..(Len(ads) + 1) : Banners'[i] \in S
    BY <1>4, <1>5, <1>12, <1>13
  <2>2. Banners' \in [1..(Len(ads) + 1) -> S]
    BY <1>11, <2>1
  <2>3. Len(ads) + 1 \in Nat
    BY <1>5
  <2> HIDE DEF S
  <2>4. QED
    BY <2>2, <2>3, FunctionIsSeq
<1>15. Banners' = Append(Banners, b)
  BY <1>4, <1>10, <1>12, <1>13, <1>14, AppendsTo
<1>16. Shelf' = Shelf
  BY <1>1, <1>2 DEF Shelf, Content
<1>17. Keys' = Keys
  BY <1>2 DEF Keys, Denotes
<1>18. QED
  BY <1>3, <1>15, <1>16, <1>17
     DEF Store!PublishAd, Shelf, Banners, Keys, Denotes

\* A key that denotes one subscription denotes that one.
LEMMA KeyDenotes ==
  ASSUME NEW s, \A i, j \in DOMAIN s : s[i].hash = s[j].hash => i = j,
         NEW i \in DOMAIN s
  PROVE  Denotes(s, s[i].hash)
           = [owner |-> s[i].owner, model |-> s[i].model, ad |-> s[i].ad]
<1>1. (CHOOSE j \in DOMAIN s : s[j].hash = s[i].hash) = i
  OBVIOUS
<1>2. QED
  BY <1>1 DEF Denotes

\* The INSERT into tbl_subscription publishes a key nobody has.
LEMMA InsertSubscribes ==
  ASSUME IInv, KeysDistinct, KeysDistinct', NEW p \in Handlers, InsertSubs(p),
         KeyIsFree(p), ForeignKeysResolve(p)
  PROVE  Store!Subscribe
<1> DEFINE sub == [owner |-> req[p].owner, hash |-> key[p],
                   model |-> req[p].model_id, ad |-> req[p].ad_id]
           val == [owner |-> req[p].owner, model |-> req[p].model_id, ad |-> req[p].ad_id]
<1>1. subs' = Append(subs, sub) /\ UNCHANGED <<files, models, ads, disk>>
  BY DEF InsertSubs
<1>2. /\ key[p] \in Hashes /\ req[p].owner \in Owners
      /\ req[p].model_id \in DOMAIN models /\ req[p].ad_id \in DOMAIN ads
      /\ \A i \in DOMAIN subs : subs[i].hash # key[p]
  BY DEF IInv, InsertSubs, HandlersFit, LocalsFit, ForeignKeysResolve, KeyIsFree, RowsOf
<1>3. subs \in Seq(Subs) /\ subs' \in Seq(Subs)
  BY SubsTypes DEF CreateSubs, IInv, TypeOK
<1>4. /\ sub.hash = key[p]
      /\ [owner |-> sub.owner, model |-> sub.model, ad |-> sub.ad] = val
  OBVIOUS
<1> HIDE DEF sub
<1>5. /\ DOMAIN subs' = DOMAIN subs \union {Len(subs) + 1}
      /\ Len(subs) + 1 \notin DOMAIN subs
      /\ subs'[Len(subs) + 1] = sub
      /\ \A i \in DOMAIN subs : subs'[i] = subs[i]
  BY <1>1, <1>3, LenProperties
<1>6. /\ DOMAIN Keys = {subs[i].hash : i \in DOMAIN subs}
      /\ \A h \in DOMAIN Keys : Keys[h] = Denotes(subs, h)
      /\ Keys' = [h \in {subs'[i].hash : i \in DOMAIN subs'} |-> Denotes(subs', h)]
  BY DEF Keys
<1>7. {subs'[i].hash : i \in DOMAIN subs'} = DOMAIN Keys \union {key[p]}
  BY <1>4, <1>5, <1>6
<1>8. Denotes(subs', key[p]) = val
  <2>1. \A i \in DOMAIN subs' :
          Denotes(subs', subs'[i].hash)
            = [owner |-> subs'[i].owner, model |-> subs'[i].model, ad |-> subs'[i].ad]
    BY KeyDenotes DEF KeysDistinct
  <2>2. QED
    BY <1>4, <1>5, <2>1
<1>9. \A h \in DOMAIN Keys : Denotes(subs', h) = Keys[h]
  <2>1. SUFFICES ASSUME NEW i \in DOMAIN subs
                 PROVE  Denotes(subs', subs[i].hash) = Denotes(subs, subs[i].hash)
    BY <1>6
  <2>2. Denotes(subs, subs[i].hash)
          = [owner |-> subs[i].owner, model |-> subs[i].model, ad |-> subs[i].ad]
    BY KeyDenotes DEF KeysDistinct
  <2>3. Denotes(subs', subs'[i].hash)
          = [owner |-> subs'[i].owner, model |-> subs'[i].model, ad |-> subs'[i].ad]
    BY <1>5, KeyDenotes DEF KeysDistinct
  <2>4. QED
    BY <1>5, <2>2, <2>3
<1>10. key[p] \notin DOMAIN Keys
  BY <1>2, <1>6
<1>11. Keys' = [k \in DOMAIN Keys \union {key[p]} |->
                  IF k = key[p] THEN val ELSE Keys[k]]
  BY <1>6, <1>7, <1>8, <1>9, <1>10
<1>12. Shelf' = Shelf /\ Banners' = Banners
  BY <1>1 DEF Shelf, Banners, Content
<1>13. DOMAIN Shelf = DOMAIN models /\ DOMAIN Banners = DOMAIN ads
  BY DEF Shelf, Banners
<1>14. \E h \in Hashes, o \in Owners, m \in DOMAIN Shelf, a \in DOMAIN Banners :
         /\ h \notin DOMAIN Keys
         /\ Keys' = [k \in DOMAIN Keys \union {h} |->
                       IF k = h THEN [owner |-> o, model |-> m, ad |-> a]
                                ELSE Keys[k]]
  BY <1>2, <1>10, <1>11, <1>13
<1>15. QED
  BY <1>12, <1>14 DEF Store!Subscribe, Shelf, Banners, Keys, Denotes

-----------------------------------------------------------------------------
(* The refinement *)

LEMMA StoreStep ==
  ~ DiskFull /\ IInv /\ KeysDistinct /\ [Next]_vars => [Store!Next]_(Store!vars)
<1> SUFFICES ASSUME ~ DiskFull, IInv, KeysDistinct, [Next]_vars
             PROVE  [Store!Next]_(Store!vars)
  OBVIOUS
<1>1. Extends /\ KeysDistinct'
  BY StepExtends, KeysStep
<1>2. ASSUME NEW p \in Handlers, RowStep(p)
      PROVE  Store!Next \/ UNCHANGED Store!vars
  <2>1. CASE InsertFile(p)
    <3>1. UNCHANGED <<models, ads, subs>>
      BY <2>1 DEF InsertFile
    <3>2. QED
      BY <1>1, <3>1, CatalogueKept
  <2>2. CASE InsertModel(p)
    <3>1. CASE LastInsertId(p) \in DOMAIN files
      BY <2>2, <3>1, InsertPublishesModel DEF Store!Next
    <3>2. CASE LastInsertId(p) \notin DOMAIN files
      <4>1. UNCHANGED <<models, ads, subs>>
        BY <2>2, <3>2 DEF InsertModel
      <4>2. QED
        BY <1>1, <4>1, CatalogueKept
    <3>3. QED
      BY <3>1, <3>2
  <2>3. CASE InsertAd(p)
    BY <2>3, InsertPublishesAd DEF Store!Next
  <2>4. CASE InsertSubs(p)
    <3>1. CASE KeyIsFree(p) /\ ForeignKeysResolve(p)
      BY <1>1, <2>4, <3>1, InsertSubscribes DEF Store!Next
    <3>2. CASE ~ (KeyIsFree(p) /\ ForeignKeysResolve(p))
      <4>1. UNCHANGED <<models, ads, subs>>
        BY <2>4, <3>2 DEF InsertSubs
      <4>2. QED
        BY <1>1, <4>1, CatalogueKept
    <3>3. QED
      BY <3>1, <3>2
  <2>5. QED
    BY <1>2, <2>1, <2>2, <2>3, <2>4 DEF RowStep
<1>3. CASE \E p \in Handlers : DiskStep(p)
  <2>1. UNCHANGED <<models, ads, subs>>
    BY <1>3, DiskExtends DEF tables
  <2>2. QED
    BY <1>1, <2>1, CatalogueKept
<1>4. CASE UNCHANGED stored
  <2>1. UNCHANGED <<models, ads, subs>>
    BY <1>4 DEF stored, tables
  <2>2. QED
    BY <1>1, <2>1, CatalogueKept
<1>5. QED
  BY <1>2, <1>3, <1>4, OtherSteps

\* Every run of the server in which no write comes up short is a run of
\* PublishStore: each publication is one atomic step, whatever requests
\* interleave, fail or are cut off by a crash, and nothing published is altered.
THEOREM ServerImplementsStore ==
  ASSUME ~ DiskFull
  PROVE  Spec => ImplementsStore
<1>1. IInv /\ KeysDistinct /\ [Next]_vars => [Store!Next]_(Store!vars)
  BY StoreStep
<1>2. QED
  BY Inductive, KeysAlwaysDistinct, StoreInit, <1>1, PTL
     DEF Spec, ImplementsStore, Store!Spec
=============================================================================
