---------------------------- MODULE PublishServer ---------------------------
(***************************************************************************)
(* The publish server (CModelPublishServer.cpp, main in                    *)
(* ModelPublishServer.cpp, the schema in dbCreateTables.sql).              *)
(*                                                                         *)
(* The HTTP listener runs each request on a thread of its pool, so the     *)
(* handlers interleave: a member of Handlers is one such thread.  A        *)
(* handler is a sequence of autocommitted SQL statements on a connection   *)
(* of its own and of stdio calls; no transaction and no lock spans two of  *)
(* them, and every statement and file operation is a step of its own.      *)
(*                                                                         *)
(* An uploaded file is named by a fresh UUID: the disk is a sequence, a    *)
(* UUID an index in it.  A row id is an index in its table's sequence      *)
(* (the gaps AUTO_INCREMENT leaves after a refused INSERT are abstracted). *)
(***************************************************************************)
EXTENDS Integers, Sequences, FiniteSets

CONSTANTS
  Handlers,    \* threads that run a handler
  Users,       \* names a request may carry
  Owners,      \* those with a row of tbl_owner_desc and the right password
  Data,        \* contents a client may upload
  Hashes,      \* values of HashId, the eight letters of a subscription key
  Rng,         \* states of the C runtime's rand()
  Ticks,       \* states that srand(GetTickCount()) may start from
  RandNext,    \* the state after the eight rand() calls of one key
  RandHash,    \* the key those eight calls spell
  NoRng, NoKey, \* not yet seeded, not yet drawn
  Ops,         \* bound: the methods called
  ModelIds,    \* values of model_id in a create_subs request
  AdIds,       \* values of ad_id in it; -1 asks for no advertisement
  NChunks,     \* stdio flushes a .base64 companion takes
  DiskFull,    \* may an (unchecked) fwrite come up short?
  MaxConns,    \* connections MySQL grants
  MaxFiles,    \* bound: uploads accepted
  MaxSubs,     \* bound: create_subs requests accepted
  MaxCrashes   \* bound: process crashes

ASSUME ServerAssumption ==
  /\ Owners \subseteq Users
  /\ Ticks \subseteq Rng
  /\ RandNext \in [Rng -> Rng]
  /\ RandHash \in [Rng -> Hashes]
  /\ NoRng \notin Rng
  /\ NoKey \notin Hashes
  /\ ModelIds \subseteq Int
  /\ AdIds \subseteq Int
  /\ NChunks \in Nat \ {0}
  /\ DiskFull \in BOOLEAN
  /\ MaxConns \in Nat
  /\ MaxFiles \in Nat
  /\ MaxSubs \in Nat
  /\ MaxCrashes \in Nat

VARIABLES
  server,   \* the process: closed, open, closing, or deaf (open() failed)
  crashes,  \* crashes so far
  files,    \* tbl_file_address: id -> UUID
  models,   \* tbl_model_desc: id -> PCFileId
  ads,      \* tbl_advertisement: id -> [owner, uuid, url]
  subs,     \* tbl_subscription: id -> [owner, model, ad, hash]
  disk,     \* UUID -> the binary file and its .base64 companion
  leaked,   \* connections never deleted because an exception escaped
  pc, req,  \* each handler's position and request
  row,      \* iModelId, iFileId, iAdId: the id a handler last read
  lastId,   \* LAST_INSERT_ID() of the handler's connection
  uuid,     \* the file the handler works on
  rng, key, \* state of rand() in the handler's thread, and szHash
  pos,      \* chunks of the companion the handler has written
  code,     \* answer["error_code"]
  got       \* the body of an answer that carries a file

tables == <<files, models, ads, subs>>
stored == <<tables, disk>>
locals == <<row, lastId, uuid, rng, key, pos, got>>
vars   == <<server, crashes, stored, leaked, pc, req, locals, code>>

NoId   == -1
Chunks == 1..NChunks
NoBody == [have |-> {}, dirty |-> FALSE]
Whole  == [have |-> Chunks, dirty |-> FALSE]

GetOps    == {"get", "getad", "getinfo"}
UploadOps == {"upload_model", "upload_ad"}

GetRequest    == [op : GetOps, subsid : Hashes]
UploadRequest == [op : UploadOps, user : Users, data : Data]
SubsRequest   == [op : {"create_subs"}, user : Users, owner : Users,
                  model_id : ModelIds, ad_id : AdIds]
NoRequest     == [op |-> "none"]
Request       == GetRequest \union UploadRequest \union SubsRequest
                   \union {NoRequest}

Labels == {"idle", "connect", "sel_subs", "sel_model", "sel_file", "sel_ad",
           "open_b64", "open_bin", "create_b64", "fill_b64", "auth",
           "create_file", "write_file", "ins_file", "ins_model", "last_model",
           "ins_ad", "last_ad", "sel_owner", "chk_model", "chk_ad",
           "pick_hash", "ins_subs", "last_subs", "reply"}

\* The error codes of GlobalDefines.h that a handler sends, and "NONE" for the
\* bare InternalError the listener sends when an exception escapes a handler.
Codes == {"OK", "SUBSCRIPTION_NOT_FOUND", "MODEL_NOT_FOUND",
          "FILE_ADDRESS_NOT_FOUND", "COULD_NOT_OPEN_FILE", "AD_NOT_FOUND",
          "UNKNOWN_CLIENT", "UNKNOWN_METHOD", "INVALID_USER_PASS",
          "UNKNOWN", "NONE"}

File == [data : Data, bin : {"open", "short", "whole"},
         b64 : BOOLEAN, have : SUBSET Chunks]
Ad   == [owner : Owners, uuid : Nat, url : Data]
Subs == [owner : Owners, model : Int, ad : Int, hash : Hashes]
Body == [have : SUBSET Chunks, dirty : BOOLEAN]

-----------------------------------------------------------------------------
(* Helpers.  A definition whose name ends in an underscore and a word is a   *)
(* defect of the definition that follows it; no run or proof uses it, the    *)
(* properties are tried against it.                                          *)

Connected(p) == pc[p] \notin {"idle", "connect", "reply"}
OpenConns == leaked + Cardinality({p \in Handlers : Connected(p)})
ConnectionGranted == OpenConns < MaxConns

InFlight(ops) == Cardinality({p \in Handlers : req[p].op \in ops})

\* SELECT * FROM tbl_subscription WHERE HashId = h
RowsOf_AnyKey(h) == DOMAIN subs
RowsOf(h) == {i \in DOMAIN subs : subs[i].hash = h}

\* SELECT LAST_INSERT_ID(): private to the connection, hence to the handler.
LastInsertId_MaxId(p) == CASE pc[p] = "ins_model"  -> Len(files)
                           [] pc[p] = "last_model" -> Len(models)
                           [] OTHER                -> Len(ads)
LastInsertId(p) == lastId[p]

\* A stored name ends in one extension.  OnGetInfo appends another one.
StoredExtensions == 1
BinaryExtensions(op) == IF op = "getinfo" THEN StoredExtensions + 1
                                          ELSE StoredExtensions
BinaryOnDisk(op, u) == u \in DOMAIN disk /\ BinaryExtensions(op) = StoredExtensions

Go(p, label) == pc' = [pc EXCEPT ![p] = label]
Finish(p, c) == code' = [code EXCEPT ![p] = c] /\ Go(p, "reply")

\* UuidCreate: a name no file has.
NewUuid_Fixed == 1
NewUuid == Len(disk) + 1

\* A SQLException, or the json_exception of a missing parameter, escapes the
\* handler: the listener replies InternalError, `delete con` is not reached.
Raise_Swallowed(p) == Finish(p, "OK") /\ leaked' = leaked
Raise(p) == Finish(p, "NONE") /\ leaked' = leaked + 1

-----------------------------------------------------------------------------
Init ==
  /\ server = "closed"
  /\ crashes = 0
  /\ files = <<>> /\ models = <<>> /\ ads = <<>> /\ subs = <<>>
  /\ disk = <<>>
  /\ leaked = 0
  /\ pc = [p \in Handlers |-> "idle"]
  /\ req = [p \in Handlers |-> NoRequest]
  /\ row = [p \in Handlers |-> NoId]
  /\ lastId = [p \in Handlers |-> NoId]
  /\ uuid = [p \in Handlers |-> NoId]
  /\ rng = [p \in Handlers |-> NoRng]
  /\ key = [p \in Handlers |-> NoKey]
  /\ pos = [p \in Handlers |-> 0]
  /\ code = [p \in Handlers |-> "UNKNOWN"]
  /\ got = [p \in Handlers |-> NoBody]

-----------------------------------------------------------------------------
(* The process: main, InitializeServer, ShutdownServer *)

\* InitializeServer swallows a failure of open() and main waits all the same.
Start ==
  /\ server = "closed"
  /\ server' \in {"open", "deaf"}
  /\ UNCHANGED <<crashes, stored, leaked, pc, req, locals, code>>

\* ENTER was pressed: the listener is unregistered, no request reaches it.
Stop ==
  /\ server \in {"open", "deaf"}
  /\ server' = "closing"
  /\ UNCHANGED <<crashes, stored, leaked, pc, req, locals, code>>

\* unregister_listener takes for writing the lock that the listener holds for
\* reading around each call of a handler.
Drained == \A p \in Handlers : pc[p] = "idle"

\* close().wait()
Close ==
  /\ server = "closing"
  /\ Drained
  /\ server' = "closed"
  /\ leaked' = 0
  /\ UNCHANGED <<crashes, stored, pc, req, locals, code>>

\* The process dies (an fopen that fails is passed to fwrite unchecked).  The
\* tables and the files stay as the last completed step left them.
Crash ==
  /\ server # "closed"
  /\ crashes < MaxCrashes
  /\ crashes' = crashes + 1
  /\ server' = "closed"
  /\ leaked' = 0
  /\ pc' = [p \in Handlers |-> "idle"]
  /\ req' = [p \in Handlers |-> NoRequest]
  /\ row' = [p \in Handlers |-> NoId]
  /\ lastId' = [p \in Handlers |-> NoId]
  /\ uuid' = [p \in Handlers |-> NoId]
  /\ rng' = [p \in Handlers |-> NoRng]
  /\ key' = [p \in Handlers |-> NoKey]
  /\ pos' = [p \in Handlers |-> 0]
  /\ code' = [p \in Handlers |-> "UNKNOWN"]
  /\ got' = [p \in Handlers |-> NoBody]
  /\ UNCHANGED stored

-----------------------------------------------------------------------------
(* HandleGet, HandlePost *)

\* GET with the right magic: get, getad or getinfo of a subscription.
ArriveGet(p) ==
  /\ server = "open"
  /\ pc[p] = "idle"
  /\ \E r \in GetRequest : r.op \in Ops /\ req' = [req EXCEPT ![p] = r]
  /\ Go(p, "connect")
  /\ UNCHANGED <<server, crashes, stored, leaked, locals, code>>

\* POST: upload_model, upload_ad or create_subs (the guards are the bounds).
ArrivePost(p) ==
  /\ server = "open"
  /\ pc[p] = "idle"
  /\ \/ /\ Len(disk) + InFlight(UploadOps) < MaxFiles
        /\ \E r \in UploadRequest : r.op \in Ops /\ req' = [req EXCEPT ![p] = r]
     \/ /\ Len(subs) + InFlight({"create_subs"}) < MaxSubs
        /\ \E r \in SubsRequest : r.op \in Ops /\ req' = [req EXCEPT ![p] = r]
  /\ Go(p, "connect")
  /\ UNCHANGED <<server, crashes, stored, leaked, locals, code>>

\* A request without a path, the magic or a known method is answered at once.
\* So is a body extract_json does not take: the http_exception of a wrong
\* content type is caught and leaves the first error code, the json_exception
\* of a body that does not parse is not caught.
Reject(p) ==
  /\ server = "open"
  /\ pc[p] = "idle"
  /\ \E c \in {"UNKNOWN_CLIENT", "UNKNOWN_METHOD", "UNKNOWN", "NONE"} :
       Finish(p, c)
  /\ UNCHANGED <<server, crashes, stored, leaked, req, locals>>

FirstStep(op) == IF op \in GetOps THEN "sel_subs" ELSE "auth"

\* driver->connect throws when MySQL has no connection left to give.
Connect(p) ==
  /\ pc[p] = "connect"
  /\ IF ConnectionGranted
       THEN Go(p, FirstStep(req[p].op)) /\ UNCHANGED code
       ELSE Finish(p, "NONE")
  /\ UNCHANGED <<server, crashes, stored, leaked, req, locals>>

\* Any statement, json access or allocation of a connected handler may throw;
\* nothing can between the fopen and the fclose of a file being written.
Throw(p) ==
  /\ Connected(p)
  /\ pc[p] \notin {"write_file", "fill_b64"}
  /\ Raise(p)
  /\ UNCHANGED <<server, crashes, stored, req, locals>>

\* request.reply, or the listener's InternalError; the thread is free again.
Reply(p) ==
  /\ pc[p] = "reply"
  /\ Go(p, "idle")
  /\ req' = [req EXCEPT ![p] = NoRequest]
  /\ row' = [row EXCEPT ![p] = NoId]
  /\ lastId' = [lastId EXCEPT ![p] = NoId]
  /\ uuid' = [uuid EXCEPT ![p] = NoId]
  /\ rng' = [rng EXCEPT ![p] = NoRng]
  /\ key' = [key EXCEPT ![p] = NoKey]
  /\ pos' = [pos EXCEPT ![p] = 0]
  /\ code' = [code EXCEPT ![p] = "UNKNOWN"]
  /\ got' = [got EXCEPT ![p] = NoBody]
  /\ UNCHANGED <<server, crashes, stored, leaked>>

\* Stray heap contents that are no UTF-16 make request.reply itself throw.
ReplyThrows(p) ==
  /\ pc[p] = "reply"
  /\ got[p].dirty
  /\ Finish(p, "NONE")
  /\ got' = [got EXCEPT ![p] = NoBody]
  /\ UNCHANGED <<server, crashes, stored, leaked, req, row, lastId, uuid,
                 rng, key, pos>>

-----------------------------------------------------------------------------
(* OnGetModel, OnGetAd, OnGetInfo *)

\* iModelId (OnGetModel, OnGetInfo) or iAdId (OnGetAd) of the subscription.
SelectSubs(p) ==
  /\ pc[p] = "sel_subs"
  /\ LET rows == RowsOf(req[p].subsid) IN
       \/ /\ rows = {}
          /\ Finish(p, "SUBSCRIPTION_NOT_FOUND")
          /\ UNCHANGED row
       \/ \E i \in rows :
            /\ row' = [row EXCEPT ![p] = IF req[p].op = "getad"
                                           THEN subs[i].ad ELSE subs[i].model]
            /\ Go(p, IF req[p].op = "getad" THEN "sel_ad" ELSE "sel_model")
            /\ UNCHANGED code
  /\ UNCHANGED <<server, crashes, stored, leaked, req, lastId, uuid, rng, key,
                 pos, got>>

SelectModel(p) ==
  /\ pc[p] = "sel_model"
  /\ IF row[p] \in DOMAIN models
       THEN /\ row' = [row EXCEPT ![p] = models[row[p]]]
            /\ Go(p, "sel_file")
            /\ UNCHANGED code
       ELSE Finish(p, "MODEL_NOT_FOUND") /\ UNCHANGED row
  /\ UNCHANGED <<server, crashes, stored, leaked, req, lastId, uuid, rng, key,
                 pos, got>>

SelectFile(p) ==
  /\ pc[p] = "sel_file"
  /\ IF row[p] \in DOMAIN files
       THEN /\ uuid' = [uuid EXCEPT ![p] = files[row[p]]]
            /\ Go(p, "open_b64")
            /\ UNCHANGED code
       ELSE Finish(p, "FILE_ADDRESS_NOT_FOUND") /\ UNCHANGED uuid
  /\ UNCHANGED <<server, crashes, stored, leaked, req, row, lastId, rng, key,
                 pos, got>>

\* row keeps iAdId: answer["url"] is the AdUrl of that row.
SelectAd(p) ==
  /\ pc[p] = "sel_ad"
  /\ IF row[p] \in DOMAIN ads
       THEN /\ uuid' = [uuid EXCEPT ![p] = ads[row[p]].uuid]
            /\ Go(p, "open_b64")
            /\ UNCHANGED code
       ELSE Finish(p, "AD_NOT_FOUND") /\ UNCHANGED uuid
  /\ UNCHANGED <<server, crashes, stored, leaked, req, row, lastId, rng, key,
                 pos, got>>

\* The companion is there: answer whatever it holds now.  iSize bytes are read
\* into a buffer of iSize + 1 wide characters, so unless the uninitialized rest
\* happens to be zero the string has a tail (in OnGetInfo only when the
\* companion is shorter than an encoded header).  The size is taken before the
\* read: what a truncation in between takes from the read is as if both came
\* after it, what is appended in between is not read.
ReadCompanion(p) ==
  /\ pc[p] = "open_b64"
  /\ disk[uuid[p]].b64
  /\ \E dirty \in BOOLEAN :
       /\ dirty => req[p].op # "getinfo" \/ disk[uuid[p]].have # Chunks
       /\ got' = [got EXCEPT ![p] = [have |-> disk[uuid[p]].have,
                                     dirty |-> dirty]]
  /\ Finish(p, "OK")
  /\ UNCHANGED <<server, crashes, stored, leaked, req, row, lastId, uuid, rng,
                 key, pos>>

MissCompanion(p) ==
  /\ pc[p] = "open_b64"
  /\ ~ disk[uuid[p]].b64
  /\ Go(p, "open_bin")
  /\ UNCHANGED <<server, crashes, stored, leaked, req, locals, code>>

\* Read and encode the binary; the answer comes from memory.
OpenBinary(p) ==
  /\ pc[p] = "open_bin"
  /\ IF BinaryOnDisk(req[p].op, uuid[p])
       THEN Go(p, "create_b64") /\ UNCHANGED code
       ELSE Finish(p, "COULD_NOT_OPEN_FILE")
  /\ UNCHANGED <<server, crashes, stored, leaked, req, locals>>

\* fopen(..., "wb") truncates a companion another handler may have written.
CreateCompanion(p) ==
  /\ pc[p] = "create_b64"
  /\ disk' = [disk EXCEPT ![uuid[p]].b64 = TRUE, ![uuid[p]].have = {}]
  /\ pos' = [pos EXCEPT ![p] = 0]
  /\ Go(p, "fill_b64")
  /\ UNCHANGED <<server, crashes, tables, leaked, req, row, lastId, uuid, rng,
                 key, code, got>>

LastChunk_First(p) == TRUE
LastChunk_Past(p)  == pos[p] = NChunks
LastChunk(p)       == pos[p] + 1 = NChunks

\* fwrite flushes a chunk at the handler's own offset, fclose the last one.
FillCompanion(p) ==
  /\ pc[p] = "fill_b64"
  /\ pos' = [pos EXCEPT ![p] = @ + 1]
  /\ \/ disk' = [disk EXCEPT ![uuid[p]].have = @ \union {pos[p] + 1}]
     \/ DiskFull /\ disk' = disk
  /\ IF LastChunk(p)
       THEN Finish(p, "OK") /\ got' = [got EXCEPT ![p] = Whole]
       ELSE UNCHANGED <<pc, code, got>>
  /\ UNCHANGED <<server, crashes, tables, leaked, req, row, lastId, uuid, rng,
                 key>>

-----------------------------------------------------------------------------
(* OnUploadModel, OnUploadAd *)

AfterAuth(op) == IF op \in UploadOps THEN "create_file" ELSE "sel_owner"

\* SELECT * FROM tbl_owner_desc WHERE Username = user AND Password = pass
Authenticate(p) ==
  /\ pc[p] = "auth"
  /\ IF req[p].user \in Owners
       THEN Go(p, AfterAuth(req[p].op)) /\ UNCHANGED code
       ELSE Finish(p, "INVALID_USER_PASS")
  /\ UNCHANGED <<server, crashes, stored, leaked, req, locals>>

CreateFile(p) ==
  /\ pc[p] = "create_file"
  /\ disk' = Append(disk, [data |-> req[p].data, bin |-> "open",
                           b64 |-> FALSE, have |-> {}])
  /\ uuid' = [uuid EXCEPT ![p] = NewUuid]
  /\ Go(p, "write_file")
  /\ UNCHANGED <<server, crashes, tables, leaked, req, row, lastId, rng, key,
                 pos, code, got>>

AfterWrite(op) == IF op = "upload_model" THEN "ins_file" ELSE "ins_ad"

\* fwrite, fclose; that the write came up short goes unnoticed.
WriteFile(p) ==
  /\ pc[p] = "write_file"
  /\ \E b \in {"whole"} \union (IF DiskFull THEN {"short"} ELSE {}) :
       disk' = [disk EXCEPT ![uuid[p]].bin = b]
  /\ Go(p, AfterWrite(req[p].op))
  /\ UNCHANGED <<server, crashes, tables, leaked, req, locals, code>>

InsertFile(p) ==
  /\ pc[p] = "ins_file"
  /\ files' = Append(files, uuid[p])
  /\ lastId' = [lastId EXCEPT ![p] = Len(files) + 1]
  /\ Go(p, "ins_model")
  /\ UNCHANGED <<server, crashes, models, ads, subs, disk, leaked, req, row,
                 uuid, rng, key, pos, code, got>>

\* The foreign key on PCFileId refuses a row without its file address.
InsertModel(p) ==
  /\ pc[p] = "ins_model"
  /\ IF LastInsertId(p) \in DOMAIN files
       THEN /\ models' = Append(models, LastInsertId(p))
            /\ lastId' = [lastId EXCEPT ![p] = Len(models) + 1]
            /\ Go(p, "last_model")
            /\ UNCHANGED <<code, leaked>>
       ELSE Raise(p) /\ UNCHANGED <<models, lastId>>
  /\ UNCHANGED <<server, crashes, files, ads, subs, disk, req, row, uuid, rng,
                 key, pos, got>>

\* answer["model_id"] = LAST_INSERT_ID()
AnswerModelId(p) ==
  /\ pc[p] = "last_model"
  /\ row' = [row EXCEPT ![p] = LastInsertId(p)]
  /\ Finish(p, "OK")
  /\ UNCHANGED <<server, crashes, stored, leaked, req, lastId, uuid, rng, key,
                 pos, got>>

InsertAd(p) ==
  /\ pc[p] = "ins_ad"
  /\ ads' = Append(ads, [owner |-> req[p].user, uuid |-> uuid[p],
                         url |-> req[p].data])
  /\ lastId' = [lastId EXCEPT ![p] = Len(ads) + 1]
  /\ Go(p, "last_ad")
  /\ UNCHANGED <<server, crashes, files, models, subs, disk, leaked, req, row,
                 uuid, rng, key, pos, code, got>>

\* answer["ad_id"] = LAST_INSERT_ID()
AnswerAdId(p) ==
  /\ pc[p] = "last_ad"
  /\ row' = [row EXCEPT ![p] = LastInsertId(p)]
  /\ Finish(p, "OK")
  /\ UNCHANGED <<server, crashes, stored, leaked, req, lastId, uuid, rng, key,
                 pos, got>>

-----------------------------------------------------------------------------
(* OnCreateSubscription *)

\* The owner need not be the user; any account's name will do.
SelectOwner(p) ==
  /\ pc[p] = "sel_owner"
  /\ IF req[p].owner \in Owners
       THEN Go(p, "chk_model") /\ UNCHANGED code
       ELSE Finish(p, "INVALID_USER_PASS")
  /\ UNCHANGED <<server, crashes, stored, leaked, req, locals>>

\* bModelExists is row # NoId.  A missing model does not end the handler.
CheckModel(p) ==
  /\ pc[p] = "chk_model"
  /\ IF req[p].model_id \in DOMAIN models
       THEN row' = [row EXCEPT ![p] = req[p].model_id] /\ UNCHANGED code
       ELSE code' = [code EXCEPT ![p] = "INVALID_USER_PASS"] /\ UNCHANGED row
  /\ Go(p, "chk_ad")
  /\ UNCHANGED <<server, crashes, stored, leaked, req, lastId, uuid, rng, key,
                 pos, got>>

AdExists(p) == req[p].ad_id \in DOMAIN ads \/ req[p].ad_id = NoId

\* srand(GetTickCount()): handlers that reach it within one tick share a seed.
CheckAd(p) ==
  /\ pc[p] = "chk_ad"
  /\ IF AdExists(p) /\ row[p] # NoId
       THEN /\ \E t \in Ticks : rng' = [rng EXCEPT ![p] = t]
            /\ Go(p, "pick_hash")
       ELSE /\ Go(p, "reply")
            /\ UNCHANGED rng
  /\ code' = [code EXCEPT ![p] = IF req[p].ad_id \in DOMAIN ads
                                   THEN @ ELSE "INVALID_USER_PASS"]
  /\ UNCHANGED <<server, crashes, stored, leaked, req, row, lastId, uuid, key,
                 pos, got>>

NextDraw_Reseeded(s) == s
NextDraw(s) == RandNext[s]

\* One turn of the loop: spell a key, SELECT it, leave with it if it is free.
PickHash(p) ==
  /\ pc[p] = "pick_hash"
  /\ key' = [key EXCEPT ![p] = RandHash[rng[p]]]
  /\ rng' = [rng EXCEPT ![p] = NextDraw(rng[p])]
  /\ IF RowsOf(RandHash[rng[p]]) = {} THEN Go(p, "ins_subs") ELSE UNCHANGED pc
  /\ UNCHANGED <<server, crashes, stored, leaked, req, row, lastId, uuid, pos,
                 code, got>>

\* The schema accepts the row: HashId is unique, the foreign keys resolve.
KeyIsFree_NotUnique(p) == TRUE
KeyIsFree(p) == RowsOf(key[p]) = {}
ForeignKeysResolve_NoAdKey(p) ==
  req[p].owner \in Owners /\ req[p].model_id \in DOMAIN models
ForeignKeysResolve(p) ==
  /\ req[p].owner \in Owners
  /\ req[p].model_id \in DOMAIN models
  /\ req[p].ad_id \in DOMAIN ads

InsertSubs(p) ==
  /\ pc[p] = "ins_subs"
  /\ \/ /\ KeyIsFree(p) /\ ForeignKeysResolve(p)
        /\ subs' = Append(subs, [owner |-> req[p].owner, hash |-> key[p],
                                 model |-> req[p].model_id,
                                 ad |-> req[p].ad_id])
        /\ lastId' = [lastId EXCEPT ![p] = Len(subs) + 1]
        /\ Go(p, "last_subs")
        /\ UNCHANGED <<code, leaked>>
     \/ /\ ~ (KeyIsFree(p) /\ ForeignKeysResolve(p))
        /\ Raise(p)
        /\ UNCHANGED <<subs, lastId>>
  /\ UNCHANGED <<server, crashes, files, models, ads, disk, req, row, uuid,
                 rng, key, pos, got>>

\* answer["subscription_id"] = szHash
AnswerSubsId(p) ==
  /\ pc[p] = "last_subs"
  /\ Finish(p, "OK")
  /\ UNCHANGED <<server, crashes, stored, leaked, req, locals>>

-----------------------------------------------------------------------------
Get(p) == \/ SelectSubs(p) \/ SelectModel(p) \/ SelectFile(p) \/ SelectAd(p)
          \/ ReadCompanion(p) \/ MissCompanion(p) \/ OpenBinary(p)
          \/ CreateCompanion(p) \/ FillCompanion(p)

Upload(p) == \/ Authenticate(p) \/ CreateFile(p) \/ WriteFile(p)
             \/ InsertFile(p) \/ InsertModel(p) \/ AnswerModelId(p)
             \/ InsertAd(p) \/ AnswerAdId(p)

CreateSubs(p) == \/ SelectOwner(p) \/ CheckModel(p) \/ CheckAd(p)
                 \/ PickHash(p) \/ InsertSubs(p) \/ AnswerSubsId(p)

Arrive(p) == ArriveGet(p) \/ ArrivePost(p) \/ Reject(p)

\* What a thread that holds a request does next, unless it throws.
Work(p) == Connect(p) \/ Get(p) \/ Upload(p) \/ CreateSubs(p) \/ Reply(p)

Handle(p) == Work(p) \/ Throw(p) \/ ReplyThrows(p)

Next == \/ Start \/ Stop \/ Close \/ Crash
        \/ \E p \in Handlers : Arrive(p) \/ Handle(p)

Spec == Init /\ [][Next]_vars

\* The operating system schedules every thread of the pool, and close() waits
\* on a lock only handlers hold.  Nobody has to send a request or press ENTER,
\* and no handler owes an exception.
FairSpec == /\ Spec
            /\ \A p \in Handlers : WF_vars(Work(p))
            /\ WF_vars(Close)

-----------------------------------------------------------------------------
(* Properties *)

\* Every variable has its type.
TypeOK ==
  /\ server \in {"closed", "open", "closing", "deaf"}
  /\ crashes \in Nat
  /\ files \in Seq(Nat)
  /\ models \in Seq(Nat)
  /\ ads \in Seq(Ad)
  /\ subs \in Seq(Subs)
  /\ disk \in Seq(File)
  /\ leaked \in Nat
  /\ pc \in [Handlers -> Labels]
  /\ req \in [Handlers -> Request]
  /\ row \in [Handlers -> Int]
  /\ lastId \in [Handlers -> Nat \union {NoId}]
  /\ uuid \in [Handlers -> Nat \union {NoId}]
  /\ rng \in [Handlers -> Rng \union {NoRng}]
  /\ key \in [Handlers -> Hashes \union {NoKey}]
  /\ pos \in [Handlers -> 0..NChunks]
  /\ code \in [Handlers -> Codes]
  /\ got \in [Handlers -> Body]

\* A file named by a row of the database has been written and closed.
Published(u) ==
  /\ u \in DOMAIN disk
  /\ disk[u].bin # "open"
  /\ ~ DiskFull => disk[u].bin = "whole"

FilesOnDisk  == \A i \in DOMAIN files : Published(files[i])
ModelsFiled  == \A i \in DOMAIN models : models[i] \in DOMAIN files
AdsOnDisk    == \A i \in DOMAIN ads : /\ Published(ads[i].uuid)
                                      /\ disk[ads[i].uuid].data = ads[i].url
SubsResolve  == \A i \in DOMAIN subs : /\ subs[i].model \in DOMAIN models
                                       /\ subs[i].ad \in DOMAIN ads

\* At every moment, also between two statements of a handler and after a crash,
\* each row leads to rows and finished files that exist: a subscription to its
\* model, the model to its file address, that to the file OnUploadModel closed
\* before the INSERT, and an advertisement to the image uploaded with its url.
RowsResolve == FilesOnDisk /\ ModelsFiled /\ AdsOnDisk /\ SubsResolve

\* Two handlers that draw the same key from the same tick never both store it:
\* a key denotes one subscription (HashId UNIQUE behind the check of the loop).
KeysDistinct ==
  \A i, j \in DOMAIN subs : subs[i].hash = subs[j].hash => i = j

\* A UUID is named by one row at most, so no publication shares a file.
FilesUnshared ==
  /\ \A i, j \in DOMAIN files : files[i] = files[j] => i = j
  /\ \A i, j \in DOMAIN ads : ads[i].uuid = ads[j].uuid => i = j
  /\ \A i \in DOMAIN files, j \in DOMAIN ads : files[i] # ads[j].uuid

Succeeded(p, op) == pc[p] = "reply" /\ code[p] = "OK" /\ req[p].op = op

\* The file of a subscription's model.
ModelFile(i) == files[models[subs[i].model]]

\* An id sent with error_code OK names what this very request uploaded,
\* whatever other handlers inserted between the INSERT and LAST_INSERT_ID.
UploadAnswersTrue ==
  \A p \in Handlers :
    /\ Succeeded(p, "upload_model") =>
         /\ row[p] \in DOMAIN models
         /\ disk[files[models[row[p]]]].data = req[p].data
    /\ Succeeded(p, "upload_ad") =>
         /\ row[p] \in DOMAIN ads
         /\ ads[row[p]].owner = req[p].user
         /\ disk[ads[row[p]].uuid].data = req[p].data

\* A key sent with error_code OK is stored and denotes the owner, model and
\* advertisement this request named.
SubsAnswersTrue ==
  \A p \in Handlers :
    Succeeded(p, "create_subs") =>
      \E i \in DOMAIN subs :
        subs[i] = [owner |-> req[p].owner, hash |-> key[p],
                   model |-> req[p].model_id, ad |-> req[p].ad_id]

\* A file sent with error_code OK belongs to the subscription asked for, and
\* the url of an advertisement goes with the image it was uploaded with.
GetAnswersTrue ==
  \A p \in Handlers :
    /\ Succeeded(p, "get") \/ Succeeded(p, "getinfo") =>
         \E i \in DOMAIN subs : /\ subs[i].hash = req[p].subsid
                                /\ uuid[p] = ModelFile(i)
    /\ Succeeded(p, "getad") =>
         \E i \in DOMAIN subs : /\ subs[i].hash = req[p].subsid
                                /\ row[p] = subs[i].ad
                                /\ uuid[p] = ads[row[p]].uuid

\* A companion that lacks chunks is being written by a handler whose own part
\* of it is on disk, unless the process has crashed or the disk filled up.
CompanionInProgress ==
  \A u \in DOMAIN disk :
    disk[u].b64 /\ disk[u].have # Chunks /\ crashes = 0 /\ ~ DiskFull =>
      \E p \in Handlers : /\ pc[p] = "fill_b64"
                          /\ uuid[p] = u
                          /\ 1..pos[p] \subseteq disk[u].have

\* upload_api.txt: a subscription key is "used as a hash to fetch models".
\* A model sent with error_code OK is the whole model.
FetchedModelIsWhole ==
  \A p \in Handlers : Succeeded(p, "get") => got[p].have = Chunks

\* Every request is answered (or lost in a crash), the loop that draws keys
\* included: some key is always left.
RequestsAnswered == \A p \in Handlers : pc[p] # "idle" ~> pc[p] = "idle"

\* ShutdownServer returns.
ShutdownReturns == server = "closing" ~> server = "closed"

\* The catalogue a client can observe is that of PublishStore.
Content(u) == IF disk[u].bin = "whole" THEN disk[u].data ELSE "torn"

Store == INSTANCE PublishStore WITH
  shelf   <- [i \in DOMAIN models |-> Content(files[models[i]])],
  banners <- [i \in DOMAIN ads |-> [data |-> Content(ads[i].uuid),
                                    url |-> ads[i].url,
                                    owner |-> ads[i].owner]],
  keys    <- [h \in {subs[i].hash : i \in DOMAIN subs} |->
                LET i == CHOOSE i \in DOMAIN subs : subs[i].hash = h
                IN  [owner |-> subs[i].owner, model |-> subs[i].model,
                     ad |-> subs[i].ad]]

\* Unless a write comes up short, the interleaved statements and file
\* operations publish each model, advertisement and subscription atomically,
\* and no crash, error or later request alters what is published.
ImplementsStore == Store!Spec
=============================================================================
