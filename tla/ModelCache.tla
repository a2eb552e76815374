------------------------------ MODULE ModelCache ------------------------------
(***************************************************************************)
(* The cache of the model viewer (CModelCache.cpp): a folder of temporary  *)
(* files and the table cache.dat, which every running viewer reads once,   *)
(* keeps a copy of and appends to.  Nothing stops two viewers from running *)
(* at once, so each file-system call that another viewer can observe is a  *)
(* step of its own.  The module holds the state of the cache and its       *)
(* operations; ModelViewer says when a viewer calls them.                  *)
(*                                                                         *)
(* AddModelToCache makes three temporary files: a bundle.  The thumbnail   *)
(* of the bundle and the files an aborted call leaves behind, which no     *)
(* entry names, are left out.  Contents are named by their subscription.   *)
(* A definition X_Word before X is a defect of X that no run or proof      *)
(* uses: the properties are tried against it.                              *)
(***************************************************************************)
EXTENDS Integers, Sequences

CONSTANTS
  Viewers,   \* processes of the viewer
  Subsids,   \* subscriptions; also their models, their ads and their urls
  NoData,    \* an empty file, a null pointer
  NoUrl,     \* the empty string
  TornUrl,   \* a string read or left in the middle of an assignment
  DiskFull   \* may a write fail?

ASSUME CacheAssumption ==
  /\ {NoData, NoUrl, TornUrl} \intersect Subsids = {}
  /\ DiskFull \in BOOLEAN

VARIABLES
  dat,      \* does cache.dat exist?
  table,    \* its entries
  bundles,  \* the temporary files
  handle,   \* each viewer's handle of cache.dat
  mem,      \* m_CacheTable
  at,       \* file position an AddModelToCache under way will write to
  adLock    \* bundle whose ad file the viewer holds open for writing

cacheVars == <<dat, table, bundles, handle, mem, at, adLock>>

Contents == Subsids \union {NoData}
Urls     == Subsids \union {NoUrl, TornUrl}
Bundle   == [model : Contents, ad : Contents]
Entry    == [subs : Subsids, file : Nat, url : Urls]

None == 0

CacheInit ==
  /\ dat = FALSE
  /\ table = <<>>
  /\ bundles = <<>>
  /\ handle = [v \in Viewers |-> "none"]
  /\ mem = [v \in Viewers |-> <<>>]
  /\ at = [v \in Viewers |-> None]
  /\ adLock = [v \in Viewers |-> None]

-----------------------------------------------------------------------------
(* Looking entries up *)

\* SearchInCache: the first entry of the viewer's own copy.
Holds_Never(v, s) == FALSE
Holds(v, s) == /\ handle[v] = "shared"
               /\ \E i \in DOMAIN mem[v] : mem[v][i].subs = s
EntryOf(v, s) == CHOOSE i \in DOMAIN mem[v] :
                   /\ mem[v][i].subs = s
                   /\ \A j \in 1..(i - 1) : mem[v][j].subs # s

\* LoadFileToMem of an ad file, which fails while a writer excludes readers.
AdOf(f) == IF \E w \in Viewers : adLock[w] = f THEN NoData ELSE bundles[f].ad

-----------------------------------------------------------------------------
(* Initialize *)

\* OPEN_EXISTING, sharing reads and writes, then one read of the whole table,
\* of the size it has at GetFileSize: as if what another viewer appends before
\* the ReadFile came after it.
CanOpen == dat /\ \A w \in Viewers : handle[w] # "exclusive"
OpenDat(v) == /\ handle' = [handle EXCEPT ![v] = "shared"]
              /\ mem' = [mem EXCEPT ![v] = table]
              /\ UNCHANGED <<dat, table, bundles, at, adLock>>

\* SaveMemToFile of no bytes: OPEN_ALWAYS, so that a table which appeared in
\* the meantime keeps its entries; sharing nothing.
CanCreate == \A w \in Viewers : handle[w] = "none"
SavedTable_Truncated == <<>>
SavedTable == table
CreateDat(v) == /\ dat' = TRUE
                /\ table' = SavedTable
                /\ handle' = [handle EXCEPT ![v] = "exclusive"]
                /\ UNCHANGED <<bundles, mem, at, adLock>>
CloseDat(v)  == /\ handle' = [handle EXCEPT ![v] = "none"]
                /\ UNCHANGED <<dat, table, bundles, mem, at, adLock>>

-----------------------------------------------------------------------------
(* AddModelToCache *)

CanAddModel(v, s) == handle[v] = "shared" /\ ~ Holds(v, s)

\* Each SaveMemToFile is checked: no entry without its files.
SavedModel_Unchecked(data) == IF DiskFull THEN {data, NoData} ELSE {data}
SavedModel(data) == {data}

\* The file position at which WriteFile will put the entry.
SeekEnd_Start == 1
SeekEnd_Short == Len(table) - 1
SeekEnd == Len(table) + 1

\* Make and save the files, push the entry on the copy, SetFilePointer.
PushEntry(v, s, data, url) ==
  /\ \E saved \in SavedModel(data) :
       bundles' = Append(bundles, [model |-> saved, ad |-> NoData])
  /\ mem' = [mem EXCEPT ![v] =
               Append(@, [subs |-> s, file |-> Len(bundles) + 1, url |-> url])]
  /\ at' = [at EXCEPT ![v] = SeekEnd]
  /\ UNCHANGED <<dat, table, handle, adLock>>

\* WriteFile of the entry: it replaces what another viewer has appended since,
\* and its failure goes unnoticed.
WriteEntry(v) ==
  LET entry == mem[v][Len(mem[v])]
  IN  /\ \/ /\ at[v] \in DOMAIN table
            /\ table' = [table EXCEPT ![at[v]] = entry]
         \/ /\ at[v] = Len(table) + 1
            /\ table' = Append(table, entry)
         \/ DiskFull /\ at[v] = Len(table) + 1 /\ UNCHANGED table
      /\ at' = [at EXCEPT ![v] = None]
      /\ UNCHANGED <<dat, bundles, handle, mem, adLock>>

-----------------------------------------------------------------------------
(* AddAdToCache *)

\* SaveMemToFile opens the ad file of the entry for itself alone.
CanLockAd(v, s) ==
  /\ Holds(v, s)
  /\ \A w \in Viewers : adLock[w] # mem[v][EntryOf(v, s)].file
LockAd(v, s) ==
  /\ adLock' = [adLock EXCEPT ![v] = mem[v][EntryOf(v, s)].file]
  /\ UNCHANGED <<dat, table, bundles, handle, mem, at>>

\* The file is written, and the url set in the copy alone: the lines that would
\* write it to the table are commented out.
WriteAd(v, s, data, url) ==
  /\ \/ /\ bundles' = [bundles EXCEPT ![adLock[v]].ad = data]
        /\ mem' = [mem EXCEPT ![v][EntryOf(v, s)].url = url]
     \/ DiskFull /\ UNCHANGED <<bundles, mem>>
  /\ adLock' = [adLock EXCEPT ![v] = None]
  /\ UNCHANGED <<dat, table, handle, at>>

\* CleanUp, or the end of the process: the system closes its handles.
CleanUp(v) == /\ handle' = [handle EXCEPT ![v] = "none"]
              /\ mem' = [mem EXCEPT ![v] = <<>>]
              /\ at' = [at EXCEPT ![v] = None]
              /\ adLock' = [adLock EXCEPT ![v] = None]
              /\ UNCHANGED <<dat, table, bundles>>
=============================================================================
