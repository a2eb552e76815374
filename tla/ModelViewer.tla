----------------------------- MODULE ModelViewer ------------------------------
(***************************************************************************)
(* The model viewer (ModelViewerDlg.cpp, ModelViewer.cpp): a process per   *)
(* launch, started on the link of a subscription.  It shows the model and  *)
(* the advertisement from the cache or asks the publish server for them on *)
(* detached threads.  A thread leaves its answer in a slot of              *)
(* m_PointerPass and posts a message; the window handles its messages in   *)
(* order, between two frames, in which the user may click an entry of the  *)
(* history or the advertisement.                                           *)
(*                                                                         *)
(* Left out: rendering, the download of the model's info and its progress  *)
(* bar, the comparison view, and files opened without the cache.           *)
(***************************************************************************)
EXTENDS ModelCache

CONSTANTS
  MaxLaunches,  \* bound: launches of a viewer
  MaxClicks     \* bound: clicks on the history

ASSUME ViewerAssumption == MaxLaunches \in Nat /\ MaxClicks \in Nat

VARIABLES
  launches, clicks,
  phase,        \* where each process is
  subsid,       \* m_strSubsid
  slotM, slotA, \* m_PointerPass [ 1 ] and [ 2 ]
  queue,        \* messages posted to the window
  modelThread,  \* ModelThread: off, asking or done
  adThread,     \* AdThread: off, asking, assigning m_strAdUrl, or done
  newUrl,       \* the url AdThread has received
  adUrl,        \* m_strAdUrl
  clickable,    \* the advertisement whose area a click is compared with
  downloading,  \* m_bDownloading
  busy          \* the cache call the window is in the middle of

slots   == <<slotM, slotA>>
threads == <<modelThread, adThread, newUrl>>
window  == <<subsid, slots, queue, threads, adUrl, clickable, downloading, busy>>
vars    == <<cacheVars, launches, clicks, phase, window>>

Message == [kind : {"model", "ad"}, cached : BOOLEAN]
Msg(k, c) == [kind |-> k, cached |-> c]

Init ==
  /\ CacheInit
  /\ launches = 0
  /\ clicks = 0
  /\ phase = [v \in Viewers |-> "off"]
  /\ subsid \in [Viewers -> Subsids]
  /\ slotM = [v \in Viewers |-> NoData]
  /\ slotA = [v \in Viewers |-> NoData]
  /\ queue = [v \in Viewers |-> <<>>]
  /\ modelThread = [v \in Viewers |-> "off"]
  /\ adThread = [v \in Viewers |-> "off"]
  /\ newUrl = [v \in Viewers |-> NoUrl]
  /\ adUrl = [v \in Viewers |-> NoUrl]
  /\ clickable = [v \in Viewers |-> NoData]
  /\ downloading = [v \in Viewers |-> FALSE]
  /\ busy = [v \in Viewers |-> "no"]

Enter(v, p) == phase' = [phase EXCEPT ![v] = p]
Post(v, msg) == queue' = [queue EXCEPT ![v] = Append(@, msg)]

-----------------------------------------------------------------------------
(* A launch: OnInitDialog initialises the cache, then the link is loaded.    *)

\* The link is on the command line; the variables are those of a new process.
Launch(v, s) ==
  /\ phase[v] = "off"
  /\ launches < MaxLaunches
  /\ launches' = launches + 1
  /\ Enter(v, "probe")
  /\ subsid' = [subsid EXCEPT ![v] = s]
  /\ UNCHANGED <<cacheVars, clicks, slots, queue, threads, adUrl, clickable,
                 downloading, busy>>

\* CModelCache::Initialize opens cache.dat, or creates, closes and reopens it.
\* When a call fails the viewer goes on without a cache.
Initialize(v) ==
  /\ UNCHANGED <<launches, clicks, window>>
  /\ \/ /\ phase[v] \in {"probe", "reopen"} /\ CanOpen
        /\ OpenDat(v) /\ Enter(v, "load")
     \/ /\ phase[v] = "probe" /\ ~ CanOpen
        /\ Enter(v, "create") /\ UNCHANGED cacheVars
     \/ /\ phase[v] = "reopen" /\ ~ CanOpen
        /\ Enter(v, "load") /\ UNCHANGED cacheVars
     \/ /\ phase[v] = "create" /\ CanCreate
        /\ CreateDat(v) /\ Enter(v, "close")
     \/ /\ phase[v] = "create" /\ ~ CanCreate
        /\ Enter(v, "load") /\ UNCHANGED cacheVars
     \/ /\ phase[v] = "close"
        /\ CloseDat(v) /\ Enter(v, "reopen")

\* Load3DScanFromUrl, LoadModel succeeds: both messages are posted at once,
\* and the advertisement is asked for only if the cache has none.  The url of
\* the entry is not taken over.
LoadFromCache(v) ==
  /\ Holds(v, subsid[v])
  /\ LET f == mem[v][EntryOf(v, subsid[v])].file
     IN  /\ slotM' = [slotM EXCEPT ![v] = bundles[f].model]
         /\ slotA' = [slotA EXCEPT ![v] = AdOf(f)]
         /\ adThread' = [adThread EXCEPT ![v] =
                           IF AdOf(f) = NoData THEN "asking" ELSE @]
  /\ queue' = [queue EXCEPT ![v] = <<Msg("model", TRUE), Msg("ad", TRUE)>>]
  /\ UNCHANGED <<modelThread, downloading>>

\* Load3DScanFromUrl, LoadModel fails, which it may for an entry too (its model
\* file cannot be opened): DownloadModel and DownloadAd.
LoadFromServer(v) ==
  /\ modelThread' = [modelThread EXCEPT ![v] = "asking"]
  /\ adThread' = [adThread EXCEPT ![v] = "asking"]
  /\ downloading' = [downloading EXCEPT ![v] = TRUE]
  /\ UNCHANGED <<slots, queue>>

Load3DScanFromUrl(v) ==
  /\ phase[v] = "load"
  /\ LoadFromCache(v) \/ LoadFromServer(v)
  /\ Enter(v, "running")
  /\ UNCHANGED <<cacheVars, launches, clicks, subsid, newUrl, adUrl,
                 clickable, busy>>

-----------------------------------------------------------------------------
(* The download threads *)

\* GetModel and GetAd give what the server holds for the subscription, or
\* nothing (an error, a lost connection, no advertisement).
Answers(v) == {subsid[v], NoData}

\* ModelThread, MyModelCallback
AnswerModel(v) ==
  /\ modelThread[v] = "asking"
  /\ \E d \in Answers(v) : slotM' = [slotM EXCEPT ![v] = d]
  /\ Post(v, Msg("model", FALSE))
  /\ modelThread' = [modelThread EXCEPT ![v] = "done"]
  /\ UNCHANGED <<cacheVars, launches, clicks, phase, subsid, slotA, adThread,
                 newUrl, adUrl, clickable, downloading, busy>>

\* AdThread: MyAdCallback fills the slot and starts to assign m_strAdUrl, which
\* the window may read or assign meanwhile.
AnswerAd(v) ==
  /\ adThread[v] = "asking"
  /\ \E d \in Answers(v) :
       /\ slotA' = [slotA EXCEPT ![v] = d]
       /\ newUrl' = [newUrl EXCEPT ![v] = IF d = NoData THEN NoUrl ELSE d]
  /\ adUrl' = [adUrl EXCEPT ![v] = TornUrl]
  /\ adThread' = [adThread EXCEPT ![v] = "assigning"]
  /\ UNCHANGED <<cacheVars, launches, clicks, phase, subsid, slotM, queue,
                 modelThread, clickable, downloading, busy>>

\* The assignment ends, with any outcome if the window assigned too; then the
\* message is posted.
AssignedUrl(v) == IF adUrl[v] = TornUrl
                      THEN {newUrl[v]} ELSE {newUrl[v], adUrl[v], TornUrl}
PostAd(v) ==
  /\ adThread[v] = "assigning"
  /\ \E url \in AssignedUrl(v) : adUrl' = [adUrl EXCEPT ![v] = url]
  /\ Post(v, Msg("ad", FALSE))
  /\ adThread' = [adThread EXCEPT ![v] = "done"]
  /\ UNCHANGED <<cacheVars, launches, clicks, phase, subsid, slots,
                 modelThread, newUrl, clickable, downloading, busy>>

-----------------------------------------------------------------------------
(* The window *)

Idle(v) == phase[v] = "running" /\ busy[v] = "no"
Handles(v, kind) == Idle(v) /\ queue[v] # <<>> /\ Head(queue[v]).kind = kind
Take(v) == queue' = [queue EXCEPT ![v] = Tail(@)]

\* The download ends however the model was received.
EndDownload_IfReceived(v) ==
  downloading' = [downloading EXCEPT ![v] = slotM[v] = NoData]
EndDownload(v) == downloading' = [downloading EXCEPT ![v] = FALSE]

\* WM_USER_MODEL_DOWNLOADED: a model that was downloaded and loads goes into
\* the cache, with the url m_strAdUrl holds at that moment.
ModelToCache(v) ==
  /\ ~ Head(queue[v]).cached
  /\ slotM[v] # NoData
  /\ CanAddModel(v, subsid[v])
  /\ PushEntry(v, subsid[v], slotM[v], adUrl[v])
  /\ busy' = [busy EXCEPT ![v] = "append"]
  /\ UNCHANGED <<slotM, downloading>>

\* Otherwise (from the cache, not received, not loadable, already in the cache,
\* or not saved) the slot is freed and that is all.
ModelNotToCache(v) ==
  /\ slotM' = [slotM EXCEPT ![v] = NoData]
  /\ EndDownload(v)
  /\ UNCHANGED <<cacheVars, busy>>

ModelDownloaded(v) ==
  /\ Handles(v, "model")
  /\ Take(v)
  /\ ModelToCache(v) \/ ModelNotToCache(v)
  /\ UNCHANGED <<launches, clicks, phase, subsid, slotA, threads, adUrl,
                 clickable>>

\* AddModelToCache ends.
ModelAdded(v) ==
  /\ busy[v] = "append"
  /\ WriteEntry(v)
  /\ slotM' = [slotM EXCEPT ![v] = NoData]
  /\ EndDownload(v)
  /\ busy' = [busy EXCEPT ![v] = "no"]
  /\ UNCHANGED <<launches, clicks, phase, subsid, slotA, queue, threads, adUrl,
                 clickable>>

\* WM_USER_AD_DOWNLOADED: the size of the image bounds the area of the click,
\* and nothing is left to click on when there is no image.
AdImage_OtherSlot(v) == slotM[v]
AdImage(v) == slotA[v]

\* An advertisement that was downloaded goes to the entry of its model, if
\* there is one by now.
AdToCache(v) ==
  /\ ~ Head(queue[v]).cached
  /\ slotA[v] # NoData
  /\ CanLockAd(v, subsid[v])
  /\ LockAd(v, subsid[v])
  /\ busy' = [busy EXCEPT ![v] = "write_ad"]
AdNotToCache(v) ==
  /\ \/ Head(queue[v]).cached
     \/ slotA[v] = NoData
     \/ ~ CanLockAd(v, subsid[v])
  /\ busy' = [busy EXCEPT ![v] = "free_ad"]
  /\ UNCHANGED cacheVars

AdDownloaded(v) ==
  /\ Handles(v, "ad")
  /\ Take(v)
  /\ clickable' = [clickable EXCEPT ![v] = AdImage(v)]
  /\ AdToCache(v) \/ AdNotToCache(v)
  /\ UNCHANGED <<launches, clicks, phase, subsid, slots, threads, adUrl,
                 downloading>>

\* AddAdToCache ends, and the slot is freed.  A download that reaches the slot
\* between the use of the pointer and this step is lost.
AdHandled(v) ==
  /\ \/ busy[v] = "write_ad" /\ WriteAd(v, subsid[v], slotA[v], adUrl[v])
     \/ busy[v] = "free_ad" /\ UNCHANGED cacheVars
  /\ slotA' = [slotA EXCEPT ![v] = NoData]
  /\ busy' = [busy EXCEPT ![v] = "no"]
  /\ UNCHANGED <<launches, clicks, phase, subsid, slotM, queue, threads, adUrl,
                 clickable, downloading>>

\* A click on an entry of the history shows its model, its advertisement and
\* takes over its url; m_strSubsid stays.
ClickHistory(v) ==
  /\ Idle(v)
  /\ clicks < MaxClicks
  /\ clicks' = clicks + 1
  /\ \E i \in DOMAIN mem[v] :
       /\ clickable' = [clickable EXCEPT ![v] = AdOf(mem[v][i].file)]
       /\ adUrl' = [adUrl EXCEPT ![v] = mem[v][i].url]
  /\ UNCHANGED <<cacheVars, launches, phase, subsid, slots, queue, threads,
                 downloading, busy>>

\* The user closes the viewer, or it dies, at any moment: the threads are
\* detached and end with the process.
Leave(v) ==
  /\ phase[v] # "off"
  /\ CleanUp(v)
  /\ Enter(v, "off")
  /\ slotM' = [slotM EXCEPT ![v] = NoData]
  /\ slotA' = [slotA EXCEPT ![v] = NoData]
  /\ queue' = [queue EXCEPT ![v] = <<>>]
  /\ modelThread' = [modelThread EXCEPT ![v] = "off"]
  /\ adThread' = [adThread EXCEPT ![v] = "off"]
  /\ newUrl' = [newUrl EXCEPT ![v] = NoUrl]
  /\ adUrl' = [adUrl EXCEPT ![v] = NoUrl]
  /\ clickable' = [clickable EXCEPT ![v] = NoData]
  /\ downloading' = [downloading EXCEPT ![v] = FALSE]
  /\ busy' = [busy EXCEPT ![v] = "no"]
  /\ UNCHANGED <<launches, clicks, subsid>>

-----------------------------------------------------------------------------
Start(v)  == (\E s \in Subsids : Launch(v, s)) \/ Initialize(v)
                \/ Load3DScanFromUrl(v)
Answer(v) == AnswerModel(v) \/ AnswerAd(v) \/ PostAd(v)
WindowProc(v) == ModelDownloaded(v) \/ ModelAdded(v) \/ AdDownloaded(v)
                   \/ AdHandled(v)

Next == \E v \in Viewers :
          Start(v) \/ Answer(v) \/ WindowProc(v) \/ ClickHistory(v) \/ Leave(v)

Spec == Init /\ [][Next]_vars

\* The message loop runs while the viewer does, and a request ends with an
\* answer or with the timeout of the HTTP client.  Nobody has to click or leave.
FairSpec == /\ Spec
            /\ \A v \in Viewers : /\ WF_vars(WindowProc(v))
                                  /\ WF_vars(AnswerModel(v))

-----------------------------------------------------------------------------
(* Properties *)

Phases == {"off", "probe", "create", "close", "reopen", "load", "running"}

\* Every variable has its type.
TypeOK ==
  /\ dat \in BOOLEAN
  /\ table \in Seq(Entry)
  /\ bundles \in Seq(Bundle)
  /\ handle \in [Viewers -> {"none", "shared", "exclusive"}]
  /\ mem \in [Viewers -> Seq(Entry)]
  /\ at \in [Viewers -> Nat]
  /\ adLock \in [Viewers -> Nat]
  /\ launches \in Nat
  /\ clicks \in Nat
  /\ phase \in [Viewers -> Phases]
  /\ subsid \in [Viewers -> Subsids]
  /\ slotM \in [Viewers -> Contents]
  /\ slotA \in [Viewers -> Contents]
  /\ queue \in [Viewers -> Seq(Message)]
  /\ modelThread \in [Viewers -> {"off", "asking", "done"}]
  /\ adThread \in [Viewers -> {"off", "asking", "assigning", "done"}]
  /\ newUrl \in [Viewers -> Urls]
  /\ adUrl \in [Viewers -> Urls]
  /\ clickable \in [Viewers -> Contents]
  /\ downloading \in [Viewers -> BOOLEAN]
  /\ busy \in [Viewers -> {"no", "append", "write_ad", "free_ad"}]

Whole(e) == /\ e.file \in DOMAIN bundles
            /\ bundles[e.file].model = e.subs
            /\ bundles[e.file].ad \in {e.subs, NoData}

\* AddModelToCache saves before it enters: each entry, on disk or in a copy,
\* names the whole model of its own subscription and its advertisement or none,
\* whatever viewers run, fail, are closed or are killed.
EntriesWhole ==
  /\ \A i \in DOMAIN table : Whole(table[i])
  /\ \A v \in Viewers : \A i \in DOMAIN mem[v] : Whole(mem[v][i])

\* No viewer ever shortens cache.dat, least of all one that believes it has to
\* create it (Initialize): positions already handed out stay inside the table.
TableNeverShrinks == [][Len(table') >= Len(table)]_vars

\* With one viewer at a time, an entry of cache.dat is never moved, replaced or
\* lost (AddModelToCache writes at the end).
EntriesKept ==
  [][\A i \in DOMAIN table : i \in DOMAIN table' /\ table'[i] = table[i]]_vars

\* With one viewer at a time, cache.dat holds each subscription once (the
\* search of AddModelToCache), also across launches and kills.
OneEntryEach ==
  \A i, j \in DOMAIN table : table[i].subs = table[j].subs => i = j

Beyond(v) == IF busy[v] = "append" THEN 1 ELSE 0

\* With one viewer at a time, the copy and cache.dat agree except for the urls,
\* which AddAdToCache sets in the copy alone, and an entry not yet written.
CopyIsTable ==
  \A v \in Viewers :
    phase[v] \in {"load", "running"} =>
      /\ handle[v] = "shared"
      /\ Len(mem[v]) = Len(table) + Beyond(v)
      /\ \A i \in DOMAIN table : /\ mem[v][i].subs = table[i].subs
                                /\ mem[v][i].file = table[i].file

\* Nothing is under way any more.
Settled(v) == /\ Idle(v)
              /\ queue[v] = <<>>
              /\ modelThread[v] # "asking"
              /\ adThread[v] \notin {"asking", "assigning"}

\* A viewer that asked the server and got an advertisement ends up with its
\* image clickable and the url that came with it, in whatever order the threads
\* answered and the messages were handled.
DownloadedAdOpens ==
  \A v \in Viewers :
    Settled(v) /\ modelThread[v] = "done" /\ newUrl[v] # NoUrl =>
      clickable[v] = newUrl[v] /\ adUrl[v] = newUrl[v]

\* upload_api.txt: the url is "the target website when we click" its own
\* advertisement, so the url in an entry is not another subscription's.
CachedUrlIsOwn ==
  LET Own(e) == e.url \notin Subsids \ {e.subs}
  IN  /\ \A i \in DOMAIN table : Own(table[i])
      /\ \A v \in Viewers : \A i \in DOMAIN mem[v] : Own(mem[v][i])

\* upload_api.txt: the url of an advertisement is "the target website when we
\* click" it.
ClickOpensAdUrl ==
  \A v \in Viewers :
    Settled(v) /\ clickable[v] # NoData => adUrl[v] = clickable[v]

\* The progress bar goes away: every download ends, or the viewer does.
DownloadEnds == \A v \in Viewers : downloading[v] ~> ~ downloading[v]
=============================================================================
