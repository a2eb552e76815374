# ModelPublishSuite: specifications, model checking and proofs

ModelPublishSuite publishes 3D models on the web. An *upload tool* sends models
and advertisements to a *publish server*, which keeps them in files and in a
MySQL database and hands out *subscription keys*. A *model viewer* is launched
on a link that carries a key, fetches the model and its advertisement from the
server, and keeps them in a cache on disk that all viewers of a user share.

This directory holds TLA+ modules for the parts of the suite where something is
shared or has to be read back (the server's database and files, the viewers'
cache, a viewer's slots and messages, the `.3dscan` file, imported OBJ files, the
editor's files), TLC configurations that check them on small instances, and
TLAPS proofs for all of these. Source paths below are relative to `src/Source/`; the
spelling `SerrverSide` is the repository's.

## 1. The system

### 1.1 Components

| Component | Code | State | Operations | Status |
|---|---|---|---|---|
| Publish server: handlers | `SerrverSide/ModelPublishServer/CModelPublishServer.cpp` | one MySQL connection and one set of locals per request; the database; uploaded files and their `.base64` companions | `HandleGet`, `HandlePost`; `OnGetModel`, `OnGetAd`, `OnGetInfo`, `OnUploadModel`, `OnUploadAd`, `OnCreateSubscription` | modelled |
| Publish server: process | `.../ModelPublishServer.cpp`, `InitializeServer`, `ShutdownServer` | the listener | start, open that fails, stop, close, crash | modelled |
| Database schema | `SerrverSide/Database/dbCreateTables.sql` | five tables | primary, foreign and unique keys | modelled |
| Model cache | `ClientSide/ModelViewer/CModelCache.cpp` | `cache.dat`, temporary files; the copy `m_CacheTable` and the handle of each process | `Initialize`, `CleanUp`, `SearchInCache`, `LoadModel`, `AddModelToCache`, `AddAdToCache` | modelled |
| Model viewer: link, downloads, history | `ClientSide/ModelViewer/ModelViewerDlg.cpp` | `m_strSubsid`, `m_strAdUrl`, `m_PointerPass`, the message queue, three download threads; two panes with a model each | launch, load from cache or server, answers, window messages, click on the history, compare, Previous and Next Part, close or kill | partly |
| Web service client | `ClientSide/Common/CModelWebServiceClient.cpp` | none between calls | three downloads, three uploads | partly |
| Upload tool | `ClientSide/UploadTool/UploadToolDlg.cpp` | edit boxes with the ids received so far, calls under way | upload model, upload ad, create subscription, type an id, exit | modelled |
| 3dscan format, streams | `ClientSide/Common/C3DScanFile.cpp`, `CMemStream.cpp`, `CFileStream.cpp` | a file of blocks linked by offsets; a stream position | `Save3DScanModel`, `Load3DScanModel` | modelled |
| OBJ loader and converter | `ClientSide/Common/ObjLoader.cpp`, `Obj2Model.cpp` | parts, subsets, faces; the material in force | `LoadObj2`, `LoadMtlLib2`, `ConvertObjTo3DModel` | modelled |
| Model editor | `ClientSide/ModelEditor/ModelEditorDlg.cpp` | the model, its drawing, the file name | import, open, save, save as, upload (which sends nothing: the call is commented out), inspector, draw | partly |
| URL protocol, installer, assets | `CustomURLProtocolApp.cpp`, `Setup/`, `Bin/` | registry | register the scheme | not modelled |
| Rendering and GUI | `CD3D*.cpp`, `tlC*.cpp`, `CRenderDialog.cpp` | Direct3D resources | create the drawing of a model, draw it | partly |
| Legacy viewer | `ClientSide/3DModelViewer` | its own | unused by the rest | not modelled |
| Libraries | `Libraries/`, `imgui`, `miniz` | | used as listener, MySQL connector, HTTP client | external |

The only document of the protocol is `src/Doc/upload_api.txt`. The suite's own
code has no tests.

### 1.2 How they interact

* Viewer and upload tool call the server over HTTP. The listener of cpprestsdk
  runs each request on a thread of its pool, so handlers interleave at every
  SQL statement and every file operation. There is no transaction and no lock:
  the handlers rely on autocommit, on `LAST_INSERT_ID()` being private to a
  connection, on UUIDs being fresh and on the keys of the schema.
* The server keeps each upload in a file named by a UUID, and caches its base64
  form in a *companion* file next to it, created by whichever `get`, `getad` or
  `getinfo` first finds it missing.
* A viewer asks for model and advertisement on two detached threads
  (`ModelThread`, `AdThread`). A thread puts its answer in a slot of
  `m_PointerPass`, posts a message, and the window handles it later.
  `AdThread` also assigns `m_strAdUrl`, a `std::wstring` the window uses too.
* Viewers are processes. They share `cache.dat` and the temporary files through
  the file system only, each with a copy of the table read once at start.
* The editor writes `.3dscan` files, which are uploaded, downloaded and opened by
  the viewers, from the cache (a file) or straight from the answer (memory). A
  drawing (`D3D_MODEL`) points into the buffers of the model it was made from
  (`TD_SCAN_MODEL`), which therefore has to live as long.

### 1.3 What is hard in this code, and what makes each component correct

Every hazard is listed with its line in `PROJECT.json`. In short:

* **Server.** Statements of two handlers interleave; a handler checks a key in
  one statement and inserts it in another, after seeding `rand()` with a tick
  another handler may share; the id to answer is read in a statement after the
  INSERT; a process may die, or an exception escape, between any two steps, and
  an exception leaks the connection; two handlers create the same companion.
  *Correct means:* rows only ever lead to rows and finished files that exist
  (`RowsResolve`), nothing stored is altered (`Extends`), a key denotes one
  subscription (`KeysDistinct`), no publication shares a file
  (`FilesUnshared`), an answer tells the truth about the caller's own request
  (`UploadAnswersTrue`, `SubsAnswersTrue`, `GetAnswersTrue`), the whole is an
  atomic catalogue (`ImplementsStore`), and every request is answered.
* **Cache.** Two viewers race to create `cache.dat`; two append at the same end
  of it; a write fails on a full disk after the files exist; a viewer dies
  between the push on its copy and the write. *Correct means:* an entry names a
  whole model of its own subscription (`EntriesWhole`), positions handed out
  stay inside the table (`TableNeverShrinks`), and with one viewer at a time the
  copy and the table agree and nothing is lost or doubled (`CopyIsTable`,
  `EntriesKept`, `OneEntryEach`).
* **Viewer.** Model and advertisement arrive in either order; the url in
  `m_strAdUrl` is whatever was set last; the slot of the advertisement is shared
  by a thread and a posted message. A click on the history
  sets that url too, and a download under way then stores it. *Correct means:* an
  advertisement that was downloaded opens its own url (`DownloadedAdOpens`, which
  holds until such a click), and a download ends (`DownloadEnds`). That an entry's
  url is its own (`CachedUrlIsOwn`) and that a click on a cached advertisement opens
  anything do not hold: section 3.3.
* **Upload tool.** Replies are lost or come after the client gave up; uploads
  overtake each other; callbacks write to a window that may be blocked in
  `create_subs`. *Correct means:* an id in a box is the tool's own
  (`BoxesTrue`), a key on display denotes what was last asked for
  (`KeyShownIsLast`), every call ends (`CallsEnd`).
* **The `.3dscan` file.** Headers carry the offsets of blocks not yet written;
  no write is checked, and no read; the header variables of the loader are not
  initialised, so that past the end of a file it goes on with what an earlier
  block left there. *Correct means:* a complete file opens as the very model, one
  whose save was broken off only as first parts of it, and no file with the data
  of another model (`ImplementsModelFile`); a load of a complete file ends
  (`LoadEnds`).
* **OBJ import.** Objects, groups, materials and faces come in any order, and
  each subset must carry what is in force; vertices are written in six forms;
  buffers are allocated from products of a count taken in another loop, all modulo
  2^32. *Correct means:* the
  triangles of the file, in order, with their object and material
  (`ImportFaithful`), in buffers that fit (`BuffersFit`), with the materials the
  subsets name (`MaterialsFound`).
* **Editor.** Two pointers to one model, replaced in different orders by import and
  open; a file name that is taken, kept and forgotten at different moments; saves that
  fail or break off. *Correct means:* nothing freed is drawn (`CrashesExplained`),
  only opening a file loses a model, the one it replaces or the one begun of a file
  that is refused (`LostByOpen`), Save writes to the file meant (`NameIsChosen`), and
  a complete file holds what is shown (`ShownUnlessEdited`).
* **The viewer's window.** Two panes loaded by different functions, of which one
  frees the old model and one does not; a loader that leaves behind what it has
  built of a file it refuses; a current part that must survive every load. *Correct
  means:* nothing is drawn whose buffers are gone (`DrawingsBacked`), what is lost is
  one of these two (`LostOnLoad`), Prev and Next start from a part that is shown and
  take each other back (`CurrentPartShown`, `PrevTakesBackNext`).

Defects with nobody to notice them, and no statement of the code to compare them
with, are in the models but have no property of their own: the loop over one
offset that a short file can send the loader into (`OutOfMemory`), the crash of
Upload before the model has a file (`crashed_upload`), the message about a cached
advertisement that shares slot 2 with `AdThread` (`ModelViewerDlg.cpp:808`).

## 2. The modules

    PublishStore            the abstract catalogue
    PublishServer           handlers, process, database, files; implements PublishStore
    PublishServerProofs     theorems about PublishServer: what is stored
    PublishAnswersProofs    theorems about PublishServer: answers and files, and
                            that it implements PublishStore
    MCPublishServer         constants of its TLC runs

    ModelCache              the shared cache: state and operations
    ModelViewer             viewer processes, threads, window; EXTENDS ModelCache
    ModelViewerProofs       theorems about both
    MCModelViewer           constants of its TLC runs

    ViewerWindow            the viewer's window: panes, parts, what is allocated
    ViewerWindowProofs      theorems about ViewerWindow
    MCViewerWindow          constants of its TLC run

    ModelFile               what a .3dscan file promises, abstractly
    ScanFile                save and load block by block; implements ModelFile
    ScanFileProofs          theorems about ScanFile, and that it implements ModelFile
    MCScanFile              constants of its TLC run

    ModelEditor             the editor, with an INSTANCE of ModelFile per path
    ModelEditorProofs       theorems about ModelEditor
    MCModelEditor           constants of its TLC run

    ObjImport               OBJ and mtl lines to a model
    ObjImportProofs         theorems about ObjImport
    MCObjImport             constants of its TLC run

    UploadTool              the upload tool beside an INSTANCE of PublishStore
    UploadToolProofs        theorems about UploadTool
    MCUploadTool            constants of its TLC run

A definition named `X_Word` right before `X` is a plausible defect of `X`; no run
and no proof uses it. Each property of a passing run is shown to notice one of
them (`mutants` in `PROJECT.json`).

### 2.1 PublishServer

A member of `Handlers` is a thread of the pool that serves one request after the
other. `pc[p]` names the next SQL statement or stdio call of its handler; `req`
is the parsed request; `row`, `lastId`, `uuid`, `rng`, `key`, `pos`, `code` and
`got` are the handler's locals (`iModelId`, `iFileId`, `iAdId`,
`LAST_INSERT_ID()`, the file name, the state of `rand()`, `szHash`, the write
position, `error_code`, the file body in the answer).

| Actions | Code |
|---|---|
| `Start`, `Stop`, `Close` | `main`, `InitializeServer` (a failing `open()` is swallowed: `deaf`), `ShutdownServer`; `close()` waits for the requests under way (`Drained`, `unregister_listener` of cpprestsdk) |
| `Crash` | the process dies; files and tables stay |
| `ArriveGet`, `ArrivePost`, `Reject` | `HandleGet`, `HandlePost`, with the bodies that `extract_json` does not take |
| `Connect`, `Throw`, `Reply`, `ReplyThrows` | shared by the handlers: the connection, an escaping exception (which skips `delete con`), the answer |
| `SelectSubs` ... `FillCompanion` | `OnGetModel`, `OnGetAd`, `OnGetInfo` |
| `Authenticate` ... `AnswerAdId` | `OnUploadModel`, `OnUploadAd` |
| `SelectOwner` ... `AnswerSubsId` | `OnCreateSubscription` |

Abstractions, each with its reason:

* A row id is an index in its table's sequence: `AUTO_INCREMENT` gaps left by a
  refused INSERT are not represented. Nothing compares ids of different tables
  or relies on their being consecutive.
* Opening, measuring and reading a companion is one step (`ReadCompanion`). The size
  read is that at the `ftell`, and a companion only grows between two truncations: what
  the three calls can bring together, one step between other handlers' chunks brings
  too.
* A UUID is an index in `disk`. Contents are members of `Data`; one request's
  image and url carry the same member, so that mixing two uploads shows.
* A companion is a set of `NChunks` flushed chunks: a handler that truncates it
  does not stop another from writing later chunks at its own offset. The base64
  text itself is not modelled; whether the answer has the uninitialised tail of
  the read buffer is (`dirty`), because a tail that is no UTF-16 makes the reply
  throw.
* `rand()` is a function on a small set of states, with the key its eight calls
  spell; `srand(GetTickCount())` picks any of `Ticks`, hence two handlers may
  share a seed.
* Passwords: a user is in `Owners` when the right password came along.
* SQL text and the contents of log lines are left out.

### 2.2 PublishStore

The catalogue a client can observe: `shelf` (models by id), `banners`
(advertisements by id) and `keys`. It has three atomic steps, `PublishModel`,
`PublishAd` and `Subscribe`. `ImplementsStore` is the refinement: a model is on
the shelf when its row is in `tbl_model_desc`, an advertisement when its row is
in `tbl_advertisement`, a key when its row is in `tbl_subscription`; the file an
upload wrote and the row of its file address are not observable before that.
Its content is that of the file the row leads to, or `"torn"`, which is not in
`Data`, when the file is not whole.

### 2.3 ModelCache and ModelViewer

`ModelCache` has the state on disk (`dat`, `table`, `bundles`) and each viewer's
share of it (`handle`, `mem`, `at`, `adLock`), and the calls of `CModelCache`
cut at the file-system calls another viewer can observe: `Initialize` is open,
or create, close and reopen; `AddModelToCache` is `PushEntry` (the files, the
entry in the copy, `SetFilePointer`) and `WriteEntry` (`WriteFile`);
`AddAdToCache` is `LockAd` and `WriteAd`.

`ModelViewer` runs them. A viewer goes from `off` through `probe` (with
`create`, `close`, `reopen` when there is no table) and `load` to `running`;
`Leave` is a close or a kill in any phase. `AnswerModel` and `AnswerAd` are what
a thread does when the request ends, with the server's content or with nothing;
`LoadFromServer` is also how
a launch goes on when `LoadModel` finds the entry but cannot open its model file.
`PostAd` ends the assignment of `m_strAdUrl`, during which a read yields
`TornUrl`, and which a concurrent assignment by the window can spoil (a data
race on a `std::wstring`). `ModelDownloaded`, `AdDownloaded` and their ends
`ModelAdded`, `AdHandled` are the handlers of `WM_USER_MODEL_DOWNLOADED` and
`WM_USER_AD_DOWNLOADED`; `ClickHistory` is a click on an entry of the history.

Abstractions:

* A subscription stands for its model, its advertisement and its url, so that a
  mixture shows. The thumbnail of a bundle, and files that an aborted call left
  and no entry names, are left out.
* `Initialize` reads the table in one step: `GetFileSize` and `ReadFile` with an append
  between them give the copy of the table that a read before the append gives.
* `clickable` is the image whose size bounds the click: `GetImageSize` sets it
  even when the texture is not created.
* A launch loads one link: nothing in the viewer loads another (the menu entry
  that would is behind an early return).
* A download is whole or nothing. That the server may serve a part of a
  companion is shown by `concurrent_fetch`; joining the two models is planned.

### 2.4 UploadTool

The tool is composed with `PublishStore`, not with `PublishServer`: that the
server implements the catalogue is what `server` shows, so the tool's model
need not repeat tables and files. `ServeModel`, `ServeAd` and `ServeSubs` are
steps of the catalogue that carry out one call of the tool; `Elsewhere` is any
step of it on behalf of other clients. What the model assumes of the answers,
that an id is that of the caller's own upload and a key that of the caller's own
subscription, is `UploadAnswersTrue` and `SubsAnswersTrue`.

A call is sent by `ClickUpload` (on a detached thread) or `ClickCreate` (the
window waits in `blocked`), may be carried out by the service at any time or
never, and ends on the tool's side with `Return`, which fails whenever it likes:
a lost request or reply, a refusal, the HTTP timeout. `make_request_post` leaves
`http_result` uninitialised when the request fails, but the answer is then null
and the call fails for any value of it. `MyModelCallback` and
`MyAdCallback` need a responsive window, because `SetDlgItemText` from another
thread waits until the window takes messages. The boxes for server, user, files
and address are inputs of the clicks. `Close` is exit or kill; calls of a
process that is gone are indistinguishable from `Elsewhere`.

### 2.5 ModelFile and ScanFile

`ModelFile` is the file as its users see it: the model of the last save, how much
of it is there (`absent`, `saving`, `interrupted`, `short`, `whole`), and what a
load may make of that (`Outcomes`): the model, the model with data missing
(`torn`), first parts of it (`prefix`), something with remains of another load in
the place of blocks (`stale`), or nothing.

`ScanFile` is the file as it is: a function from offsets to headers, and its length.
The save is a walk (`WritePart`, `WriteSubset`, `ClosePart`, `WriteMaterial`,
`WriteTexture`, `Finish`) that computes each offset from `uiFileOfs`, goes back to a
part's header after its subsets and to the file's header at the very end; `Put` is an
`fwrite` that may come up short. `Die` stops it anywhere, `Cut` leaves a copy that
ends anywhere but inside a header. The load is a walk along the offsets (`ReadHeader`
... `ReadTexture`, `EndLoop`); `Read` at an offset without a block leaves the variable
as it was (`CFileStream`), or spoils its first byte (`CMemStream`, whose seek is
clamped to the last byte). `Reject` is `load_error`; what it leaves allocated is in
the modules that keep count of models, `ViewerWindow` and `ModelEditor`.
`ImplementsModelFile` maps a result to its form by comparing it with the model that
was saved; `Form` knows a further word, `wrong`, for data of another place or another
model, which `ModelFile` never allows. The header variables keep what a load has read
when it ends, refused or not, and `Start` begins the next load with them or with
anything else.

`ModelAssumption` says what a model in the program is: finite lists, no part
without a subset (`Obj2Model.cpp:178` drops one, and a load takes what follows a
part for its subset or refuses the file), each texture's name once (a `map`), and
without parts no materials or textures, which the import takes over for the subsets
that use them (`Obj2Model.cpp:215`). `NoModelAssumption` tells the lack of a result
from a model. Offsets are not bounded: a file of 2 GB, where an `int32_t` offset turns
negative and ends a list, is not modelled.

A disk that is full stays full until the save ends (a bound in `Put`): in the loops of
materials and textures, which never seek, a write that falls short and later ones
that succeed would put blocks where no offset leads.

Left out: compression (a block's size is what is written of it), decompression of
torn data, names of more than 31 characters, which `strncpy` leaves without
terminator, a file that ends inside a header, the bounding box.

### 2.6 ObjImport

One action per kind of line that `LoadObj2` tells apart; `parts` is `obj.subParts`.
The lists of positions, normals and texture coordinates are only appended to and used
after the last line, so the model has their length. What happens after the last line
is functions of `parts`: `Materials` (`LoadMtlLib2`, whose loop is the function
`MtlRead` of the number of lines read), `ConvertedParts` and `ConvertedMaterials`
(`ConvertObjTo3DModel`). `ConvertedSubset` has the sizes of the two buffers as the
code computes them, `Indices` and `Bytes`, each a product of words. The converter
leaves out subsets without faces and parts that then have none (`Kept`), so parts of
the model and objects of the file have different numbers. The reference is stated on
the lines themselves (`MeantTriangles`): a face is a fan of triangles round its first
vertex, in the object and with the material in force at its line, with the indices
that the comments at `ObjLoader.cpp:46` and `:252` describe. A line is at most the
4095 characters `fgets` takes at a time: the rest of a longer one would be read as a
line of its own.

`ImportFaithful` has premises, each for something the loader does not do:
negative indices (`:252` calls them relative, the code that would make them so is
commented out, and a minus sign is not counted as the start of a vertex), indices
outside the lists, faces of fewer than three vertices (the unsigned count of
triangles wraps around), faces of two forms in one subset (the flags of the last
face count), and `v//n` (end of section 3.3).

### 2.7 ModelEditor

A step is a menu item with all it does, followed by the drawing of the frame (`Draw`,
`RenderD3DModel`). `base` is `m_pModel1`, `shown` is `m_pd3dModel1` with its own copy
of each material, `alive` the models not freed, `name` and `hasName` are
`m_strFilename` and `m_bHasFilename`. A path holds what `ModelFile` says, and `Open`
gets any of its `Outcomes`, so the editor is checked against the abstract file that
`scan_file` shows the code to implement. `Read` turns an outcome into models:
`FirstParts` without materials, or `Remains` of other files. A file that is refused
may leave a model in `alive` that nothing points to (`LoadFails`): the loader frees
nothing at `load_error`. `chosen` and `home` are history variables.

### 2.8 ViewerWindow

`pane[1]` and `pane[2]` are the model of the launch and the one it is compared
with: number, model, `m_iCurPart1/2` and the visible parts. `scans` and
`drawings` are what is allocated. `LoadFromFile` is `Load3DScanFile` and
`Load3DScanFile2`, `LoadFromMemory` the handler of `WM_USER_MODEL_DOWNLOADED`.
`Refuse` is what is left of a load that fails: nothing, or the scan model built so
far. `download` is the model of the launch, asked for by `ModelThread` or taken from
the cache, until its message is handled; every kind of launch is an initial state.
The bar of the download and the advertisement are left out. The part before the
first is computed as in the code, through an unsigned number: with three parts,
"Previous Part" stays at the first one, with two it goes to the last, and
`PrevTakesBackNext` says exactly where the two buttons are inverse to each other.

## 3. The runs

| Run | Instance | Distinct states | What it shows |
|---|---|---|---|
| `server` | 2 handlers, all six methods, 2 users (1 account), 2 contents, 2 uploads, 1 `create_subs`, 2 chunks, 1 crash | 5 019 560 | `TypeOK`, `GetAnswersTrue`, `CompanionInProgress`, `FilesUnshared`, `UploadAnswersTrue`, `ImplementsStore` |
| `server_live` | 2 handlers, seeds 1 and 3, 2 uploads, 2 `create_subs`, full disk, fairness | 404 240 | `KeysDistinct`, `SubsAnswersTrue`, `RowsResolve`, `RequestsAnswered`, `ShutdownReturns` |
| `viewer_alone` | 1 viewer, 2 subscriptions, 4 launches, 1 click, fairness | 278 478 | `TypeOK`, `OneEntryEach`, `CopyIsTable`, `EntriesKept`, `DownloadEnds` |
| `viewer_pair` | 2 viewers, 2 subscriptions, 3 launches, full disk | 1 040 858 | `EntriesWhole`, `DownloadedAdOpens`, `TableNeverShrinks` |
| `upload` | 1 tool, 2 calls per launch, 2 models, 2 ads, 2 keys, typed id 1, fairness | 130 324 | `TypeOK`, `BoxesTrue`, `KeyShownIsLast`, `CallsEnd` |
| `scan_file` | 4 models of up to 2 parts, 2 subsets, 2 materials, 2 textures; full disk; both streams; fairness | 2 018 748 | `ImplementsModelFile`, `LoadEnds` |
| `obj_import` | files of up to 5 lines, 8 faces in all six forms, 3 materials, one defined twice | 579 195 | `ImportFaithful`, `MaterialsFound`, `BuffersFit` |
| `editor` | 4 models, 2 paths, 3 loads per launch, full disk | 511 204 | `CrashesExplained`, `NameIsChosen`, `ShownUnlessEdited`, `LostByOpen` |
| `viewer_window` | models of 0, 2 and 3 parts, 4 loads | 29 660 | `CurrentPartShown`, `DrawingsBacked`, `PrevTakesBackNext`, `LostOnLoad` |
| `concurrent_fetch` | 2 handlers | | violation, section 3.3 |
| `cached_ad_click` | 1 viewer | | violation, section 3.3 |
| `history_click` | 1 viewer, 1 click | | violation, section 3.3 |

### 3.1 Bounds, and why they are enough

* **Two handlers.** Every hazard of the server is between two handlers: two
  checks before two inserts, an INSERT between another handler's INSERT and its
  `LAST_INSERT_ID()`, a truncation during a write or a read. A thread that is
  done serves the next request, so sequences of requests are longer than two.
* **Two uploads, one or two subscriptions.** A model and an advertisement, which
  a subscription needs, or two of a kind, which confuse ids and files. With two
  `create_subs` and `Ticks = {1, 3}` over a cycle of three states, handlers
  start from one seed, or one starts where the other arrives.
* **`MaxConns = 2`.** One leaked connection makes the other handler's refused,
  two make the server refuse everything: both states are reached.
* **`NChunks = 2`.** Empty, half and whole companions.
* **Viewer launches.** Three on two subscriptions give a second launch on a
  cached subscription, and a launch during another viewer's append. Four, with
  one viewer at a time, also give a kill in the middle and two more launches.
* **Clicks.** `viewer_alone` has one click on the history. `viewer_pair` has none:
  `DownloadedAdOpens` is about an advertisement whose url nothing has replaced since,
  and replacing it is what a click does. What such a click does to the cache is
  `history_click`.
* **Two calls of the tool per launch.** Two uploads that overtake each other, an
  upload under way while the window waits for `create_subs`, and two
  `create_subs` of which the second fails. Ids for a `create_subs` also come from
  the keyboard (`TypedIds`), so it needs no uploads before it; ids above 1 only
  come from answers. The number of launches is not bounded. There is one
  content: that two uploads differ shows in their ids, and what an id leads to, for
  contents of any number, is proved (`BoxesAlwaysTrue`).
* **Models of a file.** Without parts, without materials, one part, and two parts with
  everything: each loop of save and load runs zero, one and two times, and a header
  variable can hold a header of this file or of the one before. `MaxSubsets = 4` is
  one more than a model has, so a loop over one offset shows as such. A header of two
  units leaves room for the one byte `CMemStream` reads.
* **Lines of an OBJ file.** Five lines hold a group or a material between two
  faces and an object on either side. `Word = 512` instead of 2^32: five faces need
  up to ten triangles of up to 96 bytes, so the byte size wraps well before the
  count, as in the code.
* **The editor's loads.** Three models: one that is shown, one that replaces it,
  and one that is drawn when both others are lost or freed.
* **The window.** `SizeT = 256`: 255 leaves the same remainders by 2 and 3 as
  2^32 - 1 and 2^64 - 1. Four loads fill both panes, reload one and leave one for a
  load that is refused.
* **Symmetry** is over handlers, or over viewers and subscriptions, in runs
  without liveness. The specifications use these values only for
  equality, and `CHOOSE` only where the value is unique.
* The viewer's cfgs say `CHECK_DEADLOCK FALSE` because `MaxLaunches` stops the
  model when all launches are used up. The server runs check for deadlock.

### 3.2 Fairness

*Server:* weak fairness of each handler's `Work` and of `Close`. The pool's
threads are scheduled by the operating system and every MySQL and stdio call
returns; `close().wait()` waits only for handlers. No fairness for requests
that arrive, for ENTER, for crashes or for exceptions. `RequestsAnswered` needs
that the loop which draws keys gets to a free one: in the run `rand()` has a
cycle of three keys and at most two are taken, as in practice the cycle of
`rand()` is far longer than the table.

*Viewer:* weak fairness of `WindowProc` (the message loop runs while the process
does) and of `AnswerModel` (the HTTP client gives up after its timeout). No
fairness for launching, clicking, leaving or the advertisement's thread, which
`DownloadEnds` does not need.

*Files:* weak fairness of the steps of a save and of a load: they are loops of one
thread that nothing blocks. `LoadEnds` is about complete files only; it does not
hold of short ones. The window, the editor and the import have no liveness
property: nothing in them waits.

*Upload tool:* weak fairness of `Return` (the HTTP timeout) and of the rest of
`create_subs`, strong fairness of the callbacks: their message is *sent*, and a
window takes sent messages before all others, so it cannot be passed over
for ever by a user who keeps clicking. None for the service, so `CallsEnd` holds
without any answer.

### 3.3 Disagreements between the code and what it says

| Run | Property | What happens |
|---|---|---|
| `concurrent_fetch` | `FetchedModelIsWhole` | `OnGetModel` fills the companion in place; a concurrent `get` finds it there and answers `OK` with the part written so far. `upload_api.txt:98`: the key is "used as a hash to fetch models". |
| `cached_ad_click` | `ClickOpensAdUrl` | A launch that finds model and advertisement in the cache never sets `m_strAdUrl`; a click opens the empty string. `upload_api.txt:58`. |
| `history_click` | `CachedUrlIsOwn` | A click on the history during a download sets `m_strAdUrl` to the clicked entry's url and leaves `m_strSubsid` (`ModelViewerDlg.cpp:1067`); the download is then cached with that url (`:766`, `:805`), and the advertisement of one subscription leads to another's target. `upload_api.txt:58`. |

Seen while modelling, and decided by reading alone: a server that dies between the
`fopen` and the `fclose` of a companion leaves it short, and every `get` after the
restart answers `OK` with it (`:227`; the same property fails with one handler and one
crash). A vertex `v//n`, which the comment at `ObjLoader.cpp:49` describes, is read up
to its first slash only, where `atoi` finds no digits (`:277`): the normal becomes
index -1 and the converter reads in front of the list. The answer of `create_subs`
calls the key `subscription_id` (`CModelPublishServer.cpp:1709`), while
`upload_api.txt:97` says `subsid`. `OnGetInfo` (`:733`) appends the extension to a
stored name that has it already, so its branch "Open original binary model" never
finds the file and `getinfo` fails until a `get` has made the companion; the viewer,
which asks for both at once, then has no size for its bar.

## 4. The proofs

Every theorem is checked by TLAPS for every value of the constants that the
`ASSUME` of its module allows. Each inductive invariant was first checked by TLC on
the instances of section 3. All the invariants, the action properties and the
refinement that the passing runs check are theorems (section 4.9 lists the rest).

### 4.1 What the server stores

`ServerAssumption` only says what the constants of the server are: owners are
users, ticks are states of `rand()`, `RandNext` and `RandHash` are total, the two
`No...` values are not members of the sets they extend, and the bounds are
naturals (at least one chunk).

| Theorem | Statement | Meaning |
|---|---|---|
| `Inductive` | `Spec => []IInv` | the inductive invariant |
| `TypeCorrect` | `Spec => []TypeOK` | |
| `RowsAlwaysResolve` | `Spec => []RowsResolve` | rows lead to rows and closed files that exist, between any two statements and after a crash |
| `StoredForGood` | `Spec => [][Extends]_vars` | no step removes or alters a row, nor the contents of a file once it is closed |
| `KeysAlwaysDistinct` | `Spec => []KeysDistinct` | a key denotes one subscription |

`RowsResolve` is not inductive: that the INSERT of a file address names a closed
file follows from what the handler did in the steps before it. `IInv` adds what
each position in a handler knows. `RequestFits` says which kind of request is
served there, and that the account has been checked; `FileFits` that the file it
works on exists, and has been written and closed with the request's data when
its row is about to be inserted; `LocalsFit` the ranges of the locals that
index functions.

The argument avoids one case per pair of handlers. `Extends` relates the stored
data before and after a step: rows are kept, files are kept and what is closed
stays as it is. Every step satisfies it (`StepExtends`), because only the steps
in `DiskStep` and `RowStep` touch stored data. A handler that does not move
keeps its part of `IInv` under `Extends` alone (`OthersFit`), so each action only
has to be examined for the handler that takes it (`SharedFits`, `GetFits`,
`UploadFits`, `SubsFits`). `KeysAlwaysDistinct` is by induction relative to
`IInv`: only `InsertSubs` adds a row, and only if the key is free at that moment.

### 4.2 What the server answers, and its files

`PublishAnswersProofs`, under `ServerAssumption`.

| Theorem | Statement | Meaning |
|---|---|---|
| `UploadAnswersAlwaysTrue` | `Spec => []UploadAnswersTrue` | the id answered is that of the caller's own row |
| `SubsAnswersAlwaysTrue` | `Spec => []SubsAnswersTrue` | the key answered denotes what was asked for |
| `GetAnswersAlwaysTrue` | `Spec => []GetAnswersTrue` | a file answered is the one the key leads to |
| `FilesNeverShared` | `Spec => []FilesUnshared` | a UUID is named by one row at most |
| `CompanionAlwaysInProgress` | `Spec => []CompanionInProgress` | without crash and full disk, a companion that lacks chunks is being written |

The three statements about answers are about the last step of a handler, and true
because of what it learnt on the way. `Told` says what that is at each position:
before `SELECT LAST_INSERT_ID()`, that the id its connection will return is that
of a row with its data; before the SELECT of a model, that `row` is the model of a
subscription with the key of the request; and so on to the answer. Rows are only
added, so `Told` of one handler survives the steps of all others by `Extends`,
and is a fact about one handler at a time (`ToldAlways`). For
`FilesUnshared`, `FilesHeld` says that the UUID of a file that no row names yet is
held by one handler, and named by none. `CompanionInProgress` is inductive with
`IInv`: of the handlers that fill one companion, the one that truncated it last
has all it wrote on disk, and the others only add.

### 4.3 The server is the catalogue

`PublishAnswersProofs` also proves `ServerImplementsStore`:
`ASSUME ~ DiskFull PROVE Spec => ImplementsStore`. The hypothesis is that of the
`server` run: `fwrite` of an upload is not checked, so that a full disk has short
files published, whose content (`"torn"`) no upload put on the shelf. The
mapping is that of the model (`Content`, and the rows as shelf, banners and
keys). Three statements publish: the INSERT into `tbl_model_desc` appends to the
shelf, that into `tbl_advertisement` to the banners, that into `tbl_subscription`
adds a key; for each, `IInv` supplies that the file is whole, that the owner has an
account and that model and advertisement exist. `ShownStays` shows that what the
catalogue shows of a row is kept by every other step, by `Extends`.

### 4.4 The viewers and their cache

`ModelViewerProofs`, under the assumption that the constants of `ModelCache` and
`ModelViewer` are what their comments say.

| Theorem | Statement | Meaning |
|---|---|---|
| `CacheInductive` | `Spec => []IInv` | the inductive invariant |
| `ViewerTypes` | `Spec => []TypeOK` | |
| `EntriesAlwaysWhole` | `Spec => []EntriesWhole` | an entry names a whole model of its own subscription |
| `TableNeverShortened` | `Spec => TableNeverShrinks` | no viewer takes entries away from another |
| `DownloadedAdAlwaysOpens` | `Spec => [](clicks = 0 => DownloadedAdOpens)` | an advertisement that was downloaded opens its own url, before any click on the history |
| `OneEntryEachAlways` | `ASSUME Alone PROVE Spec => []OneEntryEach` | one entry for each subscription |
| `EntriesAlwaysKept` | `ASSUME Alone PROVE Spec => EntriesKept` | no entry is moved or replaced |
| `CopyIsAlwaysTable` | `ASSUME Alone, ~ DiskFull PROVE Spec => []CopyIsTable` | the copy in memory is the table |

The first five hold for any number of viewers that race, fail and are killed;
`DownloadedAdOpens` is about an advertisement that no click has replaced, since a
click on the history sets the url to that of the entry chosen. The hypotheses of the
others are the limits of what the code achieves, and of the runs: two viewers at a
time overwrite each other's entries, and on a full disk an entry is in the copy but
not in the table. `Alone` says that `Viewers` has one member, who may be launched and
killed without end.

`IInv` adds to the types and `EntriesWhole` what holds of each viewer: `Resting`
(nothing is under way in one that does not run, and no copy before it has opened
the table), `Slots` (the slots hold the one subscription's data) and `Writing`
(what `WriteEntry` and `WriteAd` go on to write was prepared by `PushEntry` and
`LockAd`, and the lock still names the bundle of an entry). On top of it, each with
`IInv` as hypothesis: `AdsArrive`, which follows the
advertisement through its three stages: `AdThread` asks, it has assigned the url
and posts, the message waits or is handled; `TableInv`, that an entry to be written
goes behind the table and is not in it yet, since the copy that was searched covers
the table; `CopyInv`, that it is opened and read before anything is
added.

### 4.5 The upload tool

`UploadToolProofs`, under `ToolAssumption`: the two `No...` values are not members
of the sets they extend, and the ids that are typed are integers.

| Theorem | Statement | Meaning |
|---|---|---|
| `ToolInductive` | `Spec => []IInv` | the inductive invariant |
| `ToolTypes` | `Spec => []TypeOK` | |
| `BoxesAlwaysTrue` | `Spec => []BoxesTrue` | an id nobody typed is that of an upload of this tool |
| `KeyShownAlwaysLast` | `Spec => []KeyShownIsLast` | a key on display is the last one asked for, and denotes what was asked |

`CallsTrue` says that a result is in the catalogue as the call asked for it from
the moment the service has carried it out, whether or not the tool is ever told;
it survives every publication by others because the catalogue grows (`Grows`).
`BoxesGiven` says that an id in a box was typed or given by a call; `KeyGiven`
the same of the key, of the last `create_subs`. `KeyGiven` is not inductive alone:
a late reply to an earlier `create_subs` would put an old key on display. It needs
`Awaited`: of all `create_subs` only the last can be waiting for its reply, because
the window is blocked until that one returns.

### 4.6 The editor and the viewer's window

`ModelEditorProofs`, under `EditorAssumption`. Besides that the constants are
what they are, it says that the number and model of a copy are not mistaken for
`NoModel`, a null pointer.

| Theorem | Statement | Meaning |
|---|---|---|
| `EditorInductive` | `Spec => []EInv` | the inductive invariant |
| `NameAlwaysChosen` | `Spec => []NameIsChosen` | Save writes to the file meant |
| `ShownAlwaysUnlessEdited` | `Spec => []ShownUnlessEdited` | a complete file holds what is shown |
| `CrashesAlwaysExplained` | `Spec => []CrashesExplained` | nothing freed is drawn |
| `LostOnlyByOpen` | `Spec => LostByOpen` | only opening a file loses a model: the one it replaces, or the one begun of a file that is refused |

`EInv` relates the two copies of a model: the one drawn has the number of the one
saved, which is alive (`Copied`); a file being saved is that of the model shown
and receives it (`SaveFits`); a complete file it was saved to or opened from holds
it (`HomeFits`). A model that cannot be drawn crashes in the frame that
would show it, before the user can save it under another name, so the path chosen
is still the one it came from (`DrawnFits`, for `CrashesExplained`). Of files the proof
uses only what `ModelFile` says of a load.

`ViewerWindowProofs` proves all four properties of the window under
`WindowAssumption`: each model has fewer parts than a `size_t` can count, `SizeT`
is at least one, and `NoModel` is not a model.

| Theorem | Statement | Meaning |
|---|---|---|
| `CurrentPartShownAlways` | `Spec => []CurrentPartShown` | Prev and Next start from a part that is drawn |
| `DrawingsBackedAlways` | `Spec => []DrawingsBacked` | what is drawn has its buffers |
| `LostOnLoadAlways` | `Spec => LostOnLoad` | what is lost is the model a file takes the place of, or the one begun of a load that is refused |
| `PrevTakesBackNextAlways` | `Spec => []PrevTakesBackNext` | for every number of parts and every width |

`DrawingsBacked` alone is not inductive: were one load in both panes, reloading
one would free the drawing of the other. `Numbered` says that it never is, and
that the next number is new. A load then leaves the other pane as it was
(`ShowLoads`), a refused one both panes (`RefuseShows`), and Prev and Next move no
number (`WalkMoves`); every action is one
of these or leaves both panes alone (`ShownKept`). `PrevTakesBackNext` needs
`Reached`, that the current part lies in the model, and arithmetic about the two
moduli (`Around`), where TLC has three numbers of parts and one width.

### 4.7 The file

`ScanFileProofs`, under `ScanFileAssumption`, `ModelAssumption` and
`NoModelAssumption`.

| Theorem | Statement | Meaning |
|---|---|---|
| `FileInductive` | `Spec => []IInv` | the inductive invariant |
| `FileImplements` | `ASSUME EnoughMemory PROVE Spec => ImplementsModelFile` | whatever became of a file, it keeps what `ModelFile` promises |

TLC has models of up to two parts, subsets, materials and textures; the theorems hold
for any number of each and for data of any size. `IInv` is about complete files: each
opens as the very model, which is one of the `Outcomes` the refinement needs. It names
four functions: `pa[p]` is the offset of part `p`, `su[p][i]` that of its subset `i`,
`ma[k]` and `te[k]` those of a material and a texture. `Laid` says, of a save that has
not run out of space, that each block written so far lies at its place and holds the
place of the next one. A header names the next block before that is written, so the
places are extended one ahead, and the place of the block that comes next is always
the end of the file; `WritePartLays` to `FinishLays` show it step by step. `ClosePart`
rewrites a header among blocks that are linked already: it disturbs none of them
because the parts before lie at lower offsets and a subset's header is of another
kind. `Follows` says where a load of a complete file is: at the block after the last
one it has taken, with the model built so far, and, inside a part, with that part's
header still in its variable. From it no signature can be refused (`NeverRejected`),
and after the last texture the model is all there (`EndLoopOpens`). A model without
parts is excepted: its header names a first part all the same, and the load takes what
lies there. Nothing is assumed of the variables a load starts with. A save on a full
disk, one that was broken off and a copy that was cut are outside `Sound`, and so
outside `IInv`.

They are what the second invariant, `FInv`, is about, which TLC checked before it was
proved. There is a function `lab` that names what stands at an offset, or would stand
there had there been room: `Linked(lab)` says that a header leads to what follows its
block in the model, and that where this is missing the file ends (`Leads`, `Beyond`).
Each step of the save extends `lab` by what it writes (`WritePartLinks` to
`FinishLinks`), a save that breaks off or a cut takes blocks away without leaving a
gap (`DieLinks`, `CutLinks`), and the next save starts the names anew
(`SaveOpenLinks`). Since the header variables outlive the load, and the file, that
they were read in, `FInv` also says what any header of any file looks like: `Shapes`
of the blocks (a file's header names `HeaderSize` as its first part, and what lies
further on leaves room for the header there), `Old` of the variables. `Loads(lab)`
says what a load of such a file has: what was loaded with its data is what was saved
at that place (`PartsTrue`, `TexsTrue`). A step of it either reads the block that
`lab` names, or is past the end and goes on with a header it had already. Of a later
part or subset, that header leads to the same missing offset again: the load is
`Caught`, and adds subsets without data until memory runs out or the file is refused.
Of a first subset or a texture, what the variable holds from another load has no data
to be read past the end and leads nowhere further: the last subset of a part that was
taken in full has no next (`Spent`). `GotSeen` concludes that a result has one of the
forms of `Outcomes` for what became of the file. Of one whose save was broken off
these are only first parts, as the file's header is written last; of a model without
materials and textures nothing tells that this header is missing. `Returned` and
`StepImplements` make this the refinement.

`EnoughMemory` is a premise on the constants: a loader has memory for the subsets of
each model, however far it has come (`Beginning`; `Subsets` is a fold, whose value
for any sequence is beyond the provers, so the premise is stated of each beginning).
`ModelFile` lets a complete file be opened by every load, and a loader without
memory returns nothing. In the run, models have at most
three subsets, and memory is for four.

### 4.8 The import

`ObjImportProofs`, under `ObjAssumption`: faces have one of the six forms and no
index 0, the two names the loader makes up itself (`Unnamed`, `Default`) are no
names of the files, the mtl file is a finite sequence of the lines told apart, and
a word can hold something.

| Theorem | Statement | Meaning |
|---|---|---|
| `ObjTypes` | `Spec => []TypeOK` | |
| `ImportIsFaithful` | `Spec => []ImportFaithful` | plain faces become the triangles they describe, each in its object and with its material |
| `ImportMaterials` | `Spec => []MaterialsFound` | the model has the materials its subsets name, once, and no other |
| `ImportBuffers` | `Spec => []BuffersFit` | of plain faces, as long as a word can count the bytes, both buffers are as large as what is written to them |

TLC has files of five lines; the theorems hold for files of any length, faces of any
number of vertices that a line holds and mtl files of any length. The inductive
invariant `Laid` relates the parts the loader has filled to the lines it has read, in
both directions: the last subset carries the material in force, and there are as many
parts as objects (`InForce`); a subset with faces has a line that its faces came from,
with that object and that material (`Sourced`); each face line has a subset in the
part of its object (`Placed`); if the faces are polygons, so are those in the parts
(`AllPolygons`); and the flags of the last subset are the form of a face line with no
other line behind it (`OneForm`). `LayoutStep` shows that a line of any kind keeps it.
Sections of the file in which a `g` or `usemtl` starts a new subset and no face
follows are why a subset without faces is outside `Sourced`.

*Buffers.* The count is a loop of its own, modulo a word, over the faces; the
triangles are the concatenation of the fans. `Counted` shows that they agree modulo
the word for every number of faces, from `ModStep` (a remainder may be taken at each
step or at the end). The sizes are remainders of products of that remainder; when the
product itself is less than a word, so are its factors, and none of the remainders
takes anything away. *Materials.* `MtlReadIs` shows that the file's names are those of
its `newmtl` lines; the converter takes the last material of each name, so the names
and the materials taken are in a bijection (`TakenOnce`), and by `Sourced` and
`Placed` the names used are those in force at the face lines. *Triangles.* `Told` says
that the triangles of the parts are those that the lines mean. It is inductive
relative to `Laid`: a face appends the same triangles on both sides (`FacedTris`,
`MeantFace`), where `Uniform` and `OneForm` are what keeps the triangles of earlier
faces of the subset as they were, although its flags are set anew; any other line adds
subsets without triangles. `Modelled` then shows that leaving out what is empty drops
no triangle, and that part `p` of the model is the `p`-th object that has faces
(`NthObject`).

Both sides are defined by recursion over the data, by `FlattenSeq` and by recursive
functions. The library's theorems about these take an operator as a parameter, which
the provers cannot instantiate, so the module proves, for sets and functions, what it
needs of them: `Least` and `Greatest` from the well-foundedness of `Nat`, `UpTo` (what
holds of 0 and is passed on holds up to `n`, with the set of the numbers it holds of
as a parameter), `Recursion` (a recursion whose steps are a sequence of functions has
a solution, so that what `CHOOSE` picks is one), and from these how `FlattenSeq`
treats an empty sequence, one more element, and empty elements left out (`FlattenIs`,
`FlattenAppend`, `FlattenKept`).

### 4.9 Model-checked only

* `RequestsAnswered`, `ShutdownReturns`, `DownloadEnds`, `CallsEnd` and `LoadEnds`:
  fairness and `ENABLED` are out of the prover's reach.
* The three properties of section 3.3, which do not hold.

## 5. Not modelled

See the notes in `PROJECT.json`. Most of the repository is vendored code
(cpprestsdk, lz4, FreeImage, MySQL headers, imgui, miniz) and an older viewer that
nothing builds on; the suite's own code is about a tenth of it. Of that, the
larger part is the layout of the immediate-mode GUI, Direct3D state and camera
mathematics in floating point, which keep no state that anything else relies on.
In the parts that are modelled, these are left out: the share links (a formatted
`m_strSubsid`, which after a click on the history still names the subscription of
the launch), the text of URLs and answers, `LZ4`, vertex layouts, colours, the
texture maps other than the diffuse one, and the averages of textures.

## 6. Plan

Done, in the order of importance: the server with its catalogue, the cache, the
viewer, the upload tool, the file, the import, the editor and the window, and the
proofs of section 4. Next is **publish and view**: a companion in progress, served by
`get` and kept by the cache: `concurrent_fetch`, `scan_file` (a short file may load)
and `viewer_pair` each show one leg of that way.
