----------------------------- MODULE ViewerWindow -----------------------------
(***************************************************************************)
(* What the window of the model viewer shows (ModelViewerDlg.cpp): the     *)
(* model of the launch and the one it is compared with, and the part of    *)
(* each that Prev and Next have reached.                                   *)
(*                                                                         *)
(* A model is two objects: the scan model (m_pModel1, m_pModel2) and the   *)
(* drawing (m_pd3dModel1, m_pd3dModel2), whose subsets point into the      *)
(* buffers of the scan model.  A file is opened in one piece by the thread *)
(* of the window; a model asked for from the server comes as a message,    *)
(* whenever its answer does.                                               *)
(*                                                                         *)
(* Left out: the cache and the advertisement (ModelViewer), the bar of the *)
(* download, camera and mouse, thumbnails, and the toolbar, which nothing  *)
(* opens.                                                                  *)
(***************************************************************************)
EXTENDS Integers, FiniteSets

CONSTANTS
  Models,     \* models the server, the history or a file may hold
  NoModel,    \* no model: an error of the server, a file that is refused
  Parts,      \* the number of parts of each model
  SizeT,      \* 2 ^ the width of size_t
  MaxLoads    \* bound: models built, in whole or in part

Panes == {1, 2}
None == 0

\* Parts are counted well below the width of an integer.
ASSUME WindowAssumption ==
  /\ NoModel \notin Models
  /\ SizeT \in Nat \ {0}
  /\ Parts \in [Models -> 0..(SizeT - 2)]
  /\ MaxLoads \in Nat

VARIABLES
  pane,       \* the drawing in each pane, its current and its visible parts
  scans,      \* scan models allocated
  drawings,   \* drawings allocated
  loads,      \* models built so far, which names them
  dual,       \* m_bDualView
  download    \* the model of the launch: asked for, then posted to the window

shown == <<pane, scans, drawings, loads>>
vars  == <<shown, dual, download>>

Blank == [id |-> None, of |-> NoModel, cur |-> 0, visible |-> {}]
Empty(p) == pane[p] = Blank
Count(p) == Parts[pane[p].of]

Idle == [step |-> "idle", model |-> NoModel]
Asked == [step |-> "asked", model |-> NoModel]
Posted(m) == [step |-> "posted", model |-> m]

\* Started on a file, on a link the server is asked about, or on a link found
\* in the cache, with or without its advertisement.
Init ==
  /\ pane = [p \in Panes |-> Blank]
  /\ scans = {} /\ drawings = {}
  /\ loads = 0
  /\ dual = FALSE
  /\ download \in {Idle, Asked} \union {Posted(m) : m \in Models \union {NoModel}}

-----------------------------------------------------------------------------
(* Loading a model into a pane *)

\* OnModelLoaded1 and OnModelLoaded2
FirstPart_Kept(p) == IF Empty(p) THEN 0 ELSE pane[p].cur
FirstPart(p) == 0

\* The loader builds a scan model of its own.
Build == loads < MaxLoads /\ loads' = loads + 1

\* CreateFromTDModel makes every part of the new drawing visible.
Show(p, m) ==
  /\ Build
  /\ pane' = [pane EXCEPT ![p] = [id |-> loads', of |-> m, cur |-> FirstPart(p),
                                  visible |-> 0..(Parts[m] - 1)]]

Old(p) == IF Empty(p) THEN {} ELSE {pane[p].id}

\* The message handler frees the drawing, then the scan model.
ScansKept_Kept(p) == scans
ScansKept(p) == scans \ Old(p)

\* Load3DScanFile tests the pointer to the drawing, just set to NULL, before it
\* frees the scan model.
ScansKeptByFile_First(p) == scans \ Old(1)
ScansKeptByFile(p) == scans

DrawingsKept(p) == drawings \ Old(p)

\* A file or an answer refused before the loader has built anything, or, in the
\* handler, for want of a drawing, is as if it had not come.  Refused at a later
\* block, it leaves behind the scan model built so far: load_error frees nothing.
Refuse ==
  \/ UNCHANGED shown
  \/ /\ Build
     /\ scans' = scans \union {loads'}
     /\ UNCHANGED <<pane, drawings>>

LoadFromFile(p, m) ==
  \/ m = NoModel /\ Refuse
  \/ /\ m # NoModel
     /\ Show(p, m)
     /\ scans' = ScansKeptByFile(p) \union {loads'}
     /\ drawings' = DrawingsKept(p) \union {loads'}

LoadFromMemory(m) ==
  \/ m = NoModel /\ Refuse
  \/ /\ m # NoModel
     /\ Show(1, m)
     /\ scans' = ScansKept(1) \union {loads'}
     /\ drawings' = DrawingsKept(1) \union {loads'}

\* InitInstance, with a file on the command line; a click on the history.
OpenFile ==
  /\ \E m \in Models \union {NoModel} : LoadFromFile(1, m)
  /\ UNCHANGED <<dual, download>>

\* A click on the history of the right pane
Compare ==
  /\ \E m \in Models \union {NoModel} : LoadFromFile(2, m)
  /\ dual' = TRUE
  /\ UNCHANGED download

\* The button "Close"
CloseCompare ==
  /\ dual' = FALSE
  /\ UNCHANGED <<shown, download>>

-----------------------------------------------------------------------------
(* Prev and Next *)

Walks(p) == ~ Empty(p) /\ Count(p) > 1 /\ (p = 2 => dual)

\* The part is an int, the number of parts a size_t: the part before the first
\* is taken modulo 2 ^ width before it is taken modulo the number of parts.
Before_Plain(c, n) == IF c = 0 THEN 0 ELSE c - 1
Before(c, n) == ((c - 1) % SizeT) % n
After(c, n) == (c + 1) % n

GoTo(p, c) ==
  /\ pane' = [pane EXCEPT ![p].cur = c,
                          ![p].visible = (@ \ {pane[p].cur}) \union {c}]
  /\ UNCHANGED <<scans, drawings, loads, dual, download>>

Prev(p) == Walks(p) /\ GoTo(p, Before(pane[p].cur, Count(p)))
NextPart(p) == Walks(p) /\ GoTo(p, After(pane[p].cur, Count(p)))

-----------------------------------------------------------------------------
(* The download *)

\* The answer is complete, or the request fails at any moment before.
EndModel ==
  /\ download = Asked
  /\ \E m \in Models \union {NoModel} : download' = Posted(m)
  /\ UNCHANGED <<shown, dual>>

ModelDownloaded ==
  /\ download.step = "posted"
  /\ LoadFromMemory(download.model)
  /\ download' = Idle
  /\ UNCHANGED dual

-----------------------------------------------------------------------------
Click == OpenFile \/ Compare \/ CloseCompare
           \/ \E p \in Panes : Prev(p) \/ NextPart(p)

Next == Click \/ EndModel \/ ModelDownloaded
Spec == Init /\ [][Next]_vars

-----------------------------------------------------------------------------
(* Properties *)

\* The part Prev and Next start from is a part of the model that is shown, and
\* is drawn, whatever was loaded, compared and walked through before
\* (OnModelLoaded1, OnModelLoaded2, and the buttons of each pane).
CurrentPartShown ==
  \A p \in Panes :
    ~ Empty(p) /\ Count(p) > 0 => pane[p].cur \in pane[p].visible

\* Every drawing allocated belongs to a pane, and every drawing on the screen
\* has the scan model its buffers are in: the order of the loads, and a load of
\* one pane, frees nothing the other needs.
DrawingsBacked ==
  /\ drawings = UNION {Old(p) : p \in Panes}
  /\ drawings \subseteq scans

\* A step loses at most one scan model, one of two: the model built so far of a
\* load that is refused at a later block (load_error, C3DScanFile.cpp:223), while
\* the panes stay as they are; or the whole model of a pane that shows one, when
\* a file is opened into that pane (Load3DScanFile, line 1984).  A download that
\* is shown loses nothing, and what a pane goes on showing is never lost.
Lost == scans \ UNION {Old(p) : p \in Panes}
LostOnLoad ==
  [][Lost' # Lost =>
       \/ pane' = pane /\ loads' = loads + 1 /\ Lost' = Lost \union {loads'}
       \/ /\ download' = download
          /\ \E p \in Panes :
               /\ ~ Empty(p) /\ pane'[p].id = loads' /\ loads' = loads + 1
               /\ Lost' = Lost \union Old(p)]_vars

\* Prev takes back Next and Next takes back Prev, except before the first part
\* of a model whose number of parts does not divide 2 ^ width.
PrevTakesBackNext ==
  \A p \in Panes :
    ~ Empty(p) /\ Count(p) > 1 =>
      LET c == pane[p].cur
          n == Count(p)
      IN  /\ After(c, n) # 0 \/ SizeT % n = 0 => Before(After(c, n), n) = c
          /\ c # 0 \/ SizeT % n = 0 => After(Before(c, n), n) = c
=============================================================================
