-------------------------- MODULE ViewerWindowProofs --------------------------
(***************************************************************************)
(* Theorems about the viewer's window, for any models, any number of parts *)
(* and any number of loads.                                                *)
(***************************************************************************)
EXTENDS ViewerWindow, TLAPS

Maybe == Models \union {NoModel}

Filled == [id : Nat \ {0}, of : Models, cur : Int, visible : SUBSET Int]

Typed ==
  /\ pane \in [Panes -> {Blank} \union Filled]
  /\ loads \in Nat
  /\ download \in {Idle, Asked} \union {Posted(m) : m \in Maybe}

\* No two panes have the model of one load, and the next load is a new one.
Numbered ==
  /\ \A p \in Panes : pane[p].id <= loads
  /\ Old(1) \intersect Old(2) = {}
  /\ scans \subseteq 1..loads

Drawn == Old(1) \union Old(2)

IInv == Typed /\ Numbered /\ CurrentPartShown /\ DrawingsBacked

-----------------------------------------------------------------------------
(* What a pane holds *)

LEMMA DrawnIsAll == UNION {Old(p) : p \in Panes} = Drawn
<1>1. {Old(p) : p \in Panes} = {Old(1), Old(2)}
  BY DEF Panes
<1> QED  BY <1>1 DEF Drawn

\* The same in the next state.
LEMMA DrawnIsAllNext == (UNION {Old(p) : p \in Panes})' = Drawn'
<1>1. ({Old(p) : p \in Panes})' = {Old(1)', Old(2)'}
  BY DEF Panes
<1> QED  BY <1>1 DEF Drawn

LEMMA OldIsId ==
  ASSUME Typed, NEW p \in Panes
  PROVE  /\ Old(p) = IF pane[p].id = None THEN {} ELSE {pane[p].id}
         /\ Empty(p) <=> pane[p].id = None
         /\ pane[p].id \in Nat
         /\ ~ Empty(p) => pane[p] \in Filled
<1>1. CASE pane[p] = Blank
  BY <1>1 DEF Blank, Old, Empty, None
<1>2. CASE pane[p] \in Filled
  <2>1. pane[p].id \in Nat \ {0}
    BY <1>2 DEF Filled
  <2>2. pane[p] # Blank
    BY <2>1 DEF Blank, None
  <2> QED  BY <1>2, <2>1, <2>2 DEF Old, Empty, None
<1> QED  BY <1>1, <1>2 DEF Typed

-----------------------------------------------------------------------------
(* Each step keeps the invariant *)

\* A load into one pane leaves the other, and its number is a new one.
LEMMA ShowLoads ==
  ASSUME IInv, NEW p \in Panes, NEW q \in Panes, q # p,
         NEW m \in Models, Show(p, m)
  PROVE  /\ Drawn = Old(p) \union Old(q) /\ Drawn' = Old(p)' \union Old(q)'
         /\ Old(p) \intersect Old(q) = {}
         /\ Old(q)' = Old(q) /\ Old(p)' = {loads'}
         /\ loads' = loads + 1 /\ loads' \in Nat
         /\ Old(p) \subseteq 1..loads /\ Old(q) \subseteq 1..loads
         /\ pane'[q] = pane[q]
         /\ pane'[p] = [id |-> loads', of |-> m, cur |-> FirstPart(p),
                        visible |-> 0..(Parts[m] - 1)]
<1>0. /\ Drawn = Old(p) \union Old(q) /\ Drawn' = Old(p)' \union Old(q)'
      /\ Old(p) \intersect Old(q) = {}
  BY DEF Panes, Drawn, IInv, Numbered
<1>1. loads' = loads + 1 /\ loads \in Nat /\ loads' \in Nat
  BY DEF Show, Build, IInv, Typed
<1>2. pane'[q] = pane[q] /\ pane'[p] = [id |-> loads', of |-> m,
            cur |-> FirstPart(p), visible |-> 0..(Parts[m] - 1)]
  BY DEF Show, IInv, Typed
<1>3. Old(q)' = Old(q)
  BY <1>2 DEF Old, Empty, Blank
<1>4. pane'[p].id = loads' /\ ~ Empty(p)' /\ Old(p)' = {loads'}
  <2>1. pane'[p].id = loads' /\ loads' # 0
    BY <1>1, <1>2
  <2>2. pane'[p] # Blank
    BY <2>1 DEF Blank, None
  <2> QED  BY <2>1, <2>2 DEF Old, Empty
<1>5. Old(q) \subseteq 1..loads /\ Old(p) \subseteq 1..loads
  BY <1>1, OldIsId DEF IInv, Numbered, None
<1> QED  BY <1>0, <1>1, <1>2, <1>3, <1>4, <1>5

\* What a load frees, no pane needs.
LEMMA ShowKeeps ==
  ASSUME IInv, NEW p \in Panes, NEW m \in Models, Show(p, m),
         drawings' = DrawingsKept(p) \union {loads'},
         \/ scans' = ScansKept(p) \union {loads'}
         \/ scans' = ScansKeptByFile(p) \union {loads'},
         Typed'
  PROVE  Numbered' /\ CurrentPartShown' /\ DrawingsBacked'
<1>0. PICK q \in Panes : q # p /\ Panes = {p, q}
  BY DEF Panes
<1>1. /\ Drawn = Old(p) \union Old(q) /\ Drawn' = Old(p)' \union Old(q)'
      /\ Old(p) \intersect Old(q) = {}
      /\ Old(q)' = Old(q) /\ Old(p)' = {loads'}
      /\ loads' = loads + 1 /\ loads \in Nat
      /\ Old(p) \subseteq 1..loads /\ Old(q) \subseteq 1..loads
  BY <1>0, ShowLoads DEF IInv, Typed
<1>2. pane'[q] = pane[q] /\ pane'[p] = [id |-> loads', of |-> m,
            cur |-> FirstPart(p), visible |-> 0..(Parts[m] - 1)]
  BY <1>0, ShowLoads
<1>3. Numbered'
  <2>1. \A x \in Panes : pane'[x].id <= loads'
    BY <1>0, <1>1, <1>2, OldIsId DEF IInv, Numbered
  <2>2. Old(p)' \intersect Old(q)' = {}
    BY <1>1
  <2>3. scans' \subseteq 1..loads'
    <3>1. scans \subseteq 1..loads /\ scans' \subseteq scans \union {loads'}
      BY DEF IInv, Numbered, ScansKept, ScansKeptByFile
    <3> QED  BY <1>1, <3>1
  <2>4. (Old(1) \intersect Old(2))' = {}
    BY <1>0, <2>2 DEF Panes
  <2> QED  BY <2>1, <2>3, <2>4 DEF Numbered
<1>4. CurrentPartShown'
  <2> SUFFICES ASSUME NEW x \in Panes, ~ Empty(x)', Count(x)' > 0
               PROVE  pane'[x].cur \in pane'[x].visible
    BY DEF CurrentPartShown
  <2>1. CASE x = p
    <3>1. Parts[m] > 0 /\ Parts[m] \in Int
      BY <1>2, <2>1, WindowAssumption DEF Count
    <3>2. 0 \in 0..(Parts[m] - 1)
      BY <3>1
    <3>3. pane'[p].cur = 0 /\ pane'[p].visible = 0..(Parts[m] - 1)
      BY <1>2 DEF FirstPart
    <3> QED  BY <2>1, <3>2, <3>3
  <2>2. CASE x = q
    <3>1. ~ Empty(x) /\ Count(x) > 0
      BY <1>2, <2>2 DEF Empty, Count, Blank
    <3> QED  BY <1>2, <2>2, <3>1 DEF IInv, CurrentPartShown
  <2> QED  BY <1>0, <2>1, <2>2
<1>5. DrawingsBacked'
  <2>1. drawings = Old(p) \union Old(q) /\ drawings \subseteq scans
    BY <1>1, DrawnIsAll DEF IInv, DrawingsBacked
  <2>2. drawings' = Old(q) \union {loads'}
    BY <1>1, <2>1 DEF DrawingsKept
  <2>3. drawings' = Drawn'
    BY <1>1, <2>2
  <2>4. drawings' \subseteq scans'
    BY <1>1, <2>1, <2>2 DEF ScansKept, ScansKeptByFile
  <2> QED  BY <2>3, <2>4, DrawnIsAllNext DEF DrawingsBacked
<1> QED  BY <1>3, <1>4, <1>5

\* What loads nothing and walks nowhere disturbs none of it.
LEMMA ShownKept ==
  ASSUME IInv, UNCHANGED shown
  PROVE  Numbered' /\ CurrentPartShown' /\ DrawingsBacked'
<1> USE DEF shown
<1>1. Old(1)' = Old(1) /\ Old(2)' = Old(2)
  BY DEF Old, Empty, Blank
<1>2. Numbered'
  BY <1>1 DEF IInv, Numbered
<1>3. CurrentPartShown'
  BY DEF IInv, CurrentPartShown, Empty, Count, Blank
<1>4. DrawingsBacked'
  BY <1>1, DrawnIsAll, DrawnIsAllNext DEF IInv, DrawingsBacked, Drawn
<1> QED  BY <1>2, <1>3, <1>4

\* A load that is refused leaves the panes as they are.
LEMMA RefuseShows ==
  ASSUME IInv, Refuse
  PROVE  /\ pane' = pane /\ drawings' = drawings /\ loads' \in Nat
         /\ Old(1)' = Old(1) /\ Old(2)' = Old(2) /\ Drawn' = Drawn
         /\ \/ loads' = loads /\ scans' = scans
            \/ loads' = loads + 1 /\ scans' = scans \union {loads'}
<1>1. pane' = pane /\ drawings' = drawings
  BY DEF Refuse, shown
<1>2. \/ loads' = loads /\ scans' = scans
      \/ loads' = loads + 1 /\ scans' = scans \union {loads'}
  BY DEF Refuse, Build, shown
<1>3. Old(1)' = Old(1) /\ Old(2)' = Old(2)
  BY <1>1 DEF Old, Empty, Blank
<1> QED  BY <1>1, <1>2, <1>3 DEF Drawn, IInv, Typed

LEMMA RefuseKeeps ==
  ASSUME IInv, Refuse, download' \in {Idle, Asked} \union {Posted(m) : m \in Maybe}
  PROVE  IInv'
<1>1. /\ pane' = pane /\ drawings' = drawings /\ loads' \in Nat
      /\ Old(1)' = Old(1) /\ Old(2)' = Old(2) /\ Drawn' = Drawn
      /\ \/ loads' = loads /\ scans' = scans
         \/ loads' = loads + 1 /\ scans' = scans \union {loads'}
  BY RefuseShows
<1>2. Typed'
  BY <1>1 DEF IInv, Typed
<1>3. Numbered'
  <2>1. loads \in Nat /\ loads <= loads' /\ scans \subseteq 1..loads
    BY <1>1 DEF IInv, Typed, Numbered
  <2>2. \A p \in Panes : pane[p].id \in Nat /\ pane[p].id <= loads
    BY OldIsId DEF IInv, Numbered
  <2>3. scans' \subseteq 1..loads'
    <3>1. CASE loads' = loads /\ scans' = scans
      BY <2>1, <3>1
    <3>2. CASE loads' = loads + 1 /\ scans' = scans \union {loads'}
      <4>1. loads' \in 1..loads' /\ 1..loads \subseteq 1..loads'
        BY <2>1, <3>2
      <4> QED  BY <2>1, <3>2, <4>1
    <3> QED  BY <1>1, <3>1, <3>2
  <2>4. \A p \in Panes : pane'[p].id <= loads'
    BY <1>1, <2>1, <2>2
  <2> QED  BY <1>1, <2>3, <2>4 DEF IInv, Numbered
<1>4. CurrentPartShown'
  BY <1>1 DEF IInv, CurrentPartShown, Empty, Count, Blank
<1>5. DrawingsBacked'
  BY <1>1, DrawnIsAll, DrawnIsAllNext DEF IInv, DrawingsBacked
<1> QED  BY <1>2, <1>3, <1>4, <1>5 DEF IInv

\* Prev and Next move to a part they make visible, and load nothing.
LEMMA WalkMoves ==
  ASSUME IInv, NEW p \in Panes, ~ Empty(p), NEW c \in Int, GoTo(p, c), Typed'
  PROVE  /\ \A x \in Panes : pane'[x].id = pane[x].id /\ Old(x)' = Old(x)
         /\ \A x \in Panes \ {p} : pane'[x] = pane[x]
         /\ pane'[p].cur = c /\ c \in pane'[p].visible
<1>1. pane[p] \in Filled
  BY OldIsId DEF IInv
<1>2. /\ pane'[p] = [pane[p] EXCEPT !.cur = c,
                     !.visible = (@ \ {pane[p].cur}) \union {c}]
      /\ \A x \in Panes \ {p} : pane'[x] = pane[x]
  BY DEF GoTo, IInv, Typed
<1>3. /\ pane'[p].id = pane[p].id /\ pane'[p].of = pane[p].of
      /\ pane'[p].cur = c /\ c \in pane'[p].visible
  BY <1>1, <1>2 DEF Filled
<1>4. \A x \in Panes : pane'[x].id = pane[x].id
  BY <1>2, <1>3
<1>5. \A x \in Panes : Old(x)' = Old(x)
  <2> SUFFICES ASSUME NEW x \in Panes PROVE Old(x)' = Old(x)
    OBVIOUS
  <2>1. Old(x)' = IF pane'[x].id = None THEN {} ELSE {pane'[x].id}
    <3>1. CASE pane'[x] = Blank
      BY <3>1 DEF Blank, Old, Empty, None
    <3>2. CASE pane'[x] \in Filled
      <4>1. pane'[x].id # 0 /\ pane'[x] # Blank
        BY <3>2 DEF Filled, Blank, None
      <4> QED  BY <4>1 DEF Old, Empty, None
    <3> QED  BY <3>1, <3>2 DEF Typed
  <2> QED  BY <1>4, <2>1, OldIsId DEF IInv
<1> QED  BY <1>2, <1>3, <1>4, <1>5

LEMMA WalkKeeps ==
  ASSUME IInv, NEW p \in Panes, ~ Empty(p), NEW c \in Int, GoTo(p, c), Typed'
  PROVE  Numbered' /\ CurrentPartShown' /\ DrawingsBacked'
<1>1. Numbered'
  BY WalkMoves DEF GoTo, IInv, Numbered, Panes
<1>2. CurrentPartShown'
  <2> SUFFICES ASSUME NEW x \in Panes, ~ Empty(x)', Count(x)' > 0
               PROVE  pane'[x].cur \in pane'[x].visible
    BY DEF CurrentPartShown
  <2>1. CASE x = p
    BY <2>1, WalkMoves
  <2>2. CASE x # p
    <3>1. pane'[x] = pane[x]
      BY <2>2, WalkMoves
    <3>2. ~ Empty(x) /\ Count(x) > 0
      BY <3>1 DEF Empty, Count, Blank
    <3> QED  BY <3>1, <3>2 DEF IInv, CurrentPartShown
  <2> QED  BY <2>1, <2>2
<1>3. DrawingsBacked'
  <2>1. Drawn' = Drawn
    BY WalkMoves DEF Drawn, Panes
  <2> QED  BY <2>1, DrawnIsAll, DrawnIsAllNext DEF GoTo, IInv, DrawingsBacked
<1> QED  BY <1>1, <1>2, <1>3

-----------------------------------------------------------------------------
(* Types *)

LEMMA ShowTyped ==
  ASSUME Typed, NEW p \in Panes, NEW m \in Models, Show(p, m)
  PROVE  /\ pane' \in [Panes -> {Blank} \union Filled]
         /\ loads' \in Nat
<1>1. loads' \in Nat \ {0}
  BY DEF Show, Build, Typed
<1>2. 0..(Parts[m] - 1) \in SUBSET Int
  BY WindowAssumption
<1>3. [id |-> loads', of |-> m, cur |-> FirstPart(p),
       visible |-> 0..(Parts[m] - 1)] \in Filled
  BY <1>1, <1>2 DEF Filled, FirstPart
<1> QED  BY <1>1, <1>3 DEF Show, Typed

LEMMA WalkTyped ==
  ASSUME Typed, NEW p \in Panes, ~ Empty(p), NEW c \in Int, GoTo(p, c)
  PROVE  pane' \in [Panes -> {Blank} \union Filled]
<1>1. pane[p] \in Filled
  BY OldIsId
<1>2. [pane[p] EXCEPT !.cur = c, !.visible = (@ \ {pane[p].cur}) \union {c}]
        \in Filled
  BY <1>1 DEF Filled
<1> QED  BY <1>2 DEF GoTo, Typed

\* The part Prev or Next goes to is a part, whatever the widths.
LEMMA PartIsPart ==
  ASSUME Typed, NEW p \in Panes, Walks(p)
  PROVE  /\ Count(p) \in Nat \ {0}
         /\ Before(pane[p].cur, Count(p)) \in 0..(Count(p) - 1)
         /\ After(pane[p].cur, Count(p)) \in 0..(Count(p) - 1)
<1>1. pane[p].cur \in Int /\ pane[p].of \in Models
  BY OldIsId DEF Walks, Filled
<1>2. Count(p) \in Nat \ {0} /\ SizeT \in Nat \ {0}
  BY <1>1, WindowAssumption DEF Count, Walks
<1>3. \A a \in Int, n \in Nat \ {0} : a % n \in Int /\ a % n \in 0..(n - 1)
  OBVIOUS
<1>4. (pane[p].cur - 1) \in Int /\ (pane[p].cur + 1) \in Int
  BY <1>1
<1>5. ((pane[p].cur - 1) % SizeT) \in Int
  BY <1>2, <1>3, <1>4
<1> QED  BY <1>2, <1>3, <1>4, <1>5 DEF Before, After

\* Walking is going to a part of the model.
LEMMA WalkGoes ==
  ASSUME Typed, NEW p \in Panes, Prev(p) \/ NextPart(p)
  PROVE  /\ ~ Empty(p) /\ Count(p) \in Nat \ {0}
         /\ \E c \in 0..(Count(p) - 1) : c \in Int /\ GoTo(p, c)
BY PartIsPart DEF Prev, NextPart, Walks

LEMMA LoadFromFileKeeps ==
  ASSUME IInv, NEW p \in Panes, NEW m \in Maybe,
         LoadFromFile(p, m), UNCHANGED download
  PROVE  IInv'
<1>1. CASE Refuse
  BY <1>1, RefuseKeeps DEF IInv, Typed
<1>2. CASE /\ m \in Models /\ Show(p, m)
           /\ scans' = ScansKeptByFile(p) \union {loads'}
           /\ drawings' = DrawingsKept(p) \union {loads'}
  <2>1. Typed'
    BY <1>2, ShowTyped DEF IInv, Typed
  <2> QED  BY <1>2, <2>1, ShowKeeps DEF IInv
<1> QED  BY <1>1, <1>2 DEF LoadFromFile, Maybe

LEMMA PostedIsMaybe ==
  ASSUME Typed, download.step = "posted"
  PROVE  download.model \in Maybe
<1>1. download # Idle /\ download # Asked
  BY DEF Idle, Asked
<1> QED  BY <1>1 DEF Typed, Posted

LEMMA ModelDownloadedKeeps ==
  ASSUME IInv, ModelDownloaded
  PROVE  IInv'
<1> DEFINE m == download.model
<1>1. m \in Maybe /\ download' \in {Idle, Asked}
  BY PostedIsMaybe DEF ModelDownloaded, IInv
<1>2. CASE Refuse
  BY <1>1, <1>2, RefuseKeeps
<1>3. CASE ~ Refuse
  <2>1. /\ m \in Models /\ Show(1, m)
        /\ scans' = ScansKept(1) \union {loads'}
        /\ drawings' = DrawingsKept(1) \union {loads'}
    BY <1>1, <1>3 DEF ModelDownloaded, LoadFromMemory, Maybe
  <2> HIDE DEF m
  <2>2. 1 \in Panes
    BY DEF Panes
  <2>3. Typed'
    BY <1>1, <2>1, <2>2, ShowTyped DEF IInv, Typed
  <2> QED  BY <2>1, <2>2, <2>3, ShowKeeps DEF IInv
<1> QED  BY <1>2, <1>3

LEMMA WalksKeep ==
  ASSUME IInv, NEW p \in Panes, Prev(p) \/ NextPart(p)
  PROVE  IInv'
<1>1. PICK c \in Int : GoTo(p, c)
  BY WalkGoes DEF IInv
<1>2. ~ Empty(p)
  BY WalkGoes DEF IInv
<1>3. Typed'
  BY <1>1, <1>2, WalkTyped DEF GoTo, IInv, Typed
<1> QED  BY <1>1, <1>2, <1>3, WalkKeeps DEF IInv

\* The answer of the server touches neither pane.
LEMMA EndModelKeeps ==
  ASSUME IInv, EndModel
  PROVE  IInv'
<1>1. UNCHANGED shown
  BY DEF EndModel
<1>2. Typed'
  BY <1>1 DEF EndModel, IInv, Typed, shown, Maybe
<1> QED  BY <1>1, <1>2, ShownKept DEF IInv

-----------------------------------------------------------------------------
(* Theorems *)

LEMMA InitIInv == Init => IInv
<1> SUFFICES ASSUME Init PROVE IInv
  OBVIOUS
<1>1. \A p \in Panes : pane[p] = Blank /\ Old(p) = {}
  BY DEF Init, Old, Empty
<1>2. Typed
  BY DEF Init, Typed, Maybe
<1>3. Numbered
  BY <1>1 DEF Init, Numbered, Panes, Blank, None
<1>4. CurrentPartShown
  BY <1>1 DEF CurrentPartShown, Empty
<1>5. DrawingsBacked
  BY <1>1 DEF Init, DrawingsBacked
<1> QED  BY <1>2, <1>3, <1>4, <1>5 DEF IInv

LEMMA NextIInv == IInv /\ [Next]_vars => IInv'
<1> SUFFICES ASSUME IInv, [Next]_vars PROVE IInv'
  OBVIOUS
<1>1. CASE OpenFile
  BY <1>1, LoadFromFileKeeps DEF OpenFile, Panes, Maybe
<1>2. CASE Compare
  BY <1>2, LoadFromFileKeeps DEF Compare, Panes, Maybe
<1>3. CASE CloseCompare \/ UNCHANGED vars
  <2>1. UNCHANGED <<shown, download>>
    BY <1>3 DEF CloseCompare, vars
  <2>2. Typed'
    BY <2>1 DEF IInv, Typed, shown
  <2> QED  BY <2>1, <2>2, ShownKept DEF IInv
<1>4. CASE \E p \in Panes : Prev(p) \/ NextPart(p)
  BY <1>4, WalksKeep
<1>5. CASE EndModel
  BY <1>5, EndModelKeeps
<1>6. CASE ModelDownloaded
  BY <1>6, ModelDownloadedKeeps
<1> QED
  BY <1>1, <1>2, <1>3, <1>4, <1>5, <1>6 DEF Next, Click

LEMMA Invariance == Spec => []IInv
  BY InitIInv, NextIInv, PTL DEF Spec

\* Whatever was opened, compared, downloaded and walked through, the part Prev
\* and Next start from is one the model shown has and draws (OnModelLoaded1,
\* OnModelLoaded2 and the buttons of each pane).
THEOREM CurrentPartShownAlways == Spec => []CurrentPartShown
<1>1. IInv => CurrentPartShown
  BY DEF IInv
<1> QED  BY <1>1, Invariance, PTL

\* No load frees the scan model of what is still drawn, and no drawing is left
\* that no pane shows, for any order of files, comparisons and downloads
\* (Load3DScanFile, WindowProc).
THEOREM DrawingsBackedAlways == Spec => []DrawingsBacked
<1>1. IInv => DrawingsBacked
  BY DEF IInv
<1> QED  BY <1>1, Invariance, PTL

-----------------------------------------------------------------------------
(* What a step loses *)

LEMMA LostIs ==
  /\ Lost = scans \ Drawn
  /\ Lost' = scans' \ Drawn'
BY DrawnIsAll, DrawnIsAllNext DEF Lost

LEMMA FileLoses ==
  ASSUME IInv, NEW p \in Panes, NEW m \in Models, LoadFromFile(p, m)
  PROVE  /\ Lost' = Lost \union Old(p)
         /\ pane'[p].id = loads' /\ loads' = loads + 1
<1>1. /\ Show(p, m)
      /\ scans' = scans \union {loads'}
  BY WindowAssumption DEF LoadFromFile, ScansKeptByFile
<1>2. PICK q \in Panes : q # p
  BY DEF Panes
<1>3. /\ Drawn = Old(p) \union Old(q) /\ Drawn' = Old(q) \union {loads'}
      /\ Old(p) \intersect Old(q) = {}
  <2>1. /\ Drawn = Old(p) \union Old(q) /\ Drawn' = Old(p)' \union Old(q)'
        /\ Old(p) \intersect Old(q) = {}
        /\ Old(q)' = Old(q) /\ Old(p)' = {loads'}
    BY <1>1, <1>2, ShowLoads
  <2> QED  BY <2>1
<1>4. pane'[p].id = loads' /\ loads' = loads + 1
  <2>1. /\ loads' = loads + 1
        /\ pane'[p] = [id |-> loads', of |-> m, cur |-> FirstPart(p),
                       visible |-> 0..(Parts[m] - 1)]
    BY <1>1, <1>2, ShowLoads
  <2> QED  BY <2>1
<1>5. loads' \notin scans
  BY <1>1 DEF Show, Build, IInv, Typed, Numbered
<1>6. Old(p) \subseteq scans
  BY <1>3, DrawnIsAll DEF IInv, DrawingsBacked
<1> QED  BY <1>1, <1>3, <1>5, <1>6, <1>4, LostIs

LEMMA MemoryLosesNothing ==
  ASSUME IInv, NEW m \in Models, LoadFromMemory(m)
  PROVE  Lost' = Lost
<1>1. 1 \in Panes /\ 2 \in Panes
  BY DEF Panes
<1>2. /\ Show(1, m)
      /\ scans' = (scans \ Old(1)) \union {loads'}
  BY WindowAssumption DEF LoadFromMemory, ScansKept
<1>3. Drawn = Old(1) \union Old(2) /\ Drawn' = Old(2) \union {loads'}
  <2>1. /\ Drawn' = Old(1)' \union Old(2)'
        /\ Old(2)' = Old(2) /\ Old(1)' = {loads'}
    <3>1. 2 # 1
      OBVIOUS
    <3> QED  BY <1>1, <1>2, <3>1, ShowLoads
  <2> QED  BY <2>1 DEF Drawn
<1>4. loads' \notin scans
  BY <1>2 DEF Show, Build, IInv, Typed, Numbered
<1> QED  BY <1>2, <1>3, <1>4, LostIs

LEMMA NothingLost ==
  ASSUME UNCHANGED shown
  PROVE  Lost' = Lost
BY LostIs DEF shown, Drawn, Old, Empty, Blank

\* A refused load loses what the loader had built of it.
LEMMA RefuseLoses ==
  ASSUME IInv, Refuse, Lost' # Lost
  PROVE  pane' = pane /\ loads' = loads + 1 /\ Lost' = Lost \union {loads'}
<1>1. /\ pane' = pane /\ Drawn' = Drawn
      /\ \/ loads' = loads /\ scans' = scans
         \/ loads' = loads + 1 /\ scans' = scans \union {loads'}
  BY RefuseShows
<1>2. loads' = loads + 1 /\ scans' = scans \union {loads'}
  BY <1>1, LostIs
<1>3. loads' \notin Drawn
  BY <1>2, DrawnIsAll DEF IInv, Typed, Numbered, DrawingsBacked
<1> QED  BY <1>1, <1>2, <1>3, LostIs

Losing ==
  \/ pane' = pane /\ loads' = loads + 1 /\ Lost' = Lost \union {loads'}
  \/ /\ download' = download
     /\ \E p \in Panes :
          /\ ~ Empty(p) /\ pane'[p].id = loads' /\ loads' = loads + 1
          /\ Lost' = Lost \union Old(p)

LEMMA StepLoses ==
  ASSUME IInv, IInv', [Next]_vars, Lost' # Lost
  PROVE  Losing
<1>1. ~ UNCHANGED shown
  BY NothingLost
<1>2. ASSUME NEW p \in Panes, NEW m \in Maybe,
             LoadFromFile(p, m), UNCHANGED download
      PROVE  Losing
  <2>1. CASE Refuse
    BY <2>1, RefuseLoses DEF Losing
  <2>2. CASE ~ Refuse
    <3>1. m \in Models
      BY <1>2, <2>2 DEF LoadFromFile, Maybe
    <3>2. /\ Lost' = Lost \union Old(p)
          /\ pane'[p].id = loads' /\ loads' = loads + 1
      BY <1>2, <3>1, FileLoses
    <3>3. ~ Empty(p)
      BY <3>2 DEF Old
    <3> QED  BY <1>2, <3>2, <3>3 DEF Losing
  <2> QED  BY <2>1, <2>2
<1>3. CASE OpenFile
  BY <1>2, <1>3 DEF OpenFile, Panes, Maybe
<1>4. CASE Compare
  BY <1>2, <1>4 DEF Compare, Panes, Maybe
<1>5. ASSUME NEW p \in Panes, Prev(p) \/ NextPart(p)
      PROVE  FALSE
  <2>1. PICK c \in Int : GoTo(p, c)
    BY <1>5, WalkGoes DEF IInv
  <2>2. ~ Empty(p)
    BY <1>5, WalkGoes DEF IInv
  <2>3. \A x \in Panes : Old(x)' = Old(x)
    BY <2>1, <2>2, WalkMoves DEF IInv
  <2>4. scans' = scans /\ Drawn' = Drawn
    BY <2>1, <2>3 DEF GoTo, Drawn, Panes
  <2> QED  BY <2>4, LostIs
<1>6. CASE ModelDownloaded
  <2>1. CASE Refuse
    BY <2>1, RefuseLoses DEF Losing
  <2>2. CASE ~ Refuse
    <3>1. download.model \in Models
      BY <1>6, <2>2, PostedIsMaybe
         DEF ModelDownloaded, LoadFromMemory, Maybe, IInv
    <3> QED  BY <1>6, <3>1, MemoryLosesNothing DEF ModelDownloaded
  <2> QED  BY <2>1, <2>2
<1>7. ~ (CloseCompare \/ EndModel \/ UNCHANGED vars)
  BY <1>1 DEF CloseCompare, EndModel, vars
<1> QED
  BY <1>3, <1>4, <1>5, <1>6, <1>7 DEF Next, Click

\* A step loses at most one scan model: what was built of a load that is then
\* refused, which every refusal after the header leaves behind, or the whole
\* model of the pane a file is opened into (Load3DScanFile tests the pointer it
\* has just set to NULL; the handler of a downloaded model does not).
THEOREM LostOnLoadAlways == Spec => LostOnLoad
<1>1. IInv /\ IInv' /\ [Next]_vars => [Lost' # Lost => Losing]_vars
  BY StepLoses
<1>2. Spec => [][Lost' # Lost => Losing]_vars
  BY <1>1, Invariance, PTL DEF Spec
<1> QED  BY <1>2 DEF LostOnLoad, Losing

-----------------------------------------------------------------------------
(* Where Prev and Next lead *)

\* The part Prev and Next have reached is a part of the model.
Reached ==
  \A p \in Panes :
    ~ Empty(p) /\ Count(p) > 0 => pane[p].cur \in 0..(Count(p) - 1)

LEMMA ShowReaches ==
  ASSUME IInv, Reached, NEW p \in Panes, NEW m \in Models, Show(p, m)
  PROVE  Reached'
<1> SUFFICES ASSUME NEW x \in Panes, ~ Empty(x)', Count(x)' > 0
             PROVE  pane'[x].cur \in 0..(Count(x)' - 1)
  BY DEF Reached
<1>1. CASE x = p
  <2>1. PICK q \in Panes : q # p
    BY DEF Panes
  <2>2. pane'[p] = [id |-> loads', of |-> m, cur |-> FirstPart(p),
                    visible |-> 0..(Parts[m] - 1)]
    BY <2>1, ShowLoads
  <2>3. pane'[p].cur = 0 /\ pane'[p].of = m
    BY <2>2 DEF FirstPart
  <2>4. Count(x)' = Parts[m] /\ Parts[m] \in Int
    BY <1>1, <2>3, WindowAssumption DEF Count
  <2> QED  BY <1>1, <2>3, <2>4
<1>2. CASE x # p
  <2>1. pane'[x] = pane[x]
    BY <1>2, ShowLoads
  <2>2. Empty(x)' = Empty(x) /\ Count(x)' = Count(x)
    BY <2>1 DEF Empty, Count, Blank
  <2> QED  BY <2>1, <2>2 DEF Reached
<1> QED  BY <1>1, <1>2

LEMMA WalkReaches ==
  ASSUME IInv, IInv', Reached, NEW p \in Panes, Prev(p) \/ NextPart(p)
  PROVE  Reached'
<1>1. PICK c \in 0..(Count(p) - 1) : c \in Int /\ GoTo(p, c)
  BY WalkGoes DEF IInv
<1>2. ~ Empty(p) /\ pane[p] \in Filled
  BY WalkGoes, OldIsId DEF IInv
<1>3. pane'[p].cur = c /\ pane'[p].of = pane[p].of
  BY <1>1, <1>2 DEF GoTo, IInv, Typed, Filled
<1> SUFFICES ASSUME NEW x \in Panes, ~ Empty(x)', Count(x)' > 0
             PROVE  pane'[x].cur \in 0..(Count(x)' - 1)
  BY DEF Reached
<1>4. CASE x = p
  BY <1>1, <1>3, <1>4 DEF Count
<1>5. CASE x # p
  <2>1. pane'[x] = pane[x]
    BY <1>1, <1>2, <1>5, WalkMoves DEF IInv
  <2>2. Empty(x)' = Empty(x) /\ Count(x)' = Count(x)
    BY <2>1 DEF Empty, Count, Blank
  <2> QED  BY <2>1, <2>2 DEF Reached
<1> QED  BY <1>4, <1>5

LEMMA NextReaches == IInv /\ IInv' /\ Reached /\ [Next]_vars => Reached'
<1> SUFFICES ASSUME IInv, IInv', Reached, [Next]_vars PROVE Reached'
  OBVIOUS
<1>1. CASE UNCHANGED shown
  BY <1>1 DEF shown, Reached, Empty, Count, Blank
<1>2. CASE \E p \in Panes, m \in Models : Show(p, m)
  BY <1>2, ShowReaches
<1>3. CASE \E p \in Panes : Prev(p) \/ NextPart(p)
  BY <1>3, WalkReaches
<1>4. CASE Refuse
  BY <1>4, RefuseShows DEF Reached, Empty, Count, Blank
<1>5. ASSUME NEW p \in Panes, NEW m \in Maybe, LoadFromFile(p, m)
      PROVE  Reached'
  BY <1>2, <1>5, <1>4 DEF LoadFromFile, Maybe
<1>6. CASE ModelDownloaded
  <2>1. LoadFromMemory(download.model) /\ download.model \in Maybe
    BY <1>6, PostedIsMaybe DEF ModelDownloaded, IInv
  <2> QED  BY <1>2, <1>4, <2>1 DEF LoadFromMemory, Panes, Maybe
<1>7. CASE OpenFile \/ Compare
  BY <1>5, <1>7 DEF OpenFile, Compare, Panes, Maybe
<1>8. CASE CloseCompare \/ EndModel \/ UNCHANGED vars
  BY <1>1, <1>8 DEF CloseCompare, EndModel, vars
<1> QED
  BY <1>3, <1>6, <1>7, <1>8 DEF Next, Click

LEMMA Unwraps ==
  ASSUME NEW n \in Nat \ {0}, NEW S \in Nat \ {0}, S % n = 0
  PROVE  (S - 1) % n = n - 1
<1>1. S = n * (S \div n)
  OBVIOUS
<1>2. PICK k \in Int : S = n * k
  BY <1>1
<1>3. S - 1 = n * (k - 1) + (n - 1)
  BY <1>2
<1>4. \A q \in Int, r \in 0..(n - 1) : (n * q + r) % n = r
  OBVIOUS
<1> QED  BY <1>3, <1>4

LEMMA Small ==
  ASSUME NEW n \in Nat \ {0}, NEW c \in 0..(n - 1)
  PROVE  c % n = c
OBVIOUS

LEMMA Around ==
  ASSUME NEW n \in Nat \ {0}, NEW S \in Nat \ {0}, n < S, NEW c \in 0..(n - 1)
  PROVE  LET P(x) == ((x - 1) % S) % n
             N(x) == (x + 1) % n
         IN  /\ N(c) # 0 \/ S % n = 0 => P(N(c)) = c
             /\ c # 0 \/ S % n = 0 => N(P(c)) = c
<1> DEFINE P(x) == ((x - 1) % S) % n
           N(x) == (x + 1) % n
<1>1. P(0) = (S - 1) % n
  <2>1. (0 - 1) % S = S - 1
    OBVIOUS
  <2> QED  BY <2>1
<1>2. ASSUME NEW x \in 1..(n - 1) PROVE P(x) = x - 1
  <2>1. (x - 1) % S = x - 1
    BY Small
  <2> QED  BY <2>1, Small
<1>3. ASSUME NEW x \in 0..(n - 2) PROVE N(x) = x + 1
  BY Small
<1>4. N(n - 1) = 0
  <2>1. n % n = 0
    OBVIOUS
  <2> QED  BY <2>1
<1> HIDE DEF P, N
<1>5. ASSUME N(c) # 0 \/ S % n = 0 PROVE P(N(c)) = c
  <2>1. CASE c = n - 1
    BY <1>1, <1>4, <1>5, <2>1, Unwraps
  <2>2. CASE c # n - 1
    BY <1>2, <1>3, <2>2
  <2> QED  BY <2>1, <2>2
<1>6. ASSUME c # 0 \/ S % n = 0 PROVE N(P(c)) = c
  <2>1. CASE c = 0
    BY <1>1, <1>4, <1>6, <2>1, Unwraps
  <2>2. CASE c # 0
    BY <1>2, <1>3, <2>2
  <2> QED  BY <2>1, <2>2
<1> QED  BY <1>5, <1>6 DEF P, N

\* Prev takes back Next and Next takes back Prev at every part of every model,
\* but for the wrap before the first part of a model whose number of parts does
\* not divide 2 ^ width (the buttons Previous Part and Next Part subtract from
\* an int and divide by a size_t).
THEOREM PrevTakesBackNextAlways == Spec => []PrevTakesBackNext
<1>1. Init => Reached
  BY DEF Init, Reached, Empty
<1>2. IInv /\ Reached => PrevTakesBackNext
  <2> SUFFICES ASSUME IInv, Reached, NEW p \in Panes, ~ Empty(p), Count(p) > 1
               PROVE  LET c == pane[p].cur
                          n == Count(p)
                      IN  /\ After(c, n) # 0 \/ SizeT % n = 0
                                => Before(After(c, n), n) = c
                          /\ c # 0 \/ SizeT % n = 0
                                => After(Before(c, n), n) = c
    BY DEF PrevTakesBackNext
  <2>1. pane[p].of \in Models
    BY OldIsId DEF IInv, Filled
  <2>2. Count(p) \in Nat \ {0} /\ SizeT \in Nat \ {0} /\ Count(p) < SizeT
    BY <2>1, WindowAssumption DEF Count
  <2>3. pane[p].cur \in 0..(Count(p) - 1)
    BY <2>2 DEF Reached
  <2> QED  BY <2>2, <2>3, Around DEF Before, After
<1> QED  BY <1>1, <1>2, Invariance, NextReaches, PTL DEF Spec
===============================================================================
