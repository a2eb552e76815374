-------------------------- MODULE ModelEditorProofs --------------------------
(***************************************************************************)
(* Theorems about ModelEditor, for every set of models and paths and any   *)
(* number of imports and loads.                                            *)
(*                                                                         *)
(* The inductive invariant relates the two copies of the model and the     *)
(* file: both copies are of the same model, what is drawn is not freed, a  *)
(* file being saved receives the model shown, and a complete file the      *)
(* model came from or was last written to holds it.                        *)
(***************************************************************************)
EXTENDS ModelEditor, TLAPS

\* m_strFilename and the two paths of the history.
PathsFit ==
  /\ files = [p \in Paths |-> [held |-> files[p].held, state |-> files[p].state]]
  /\ made \in Nat
  /\ alive \subseteq 1..made
  /\ {chosen, home} \subseteq Paths \union {NoPath}
  /\ hasName => name = chosen /\ name \in Paths

\* The drawn model is a copy of the one that is saved, and points into it.
Copied ==
  shown # NoModel =>
    /\ shown = [base |-> base.number, model |-> base.model, edited |-> shown.edited]
    /\ base.number \in alive

\* A file being saved is that of the model shown, and is written in full view.
SaveFits ==
  \A p \in Paths : files[p].state = "saving" =>
    phase = "saving" /\ p = home /\ files[p].held = base.model

\* What a complete file says of the model that is shown.
Backed(p, m) == \/ files[p].state # "whole"
                \/ files[p].held.parts = <<>>
                \/ files[p].held = m

HomeFits == shown # NoModel /\ home # NoPath => Backed(home, shown.model)

\* The user can act, and so save under another name, only on a model that has
\* been drawn.
DrawnFits ==
  shown # NoModel /\ ~ Drawable(shown.model) =>
    /\ phase \notin {"menu", "saving"}
    /\ chosen # NoPath => Backed(chosen, shown.model)

\* A model that was freed is never drawn, so that is no reason to crash.
CrashFits == phase = "crashed_draw" => shown # NoModel /\ ~ Drawable(shown.model)

EInv == PathsFit /\ Copied /\ SaveFits /\ HomeFits /\ DrawnFits /\ CrashFits

-----------------------------------------------------------------------------
(* The steps *)

\* A file that was saved to its end opens as the very model, if it has parts.
LEMMA WholeOpens ==
  ASSUME NEW p, files[p].state = "whole", files[p].held.parts # <<>>,
         NEW r \in Contents(p)!Outcomes \ {NoModel}
  PROVE  Read(r) = {files[p].held}
<1>1. Contents(p)!Seen = {"whole"}
  BY DEF Contents!Seen, Contents!Opens
<1>2. Contents(p)!Outcomes = {[model |-> files[p].held, form |-> "whole"]}
  BY <1>1 DEF Contents!Outcomes, Contents!Opens, Contents!Loaded
<1>3. QED
  BY <1>2 DEF Read

LEMMA EditorInit == Init => EInv
  BY EditorAssumption
     DEF Init, EInv, PathsFit, Copied, SaveFits, HomeFits, DrawnFits, CrashFits

\* An import shows a model that no file holds.
LEMMA ImportStep ==
  ASSUME EInv, NEW m \in Imports, Import(m)
  PROVE  EInv'
<1> USE DEF EInv
<1>1. /\ made' = made + 1 /\ base' = [number |-> made + 1, model |-> m]
      /\ shown' = [base |-> made + 1, model |-> m, edited |-> FALSE]
      /\ made + 1 \in alive' /\ alive' \subseteq alive \union {made + 1}
      /\ hasName' = FALSE /\ chosen' = NoPath /\ home' = NoPath
      /\ phase = "menu" /\ phase' = "draw" /\ files' = files
  BY DEF Import, New, Created, AliveAfterImport
<1>2. PathsFit'
  BY <1>1 DEF PathsFit
<1>3. Copied'
  BY <1>1 DEF Copied
<1>4. SaveFits'
  BY <1>1 DEF SaveFits
<1>5. HomeFits' /\ DrawnFits' /\ CrashFits'
  BY <1>1 DEF HomeFits, DrawnFits, CrashFits
<1>6. QED
  BY <1>2, <1>3, <1>4, <1>5

\* What was opened from a complete file is what the file holds.
LEMMA OpenStep ==
  ASSUME EInv, NEW p \in Paths, Open(p)
  PROVE  EInv'
<1> USE DEF EInv
<1>1. phase = "menu" /\ phase' = "draw" /\ files' = files
  BY DEF Open
<1>2. CASE UNCHANGED program
  BY <1>1, <1>2
     DEF program, PathsFit, Copied, SaveFits, HomeFits, DrawnFits, Backed, CrashFits
<1>3. CASE /\ made' = made + 1 /\ alive' = alive \union {made'}
           /\ UNCHANGED <<base, shown, name, hasName, chosen, home>>
  <2>1. PathsFit'
    BY <1>1, <1>3 DEF PathsFit
  <2>2. Copied' /\ SaveFits' /\ HomeFits' /\ DrawnFits' /\ CrashFits'
    BY <1>1, <1>3 DEF Copied, SaveFits, HomeFits, DrawnFits, Backed, CrashFits
  <2>3. QED
    BY <2>1, <2>2
<1>4. CASE ~ LoadFails(p)
  <2>1. PICK r \in Contents(p)!Outcomes \ {NoModel} : \E m \in Read(r) :
          /\ made' = made + 1
          /\ base' = Opened(m)
          /\ shown' = Created(New(m))
          /\ alive' = alive \union {made + 1}
          /\ name' = p /\ hasName' = TRUE /\ chosen' = p /\ home' = p
    BY <1>4, Zenon DEF Open
  <2>2. PICK m \in Read(r) :
          /\ made' = made + 1
          /\ base' = [number |-> made + 1, model |-> m]
          /\ shown' = [base |-> made + 1, model |-> m, edited |-> FALSE]
          /\ alive' = alive \union {made + 1}
          /\ name' = p /\ hasName' = TRUE /\ chosen' = p /\ home' = p
    BY <2>1 DEF Opened, New, Created
  <2>3. Backed(p, m)
    BY WholeOpens, <2>2 DEF Backed
  <2>4. PathsFit'
    BY <1>1, <2>2 DEF PathsFit
  <2>5. Copied'
    BY <2>2 DEF Copied
  <2>6. SaveFits'
    BY <1>1 DEF SaveFits
  <2>7. HomeFits' /\ DrawnFits' /\ CrashFits'
    BY <1>1, <2>2, <2>3 DEF HomeFits, DrawnFits, Backed, CrashFits
  <2>8. QED
    BY <2>4, <2>5, <2>6, <2>7
<1>5. QED
  BY <1>2, <1>3, <1>4 DEF LoadFails

\* A save takes the name before it opens the file and keeps it if that fails.
LEMMA SaveStep ==
  ASSUME EInv, NEW p \in Paths, phase = "menu", SaveTo(p)
  PROVE  EInv'
<1> USE DEF EInv
<1>1. /\ name' = p /\ hasName' = TRUE /\ chosen' = p
      /\ UNCHANGED <<made, alive, base, shown>>
  BY DEF SaveTo
<1>2. \A q \in Paths : files[q].state # "saving"
  BY DEF SaveFits
<1>3. CASE UNCHANGED <<files, home>> /\ phase' = "draw"
  BY <1>1, <1>2, <1>3
     DEF PathsFit, Copied, SaveFits, HomeFits, DrawnFits, Backed, CrashFits
<1>4. CASE /\ files' = [files EXCEPT ![p] = [held |-> base.model, state |-> "saving"]]
           /\ home' = p
           /\ phase' = "saving"
  <2>1. /\ DOMAIN files = Paths
        /\ files' = [q \in Paths |-> IF q = p THEN [held |-> base.model, state |-> "saving"]
                                              ELSE files[q]]
    BY <1>4 DEF PathsFit
  <2>2. files' = [q \in Paths |-> [held |-> files'[q].held, state |-> files'[q].state]]
    BY <2>1 DEF PathsFit
  <2>3. PathsFit'
    BY <1>1, <1>4, <2>2 DEF PathsFit
  <2>4. Copied'
    BY <1>1 DEF Copied
  <2>5. SaveFits'
    BY <1>1, <1>2, <1>4, <2>1 DEF SaveFits
  <2>6. HomeFits'
    BY <1>4, <2>1 DEF HomeFits, Backed
  <2>7. DrawnFits' /\ CrashFits'
    BY <1>1, <1>4 DEF DrawnFits, CrashFits
  <2>8. QED
    BY <2>3, <2>4, <2>5, <2>6, <2>7
<1>5. QED
  BY <1>3, <1>4 DEF SaveTo

\* A save ends, complete or not, or the program dies in the middle of it.
LEMMA WrittenStep ==
  ASSUME EInv, SaveEnds \/ Die
  PROVE  EInv'
<1> USE DEF EInv
<1>1. PICK p \in Paths, s \in {"whole", "short", "interrupted"} :
        files[p].state = "saving" /\ files' = [files EXCEPT ![p].state = s]
  BY DEF SaveEnds, Die, Writing
<1>2. phase = "saving" /\ phase' \in {"draw", "off"} /\ UNCHANGED program
  BY DEF SaveEnds, Die
<1>3. /\ DOMAIN files = Paths
      /\ files' = [q \in Paths |-> IF q = p THEN [held |-> files[p].held, state |-> s]
                                            ELSE files[q]]
  BY <1>1 DEF PathsFit
<1>4. PathsFit'
  <2>1. files' = [q \in Paths |-> [held |-> files'[q].held, state |-> files'[q].state]]
    BY <1>3 DEF PathsFit
  <2>2. QED
    BY <1>2, <2>1 DEF PathsFit, program
<1>5. Copied'
  BY <1>2 DEF Copied, program
<1>6. p = home /\ files[p].held = base.model
  BY <1>1 DEF SaveFits
<1>7. SaveFits'
  BY <1>1, <1>3, <1>6 DEF SaveFits
<1>8. HomeFits'
  BY <1>2, <1>3, <1>6 DEF HomeFits, Backed, Copied, program
<1>9. DrawnFits' /\ CrashFits'
  BY <1>2 DEF DrawnFits, CrashFits, program
<1>10. QED
  BY <1>4, <1>5, <1>7, <1>8, <1>9

\* The other steps leave the files and the model alone; only a model that can be
\* drawn gets past Draw.
LEMMA FrameStep ==
  ASSUME EInv, \/ Start \/ Quit \/ Upload \/ Edit \/ Draw \/ UNCHANGED vars
  PROVE  EInv'
<1> USE DEF EInv
<1>1. files' = files /\ (phase = "saving" => UNCHANGED vars)
  BY DEF Start, Quit, Upload, Edit, Draw, vars
<1>2. SaveFits'
  BY <1>1 DEF SaveFits, vars, program
<1>3. CASE Start
  BY <1>1, <1>2, <1>3, EditorAssumption
     DEF Start, PathsFit, Copied, HomeFits, DrawnFits, CrashFits
<1>4. CASE Quit \/ Upload \/ UNCHANGED vars
  BY <1>1, <1>2, <1>4
     DEF Quit, Upload, vars, program, PathsFit, Copied, HomeFits, DrawnFits, Backed,
         CrashFits
<1>5. CASE Edit
  <2>1. /\ phase = "menu" /\ phase' = "draw" /\ shown # NoModel
        /\ UNCHANGED <<made, alive, base, name, hasName, chosen, home>>
    BY <1>5 DEF Edit
  <2>2. shown' = [base |-> base.number, model |-> base.model, edited |-> TRUE]
    <3>1. PICK e : shown = [base |-> base.number, model |-> base.model, edited |-> e]
      BY <2>1 DEF Copied
    <3>2. shown' = [shown EXCEPT !.edited = TRUE]
      BY <1>5 DEF Edit
    <3>3. QED
      BY <3>1, <3>2
  <2>3. shown'.model = shown.model
    BY <2>1, <2>2 DEF Copied
  <2>4. PathsFit' /\ Copied'
    BY <1>1, <2>1, <2>2 DEF PathsFit, Copied
  <2>5. HomeFits' /\ DrawnFits' /\ CrashFits'
    BY <1>1, <2>1, <2>3 DEF HomeFits, DrawnFits, Backed, CrashFits
  <2>6. QED
    BY <1>2, <2>4, <2>5
<1>6. CASE Draw
  <2>1. UNCHANGED program /\ phase = "draw"
    BY <1>6 DEF Draw
  <2>2. shown # NoModel /\ ~ Drawable(shown.model) => phase' = "crashed_draw"
    BY <1>6 DEF Draw
  <2>3. PathsFit' /\ Copied' /\ HomeFits'
    BY <1>1, <2>1 DEF program, PathsFit, Copied, HomeFits, Backed
  <2>4. DrawnFits'
    BY <1>1, <2>1, <2>2 DEF program, DrawnFits, Backed
  <2>5. CrashFits'
    <3>1. shown # NoModel => shown.base \in alive
      BY DEF Copied
    <3>2. QED
      BY <1>6, <2>1, <3>1 DEF Draw, CrashFits, program
  <2>6. QED
    BY <1>2, <2>3, <2>4, <2>5
<1>7. QED
  BY <1>3, <1>4, <1>5, <1>6

LEMMA EditorStep == EInv /\ [Next]_vars => EInv'
<1> SUFFICES ASSUME EInv, [Next]_vars PROVE EInv'
  OBVIOUS
<1>1. CASE Save
  <2>1. hasName => name \in Paths
    BY DEF EInv, PathsFit
  <2>2. \E p \in Paths : phase = "menu" /\ SaveTo(p)
    BY <1>1, <2>1 DEF Save
  <2>3. QED
    BY <2>2, SaveStep
<1>2. CASE SaveAs
  BY <1>2, SaveStep DEF SaveAs
<1>3. QED
  BY <1>1, <1>2, ImportStep, OpenStep, WrittenStep, FrameStep DEF Next

-----------------------------------------------------------------------------
(* The theorems *)

\* The invariant holds in every state of every run of the editor.
THEOREM EditorInductive == Spec => []EInv
<1>1. QED
  BY EditorInit, EditorStep, PTL DEF Spec

\* Save without a question never writes to the file of the model shown before.
THEOREM NameAlwaysChosen == Spec => []NameIsChosen
<1>1. EInv => NameIsChosen
  BY DEF EInv, PathsFit, NameIsChosen
<1>2. QED
  BY EditorInductive, <1>1, PTL

\* A complete file the shown model came from or was saved to holds it, unless
\* it has no parts: no order of imports, opens, failed saves and Save As leaves
\* the editor showing one model and a file it took for it holding another.
THEOREM ShownAlwaysUnlessEdited == Spec => []ShownUnlessEdited
<1>1. EInv => ShownUnlessEdited
  BY DEF EInv, HomeFits, Backed, ShownUnlessEdited
<1>2. QED
  BY EditorInductive, <1>1, PTL

\* Drawing crashes for no other reason than a subset without its material in
\* what was imported or read, never because a model was freed too early.
THEOREM CrashesAlwaysExplained == Spec => []CrashesExplained
<1>1. EInv => CrashesExplained
  BY DEF EInv, Copied, DrawnFits, Backed, CrashFits, CrashesExplained
<1>2. QED
  BY EditorInductive, <1>1, PTL

-----------------------------------------------------------------------------
(* Models that are never freed *)

Losing ==
  /\ made' = made + 1
  /\ \/ /\ UNCHANGED <<base, shown, name, hasName>>
        /\ Lost' = Lost \union {made'}
     \/ /\ base # NoBase /\ base'.number = made' /\ hasName'
        /\ Lost' = Lost \union {base.number}

LEMMA OpenLoses ==
  ASSUME EInv, NEW p \in Paths, Open(p)
  PROVE  Lost' \subseteq Lost \/ Losing
<1>1. CASE UNCHANGED program
  BY <1>1 DEF program, Lost
<1>2. CASE /\ made' = made + 1 /\ alive' = alive \union {made'}
           /\ UNCHANGED <<base, shown, name, hasName, chosen, home>>
  BY <1>2 DEF Lost, Losing, EInv, PathsFit
<1>3. CASE ~ LoadFails(p)
  <2>1. PICK m :
          /\ made' = made + 1 /\ made < MaxModels
          /\ base' = [number |-> made + 1, model |-> m]
          /\ alive' = alive \union {made + 1}
          /\ hasName' = TRUE
    BY <1>3, Zenon DEF Open, Opened, New
  <2>2. made + 1 \notin alive /\ 0 \notin alive
    BY DEF EInv, PathsFit
  <2>3. base'.number = made + 1 /\ Lost' = alive
    BY <2>1, <2>2 DEF Lost
  <2>4. CASE base.number \in alive
    <3>1. base # NoBase /\ Lost' = Lost \union {base.number}
      BY <2>2, <2>3, <2>4 DEF NoBase, Lost
    <3>2. QED
      BY <2>1, <2>3, <3>1 DEF Losing
  <2>5. CASE base.number \notin alive
    BY <2>3, <2>5 DEF Lost
  <2>6. QED
    BY <2>4, <2>5
<1>4. QED
  BY <1>1, <1>2, <1>3 DEF LoadFails

\* A step loses at most one model, and only by opening a file: the model the
\* file takes the place of, or what was built of a file that is refused.  An
\* import frees both copies of the old model, and nothing else makes or drops
\* one.
THEOREM LostOnlyByOpen == Spec => LostByOpen
<1>1. ASSUME EInv, Next
      PROVE  Lost' \subseteq Lost \/ Losing
  <2>1. CASE \E m \in Imports : Import(m)
    <3>1. PICK m \in Imports : Import(m)
      BY <2>1
    <3>2. /\ base' = [number |-> made + 1, model |-> m]
          /\ alive' = (alive \ {base.number}) \union {made + 1}
      BY <3>1 DEF Import, New, AliveAfterImport
    <3>3. QED
      BY <3>2 DEF Lost
  <2>2. CASE \E p \in Paths : Open(p)
    BY <1>1, <2>2, OpenLoses
  <2>3. CASE Save \/ SaveAs
    BY <2>3 DEF Save, SaveAs, SaveTo, Lost
  <2>4. CASE Start
    BY <2>4 DEF Start, Lost
  <2>5. CASE Quit \/ SaveEnds \/ Die \/ Upload \/ Edit \/ Draw
    BY <2>5 DEF Quit, SaveEnds, Die, Upload, Edit, Draw, program, Lost
  <2>6. QED
    BY <1>1, <2>1, <2>2, <2>3, <2>4, <2>5 DEF Next
<1>2. EInv /\ [Next]_vars => [~ (Lost' \subseteq Lost) => Losing]_vars
  BY <1>1
<1>3. Spec => [][~ (Lost' \subseteq Lost) => Losing]_vars
  BY EditorInductive, <1>2, PTL DEF Spec
<1>4. QED
  BY <1>3 DEF LostByOpen, Losing
=============================================================================
