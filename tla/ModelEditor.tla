------------------------------ MODULE ModelEditor -----------------------------
(***************************************************************************)
(* The model editor (ModelEditorDlg.cpp): it imports OBJ files, opens and  *)
(* saves .3dscan files, shows the model and lets its materials be edited.  *)
(* It holds the model twice: m_pModel1, which is saved, and m_pd3dModel1,  *)
(* which is drawn, has its own copy of every material and points into the  *)
(* first.  The files keep what ModelFile promises, and no more.            *)
(*                                                                         *)
(* A frame is UpdateGui, where a menu item may be chosen, and Render.  The *)
(* names of parts and textures, the camera and the averages of textures    *)
(* that go into a saved file are left out.                                 *)
(***************************************************************************)
EXTENDS Integers, Sequences, SequencesExt

CONSTANTS
  Imports,   \* the models of OBJ files: [parts, mats, texs : Seq, intact]
  NoModel,
  Paths,
  NoPath,    \* the empty m_strFilename
  DiskFull,  \* can a write run out of space
  MaxModels  \* bound: models built in one run of the program

ASSUME EditorAssumption ==
  /\ NoModel \notin Imports
  /\ NoPath \notin Paths
  /\ DiskFull \in BOOLEAN
  /\ MaxModels \in Nat

VARIABLES
  files,    \* what each path holds: [held, state] of ModelFile
  phase,    \* off, menu, saving, draw, or crashed: in upload or in drawing
  made,     \* the number of models built so far, in whole or in part
  alive,    \* those that are not freed, by number
  base,     \* m_pModel1: [number, model], NoBase if NULL
  shown,    \* m_pd3dModel1: [base, model, edited], NoModel if NULL
  name,     \* m_strFilename
  hasName,  \* m_bHasFilename
  chosen,   \* history: the path the user last opened this model from or gave it
  home      \* history: the path it came from or was last written to

program == <<made, alive, base, shown, name, hasName, chosen, home>>
vars == <<files, phase, program>>

\* A part is written as the material of its one subset.
Contents(p) == INSTANCE ModelFile WITH
  Models <- Imports, held <- files[p].held, state <- files[p].state,
  loading <- TRUE, result <- NoModel

NoBase == [number |-> 0, model |-> NoModel]

Init ==
  /\ files = [p \in Paths |-> [held |-> NoModel, state |-> "absent"]]
  /\ phase = "off"
  /\ made = 0 /\ alive = {} /\ base = NoBase /\ shown = NoModel
  /\ name = NoPath /\ hasName = FALSE /\ chosen = NoPath /\ home = NoPath

Start ==
  /\ phase \in {"off", "crashed_upload", "crashed_draw"}
  /\ phase' = "menu"
  /\ made' = 0 /\ alive' = {} /\ base' = NoBase /\ shown' = NoModel
  /\ name' = NoPath /\ hasName' = FALSE /\ chosen' = NoPath /\ home' = NoPath
  /\ UNCHANGED files

Quit == phase = "menu" /\ phase' = "off" /\ UNCHANGED <<files, program>>

-----------------------------------------------------------------------------
(* Import Obj File and Open 3D Scan File *)

New(m) == [number |-> made + 1, model |-> m]
\* CreateFromTDModel: an empty material where the model has not the one named.
Created(b) == [base |-> b.number, model |-> b.model, edited |-> FALSE]

\* Both old models are freed before the pointers to the new ones are taken.
AliveAfterImport_FreesNew == alive  \* Mutant: after.
AliveAfterImport_NotFreed == alive \union {made + 1}  \* Mutant: not freed.
AliveAfterImport == (alive \ {base.number}) \union {made + 1}

Import(m) ==
  /\ phase = "menu" /\ made < MaxModels
  /\ made' = made + 1
  /\ base' = New(m)
  /\ shown' = Created(New(m))
  /\ alive' = AliveAfterImport
  /\ hasName' = FALSE
  /\ chosen' = NoPath
  /\ home' = NoPath
  /\ phase' = "draw"
  /\ UNCHANGED <<files, name>>

\* What a load makes of a file in a state of ModelFile: first parts without
\* materials, or, in place of missing blocks, headers of another file, of a
\* part with or without its material.
Damaged(m) == [m EXCEPT !.intact = FALSE]
FirstParts(m) == {[parts |-> SubSeq(m.parts, 1, k), mats |-> <<>>,
                   texs |-> <<>>, intact |-> FALSE] : k \in DOMAIN m.parts}
Remains == {[parts |-> <<x>>, mats |-> ms, texs |-> <<>>, intact |-> FALSE] :
              x \in UNION {ToSet(m.parts) : m \in Imports},
              ms \in {<<>>} \union {m.mats : m \in Imports}}
Read(r) == CASE r.form = "whole"  -> {r.model}
             [] r.form = "torn"   -> {Damaged(r.model)}
             [] r.form = "prefix" -> FirstParts(r.model)
             [] r.form = "stale"  -> Remains

LoadFails_NameTaken(p) ==  \* Mutant: the name is taken before the load.
  /\ name' = p
  /\ hasName' = TRUE
  /\ UNCHANGED <<made, alive, base, shown, chosen, home>>
\* A file refused after its header leaves behind what was built of the model:
\* load_error frees nothing.
LoadFails(p) ==
  \/ UNCHANGED program
  \/ /\ made' = made + 1
     /\ alive' = alive \union {made'}
     /\ UNCHANGED <<base, shown, name, hasName, chosen, home>>

Opened_IfNone(m) ==  \* Mutant: m_pModel1 is set only once.
  IF base = NoBase THEN New(m) ELSE base
Opened(m) == New(m)

\* Load3DScanFile: m_pd3dModel1 is freed and set to NULL, then tested in the
\* place of m_pModel1, which is not freed.  If the load fails, what is shown and
\* the name stay.
Open(p) ==
  /\ phase = "menu" /\ made < MaxModels
  /\ files[p].state # "absent"
  /\ \/ /\ NoModel \in Contents(p)!Outcomes
        /\ LoadFails(p)
     \/ \E r \in Contents(p)!Outcomes \ {NoModel} : \E m \in Read(r) :
          /\ made' = made + 1
          /\ base' = Opened(m)
          /\ shown' = Created(New(m))
          /\ alive' = alive \union {made + 1}
          /\ name' = p
          /\ hasName' = TRUE
          /\ chosen' = p
          /\ home' = p
  /\ phase' = "draw"
  /\ UNCHANGED files

-----------------------------------------------------------------------------
(* Save and Save As *)

\* The name is taken before the save and kept whatever comes of it.  If the
\* file cannot be opened for writing, it stays as it was.
SaveTo(p) ==
  /\ base # NoBase
  /\ name' = p
  /\ hasName' = TRUE
  /\ chosen' = p
  /\ \/ /\ files' = [files EXCEPT ![p] = [held |-> base.model,
                                           state |-> "saving"]]
        /\ home' = p
        /\ phase' = "saving"
     \/ UNCHANGED <<files, home>> /\ phase' = "draw"
  /\ UNCHANGED <<made, alive, base, shown>>

\* Without a name, the user is asked for one.
Save == phase = "menu" /\ IF hasName THEN SaveTo(name)
                                     ELSE \E p \in Paths : SaveTo(p)
SaveAs == phase = "menu" /\ \E p \in Paths : SaveTo(p)

Writing == {p \in Paths : files[p].state = "saving"}

SaveEnds ==
  /\ phase = "saving"
  /\ \E p \in Writing,
        s \in {"whole"} \union (IF DiskFull THEN {"short"} ELSE {}) :
       files' = [files EXCEPT ![p].state = s]
  /\ phase' = "draw"
  /\ UNCHANGED program

\* The program is killed during the save.
Die ==
  /\ phase = "saving"
  /\ \E p \in Writing : files' = [files EXCEPT ![p].state = "interrupted"]
  /\ phase' = "off"
  /\ UNCHANGED program

-----------------------------------------------------------------------------
(* Upload Model, the inspector, and the frame's end *)

\* UploadModel opens m_strFilename and seeks in what fopen returned.
Upload ==
  /\ phase = "menu" /\ shown # NoModel
  /\ phase' = IF name = NoPath THEN "crashed_upload"
              ELSE IF files[name].state = "absent" THEN "crashed_upload"
              ELSE "draw"
  /\ UNCHANGED <<files, program>>

\* The inspector changes the copy of a material that the subset draws with.
Edit ==
  /\ phase = "menu" /\ shown # NoModel
  /\ shown' = [shown EXCEPT !.edited = TRUE]
  /\ phase' = "draw"
  /\ UNCHANGED <<files, made, alive, base, name, hasName, chosen, home>>

\* Every subset has a material with a shader.
Drawable(m) == \A k \in DOMAIN m.parts : m.parts[k] \in ToSet(m.mats)

\* RenderD3DModel follows the pointers into the model that was loaded, and
\* calls the shader of each subset's material.
Draw ==
  /\ phase = "draw"
  /\ phase' = IF shown = NoModel THEN "menu"
              ELSE IF shown.base \in alive /\ Drawable(shown.model) THEN "menu"
              ELSE "crashed_draw"
  /\ UNCHANGED <<files, program>>

Next ==
  \/ Start \/ Quit \/ Save \/ SaveAs \/ SaveEnds \/ Die
  \/ Upload \/ Edit \/ Draw
  \/ \E m \in Imports : Import(m)
  \/ \E p \in Paths : Open(p)

Spec == Init /\ [][Next]_vars

-----------------------------------------------------------------------------
(* Properties *)

\* Drawing crashes for no other reason than a subset without its material, and
\* this for one outside the editor: an OBJ file that uses a material its mtl
\* file has not, a .3dscan file of such a model, or one whose save was broken
\* off or that has no parts.  A model that was freed is never drawn.
CrashesExplained ==
  phase = "crashed_draw" =>
    \/ chosen = NoPath /\ ~ Drawable(base.model)
    \/ chosen # NoPath
         /\ \/ files[chosen].state # "whole"
            \/ ~ Drawable(files[chosen].held)
            \/ files[chosen].held.parts = <<>>

\* Save without a question writes to the file the model was opened from, or the
\* one the user gave it, and not to that of the model shown before.
NameIsChosen == hasName => name = chosen

\* A complete file a model came from or was saved to holds what the editor
\* shows, unless a material was edited: edits are drawn, but never saved.
ShownUnlessEdited ==
  shown # NoModel /\ home # NoPath =>
    \/ files[home].state # "whole" \/ files[home].held.parts = <<>>
    \/ files[home].held = shown.model
    \/ shown.edited

\* A step loses at most one model, and only by opening a file: the model shown,
\* when the file takes its place (Load3DScanFile tests the pointer it has just
\* set to NULL), or what was built of a file that is then refused, when the model
\* shown and the name stay.  An import, a save, an edit or drawing loses nothing.
Lost == alive \ {base.number}
LostByOpen ==
  [][~ (Lost' \subseteq Lost) =>
       /\ made' = made + 1
       /\ \/ /\ UNCHANGED <<base, shown, name, hasName>>
             /\ Lost' = Lost \union {made'}
          \/ /\ base # NoBase /\ base'.number = made' /\ hasName'
             /\ Lost' = Lost \union {base.number}]_vars
===============================================================================
