------------------------------ MODULE ModelFile -------------------------------
(***************************************************************************)
(* What a .3dscan file promises to the programs that save and open it: the *)
(* abstract specification that ScanFile, the file's blocks, implements.    *)
(*                                                                         *)
(* A save replaces what the file held from its first moment on.  A file    *)
(* that was saved to its end opens as the very model.  A save that stopped *)
(* half way leaves a file that opens, if it opens at all, as first parts of*)
(* the model without materials and textures, the last subset perhaps       *)
(* without its data.  One that ran out of disk space, and a copy that was  *)
(* cut, opens as something with blocks missing, and with remains of an     *)
(* earlier load in their place, or not at all; so does a file of a model   *)
(* without parts.  Remains have no data: never does a file show the        *)
(* vertices or the pictures of another model.                              *)
(***************************************************************************)
CONSTANTS
  Models,   \* the models that are saved
  NoModel   \* what an unsuccessful load returns

VARIABLES
  held,     \* the model of the last save, NoModel before the first
  state,    \* how much of it the file holds
  loading,  \* is a load under way
  result    \* of the last load

vars == <<held, state, loading, result>>

States == {"absent", "saving", "interrupted", "short", "whole"}
Forms  == {"whole", "torn", "prefix", "stale"}

Loaded(m, form) == [model |-> m, form |-> form]
Results == {NoModel} \union [model : Models, form : Forms]

\* A model without parts is saved, but does not open.
Opens(m) == m.parts # <<>>
\* Nothing tells that the libraries of such a model are missing.
Bare(m) == m.mats = <<>> /\ m.texs = <<>>

\* As what a load may find the file to be.
Seen ==
  CASE state = "whole"       -> IF Opens(held) THEN {"whole"} ELSE {"stale"}
    [] state = "interrupted" -> IF Bare(held) THEN {"whole", "torn", "stale"}
                                              ELSE {"prefix"}
    [] state = "short"       -> Forms
    [] OTHER                 -> {}

Outcomes == {Loaded(held, f) : f \in Seen}
              \union IF state = "whole" /\ Opens(held) THEN {} ELSE {NoModel}

Init ==
  /\ held = NoModel
  /\ state = "absent"
  /\ loading = FALSE
  /\ result = NoModel

Save(m) ==
  /\ ~ loading
  /\ held' = m
  /\ state' = "saving"
  /\ result' = NoModel
  /\ UNCHANGED loading

\* The program that saves ends with the file complete or short, or is killed.
Saved ==
  /\ state = "saving"
  /\ state' \in {"whole", "short", "interrupted"}
  /\ UNCHANGED <<held, loading, result>>

\* A copy of the file that ends early.
Cut ==
  /\ state = "whole" /\ ~ loading
  /\ state' = "short"
  /\ UNCHANGED <<held, loading, result>>

Load ==
  /\ state # "saving" /\ ~ loading
  /\ loading' = TRUE
  /\ UNCHANGED <<held, state, result>>

LoadEnds ==
  /\ loading
  /\ loading' = FALSE
  /\ result' \in Outcomes
  /\ UNCHANGED <<held, state>>

Next == (\E m \in Models : Save(m)) \/ Saved \/ Cut \/ Load \/ LoadEnds

Spec == Init /\ [][Next]_vars
=============================================================================
