---------------------------- MODULE MCModelEditor -----------------------------
(* Constants of the TLC run of ModelEditor. *)
EXTENDS ModelEditor

CONSTANTS a, b, t, p1, p2

Obj(parts, mats, texs) == [parts |-> parts, mats |-> mats, texs |-> texs,
                           intact |-> TRUE]
\* No faces; no mtl file; a face before the first usemtl; all there.
Empty == Obj(<<>>, <<>>, <<>>)
Bare  == Obj(<<a>>, <<>>, <<>>)
Lacks == Obj(<<a, b>>, <<a>>, <<>>)
Full  == Obj(<<a, b>>, <<a, b>>, <<t>>)
MCImports == {Empty, Bare, Lacks, Full}
===============================================================================
