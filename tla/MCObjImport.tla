----------------------------- MODULE MCObjImport ------------------------------
(* Constants of the TLC run of ObjImport. *)
EXTENDS ObjImport

Face(form, index) == [form |-> form, index |-> index]
NewMtl(n) == [kind |-> "newmtl", arg |-> n]

\* A triangle, a polygon, a face of each form, one with the negative indices
\* of the last three vertices, and one past the end of the lists.
MCFaces == {Face("v/t/n", <<1, 2, 3>>), Face("v/t", <<4, 3, 2, 1>>),
            Face("v", <<2, 3, 1>>), Face("v//n", <<1, 2, 3>>),
            Face("v/t/", <<1, 2, 4>>), Face("v//", <<2, 1, 3>>),
            Face("v/t/n", <<-3, -2, -1>>), Face("v", <<3, 4, 5>>)}

\* b is defined twice, c never; a line before the first newmtl is skipped.
MCMtlFile == <<[kind |-> "tr", arg |-> 1], NewMtl("a"), [kind |-> "d", arg |-> 1],
               [kind |-> "map_Kd", arg |-> "t"], NewMtl("b"), NewMtl("b"),
               [kind |-> "tr", arg |-> 1], [kind |-> "map_Kd", arg |-> "u"]>>
===============================================================================
