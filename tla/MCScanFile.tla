------------------------------ MODULE MCScanFile ------------------------------
(* Constants of the TLC run of ScanFile. *)
EXTENDS ScanFile

CONSTANTS a, b, t1, t2, d1, d2, d3

Sub(m, d, n) == [mat |-> m, data |-> d, size |-> n]
Picture(n, s) == [name |-> n, size |-> s]

\* No parts, as of an OBJ file without faces.
Empty == [parts |-> <<>>, mats |-> <<>>, texs |-> <<>>]
\* No materials, as of an OBJ file whose mtl file is missing.
Bare == [parts |-> <<<<Sub(b, d1, 1)>>>>, mats |-> <<>>, texs |-> <<>>]
Plain == [parts |-> <<<<Sub(a, d1, 1)>>>>, mats |-> <<a>>, texs |-> <<>>]
Rich == [parts |-> <<<<Sub(a, d2, 1), Sub(b, d3, 1)>>, <<Sub(a, d1, 1)>>>>,
         mats |-> <<a, b>>, texs |-> <<Picture(t1, 1), Picture(t2, 1)>>]
MCModels == {Empty, Bare, Plain, Rich}
===============================================================================
