------------------------------ MODULE ObjImport -------------------------------
(***************************************************************************)
(* The import of an OBJ file: LoadObj2 reads it line by line into parts,   *)
(* subsets and faces (ObjLoader.cpp), LoadMtlLib2 the materials it names,  *)
(* and ConvertObjTo3DModel makes the model of it (Obj2Model.cpp).          *)
(*                                                                         *)
(* The lines v, vn and vt only extend three lists that are used after the  *)
(* last line, so the model knows their length, NumVertices, and not their  *)
(* place.  All vertices of a face are written in one form, with or without *)
(* the slashes that nothing follows (ObjLoader.h:305); of a vertex, the    *)
(* indices v, t and n are equal.  Names are single words, with one space   *)
(* before each vertex, and a line fits the 4095 characters that are read.  *)
(***************************************************************************)
EXTENDS Integers, FiniteSets, Sequences, SequencesExt

CONSTANTS
  Faces,        \* the faces of the files: [form, index : Seq(Int \ {0})]
  Names,        \* the names after usemtl
  NumVertices,  \* positions, texture coordinates and normals in the file
  MtlFile,      \* the lines of the mtl file
  Pictures,     \* the textures that are there as files
  Word,         \* 2^32
  MaxLines      \* bound: lines of a file

\* The material of the first subset and the first sCurMtl: no name of a
\* material.
Unnamed == ""
Default == "$ALI_DEFAULT_MTRL"

\* The forms of a vertex, and the lines of an mtl file.
Forms    == {"v", "v//", "v/t", "v/t/", "v//n", "v/t/n"}
MtlKinds == {"newmtl", "tr", "d", "map_Kd"}

ASSUME ObjAssumption ==
  /\ \A f \in Faces : f.form \in Forms /\ f.index \in Seq(Int \ {0})
  /\ {Unnamed, Default} \intersect Names = {}
  /\ Len(MtlFile) \in Nat /\ DOMAIN MtlFile = 1 .. Len(MtlFile)
  /\ \A k \in DOMAIN MtlFile :
       /\ MtlFile[k].kind \in MtlKinds
       /\ MtlFile[k].kind = "newmtl" => MtlFile[k].arg \notin {Unnamed, Default}
  /\ NumVertices \in Nat
  /\ Word \in Nat \ {0}
  /\ MaxLines \in Nat

VARIABLES
  lines,    \* the lines read so far
  parts,    \* obj.subParts
  curMtl,   \* sCurMtl
  mtllib    \* does a line name the mtl file (obj.sMtrlFilename)

vars == <<lines, parts, curMtl, mtllib>>

FaceLine(f)   == [kind |-> "f", face |-> f]
NameLine(k, n) == [kind |-> k, name |-> n]
Lines == {FaceLine(f) : f \in Faces}
           \union {NameLine("usemtl", n) : n \in Names}
           \union {[kind |-> k] : k \in {"o", "g", "mtllib"}}

\* The flags of a new subset are not initialised; the first face sets them.
Subset(m) == [mat |-> m, form |-> "unset", faces |-> <<>>]

Init ==
  /\ lines = <<>>
  /\ parts = <<<<Subset(Unnamed)>>>>
  /\ curMtl = Default
  /\ mtllib = FALSE

-----------------------------------------------------------------------------
(* LoadObj2 *)

HasUv(form)     == form \in {"v/t", "v/t/", "v/t/n"}
HasNormal(form) == form \in {"v//n", "v/t/n"}

\* InspectFaceLine counts the spaces with a digit behind them; a minus sign is
\* none.  Of the first such vertex it takes which indices there are.
Count(f) == Cardinality({i \in DOMAIN f.index : f.index[i] > 0})
Inspected(f, form) == IF Count(f) > 0 THEN f.form ELSE form

\* One is subtracted, and added before when the index is negative.
VertIndex(k) == IF k < 0 THEN k + 1 - 1 ELSE k - 1
UvIndex(k)   == IF k < 0 THEN k + 2 - 1 ELSE k - 1

\* The normal is what follows the next slash.  Where there is no texture
\* coordinate this is the second slash, which atoi reads as 0.
NormalIndex(form, k) == IF HasUv(form) THEN UvIndex(k) ELSE -1

ParsedFace(f) ==
  [i \in 1 .. Count(f) |->
     [v |-> VertIndex(f.index[i]),
      t |-> IF HasUv(f.form) THEN UvIndex(f.index[i]) ELSE -1,
      n |-> IF HasNormal(f.form) THEN NormalIndex(f.form, f.index[i]) ELSE -1]]

LastPart == Len(parts)
LastSubset == Len(parts[LastPart])

\* A face goes to the last subset, whose flags become those of this face.
Faced(s, f) == [s EXCEPT !.form = Inspected(f, @),
                         !.faces = Append(@, ParsedFace(f))]
ReadFace(f) ==
  /\ parts' = [parts EXCEPT ![LastPart][LastSubset] = Faced(@, f)]
  /\ UNCHANGED <<curMtl, mtllib>>

AddSubset(m) == parts' = [parts EXCEPT ![LastPart] = Append(@, Subset(m))]

\* Mutant: an object begins without the material in force.
ReadObject_NoMaterial == /\ parts' = Append(parts, <<Subset(Unnamed)>>)
                         /\ UNCHANGED <<curMtl, mtllib>>
ReadObject == /\ parts' = Append(parts, <<Subset(curMtl)>>)
              /\ UNCHANGED <<curMtl, mtllib>>
ReadGroup == AddSubset(curMtl) /\ UNCHANGED <<curMtl, mtllib>>
ReadUseMtl(n) == AddSubset(n) /\ curMtl' = n /\ UNCHANGED mtllib
ReadMtlLib == mtllib' = TRUE /\ UNCHANGED <<parts, curMtl>>

ReadLine ==
  /\ Len(lines) < MaxLines
  /\ \E l \in Lines :
       /\ lines' = Append(lines, l)
       /\ \/ l.kind = "f" /\ ReadFace(l.face)
          \/ l.kind = "o" /\ ReadObject
          \/ l.kind = "g" /\ ReadGroup
          \/ l.kind = "usemtl" /\ ReadUseMtl(l.name)
          \/ l.kind = "mtllib" /\ ReadMtlLib

\* The file ends, and the next import starts with a new MY_OBJ.
NextImport ==
  /\ lines' = <<>>
  /\ parts' = <<<<Subset(Unnamed)>>>>
  /\ curMtl' = Default
  /\ mtllib' = FALSE

Next == ReadLine \/ NextImport

Spec == Init /\ [][Next]_vars

-----------------------------------------------------------------------------
(* LoadMtlLib2: newmtl begins a material, the other lines set values of the  *)
(* last one and are skipped before the first.                                *)

MtlValue(m, l) == CASE l.kind = "tr"     -> [m EXCEPT !.tr = l.arg]
                    [] l.kind = "d"      -> [m EXCEPT !.tr = 1 - l.arg]
                    [] l.kind = "map_Kd" -> [m EXCEPT !.map = l.arg]
MtlLine(mats, l) ==
  IF l.kind = "newmtl"
    THEN Append(mats, [name |-> l.arg, tr |-> 0, map |-> Unnamed])
  ELSE IF mats = <<>> THEN mats
  ELSE [mats EXCEPT ![Len(mats)] = MtlValue(@, l)]

\* The materials after k lines of the file.
MtlRead[k \in 0 .. Len(MtlFile)] ==
  IF k = 0 THEN <<>> ELSE MtlLine(MtlRead[k - 1], MtlFile[k])

\* The materials of the file, if it is found (as named, or beside the OBJ).
Materials(found) == IF mtllib /\ found THEN MtlRead[Len(MtlFile)] ELSE <<>>

-----------------------------------------------------------------------------
(* ConvertObjTo3DModel *)

\* An index outside the list reads what happens to lie there.
Outside == -1
Absent  == -2
Fetch(k) == IF k \in 0 .. NumVertices - 1 THEN k ELSE Outside

Corner(s, c) == [v |-> Fetch(c.v),
                 t |-> IF HasUv(s.form) THEN Fetch(c.t) ELSE Absent,
                 n |-> IF HasNormal(s.form) THEN Fetch(c.n) ELSE Absent]

\* Mutant: a strip.
Fan_Strip(face) == [i \in 1 .. (IF Len(face) > 2 THEN Len(face) - 2 ELSE 0) |->
                      <<face[i], face[i + 1], face[i + 2]>>]

\* A face becomes a fan of triangles round its first vertex.
Fan(face) == [i \in 1 .. (IF Len(face) > 2 THEN Len(face) - 2 ELSE 0) |->
                <<face[1], face[i + 1], face[i + 2]>>]
Triangles(s) ==
  LET fans == FlattenSeq([k \in DOMAIN s.faces |-> Fan(s.faces[k])])
  IN  [k \in DOMAIN fans |-> [c \in 1 .. 3 |-> Corner(s, fans[k][c])]]

\* uiTriCount, for which the buffers are allocated.
TriCount_PerFace(s) == Len(s.faces)  \* Mutant: one triangle for each face.
TriCount(s) ==
  LET count[k \in 0 .. Len(s.faces)] ==
        IF k = 0 THEN 0 ELSE (count[k - 1] + Len(s.faces[k]) - 2) % Word
  IN  count[Len(s.faces)]

\* The bytes of a vertex, and of the vertices: a product of words.
VertexSize(form) == 12 + (IF HasNormal(form) THEN 12 ELSE 0)
                       + (IF HasUv(form) THEN 8 ELSE 0)
Indices(s) == (TriCount(s) * 3) % Word
Bytes(s)   == (Indices(s) * VertexSize(s.form)) % Word

ConvertedSubset(s) ==
  [mat |-> s.mat, indices |-> Indices(s), bytes |-> Bytes(s),
   vertexSize |-> VertexSize(s.form), tris |-> Triangles(s)]

\* The elements of a sequence whose indices are in S.
Nth(S, i)  == CHOOSE k \in S : Cardinality({j \in S : j <= k}) = i
Kept(s, S) == [i \in 1 .. Cardinality(S) |-> s[Nth(S, i)]]

\* The subsets of a part that have faces, and the parts that have any.
WithFaces(p) == {i \in DOMAIN p : p[i].faces # <<>>}
NotEmpty     == {p \in DOMAIN parts : WithFaces(parts[p]) # {}}

ConvertedPart(p) ==
  Kept([i \in DOMAIN p |-> ConvertedSubset(p[i])], WithFaces(p))
ConvertedParts == Kept([p \in DOMAIN parts |-> ConvertedPart(parts[p])], NotEmpty)

Used(ps) == UNION {{ps[p][i].mat : i \in DOMAIN ps[p]} : p \in DOMAIN ps}

\* A material that a subset uses is taken over; of two with one name, the last.
ConvertedMaterials(ps, mats) ==
  LET kept == {k \in DOMAIN mats :
                 /\ mats[k].name \in Used(ps)
                 /\ \A j \in DOMAIN mats : j > k => mats[j].name # mats[k].name}
  IN  {[name |-> mats[k].name, alpha |-> 1 - mats[k].tr, map |-> mats[k].map] :
         k \in kept}

Model(found) ==
  LET ps == ConvertedParts
      ms == ConvertedMaterials(ps, Materials(found))
  IN  [parts |-> ps, mats |-> ms,
       texs |-> {m.map : m \in ms} \intersect Pictures]

-----------------------------------------------------------------------------
(* What the lines of a file mean, from the descriptions in ObjLoader.cpp.    *)

\* "v/t/n where v is the vertex position index, t is an optional texture
\* coordinate index, and n is an optional normal index"; "Negative indices are
\* relative" to the end of the list.
Meant(k) == IF k < 0 THEN NumVertices + k ELSE k - 1
MeantCorner(f, i) ==
  [v |-> Meant(f.index[i]),
   t |-> IF HasUv(f.form) THEN Meant(f.index[i]) ELSE Absent,
   n |-> IF HasNormal(f.form) THEN Meant(f.index[i]) ELSE Absent]

Material(k) ==
  LET uses == {j \in 1 .. k : lines[j].kind = "usemtl"}
  IN  IF uses = {} THEN Default
      ELSE lines[CHOOSE j \in uses : \A i \in uses : i <= j].name
Object(k) == Cardinality({j \in 1 .. k : lines[j].kind = "o"})

FaceLines == {k \in DOMAIN lines : lines[k].kind = "f"}

\* The triangles of the file in order, each with its object and material.
MeantTriangles ==
  FlattenSeq(
    [k \in DOMAIN lines |->
       IF k \in FaceLines
         THEN LET f == lines[k].face
              IN  [i \in 1 .. Len(f.index) - 2 |->
                     [object |-> Object(k), mat |-> Material(k),
                      corners |-> <<MeantCorner(f, 1), MeantCorner(f, i + 1),
                                    MeantCorner(f, i + 2)>>]]
         ELSE <<>>])

\* The triangles of the model in order.  Objects without faces become no part.
Objects == {Object(k) : k \in FaceLines}
ModelTriangles ==
  LET ps == ConvertedParts
      ofSubset(p, i) == [t \in DOMAIN ps[p][i].tris |->
                          [object |-> Nth(Objects, p),
                           mat |-> IF ps[p][i].mat = Unnamed
                                     THEN Default ELSE ps[p][i].mat,
                           corners |-> ps[p][i].tris[t]]]
      ofPart(p) == FlattenSeq([i \in DOMAIN ps[p] |-> ofSubset(p, i)])
  IN  FlattenSeq([p \in DOMAIN ps |-> ofPart(p)])

\* Faces as the loader can read them: a polygon, indices that count from the
\* beginning and are in the list.
Plain(f) == /\ Len(f.index) > 2
            /\ \A i \in DOMAIN f.index : f.index[i] \in 1 .. NumVertices

\* Two faces with no other line between them go to one subset.
SameSubset(j, k) == \A i \in j .. k : lines[i].kind \in {"f", "mtllib"}
Uniform == \A j, k \in FaceLines :
             j < k /\ SameSubset(j, k) =>
               lines[j].face.form = lines[k].face.form

\* A file whose faces are plain, of one form within a subset, and have no
\* normals without texture coordinates, becomes the triangles it describes,
\* each in its object and with the material in force at its line.
ImportFaithful ==
  /\ \A k \in FaceLines : Plain(lines[k].face) /\ lines[k].face.form # "v//n"
  /\ Uniform
  => ModelTriangles = MeantTriangles

Defined == {MtlFile[k].arg : k \in {k \in DOMAIN MtlFile :
                                        MtlFile[k].kind = "newmtl"}}

\* If the file names its mtl file, and every face comes after a usemtl of a
\* material that is defined there, the model has the material of each of its
\* subsets, once, and no other (a face before the first usemtl would be left
\* without one, and the programs cannot draw it).
MaterialsFound ==
  /\ mtllib
  /\ \A k \in FaceLines : Material(k) \in Defined
  => LET m == Model(TRUE)
     IN  /\ {x.name : x \in m.mats} = Used(m.parts)
         /\ Cardinality(m.mats) = Cardinality(Used(m.parts))

\* The buffers of a subset are as large as what is written to them: three
\* vertices and three indices for each triangle of its faces.  Every product on
\* the way to their sizes is one of words, so this holds of faces that are plain
\* (a face without two vertices more would wrap the count) and of vertices whose
\* bytes a word can count.
BuffersFit ==
  (\A k \in FaceLines : Plain(lines[k].face)) =>
    LET ps == ConvertedParts
    IN  \A p \in DOMAIN ps : \A i \in DOMAIN ps[p] :
          LET corners == 3 * Len(ps[p][i].tris)
              written == corners * ps[p][i].vertexSize
          IN  written < Word => /\ ps[p][i].indices = corners
                                /\ ps[p][i].bytes = written
=============================================================================
