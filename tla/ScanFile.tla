------------------------------- MODULE ScanFile -------------------------------
(***************************************************************************)
(* The .3dscan file (C3DScanFile.cpp) as the blocks that Save3DScanModel   *)
(* writes one after the other and Load3DScanModel follows through the      *)
(* offsets in their headers.  A save goes back to a part's header when the *)
(* part's subsets are written, and to the file's header at the very end.   *)
(* It checks no write; a load checks the signature of every header but not *)
(* whether the header was read at all: past the end of the file it is what *)
(* the local variable held before.                                         *)
(*                                                                         *)
(* A header is HeaderSize long whatever its kind.  Names that do not fit   *)
(* their 32 bytes, the bounding box and the colours are left out, and so   *)
(* is a file that ends inside a header.                                    *)
(***************************************************************************)
EXTENDS Integers, Sequences, SequencesExt

CONSTANTS
  Models,      \* [parts : Seq(Seq(Subset)), mats : Seq(name), texs : Seq(Tex)]
  NoModel,
  HeaderSize,  \* at least 2: a position inside a header is not a block's
  DiskFull,    \* can a write run out of space
  MaxSubsets   \* bound: subsets for which a loader has memory

ASSUME ScanFileAssumption ==
  /\ NoModel \notin Models
  /\ HeaderSize \in Nat \ {0, 1}
  /\ DiskFull \in BOOLEAN
  /\ MaxSubsets \in Nat

\* The lists of a model are finite.  A part has a subset: Obj2Model.cpp:178 drops
\* it otherwise, and a load refuses a part that no subset follows.  The map of the
\* textures has each name once.  Materials are taken over for the subsets that use
\* them (Obj2Model.cpp:215), textures for the materials: without parts, none.
ASSUME ModelAssumption ==
  \A m \in Models :
    /\ m.parts \in Seq(ToSet(m.parts))
    /\ m.mats \in Seq(ToSet(m.mats))
    /\ m.texs \in Seq(ToSet(m.texs))
    /\ m.parts = <<>> => m.mats = <<>> /\ m.texs = <<>>
    /\ \A p \in DOMAIN m.parts :
         /\ m.parts[p] \in Seq(ToSet(m.parts[p])) \ {<<>>}
         /\ \A i \in DOMAIN m.parts[p] : m.parts[p][i].size \in Nat
    /\ \A k \in DOMAIN m.texs : m.texs[k].size \in Nat
    /\ \A j, k \in DOMAIN m.texs : m.texs[j].name = m.texs[k].name => j = k

VARIABLES
  block,     \* the file: the header at each offset
  len,       \* its length
  model,     \* the model of the last save, NoModel if there is no file
  state,     \* absent, saving, interrupted, short or whole
  save,      \* where the save is: its step, part and item
  ofs,       \* uiFileOfs
  partOfs,   \* uiPartOfs
  libs,      \* hdr.iMaterialLibOfs and hdr.iTexLibOfs
  full,      \* the disk is full
  load,      \* where the load is
  stream,    \* CFileStream or CMemStream
  next,      \* the offset it follows
  hdr, part, subset, mat, tex,  \* its headers, local variables
  got,       \* the model it builds
  result     \* what the last load returned

file   == <<block, len>>
saver  == <<save, ofs, partOfs, libs, full>>
locals == <<hdr, part, subset, mat, tex>>
loader == <<load, stream, next, locals, got>>
vars   == <<file, model, state, saver, loader, result>>

\* What an uninitialised local variable holds: no signature.
Junk == [kind |-> "junk"]

Nothing == [parts |-> <<>>, mats |-> {}, texs |-> {}]
NoLibs  == [mats |-> 0, texs |-> 0]
Step(at, p, i) == [at |-> at, part |-> p, item |-> i]
Off == Step("off", 0, 0)

FileHeader(l) == [kind |-> "FILE", first |-> HeaderSize, mats |-> l.mats,
                  texs |-> l.texs]

Init ==
  /\ block = [o \in {} |-> Junk]
  /\ len = 0
  /\ model = NoModel
  /\ state = "absent"
  /\ save = Off
  /\ ofs = 0 /\ partOfs = 0
  /\ libs = NoLibs
  /\ full = FALSE
  /\ load = "off"
  /\ stream = "file"
  /\ next = 0
  /\ hdr = Junk /\ part = Junk /\ subset = Junk /\ mat = Junk /\ tex = Junk
  /\ got = Nothing
  /\ result = NoModel

-----------------------------------------------------------------------------
(* Save3DScanModel *)

\* fopen ( "wb" ) empties the file; when it fails, nothing has happened.
\* The header goes first, and again when the offsets in it are known.
SaveOpen(m) ==
  /\ save = Off /\ load = "off"
  /\ model' = m
  /\ state' = "saving"
  /\ \/ /\ block' = [o \in {0} |-> FileHeader(NoLibs)]
        /\ len' = HeaderSize
        /\ full' = FALSE
     \/ /\ DiskFull
        /\ block' = [o \in {} |-> Junk]
        /\ len' = 0
        /\ full' = TRUE
  /\ ofs' = HeaderSize
  /\ partOfs' = HeaderSize
  /\ libs' = NoLibs
  /\ save' = IF m.parts # <<>> THEN Step("part", 1, 0) ELSE Step("mat", 0, 1)
  /\ result' = NoModel
  /\ UNCHANGED loader

\* A header and its data at the end of the file.  uiFileOfs goes on even when
\* the writes fail for lack of space: then the header is missing, or a part of
\* its data.  Bound: a disk once full stays full until the save ends.
Put(h, size) ==
  /\ ofs' = ofs + HeaderSize + size
  /\ \/ /\ ~ full
        /\ block' = [o \in DOMAIN block \union {ofs} |->
                       IF o = ofs THEN h ELSE block[o]]
        /\ \/ len' = ofs + HeaderSize + size /\ full' = FALSE
           \/ DiskFull /\ full' = TRUE /\ size > 0
                /\ len' = ofs + HeaderSize + size - 1
     \/ (full \/ DiskFull) /\ full' = TRUE /\ UNCHANGED file

\* The position after the data, where the next block starts, or -1.
NextOfs_NoHeader(size, last) ==  \* Mutant: the header is not counted.
  IF last THEN -1 ELSE ofs + size
NextOfs(size, last) == IF last THEN -1 ELSE ofs + HeaderSize + size

WritePart ==
  /\ save.at = "part"
  /\ Put([kind |-> "PART", first |-> ofs + HeaderSize, next |-> -1], 0)
  /\ partOfs' = ofs
  /\ save' = Step("subset", save.part, 1)
  /\ UNCHANGED <<model, state, libs, loader, result>>

WriteSubset ==
  LET subsets == model.parts[save.part]
      s == subsets[save.item]
  IN  /\ save.at = "subset" /\ save.item <= Len(subsets)
      /\ Put([kind |-> "SUBSET", mat |-> s.mat, data |-> s.data,
              size |-> s.size,
              next |-> NextOfs(s.size, save.item = Len(subsets))], s.size)
      /\ save' = [save EXCEPT !.item = @ + 1]
      /\ UNCHANGED <<model, state, partOfs, libs, loader, result>>

\* The part's header again, now with the offset of the next part.
ClosePart ==
  LET last == save.part = Len(model.parts)
  IN  /\ save.at = "subset" /\ save.item > Len(model.parts[save.part])
      /\ block' = IF partOfs \in DOMAIN block
                    THEN [block EXCEPT ![partOfs].next =
                                         IF last THEN -1 ELSE ofs]
                    ELSE block
      /\ save' = IF last THEN Step("mat", 0, 1)
                         ELSE Step("part", save.part + 1, 0)
      /\ UNCHANGED <<len, model, state, ofs, partOfs, libs, full, loader,
                     result>>

\* The last material or texture.
LastOf_Past(items, k) == k > Len(items)  \* Mutant: off by one.
LastOf(items, k) == k = Len(items)
LibOfs(items) == IF items = <<>> THEN -1 ELSE ofs

WriteMaterial ==
  LET k == save.item
  IN  /\ save.at = "mat"
      /\ libs' = IF k = 1 THEN [libs EXCEPT !.mats = LibOfs(model.mats)]
                          ELSE libs
      /\ \/ /\ k <= Len(model.mats)
            /\ Put([kind |-> "MATERIAL", name |-> model.mats[k],
                    next |-> NextOfs(0, LastOf(model.mats, k))], 0)
            /\ save' = Step("mat", 0, k + 1)
         \/ /\ k > Len(model.mats)
            /\ save' = Step("tex", 0, 1)
            /\ UNCHANGED <<file, ofs, full>>
      /\ UNCHANGED <<model, state, partOfs, loader, result>>

WriteTexture ==
  LET k == save.item
      t == model.texs[k]
  IN  /\ save.at = "tex"
      /\ libs' = IF k = 1 THEN [libs EXCEPT !.texs = LibOfs(model.texs)]
                          ELSE libs
      /\ \/ /\ k <= Len(model.texs)
            /\ Put([kind |-> "TEX", name |-> t.name, size |-> t.size,
                    next |-> NextOfs(t.size, LastOf(model.texs, k))], t.size)
            /\ save' = Step("tex", 0, k + 1)
         \/ /\ k > Len(model.texs)
            /\ save' = Step("finish", 0, 0)
            /\ UNCHANGED <<file, ofs, full>>
      /\ UNCHANGED <<model, state, partOfs, loader, result>>

\* The header again, and true whatever the writes returned.
Finish ==
  /\ save.at = "finish"
  /\ block' = [o \in DOMAIN block |-> IF o = 0 THEN FileHeader(libs)
                                               ELSE block[o]]
  /\ state' = IF full THEN "short" ELSE "whole"
  /\ save' = Off
  /\ UNCHANGED <<len, model, ofs, partOfs, libs, full, loader, result>>

\* The program dies during the save.  What it had not flushed is lost, which
\* leaves the file as after an earlier step.
Die ==
  /\ save # Off
  /\ state' = IF full THEN "short" ELSE "interrupted"
  /\ save' = Off
  /\ UNCHANGED <<file, model, ofs, partOfs, libs, full, loader, result>>

\* A copy that ends before the last block or inside its data: a download that
\* broke off, or a companion the server is still writing.
CutAt(n) ==
  /\ state = "whole" /\ load = "off"
  /\ block' = [o \in {o \in DOMAIN block : o + HeaderSize <= n} |-> block[o]]
  /\ len' = n
  /\ state' = "short"
  /\ UNCHANGED <<model, saver, loader, result>>

Ends == DOMAIN block
          \union {len - 1 : o \in {o \in DOMAIN block : o + HeaderSize < len}}
Cut == \E n \in Ends : (\A o \in DOMAIN block : ~ (o < n /\ n < o + HeaderSize))
                         /\ CutAt(n)

-----------------------------------------------------------------------------
(* Load3DScanModel *)

\* Seek and Read of a header: past the end CFileStream reads nothing, and the
\* local variable stays as it was in the last round of the loop, or in the load
\* before.  CMemStream, which seeks to the last byte at most, reads that byte,
\* which may spoil it.  What is no header of the file has no signature.
Read(o, local) == IF o \in DOMAIN block THEN {block[o]}
                  ELSE IF o < len THEN {Junk}
                  ELSE IF stream = "file" THEN {local} ELSE {local, Junk}

\* Is the data of the block at o all there (what is not stays uninitialised)?
DataThere(o, h) == o + HeaderSize + h.size <= len

Goto(at, o) == load' = at /\ next' = o

Return(r) ==
  /\ load' = "off"
  /\ result' = r
  /\ UNCHANGED locals

\* The local variables are not initialised: they hold what happens to be
\* there, or what the load before has left.
Start ==
  /\ load = "off" /\ save = Off
  /\ Goto("header", 0)
  /\ stream' \in {"file", "memory"}
  /\ \/ hdr' = Junk /\ part' = Junk /\ subset' = Junk /\ mat' = Junk
          /\ tex' = Junk
     \/ UNCHANGED locals
  /\ got' = Nothing
  /\ UNCHANGED <<file, model, state, saver, result>>

ReadHeader ==
  /\ load = "header"
  /\ \E h \in Read(0, hdr) :
       /\ h.kind = "FILE"
       /\ hdr' = h
       /\ Goto("part", h.first)
  /\ UNCHANGED <<part, subset, mat, tex, got, result>>

ReadPart ==
  /\ load = "part" /\ next > 0
  /\ \E h \in Read(next, part) :
       /\ h.kind = "PART"
       /\ part' = h
       /\ got' = [got EXCEPT !.parts = Append(@, <<>>)]
       /\ Goto("subset", h.first)
  /\ UNCHANGED <<hdr, subset, mat, tex, result>>

Subsets(m) == FoldLeft(LAMBDA n, p : n + Len(p), 0, m.parts)

ReadSubset ==
  /\ load = "subset" /\ next > 0
  /\ Subsets(got) < MaxSubsets
  /\ \E h \in Read(next, subset) :
       /\ h.kind = "SUBSET"
       /\ subset' = h
       /\ got' = [got EXCEPT !.parts[Len(got.parts)] =
                    Append(@, [mat |-> h.mat, data |-> h.data, size |-> h.size,
                               there |-> DataThere(next, h)])]
       /\ Goto("subset", h.next)
  /\ UNCHANGED <<hdr, part, mat, tex, result>>

ReadMaterial ==
  /\ load = "mat" /\ next > 0
  /\ \E h \in Read(next, mat) :
       /\ h.kind = "MATERIAL"
       /\ mat' = h
       /\ got' = [got EXCEPT !.mats = @ \union {h.name}]
       /\ Goto("mat", h.next)
  /\ UNCHANGED <<hdr, part, subset, tex, result>>

\* The map keeps the last texture of a name.
ReadTexture ==
  /\ load = "tex" /\ next > 0
  /\ \E h \in Read(next, tex) :
       /\ h.kind = "TEX"
       /\ tex' = h
       /\ got' = [got EXCEPT !.texs = {t \in @ : t.name # h.name} \union
                    {[name |-> h.name, size |-> h.size,
                      there |-> DataThere(next, h)]}]
       /\ Goto("tex", h.next)
  /\ UNCHANGED <<hdr, part, subset, mat, result>>

\* An offset of 0 or -1 ends a loop.
EndLoop ==
  /\ next <= 0
  /\ \/ load = "subset" /\ Goto("part", part.next)
          /\ UNCHANGED <<result, locals>>
     \/ load = "part" /\ Goto("mat", hdr.mats) /\ UNCHANGED <<result, locals>>
     \/ load = "mat" /\ Goto("tex", hdr.texs) /\ UNCHANGED <<result, locals>>
     \/ load = "tex" /\ Return(got) /\ UNCHANGED next
  /\ UNCHANGED got

Kind(at) == CASE at = "header" -> "FILE" [] at = "part" -> "PART"
              [] at = "subset" -> "SUBSET" [] at = "mat" -> "MATERIAL"
              [] at = "tex" -> "TEX"
Local(at) == CASE at = "header" -> hdr [] at = "part" -> part
               [] at = "subset" -> subset [] at = "mat" -> mat
               [] at = "tex" -> tex

\* load_error: the signature is not that of the block looked for.  The model
\* that was begun is not freed: whom it is lost to is in ViewerWindow and
\* ModelEditor.
Reject ==
  /\ load # "off"
  /\ load = "header" \/ next > 0
  /\ \E h \in Read(next, Local(load)) : h.kind # Kind(load)
  /\ Return(NoModel)
  /\ UNCHANGED <<next, got>>

\* A load that follows the same offset again and again allocates until new
\* throws, and the program with it ends.
OutOfMemory ==
  /\ load = "subset" /\ next > 0
  /\ Subsets(got) = MaxSubsets
  /\ Return(NoModel)
  /\ UNCHANGED <<next, got>>

-----------------------------------------------------------------------------
SaveStep == WritePart \/ WriteSubset \/ ClosePart \/ WriteMaterial
              \/ WriteTexture \/ Finish
LoadStep == /\ \/ ReadHeader \/ ReadPart \/ ReadSubset \/ ReadMaterial
               \/ ReadTexture \/ EndLoop \/ Reject \/ OutOfMemory
            /\ UNCHANGED <<file, model, state, saver, stream>>

Next == (\E m \in Models : SaveOpen(m)) \/ SaveStep \/ Die \/ Cut
          \/ Start \/ LoadStep

Spec == Init /\ [][Next]_vars

\* The two functions run to their end unless the program dies.
FairSpec == Spec /\ WF_vars(SaveStep) /\ WF_vars(LoadStep)

-----------------------------------------------------------------------------
(* Properties *)

\* The parts of a model as a load of a complete file builds them, all data there.
All(parts) == [p \in DOMAIN parts |->
                 [i \in DOMAIN parts[p] |->
                    [mat |-> parts[p][i].mat, data |-> parts[p][i].data,
                     size |-> parts[p][i].size, there |-> TRUE]]]
AllTexs(texs) == {[name |-> texs[k].name, size |-> texs[k].size,
                   there |-> TRUE] : k \in DOMAIN texs}
AsLoaded(m) == [parts |-> All(m.parts), mats |-> ToSet(m.mats),
                texs |-> AllTexs(m.texs)]

ASSUME NoModelAssumption == \A m \in Models : NoModel # AsLoaded(m)

\* What was loaded with its data is what was saved at that place.
DataTrue(r, m) ==
  /\ \A p \in DOMAIN r.parts : \A i \in DOMAIN r.parts[p] :
       r.parts[p][i].there => /\ p \in DOMAIN m.parts
                              /\ i \in DOMAIN m.parts[p]
                              /\ r.parts[p][i] = All(m.parts)[p][i]
  /\ \A t \in r.texs : t.there => t \in AllTexs(m.texs)

Names(texs) == {t.name : t \in texs}

\* What a result is of the model that was saved, in the words of ModelFile.
Form(r) ==
  CASE r = AsLoaded(model) -> "whole"
    [] /\ r # AsLoaded(model) /\ DataTrue(r, model)
       /\ Len(r.parts) \in 1 .. Len(model.parts)
       /\ r.mats = ToSet(model.mats)
       /\ Names(r.texs) = Names(ToSet(model.texs)) -> "torn"
    [] /\ DataTrue(r, model) /\ r.mats = {} /\ r.texs = {}
       /\ Len(r.parts) \in 1 .. Len(model.parts)
       /\ ~ (model.mats = <<>> /\ model.texs = <<>>) -> "prefix"
    [] OTHER -> IF DataTrue(r, model) THEN "stale" ELSE "wrong"
Promised == IF result = NoModel THEN NoModel
            ELSE [model |-> model, form |-> Form(result)]

Abstract == INSTANCE ModelFile WITH held <- model, loading <- load # "off",
                                    result <- Promised

\* The blocks and the offsets between them keep what ModelFile promises of a
\* file: a complete file opens as the very model, one whose save was broken off
\* never with a material or a texture, and no file as another model.
ImplementsModelFile == Abstract!Spec

\* A load of a complete file ends (on a file that is short the stale header
\* can send it to the same offset for ever).
LoadEnds == load # "off" /\ state = "whole" ~> load = "off"
=============================================================================
