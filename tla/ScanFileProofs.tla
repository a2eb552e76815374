--------------------------- MODULE ScanFileProofs -----------------------------
(***************************************************************************)
(* Theorems: a complete .3dscan file opens as the very model that was      *)
(* saved, and whatever became of a file, it keeps what ModelFile promises, *)
(* for any number of parts, subsets, materials and textures.               *)
(*                                                                         *)
(* The first invariant, IInv, says where a save that has not run out of    *)
(* space has put its blocks: pa[p] is the offset of part p, su[p][i] that  *)
(* of its subset i, ma[k] and te[k] those of a material and a texture.  A  *)
(* header tells the offset of the next block before that is written, so    *)
(* the offset of the block that comes next is always the end of the file.  *)
(* A load of the complete file goes from block to block in the same order. *)
(*                                                                         *)
(* The second, FInv, is about every file, also one that is interrupted,    *)
(* short or cut.  lab[o] names what stands at the offset o, or would stand *)
(* there: each header leads to what follows it in the model, and where     *)
(* that is missing, the file ends.  A load therefore reads a header of the *)
(* model in its place or, past the end, one that it had already, and that  *)
(* has no data, leads nowhere, or to the same offset again until memory    *)
(* runs out.  Shapes and Old say what any header of any file looks like,   *)
(* and so those that an earlier load has left.                             *)
(***************************************************************************)
EXTENDS ScanFile, SequenceTheorems, TLAPS

Parts == model.parts

\* What follows the k-th of the items that lie at the offsets f.
After(items, f, k) == IF k = Len(items) THEN -1 ELSE f[k + 1]

PartAt(pa, su, p) == [kind |-> "PART", first |-> su[p][1],
                      next |-> After(Parts, pa, p)]
SubsetAt(su, p, i) ==
  [kind |-> "SUBSET", mat |-> Parts[p][i].mat, data |-> Parts[p][i].data,
   size |-> Parts[p][i].size, next |-> After(Parts[p], su[p], i)]
MaterialAt(ma, k) == [kind |-> "MATERIAL", name |-> model.mats[k],
                      next |-> After(model.mats, ma, k)]
TextureAt(te, k) == [kind |-> "TEX", name |-> model.texs[k].name,
                     size |-> model.texs[k].size,
                     next |-> After(model.texs, te, k)]

-----------------------------------------------------------------------------
(* The save *)

\* How much of the model is written.
Whole  == state = "whole"
Late   == Whole \/ save.at \in {"mat", "tex", "finish"}
Begun  == IF Late THEN Len(Parts)
          ELSE IF save.at = "subset" THEN save.part ELSE save.part - 1
Closed == IF Late THEN Len(Parts) ELSE save.part - 1
Subs(p) == IF p <= Closed THEN Len(Parts[p]) ELSE save.item - 1
Mats   == IF Whole \/ save.at \in {"tex", "finish"} THEN Len(model.mats)
          ELSE IF save.at = "mat" THEN save.item - 1 ELSE 0
Texs   == IF Whole \/ save.at = "finish" THEN Len(model.texs)
          ELSE IF save.at = "tex" THEN save.item - 1 ELSE 0

SaveFits ==
  /\ full \in BOOLEAN
  /\ save = Step(save.at, save.part, save.item)
  /\ state = "saving" <=> save.at # "off"
  /\ save.at # "off" => load = "off"
  /\ Whole \/ save.at # "off" => model \in Models
  /\ save.at \in {"part", "subset"} => save.part \in 1..Len(Parts)
  /\ save.at = "subset" => save.item \in 1..(Len(Parts[save.part]) + 1)
  /\ save.at = "mat" => save.item \in 1..(Len(model.mats) + 1)
  /\ save.at = "tex" => save.item \in 1..(Len(model.texs) + 1)
  /\ save.at \in {"off", "part", "subset", "mat", "tex", "finish"}

Lies(o, h) == o \in DOMAIN block /\ o > 0 /\ block[o] = h

\* The blocks are one behind the other up to the end of the file.
Dense ==
  /\ ofs \in Nat \ {0}
  /\ len = ofs
  /\ 0 \in DOMAIN block /\ DOMAIN block \subseteq 0..(ofs - 1)
  /\ Whole => block[0] = FileHeader(libs)

PartsLie(pa, su) ==
  /\ Parts # <<>> => pa[1] = HeaderSize
  /\ \A p \in 1..Closed : Lies(pa[p], PartAt(pa, su, p))
  /\ save.at = "subset" =>
       /\ partOfs = pa[save.part]
       /\ Lies(partOfs, [kind |-> "PART", first |-> su[save.part][1], next |-> -1])
       /\ \A p \in 1..Closed : pa[p] < partOfs
  /\ save.at = "part" => pa[save.part] = ofs

SubsetsLie(su) ==
  /\ \A p \in 1..Begun : \A i \in 1..Subs(p) :
       /\ Lies(su[p][i], SubsetAt(su, p, i))
       /\ su[p][i] + HeaderSize + Parts[p][i].size <= len
  /\ save.at = "subset" => su[save.part][save.item] = ofs

MaterialsLie(ma) ==
  /\ \A k \in 1..Mats : Lies(ma[k], MaterialAt(ma, k))
  /\ save.at = "mat" => ma[save.item] = ofs
  /\ Late /\ (save.at = "mat" => save.item > 1) =>
       libs.mats = After(model.mats, ma, 0)

TexturesLie(te) ==
  /\ \A k \in 1..Texs : /\ Lies(te[k], TextureAt(te, k))
                        /\ te[k] + HeaderSize + model.texs[k].size <= len
  /\ save.at = "tex" => te[save.item] = ofs
  /\ Late /\ save.at # "mat" /\ (save.at = "tex" => save.item > 1) =>
       libs.texs = After(model.texs, te, 0)

Laid(pa, su, ma, te) ==
  /\ Dense
  /\ libs = [mats |-> libs.mats, texs |-> libs.texs]
  /\ PartsLie(pa, su) /\ SubsetsLie(su) /\ MaterialsLie(ma) /\ TexturesLie(te)

-----------------------------------------------------------------------------
(* The load *)

Loaded(p, i) == [mat |-> Parts[p][i].mat, data |-> Parts[p][i].data,
                 size |-> Parts[p][i].size, there |-> TRUE]
LoadedTex(k) == [name |-> model.texs[k].name, size |-> model.texs[k].size,
                 there |-> TRUE]
Entries == UNION {{Loaded(p, i) : i \in DOMAIN Parts[p]} : p \in DOMAIN Parts}

\* The first k parts are loaded.
GotParts(k) ==
  /\ got = [parts |-> got.parts, mats |-> {}, texs |-> {}]
  /\ got.parts \in Seq(Seq(Entries))
  /\ \A p \in 1..k : got.parts[p] = All(Parts)[p]

Follows(pa, su, ma, te) ==
  /\ load \in {"header", "part", "subset", "mat", "tex"}
  /\ load = "header" => next = 0 /\ got = Nothing
  /\ load # "header" => hdr = FileHeader(libs)
  /\ load = "part" =>
       \E k \in 0..Len(Parts) : /\ next = After(Parts, pa, k)
                                /\ GotParts(k) /\ Len(got.parts) = k
  /\ load = "subset" =>
       \E k \in 1..Len(Parts) : \E n \in 0..Len(Parts[k]) :
         /\ next = After(Parts[k], su[k], n)
         /\ part = PartAt(pa, su, k)
         /\ GotParts(k - 1) /\ Len(got.parts) = k /\ Len(got.parts[k]) = n
         /\ \A i \in 1..n : got.parts[k][i] = Loaded(k, i)
  /\ load = "mat" =>
       \E n \in 0..Len(model.mats) :
         /\ next = After(model.mats, ma, n)
         /\ got = [parts |-> All(Parts), mats |-> {model.mats[k] : k \in 1..n},
                   texs |-> {}]
  /\ load = "tex" =>
       \E n \in 0..Len(model.texs) :
         /\ next = After(model.texs, te, n)
         /\ got = [parts |-> All(Parts), mats |-> ToSet(model.mats),
                   texs |-> {LoadedTex(k) : k \in 1..n}]

Opening == Whole /\ Parts # <<>> /\ load # "off"
Sound   == Whole \/ (state = "saving" /\ ~ full)

Fits(pa, su, ma, te) == /\ Sound => Laid(pa, su, ma, te)
                        /\ Opening => Follows(pa, su, ma, te)

Places == [Nat -> Nat]
IInv == /\ SaveFits
        /\ \E pa \in Places, su \in [Nat -> Places], ma \in Places, te \in Places :
             Fits(pa, su, ma, te)

-----------------------------------------------------------------------------
(* Models, and the header and data that Put adds *)

LEMMA ModelFits ==
  ASSUME model \in Models
  PROVE  /\ Len(Parts) \in Nat /\ DOMAIN Parts = 1..Len(Parts)
         /\ Len(Parts) = 0 <=> Parts = <<>>
         /\ \A p \in 1..Len(Parts) :
              /\ Len(Parts[p]) \in Nat \ {0} /\ DOMAIN Parts[p] = 1..Len(Parts[p])
              /\ \A i \in 1..Len(Parts[p]) : Parts[p][i].size \in Nat
         /\ Len(model.mats) \in Nat /\ DOMAIN model.mats = 1..Len(model.mats)
         /\ Len(model.mats) = 0 <=> model.mats = <<>>
         /\ Len(model.texs) \in Nat /\ DOMAIN model.texs = 1..Len(model.texs)
         /\ Len(model.texs) = 0 <=> model.texs = <<>>
         /\ \A k \in 1..Len(model.texs) : model.texs[k].size \in Nat
         /\ \A j, k \in 1..Len(model.texs) :
              model.texs[j].name = model.texs[k].name => j = k
<1>1. /\ Parts \in Seq(ToSet(Parts))
      /\ model.mats \in Seq(ToSet(model.mats))
      /\ model.texs \in Seq(ToSet(model.texs))
      /\ \A p \in DOMAIN Parts :
           /\ Parts[p] \in Seq(ToSet(Parts[p])) /\ Parts[p] # <<>>
           /\ \A i \in DOMAIN Parts[p] : Parts[p][i].size \in Nat
      /\ \A k \in DOMAIN model.texs : model.texs[k].size \in Nat
      /\ \A j, k \in DOMAIN model.texs :
           model.texs[j].name = model.texs[k].name => j = k
  BY ModelAssumption DEF Parts
<1>2. ASSUME NEW S, NEW s \in Seq(S)
      PROVE  /\ Len(s) \in Nat /\ DOMAIN s = 1..Len(s)
             /\ Len(s) = 0 <=> s = <<>>
  BY <1>2, LenProperties, EmptySeq
<1>3. /\ Len(Parts) \in Nat /\ DOMAIN Parts = 1..Len(Parts)
      /\ Len(Parts) = 0 <=> Parts = <<>>
  BY <1>1, <1>2
<1>4. /\ Len(model.mats) \in Nat /\ DOMAIN model.mats = 1..Len(model.mats)
      /\ Len(model.mats) = 0 <=> model.mats = <<>>
  BY <1>1, <1>2
<1>5. /\ Len(model.texs) \in Nat /\ DOMAIN model.texs = 1..Len(model.texs)
      /\ Len(model.texs) = 0 <=> model.texs = <<>>
  BY <1>1, <1>2
<1>6. \A p \in 1..Len(Parts) :
        Len(Parts[p]) \in Nat \ {0} /\ DOMAIN Parts[p] = 1..Len(Parts[p])
  BY <1>1, <1>2, <1>3
<1> QED  BY <1>1, <1>3, <1>4, <1>5, <1>6

\* A block is added at the end of the file, and the others stay.
LEMMA PutGrows ==
  ASSUME NEW h, NEW size \in Nat, Put(h, size), Dense, ~ full', NEW o, o = ofs
  PROVE  /\ o \in Nat \ {0} /\ HeaderSize \in Nat \ {0, 1}
         /\ ofs' = o + HeaderSize + size /\ len' = ofs' /\ len = o
         /\ ofs' \in Nat \ {0}
         /\ 0 \in DOMAIN block' /\ DOMAIN block' \subseteq 0..(ofs' - 1)
         /\ block'[o] = h /\ o \in DOMAIN block'
         /\ \A x, g : Lies(x, g) => Lies(x, g)' /\ x < o
<1>1. /\ block' = [x \in DOMAIN block \union {o} |-> IF x = o THEN h ELSE block[x]]
      /\ len' = o + HeaderSize + size
      /\ ofs' = o + HeaderSize + size
  BY DEF Put, file
<1>2. /\ o \in Nat \ {0} /\ HeaderSize \in Nat \ {0, 1}
      /\ len = o /\ 0 \in DOMAIN block /\ DOMAIN block \subseteq 0..(o - 1)
  BY ScanFileAssumption DEF Dense
<1>3. 0 \in DOMAIN block' /\ DOMAIN block' \subseteq 0..(ofs' - 1)
  BY <1>1, <1>2
<1>4. \A x, g : Lies(x, g) => Lies(x, g)' /\ x < o
  BY <1>1, <1>2 DEF Lies
<1> QED  BY <1>1, <1>2, <1>3, <1>4

\* A place more that is known.
LEMMA NewPlace ==
  ASSUME NEW f \in Places, NEW k \in Nat, NEW o \in Nat
  PROVE  \E g \in Places : /\ g[k] = o
                           /\ \A j \in Nat : j # k => g[j] = f[j]
<1>1. [f EXCEPT ![k] = o] \in Places
  BY DEF Places
<1>2. /\ [f EXCEPT ![k] = o][k] = o
      /\ \A j \in Nat : j # k => [f EXCEPT ![k] = o][j] = f[j]
  BY DEF Places
<1> QED  BY <1>1, <1>2

LEMMA NewSubPlace ==
  \A su \in [Nat -> Places], p, k, o \in Nat :
    \E g \in [Nat -> Places] : /\ g[p][k] = o
                               /\ \A j \in Nat : j # k => g[p][j] = su[p][j]
                               /\ \A q \in Nat : q # p => g[q] = su[q]
<1> TAKE su \in [Nat -> Places], p, k, o \in Nat
<1>1. PICK e \in Places : e = su[p]
  OBVIOUS
<1>2. PICK f \in Places : f[k] = o /\ \A j \in Nat : j # k => f[j] = e[j]
  BY NewPlace
<1>3. [su EXCEPT ![p] = f] \in [Nat -> Places]
  OBVIOUS
<1>4. /\ [su EXCEPT ![p] = f][p] = f
      /\ \A q \in Nat : q # p => [su EXCEPT ![p] = f][q] = su[q]
  OBVIOUS
<1> QED  BY <1>1, <1>2, <1>3, <1>4

-----------------------------------------------------------------------------
(* Each step of a save that does not run out of space *)

LEMMA WritePartLays ==
  ASSUME SaveFits, NEW pa \in Places, NEW su \in [Nat -> Places],
         NEW ma \in Places, NEW te \in Places, Laid(pa, su, ma, te),
         WritePart, ~ full'
  PROVE  \E su2 \in [Nat -> Places] : Laid(pa, su2, ma, te)'
<1>0. /\ save.at = "part" /\ model \in Models /\ model' = model
      /\ save.part \in 1..Len(Parts) /\ state = "saving" /\ state' = state
      /\ libs' = libs
      /\ Dense /\ PartsLie(pa, su) /\ SubsetsLie(su)
  BY DEF WritePart, SaveFits, Laid
<1>p. PICK p \in 1..Len(Parts) : p = save.part
  BY <1>0
<1>o. PICK o : o = ofs
  OBVIOUS
<1> DEFINE h == [kind |-> "PART", first |-> o + HeaderSize, next |-> -1]
<1>1. /\ Put(h, 0) /\ partOfs' = o /\ save' = Step("subset", p, 1)
  BY <1>p, <1>o DEF WritePart
<1>h. PICK g : g = h
  OBVIOUS
<1> HIDE DEF h
<1>2. /\ o \in Nat \ {0} /\ HeaderSize \in Nat \ {0, 1}
      /\ ofs' = o + HeaderSize + 0 /\ len' = ofs' /\ len = o
      /\ ofs' \in Nat \ {0}
      /\ 0 \in DOMAIN block' /\ DOMAIN block' \subseteq 0..(ofs' - 1)
      /\ block'[o] = g /\ o \in DOMAIN block'
      /\ \A x, y : Lies(x, y) => Lies(x, y)' /\ x < o
  BY <1>0, <1>1, <1>o, <1>h, PutGrows
<1>3. /\ Len(Parts) \in Nat /\ Parts' = Parts
      /\ \A q \in 1..Len(Parts) : Len(Parts[q]) \in Nat \ {0}
  BY <1>0, ModelFits DEF Parts
<1>4. PICK x \in Nat : x = o + HeaderSize
  BY <1>2
<1>5. PICK su2 \in [Nat -> Places] :
        /\ su2[p][1] = x
        /\ \A q \in Nat : q # p => su2[q] = su[q]
  <2>1. PICK e \in Places : e = su[p]
    BY <1>3
  <2>2. PICK f \in Places : f[1] = x /\ \A j \in Nat : j # 1 => f[j] = e[j]
    <3>1. [e EXCEPT ![1] = x] \in Places
      BY DEF Places
    <3>2. /\ [e EXCEPT ![1] = x][1] = x
          /\ \A j \in Nat : j # 1 => [e EXCEPT ![1] = x][j] = e[j]
      BY DEF Places
    <3> QED  BY <3>1, <3>2
  <2>3. [su EXCEPT ![p] = f] \in [Nat -> Places]
    OBVIOUS
  <2>4. /\ [su EXCEPT ![p] = f][p] = f
        /\ \A q \in Nat : q # p => [su EXCEPT ![p] = f][q] = su[q]
    BY <1>3
  <2> QED  BY <2>2, <2>3, <2>4
<1>6. /\ save'.at = "subset" /\ save'.part = p /\ save'.item = 1
      /\ Closed = p - 1 /\ Closed' = p - 1 /\ Begun = p - 1 /\ Begun' = p
      /\ ~ Late' /\ ~ Late /\ ~ Whole' /\ Mats' = 0 /\ Texs' = 0
  BY <1>0, <1>1, <1>p DEF Step, Closed, Begun, Late, Whole, Mats, Texs
<1>7. Dense'
  BY <1>2, <1>6 DEF Dense
<1>8. PartsLie(pa, su2)'
  <2>1. ASSUME NEW q \in 1..(p - 1)
        PROVE  Lies(pa[q], PartAt(pa, su2, q))' /\ pa[q] < o
    <3>1. Lies(pa[q], PartAt(pa, su, q)) /\ q \in Nat /\ q # p
      BY <1>0, <1>3, <1>6 DEF PartsLie
    <3>2. PICK y : y = PartAt(pa, su, q)
      OBVIOUS
    <3>3. PartAt(pa, su2, q)' = y
      BY <1>3, <1>5, <3>1, <3>2 DEF PartAt, After
    <3> QED  BY <1>2, <3>1, <3>2, <3>3 DEF Lies
  <2>2. Lies(o, [kind |-> "PART", first |-> su2[p][1], next |-> -1])'
    BY <1>2, <1>4, <1>5, <1>h DEF Lies, h
  <2>3. pa[p] = o /\ (Parts # <<>> => pa[1] = HeaderSize)
    BY <1>0, <1>p, <1>o DEF PartsLie
  <2> QED  BY <1>1, <1>3, <1>6, <2>1, <2>2, <2>3 DEF PartsLie, Lies
<1>9. SubsetsLie(su2)'
  <2>1. ASSUME NEW q \in 1..(p - 1), NEW i \in 1..Subs(q)'
        PROVE  /\ Lies(su2[q][i], SubsetAt(su2, q, i))'
               /\ su2[q][i] + HeaderSize + Parts[q][i].size <= len'
    <3>1. q \in 1..Begun /\ q # p /\ q \in Nat /\ i \in 1..Subs(q)
      BY <1>3, <1>6, <2>1 DEF Subs
    <3>2. /\ Lies(su[q][i], SubsetAt(su, q, i))
          /\ su[q][i] + HeaderSize + Parts[q][i].size <= len
      BY <1>0, <3>1 DEF SubsetsLie
    <3>3. PICK y : y = SubsetAt(su, q, i)
      OBVIOUS
    <3>4. SubsetAt(su2, q, i)' = y /\ su2[q] = su[q]
      BY <1>3, <1>5, <3>1, <3>3 DEF SubsetAt, After
    <3>5. su[q][i] + HeaderSize + Parts[q][i].size <= len'
      <4>1. Parts[q][i].size \in Nat /\ su[q][i] \in Nat
        <5>1. i \in 1..Len(Parts[q]) /\ q \in 1..Len(Parts) /\ i \in Nat
          BY <1>3, <1>6, <3>1 DEF Subs
        <5>2. su[q] \in Places
          BY <3>1
        <5>3. su[q][i] \in Nat
          BY <5>1, <5>2 DEF Places
        <5> QED  BY <1>0, <5>1, <5>3, ModelFits
      <4>2. PICK c \in Nat : c = su[q][i]
        BY <4>1
      <4>3. PICK d \in Nat : d = Parts[q][i].size
        BY <4>1
      <4>4. c + HeaderSize + d <= o
        BY <1>2, <3>2, <4>2, <4>3
      <4>5. o <= len' /\ len' \in Nat /\ o \in Nat /\ HeaderSize \in Nat
        BY <1>2
      <4>6. c + HeaderSize + d <= len'
        BY <4>4, <4>5
      <4> QED  BY <4>2, <4>3, <4>6
    <3> QED  BY <1>2, <3>2, <3>3, <3>4, <3>5 DEF Lies
  <2>2. 1..Subs(p)' = {}
    BY <1>6 DEF Subs
  <2>3. su2[p][1] = ofs'
    BY <1>2, <1>4, <1>5
  <2> QED  BY <1>3, <1>6, <2>1, <2>2, <2>3 DEF SubsetsLie, Lies
<1>10. MaterialsLie(ma)' /\ TexturesLie(te)'
  BY <1>6 DEF MaterialsLie, TexturesLie
<1>11. libs' = [mats |-> libs'.mats, texs |-> libs'.texs]
  BY <1>0 DEF Laid
<1> QED  BY <1>7, <1>8, <1>9, <1>10, <1>11 DEF Laid

LEMMA WriteSubsetLays ==
  ASSUME SaveFits, NEW pa \in Places, NEW su \in [Nat -> Places],
         NEW ma \in Places, NEW te \in Places, Laid(pa, su, ma, te),
         WriteSubset, ~ full'
  PROVE  \E su2 \in [Nat -> Places] : Laid(pa, su2, ma, te)'
<1>0. /\ save.at = "subset" /\ model \in Models /\ model' = model
      /\ save.part \in 1..Len(Parts)
      /\ save.item \in 1..(Len(Parts[save.part]) + 1)
      /\ save.item <= Len(Parts[save.part])
      /\ state = "saving" /\ state' = state /\ libs' = libs /\ partOfs' = partOfs
      /\ save = Step(save.at, save.part, save.item)
      /\ Dense /\ PartsLie(pa, su) /\ SubsetsLie(su)
  BY DEF WriteSubset, SaveFits, Laid, Parts
<1>3. /\ Len(Parts) \in Nat /\ Parts' = Parts
      /\ \A q \in 1..Len(Parts) :
           /\ Len(Parts[q]) \in Nat \ {0}
           /\ \A i \in 1..Len(Parts[q]) : Parts[q][i].size \in Nat
  BY <1>0, ModelFits DEF Parts
<1>p. PICK p \in 1..Len(Parts) : p = save.part
  BY <1>0
<1>i. PICK i \in 1..Len(Parts[p]) : i = save.item
  BY <1>0, <1>3, <1>p
<1>o. PICK o : o = ofs
  OBVIOUS
<1>z. PICK z \in Nat : z = Parts[p][i].size
  BY <1>3
<1>n. p \in Nat /\ i \in Nat /\ i + 1 \in Nat
  BY <1>3
<1>g. PICK g : g = [kind |-> "SUBSET", mat |-> Parts[p][i].mat,
                    data |-> Parts[p][i].data, size |-> z,
                    next |-> IF i = Len(Parts[p]) THEN -1 ELSE o + HeaderSize + z]
  OBVIOUS
<1>1. Put(g, z) /\ save' = Step("subset", p, i + 1)
  BY <1>0, <1>p, <1>i, <1>z, <1>g, <1>o DEF WriteSubset, NextOfs, Parts, Step
<1>2. /\ o \in Nat \ {0} /\ HeaderSize \in Nat \ {0, 1}
      /\ ofs' = o + HeaderSize + z /\ len' = ofs' /\ len = o
      /\ ofs' \in Nat \ {0}
      /\ 0 \in DOMAIN block' /\ DOMAIN block' \subseteq 0..(ofs' - 1)
      /\ block'[o] = g /\ o \in DOMAIN block'
      /\ \A x, y : Lies(x, y) => Lies(x, y)' /\ x < o
  BY <1>0, <1>1, <1>o, PutGrows
<1>4. PICK x \in Nat : x = o + HeaderSize + z
  BY <1>2
<1>5. PICK su2 \in [Nat -> Places] :
        /\ su2[p][i + 1] = x
        /\ \A j \in Nat : j # i + 1 => su2[p][j] = su[p][j]
        /\ \A q \in Nat : q # p => su2[q] = su[q]
  <2>1. PICK e \in Places : e = su[p]
    BY <1>n
  <2>2. PICK f \in Places :
          f[i + 1] = x /\ \A j \in Nat : j # i + 1 => f[j] = e[j]
    <3>1. [e EXCEPT ![i + 1] = x] \in Places
      BY <1>n DEF Places
    <3>2. /\ [e EXCEPT ![i + 1] = x][i + 1] = x
          /\ \A j \in Nat : j # i + 1 => [e EXCEPT ![i + 1] = x][j] = e[j]
      BY <1>n DEF Places
    <3> QED  BY <3>1, <3>2
  <2>3. [su EXCEPT ![p] = f] \in [Nat -> Places]
    OBVIOUS
  <2>4. /\ [su EXCEPT ![p] = f][p] = f
        /\ \A q \in Nat : q # p => [su EXCEPT ![p] = f][q] = su[q]
    BY <1>n
  <2> QED  BY <2>1, <2>2, <2>3, <2>4
<1>6. /\ save'.at = "subset" /\ save'.part = p /\ save'.item = i + 1
      /\ Closed = p - 1 /\ Closed' = p - 1 /\ Begun = p /\ Begun' = p
      /\ ~ Late' /\ ~ Late /\ ~ Whole' /\ Mats' = 0 /\ Texs' = 0
  BY <1>0, <1>1, <1>p DEF Step, Closed, Begun, Late, Whole, Mats, Texs
<1>7. Dense'
  BY <1>2, <1>6 DEF Dense
<1>8. PartsLie(pa, su2)'
  <2>1. ASSUME NEW q \in 1..(p - 1)
        PROVE  Lies(pa[q], PartAt(pa, su2, q))' /\ pa[q] < partOfs'
    <3>1. Lies(pa[q], PartAt(pa, su, q)) /\ q \in Nat /\ q # p /\ pa[q] < partOfs
      BY <1>0, <1>3, <1>6 DEF PartsLie
    <3>2. PICK y : y = PartAt(pa, su, q)
      OBVIOUS
    <3>3. PartAt(pa, su2, q)' = y
      BY <1>3, <1>5, <3>1, <3>2 DEF PartAt, After
    <3> QED  BY <1>0, <1>2, <3>1, <3>2, <3>3 DEF Lies
  <2>2. Lies(partOfs, [kind |-> "PART", first |-> su2[p][1], next |-> -1])'
    <3>1. su2[p][1] = su[p][1]
      BY <1>5
    <3>2. PICK b : b = partOfs
      OBVIOUS
    <3>3. PICK y : y = [kind |-> "PART", first |-> su[p][1], next |-> -1]
      OBVIOUS
    <3>4. Lies(b, y)
      BY <1>0, <1>p, <3>2, <3>3 DEF PartsLie
    <3> QED  BY <1>0, <1>2, <3>1, <3>2, <3>3, <3>4 DEF Lies
  <2>3. partOfs' = pa[p] /\ (Parts # <<>> => pa[1] = HeaderSize)
    BY <1>0, <1>p DEF PartsLie
  <2> QED  BY <1>3, <1>6, <2>1, <2>2, <2>3 DEF PartsLie, Lies
<1>9. SubsetsLie(su2)'
  <2>1. ASSUME NEW q \in 1..p, NEW j \in 1..Subs(q), q < p \/ j < i
        PROVE  /\ Lies(su2[q][j], SubsetAt(su2, q, j))'
               /\ su2[q][j] + HeaderSize + Parts[q][j].size <= len'
    <3>1. q \in 1..Begun /\ q \in Nat /\ q \in 1..Len(Parts)
          /\ j \in 1..Len(Parts[q]) /\ j \in Nat
      <4>1. q \in Nat /\ q \in 1..Len(Parts) /\ q \in 1..Begun
        BY <1>3, <1>6, <1>n
      <4>2. Subs(q) = IF q < p THEN Len(Parts[q]) ELSE i - 1
        BY <1>i, <1>n, <1>6, <4>1 DEF Subs
      <4>3. CASE q < p
        BY <1>3, <2>1, <4>1, <4>2, <4>3
      <4>4. CASE ~ q < p
        <5>1. q = p /\ j \in 1..(i - 1)
          BY <1>n, <2>1, <4>1, <4>2, <4>4
        <5>2. Len(Parts[p]) \in Nat
          BY <1>3
        <5> QED  BY <1>n, <4>1, <5>1, <5>2
      <4> QED  BY <4>3, <4>4
    <3>2. /\ Lies(su[q][j], SubsetAt(su, q, j))
          /\ su[q][j] + HeaderSize + Parts[q][j].size <= len
      BY <1>0, <2>1, <3>1 DEF SubsetsLie
    <3>3. PICK y : y = SubsetAt(su, q, j)
      OBVIOUS
    <3>4. su2[q][j] = su[q][j] /\ su2[q][j + 1] = su[q][j + 1]
      <4>1. CASE q # p
        BY <1>5, <3>1, <4>1
      <4>2. CASE q = p
        <5>1. j < i /\ j + 1 \in Nat
          BY <1>n, <2>1, <3>1, <4>2
        <5> QED  BY <1>n, <1>5, <3>1, <4>2, <5>1
      <4> QED  BY <4>1, <4>2
    <3>5. SubsetAt(su2, q, j)' = y
      BY <1>3, <3>3, <3>4 DEF SubsetAt, After
    <3>6. Parts[q][j].size \in Nat /\ su[q][j] \in Nat
      <4>1. su[q] \in Places
        BY <3>1
      <4> QED  BY <1>3, <3>1, <4>1 DEF Places
    <3>7. su[q][j] + HeaderSize + Parts[q][j].size <= len'
      <4>1. PICK c \in Nat : c = su[q][j]
        BY <3>6
      <4>2. PICK d \in Nat : d = Parts[q][j].size
        BY <3>6
      <4>3. c + HeaderSize + d <= o
        BY <1>2, <3>2, <4>1, <4>2
      <4>4. o <= len' /\ len' \in Nat /\ o \in Nat /\ HeaderSize \in Nat
        BY <1>2
      <4>5. c + HeaderSize + d <= len'
        BY <4>3, <4>4
      <4> QED  BY <4>1, <4>2, <4>5
    <3> QED  BY <1>2, <3>2, <3>3, <3>4, <3>5, <3>7 DEF Lies
  <2>2. /\ Lies(su2[p][i], SubsetAt(su2, p, i))'
        /\ su2[p][i] + HeaderSize + Parts[p][i].size <= len'
    <3>1. su2[p][i] = o
      BY <1>0, <1>p, <1>i, <1>o, <1>n, <1>5 DEF SubsetsLie
    <3>2. SubsetAt(su2, p, i)' = g
      BY <1>3, <1>4, <1>5, <1>g, <1>z DEF SubsetAt, After
    <3> QED  BY <1>2, <1>z, <3>1, <3>2 DEF Lies
  <2>3. ASSUME NEW q \in 1..p, NEW j \in 1..Subs(q)'
        PROVE  (j \in 1..Subs(q) /\ (q < p \/ j < i)) \/ (q = p /\ j = i)
    BY <1>0, <1>3, <1>p, <1>i, <1>n, <1>6, <2>3 DEF Subs
  <2>4. su2[p][i + 1] = ofs'
    BY <1>2, <1>4, <1>5
  <2>5. ASSUME NEW q \in 1..p, NEW j \in 1..Subs(q)'
        PROVE  /\ Lies(su2[q][j], SubsetAt(su2, q, j))'
               /\ su2[q][j] + HeaderSize + Parts'[q][j].size <= len'
    <3>1. CASE q = p /\ j = i
      BY <1>3, <2>2, <3>1
    <3>2. CASE ~ (q = p /\ j = i)
      <4>1. j \in 1..Subs(q) /\ (q < p \/ j < i)
        BY <2>3, <3>2
      <4> QED  BY <1>3, <2>1, <4>1
    <3> QED  BY <3>1, <3>2
  <2> QED  BY <1>6, <2>4, <2>5 DEF SubsetsLie
<1>10. MaterialsLie(ma)' /\ TexturesLie(te)'
  BY <1>6 DEF MaterialsLie, TexturesLie
<1>11. libs' = [mats |-> libs'.mats, texs |-> libs'.texs]
  BY <1>0 DEF Laid
<1> QED  BY <1>7, <1>8, <1>9, <1>10, <1>11 DEF Laid

LEMMA ClosePartLays ==
  ASSUME SaveFits, NEW pa \in Places, NEW su \in [Nat -> Places],
         NEW ma \in Places, NEW te \in Places, Laid(pa, su, ma, te), ClosePart
  PROVE  \E pa2 \in Places, ma2 \in Places : Laid(pa2, su, ma2, te)'
<1>0. /\ save.at = "subset" /\ model \in Models /\ model' = model
      /\ save.part \in 1..Len(Parts)
      /\ save.item \in 1..(Len(Parts[save.part]) + 1)
      /\ save.item > Len(Parts[save.part])
      /\ state = "saving" /\ state' = state /\ libs' = libs /\ partOfs' = partOfs
      /\ len' = len /\ ofs' = ofs
      /\ save = Step(save.at, save.part, save.item)
      /\ Dense /\ PartsLie(pa, su) /\ SubsetsLie(su)
  BY DEF ClosePart, SaveFits, Laid, Parts
<1>3. /\ Len(Parts) \in Nat /\ Parts' = Parts
      /\ \A q \in 1..Len(Parts) : Len(Parts[q]) \in Nat \ {0}
  BY <1>0, ModelFits DEF Parts
<1>p. PICK p \in 1..Len(Parts) : p = save.part
  BY <1>0
<1>n. p \in Nat /\ p + 1 \in Nat
  BY <1>3
<1>o. PICK o \in Nat \ {0} : o = ofs
  BY <1>0 DEF Dense
<1>b. PICK b : b = partOfs
  OBVIOUS
<1>v. PICK v : v = IF p = Len(Parts) THEN -1 ELSE o
  OBVIOUS
<1>y. PICK y : y = [kind |-> "PART", first |-> su[p][1], next |-> -1]
  OBVIOUS
<1>z. PICK z : z = [kind |-> "PART", first |-> su[p][1], next |-> v]
  OBVIOUS
<1>1. Lies(b, y) /\ pa[p] = b /\ \A q \in 1..(p - 1) : pa[q] < b
  BY <1>0, <1>b, <1>p, <1>y DEF PartsLie, Closed, Late, Whole
<1>2. block' = [block EXCEPT ![b].next = v]
  BY <1>0, <1>1, <1>b, <1>o, <1>p, <1>v DEF ClosePart, Lies, Parts
<1>4. /\ DOMAIN block' = DOMAIN block /\ block'[b] = z
      /\ \A x \in DOMAIN block : x # b => block'[x] = block[x]
  <2>1. DOMAIN block' = DOMAIN block /\ block'[b] = [y EXCEPT !.next = v]
    BY <1>1, <1>2 DEF Lies
  <2>2. [y EXCEPT !.next = v] = z
    BY <1>y, <1>z
  <2>3. ASSUME NEW x \in DOMAIN block, x # b  PROVE block'[x] = block[x]
    BY <1>2, <2>3
  <2> QED  BY <2>1, <2>2, <2>3
<1>5. Lies(b, z)'
  BY <1>1, <1>4 DEF Lies
<1>6. \A x, g : Lies(x, g) /\ x # b => Lies(x, g)'
  BY <1>4 DEF Lies
<1>7. PICK pa2 \in Places : /\ p # Len(Parts) => pa2[p + 1] = o
                            /\ \A j \in Nat : j # p + 1 => pa2[j] = pa[j]
  <2>1. [pa EXCEPT ![p + 1] = o] \in Places
    BY <1>n DEF Places
  <2>2. /\ [pa EXCEPT ![p + 1] = o][p + 1] = o
        /\ \A j \in Nat : j # p + 1 => [pa EXCEPT ![p + 1] = o][j] = pa[j]
    BY <1>n DEF Places
  <2> QED  BY <2>1, <2>2
<1>8. PICK ma2 \in Places : ma2[1] = o
  <2>1. [ma EXCEPT ![1] = o] \in Places /\ [ma EXCEPT ![1] = o][1] = o
    BY DEF Places
  <2> QED  BY <2>1
<1>9. /\ Closed = p - 1 /\ Closed' = p /\ Begun = p /\ Begun' = p
      /\ ~ Late /\ ~ Whole' /\ Mats' = 0 /\ Texs' = 0
      /\ \/ p = Len(Parts) /\ save'.at = "mat" /\ save'.item = 1
         \/ p # Len(Parts) /\ save'.at = "part" /\ save'.part = p + 1
  <2>1. save' = IF p = Len(Parts) THEN Step("mat", 0, 1) ELSE Step("part", p + 1, 0)
    BY <1>p DEF ClosePart, Parts
  <2>2. CASE p = Len(Parts)
    BY <1>0, <1>3, <1>n, <1>p, <2>1, <2>2
      DEF Step, Closed, Begun, Late, Whole, Mats, Texs
  <2>3. CASE p # Len(Parts)
    BY <1>0, <1>3, <1>n, <1>p, <2>1, <2>3
      DEF Step, Closed, Begun, Late, Whole, Mats, Texs
  <2> QED  BY <2>2, <2>3
<1>10. Dense'
  BY <1>0, <1>4, <1>9 DEF Dense
<1>11. PartsLie(pa2, su)'
  <2>1. ASSUME NEW q \in 1..p
        PROVE  Lies(pa2[q], PartAt(pa2, su, q))'
    <3>1. q \in Nat /\ pa2[q] = pa[q]
      BY <1>n, <1>7
    <3>2. CASE q = p
      <4>1. PartAt(pa2, su, q)' = z
        BY <1>3, <1>7, <1>v, <1>z, <3>2 DEF PartAt, After
      <4> QED  BY <1>1, <1>5, <3>1, <3>2, <4>1 DEF Lies
    <3>3. CASE q # p
      <4>1. q \in 1..(p - 1)
        BY <1>n, <3>3
      <4>2. PICK g : g = PartAt(pa, su, q)
        OBVIOUS
      <4>3. Lies(pa[q], g) /\ pa[q] < b /\ pa[q] \in Nat
        BY <1>0, <1>1, <1>9, <3>1, <4>1, <4>2 DEF PartsLie, Places
      <4>4. pa[q] # b
        BY <4>3
      <4>5. pa2[q + 1] = pa[q + 1]
        BY <1>n, <1>7, <4>1
      <4>6. PartAt(pa2, su, q)' = g
        BY <1>3, <4>2, <4>5 DEF PartAt, After
      <4> QED  BY <1>6, <3>1, <4>3, <4>4, <4>6 DEF Lies
    <3> QED  BY <3>2, <3>3
  <2>2. Parts # <<>> => pa2[1] = HeaderSize
    <3>1. p + 1 # 1 /\ 1 \in Nat
      BY <1>n
    <3> QED  BY <1>0, <1>7, <3>1 DEF PartsLie
  <2> QED  BY <1>0, <1>3, <1>7, <1>9, <1>o, <2>1, <2>2 DEF PartsLie
<1>12. SubsetsLie(su)'
  <2>1. ASSUME NEW q \in 1..p, NEW i \in 1..Subs(q)'
        PROVE  /\ Lies(su[q][i], SubsetAt(su, q, i))'
               /\ su[q][i] + HeaderSize + Parts[q][i].size <= len'
    <3>1. i \in 1..Subs(q)
      <4>1. i \in 1..Len(Parts[q])
        BY <1>3, <1>n, <1>9, <2>1 DEF Subs
      <4>2. CASE q = p
        <5>1. PICK k \in Nat : k = Len(Parts[p])
          BY <1>3
        <5>2. save.item = k + 1
          BY <1>0, <1>p, <5>1
        <5>3. ~ p <= Closed
          BY <1>n, <1>9
        <5>4. Subs(q) = Len(Parts[q])
          BY <4>2, <5>1, <5>2, <5>3 DEF Subs
        <5> QED  BY <4>1, <5>4
      <4>3. CASE q # p
        <5>1. Subs(q) = Len(Parts[q])
          BY <1>n, <1>9, <4>3 DEF Subs
        <5> QED  BY <4>1, <5>1
      <4> QED  BY <4>2, <4>3
    <3>2. PICK g : g = SubsetAt(su, q, i)
      OBVIOUS
    <3>3. /\ Lies(su[q][i], g)
          /\ su[q][i] + HeaderSize + Parts[q][i].size <= len
      BY <1>0, <1>9, <3>1, <3>2 DEF SubsetsLie
    <3>4. su[q][i] # b
      BY <1>1, <1>y, <3>2, <3>3 DEF Lies, SubsetAt
    <3>5. SubsetAt(su, q, i)' = g
      BY <1>3, <3>2 DEF SubsetAt, After
    <3> QED  BY <1>0, <1>6, <3>3, <3>4, <3>5 DEF Lies
  <2> QED  BY <1>3, <1>9, <2>1 DEF SubsetsLie, Lies
<1>13. MaterialsLie(ma2)' /\ TexturesLie(te)'
  BY <1>0, <1>8, <1>9, <1>o DEF MaterialsLie, TexturesLie, Late
<1>14. libs' = [mats |-> libs'.mats, texs |-> libs'.texs]
  BY <1>0 DEF Laid
<1> QED  BY <1>10, <1>11, <1>12, <1>13, <1>14 DEF Laid

\* The parts stay as they are when only the libraries grow.
LEMMA PartsStay ==
  ASSUME model \in Models, model' = model, Late, Late',
         save.at \notin {"part", "subset"}, save'.at \notin {"part", "subset"},
         NEW pa \in Places, NEW su \in [Nat -> Places],
         PartsLie(pa, su), SubsetsLie(su),
         \A x, g : Lies(x, g) => Lies(x, g)',
         len \in Nat, len' \in Nat, len <= len'
  PROVE  PartsLie(pa, su)' /\ SubsetsLie(su)'
<1>1. /\ Len(Parts) \in Nat /\ Parts' = Parts
      /\ \A q \in 1..Len(Parts) :
           /\ Len(Parts[q]) \in Nat
           /\ \A i \in 1..Len(Parts[q]) : Parts[q][i].size \in Nat
  BY ModelFits DEF Parts
<1>2. /\ Closed = Len(Parts) /\ Closed' = Len(Parts)
      /\ Begun = Len(Parts) /\ Begun' = Len(Parts)
  BY <1>1 DEF Closed, Begun
<1>3. PartsLie(pa, su)'
  <2>1. ASSUME NEW q \in 1..Len(Parts)
        PROVE  Lies(pa[q], PartAt(pa, su, q))'
    <3>1. PICK g : g = PartAt(pa, su, q)
      OBVIOUS
    <3>2. PartAt(pa, su, q)' = g
      BY <1>1, <3>1 DEF PartAt, After
    <3>3. Lies(pa[q], g)
      BY <1>2, <3>1 DEF PartsLie
    <3> QED  BY <3>2, <3>3 DEF Lies
  <2> QED  BY <1>1, <1>2, <2>1 DEF PartsLie
<1>4. SubsetsLie(su)'
  <2>1. ASSUME NEW q \in 1..Len(Parts), NEW i \in 1..Len(Parts[q])
        PROVE  /\ Lies(su[q][i], SubsetAt(su, q, i))'
               /\ su[q][i] + HeaderSize + Parts[q][i].size <= len'
    <3>1. PICK g : g = SubsetAt(su, q, i)
      OBVIOUS
    <3>2. SubsetAt(su, q, i)' = g
      BY <1>1, <3>1 DEF SubsetAt, After
    <3>3. i \in 1..Subs(q)
      BY <1>1, <1>2, <2>1 DEF Subs
    <3>4. Lies(su[q][i], g) /\ su[q][i] + HeaderSize + Parts[q][i].size <= len
      BY <1>2, <3>1, <3>3 DEF SubsetsLie
    <3>5. su[q][i] + HeaderSize + Parts[q][i].size <= len'
      <4>1. su[q] \in Places
        BY <1>1
      <4>2. PICK c \in Nat : c = su[q][i]
        <5>1. i \in Nat
          BY <1>1
        <5> QED  BY <4>1, <5>1 DEF Places
      <4>3. PICK d \in Nat : d = Parts[q][i].size
        BY <1>1
      <4>4. c + HeaderSize + d <= len /\ HeaderSize \in Nat
        BY <3>4, <4>2, <4>3, ScanFileAssumption
      <4>5. c + HeaderSize + d <= len'
        BY <4>4
      <4> QED  BY <4>2, <4>3, <4>5
    <3> QED  BY <3>2, <3>4, <3>5 DEF Lies
  <2>2. \A q \in 1..Len(Parts) : Subs(q)' = Len(Parts[q])
    BY <1>1, <1>2 DEF Subs
  <2> QED  BY <1>1, <1>2, <2>1, <2>2 DEF SubsetsLie, Lies
<1> QED  BY <1>3, <1>4

LEMMA WriteMaterialLays ==
  ASSUME SaveFits, NEW pa \in Places, NEW su \in [Nat -> Places],
         NEW ma \in Places, NEW te \in Places, Laid(pa, su, ma, te),
         WriteMaterial, ~ full'
  PROVE  \E ma2 \in Places, te2 \in Places : Laid(pa, su, ma2, te2)'
<1>0. /\ save.at = "mat" /\ model \in Models /\ model' = model
      /\ save.item \in 1..(Len(model.mats) + 1)
      /\ state = "saving" /\ state' = state
      /\ save = Step(save.at, save.part, save.item)
      /\ Dense /\ PartsLie(pa, su) /\ SubsetsLie(su) /\ MaterialsLie(ma)
      /\ libs = [mats |-> libs.mats, texs |-> libs.texs]
  BY DEF WriteMaterial, SaveFits, Laid
<1>1. /\ Len(model.mats) \in Nat /\ Len(model.mats) = 0 <=> model.mats = <<>>
  BY <1>0, ModelFits
<1>k. PICK k \in 1..(Len(model.mats) + 1) : k = save.item
  BY <1>0
<1>n. k \in Nat /\ k + 1 \in Nat
  BY <1>1
<1>o. PICK o : o = ofs
  OBVIOUS
<1>l. PICK l : l = After(model.mats, ma, 0)
  OBVIOUS
<1>2. ma[k] = o /\ (k > 1 => libs.mats = l)
  BY <1>0, <1>k, <1>l, <1>o DEF MaterialsLie, Late
<1>3. libs'.mats = l /\ libs' = [mats |-> libs'.mats, texs |-> libs'.texs]
  <2>1. libs' = IF k = 1 THEN [libs EXCEPT !.mats = LibOfs(model.mats)] ELSE libs
    BY <1>k DEF WriteMaterial
  <2>2. CASE k = 1
    <3>1. LibOfs(model.mats) = l
      BY <1>1, <1>2, <1>l, <1>o, <2>2 DEF LibOfs, After
    <3>2. PICK t : t = libs.texs
      OBVIOUS
    <3>3. PICK m : m = libs.mats
      OBVIOUS
    <3>4. libs = [mats |-> m, texs |-> t]
      BY <1>0, <3>2, <3>3
    <3>5. libs' = [mats |-> l, texs |-> t]
      BY <2>1, <2>2, <3>1, <3>4
    <3> QED  BY <3>5
  <2>3. CASE k # 1
    BY <1>0, <1>2, <1>n, <2>1, <2>3
  <2> QED  BY <2>2, <2>3
<1>4. Late /\ ~ Whole /\ ~ Whole' /\ Mats = k - 1
  BY <1>0, <1>k DEF Late, Whole, Mats
<1>5. CASE k <= Len(model.mats)
  <2>g. PICK g : g = [kind |-> "MATERIAL", name |-> model.mats[k],
                      next |-> IF k = Len(model.mats) THEN -1
                               ELSE o + HeaderSize + 0]
    OBVIOUS
  <2>1. Put(g, 0) /\ save' = Step("mat", 0, k + 1)
    BY <1>5, <1>k, <1>o, <2>g DEF WriteMaterial, NextOfs, LastOf
  <2>2. /\ o \in Nat \ {0} /\ HeaderSize \in Nat \ {0, 1}
        /\ ofs' = o + HeaderSize + 0 /\ len' = ofs' /\ len = o
        /\ ofs' \in Nat \ {0}
        /\ 0 \in DOMAIN block' /\ DOMAIN block' \subseteq 0..(ofs' - 1)
        /\ block'[o] = g /\ o \in DOMAIN block'
        /\ \A x, y : Lies(x, y) => Lies(x, y)' /\ x < o
    BY <1>0, <1>o, <2>1, PutGrows
  <2>3. PICK x \in Nat : x = o + HeaderSize + 0
    BY <2>2
  <2>4. PICK ma2 \in Places : /\ ma2[k + 1] = x
                              /\ \A j \in Nat : j # k + 1 => ma2[j] = ma[j]
    <3>1. [ma EXCEPT ![k + 1] = x] \in Places
      BY <1>n DEF Places
    <3>2. /\ [ma EXCEPT ![k + 1] = x][k + 1] = x
          /\ \A j \in Nat : j # k + 1 => [ma EXCEPT ![k + 1] = x][j] = ma[j]
      BY <1>n DEF Places
    <3> QED  BY <3>1, <3>2
  <2>5. /\ save'.at = "mat" /\ save'.item = k + 1
        /\ Late' /\ Mats' = k /\ Texs' = 0
    BY <1>4, <1>n, <2>1 DEF Step, Late, Mats, Texs
  <2>6. Dense'
    BY <1>4, <2>2 DEF Dense
  <2>7. PartsLie(pa, su)' /\ SubsetsLie(su)'
    <3>1. len \in Nat /\ len' \in Nat /\ len <= len'
      BY <2>2
    <3> QED  BY <1>0, <1>4, <2>2, <2>5, <3>1, PartsStay
  <2>8. MaterialsLie(ma2)'
    <3>1. ASSUME NEW j \in 1..k
          PROVE  Lies(ma2[j], MaterialAt(ma2, j))'
      <4>1. j \in Nat /\ ma2[j] = ma[j]
        BY <1>n, <2>4
      <4>2. CASE j = k
        <5>1. MaterialAt(ma2, j)' = g
          BY <1>0, <2>3, <2>4, <2>g, <4>2 DEF MaterialAt, After
        <5> QED  BY <1>2, <2>2, <4>1, <4>2, <5>1 DEF Lies
      <4>3. CASE j # k
        <5>1. j \in 1..Mats
          BY <1>4, <1>n, <4>3
        <5>2. PICK y : y = MaterialAt(ma, j)
          OBVIOUS
        <5>3. ma2[j + 1] = ma[j + 1]
          BY <1>n, <2>4, <4>1, <4>3
        <5>4. MaterialAt(ma2, j)' = y
          BY <1>0, <5>2, <5>3 DEF MaterialAt, After
        <5> QED  BY <1>0, <2>2, <4>1, <5>1, <5>2, <5>4 DEF MaterialsLie, Lies
      <4> QED  BY <4>2, <4>3
    <3>2. After(model.mats, ma2, 0)' = l
      <4>1. ma2[1] = ma[1]
        BY <1>n, <2>4
      <4> QED  BY <1>0, <1>l, <4>1 DEF After
    <3> QED  BY <1>3, <2>2, <2>3, <2>4, <2>5, <3>1, <3>2 DEF MaterialsLie, Lies
  <2>9. TexturesLie(te)'
    BY <2>5 DEF TexturesLie
  <2> QED  BY <1>3, <2>6, <2>7, <2>8, <2>9 DEF Laid
<1>6. CASE k > Len(model.mats)
  <2>1. save' = Step("tex", 0, 1) /\ block' = block /\ len' = len /\ ofs' = ofs
    BY <1>6, <1>k DEF WriteMaterial, file
  <2>2. k = Len(model.mats) + 1
    BY <1>1, <1>6
  <2>3. /\ save'.at = "tex" /\ save'.item = 1
        /\ Late' /\ Mats' = Len(model.mats) /\ Texs' = 0
    BY <1>0, <1>4, <2>1 DEF Step, Late, Mats, Texs
  <2>4. \A x, g : Lies(x, g) => Lies(x, g)'
    BY <2>1 DEF Lies
  <2>5. o \in Nat
    BY <1>0, <1>o DEF Dense
  <2>6. PICK te2 \in Places : te2[1] = o
    <3>1. [te EXCEPT ![1] = o] \in Places /\ [te EXCEPT ![1] = o][1] = o
      BY <2>5 DEF Places
    <3> QED  BY <3>1
  <2>7. Dense'
    BY <1>0, <1>4, <2>1 DEF Dense
  <2>8. PartsLie(pa, su)' /\ SubsetsLie(su)'
    <3>1. len \in Nat /\ len' \in Nat /\ len <= len'
      BY <1>0, <2>1 DEF Dense
    <3> QED  BY <1>0, <1>4, <2>3, <2>4, <3>1, PartsStay
  <2>9. MaterialsLie(ma)'
    <3>1. ASSUME NEW j \in 1..Len(model.mats)
          PROVE  Lies(ma[j], MaterialAt(ma, j))'
      <4>1. PICK y : y = MaterialAt(ma, j)
        OBVIOUS
      <4>2. MaterialAt(ma, j)' = y
        BY <1>0, <4>1 DEF MaterialAt, After
      <4>3. Lies(ma[j], y)
        BY <1>0, <1>1, <1>4, <2>2, <4>1 DEF MaterialsLie
      <4> QED  BY <2>4, <4>2, <4>3 DEF Lies
    <3>2. After(model.mats, ma, 0)' = l
      BY <1>0, <1>l DEF After
    <3> QED  BY <1>3, <2>3, <3>1, <3>2 DEF MaterialsLie, Lies
  <2>10. TexturesLie(te2)'
    BY <1>o, <2>1, <2>3, <2>6 DEF TexturesLie
  <2> QED  BY <1>3, <2>7, <2>8, <2>9, <2>10 DEF Laid
<1> QED  BY <1>1, <1>5, <1>6

LEMMA WriteTextureLays ==
  ASSUME SaveFits, NEW pa \in Places, NEW su \in [Nat -> Places],
         NEW ma \in Places, NEW te \in Places, Laid(pa, su, ma, te),
         WriteTexture, ~ full'
  PROVE  \E te2 \in Places : Laid(pa, su, ma, te2)'
<1>0. /\ save.at = "tex" /\ model \in Models /\ model' = model
      /\ save.item \in 1..(Len(model.texs) + 1)
      /\ state = "saving" /\ state' = state
      /\ save = Step(save.at, save.part, save.item)
      /\ Dense /\ PartsLie(pa, su) /\ SubsetsLie(su) /\ MaterialsLie(ma)
      /\ TexturesLie(te)
      /\ libs = [mats |-> libs.mats, texs |-> libs.texs]
  BY DEF WriteTexture, SaveFits, Laid
<1>1. /\ Len(model.texs) \in Nat /\ Len(model.texs) = 0 <=> model.texs = <<>>
      /\ \A j \in 1..Len(model.texs) : model.texs[j].size \in Nat
  BY <1>0, ModelFits
<1>k. PICK k \in 1..(Len(model.texs) + 1) : k = save.item
  BY <1>0
<1>n. k \in Nat /\ k + 1 \in Nat
  BY <1>1
<1>o. PICK o : o = ofs
  OBVIOUS
<1>l. PICK l : l = After(model.texs, te, 0)
  OBVIOUS
<1>m. PICK m : m = libs.mats
  OBVIOUS
<1>2. /\ te[k] = o /\ (k > 1 => libs.texs = l)
      /\ m = After(model.mats, ma, 0)
  BY <1>0, <1>k, <1>l, <1>m, <1>o DEF TexturesLie, MaterialsLie, Late
<1>3. /\ libs'.mats = m /\ libs'.texs = l
      /\ libs' = [mats |-> libs'.mats, texs |-> libs'.texs]
  <2>1. libs' = IF k = 1 THEN [libs EXCEPT !.texs = LibOfs(model.texs)] ELSE libs
    BY <1>k DEF WriteTexture
  <2>2. CASE k = 1
    <3>1. LibOfs(model.texs) = l
      BY <1>1, <1>2, <1>l, <1>o, <2>2 DEF LibOfs, After
    <3>2. PICK t : t = libs.texs
      OBVIOUS
    <3>3. libs = [mats |-> m, texs |-> t]
      BY <1>0, <1>m, <3>2
    <3>4. libs' = [mats |-> m, texs |-> l]
      BY <2>1, <2>2, <3>1, <3>3
    <3> QED  BY <3>4
  <2>3. CASE k # 1
    BY <1>0, <1>2, <1>m, <1>n, <2>1, <2>3
  <2> QED  BY <2>2, <2>3
<1>4. /\ Late /\ ~ Whole /\ ~ Whole' /\ Texs = k - 1 /\ Mats = Len(model.mats)
  BY <1>0, <1>k DEF Late, Whole, Mats, Texs
<1>m2. ASSUME Late', save'.at # "mat", Mats' = Len(model.mats),
              \A x, y : Lies(x, y) => Lies(x, y)'
       PROVE  MaterialsLie(ma)'
  <2>1. ASSUME NEW j \in 1..Len(model.mats)
        PROVE  Lies(ma[j], MaterialAt(ma, j))'
    <3>1. PICK y : y = MaterialAt(ma, j)
      OBVIOUS
    <3>2. MaterialAt(ma, j)' = y
      BY <1>0, <3>1 DEF MaterialAt, After
    <3>3. Lies(ma[j], y)
      BY <1>0, <1>4, <3>1 DEF MaterialsLie
    <3> QED  BY <1>m2, <3>2, <3>3 DEF Lies
  <2>2. After(model.mats, ma, 0)' = m
    BY <1>0, <1>2 DEF After
  <2> QED  BY <1>3, <1>m2, <2>1, <2>2 DEF MaterialsLie, Lies
<1>5. CASE k <= Len(model.texs)
  <2>z. PICK z \in Nat : z = model.texs[k].size
    BY <1>1, <1>5, <1>n
  <2>g. PICK g : g = [kind |-> "TEX", name |-> model.texs[k].name, size |-> z,
                      next |-> IF k = Len(model.texs) THEN -1
                               ELSE o + HeaderSize + z]
    OBVIOUS
  <2>1. Put(g, z) /\ save' = Step("tex", 0, k + 1)
    BY <1>5, <1>k, <1>o, <2>z, <2>g DEF WriteTexture, NextOfs, LastOf
  <2>2. /\ o \in Nat \ {0} /\ HeaderSize \in Nat \ {0, 1}
        /\ ofs' = o + HeaderSize + z /\ len' = ofs' /\ len = o
        /\ ofs' \in Nat \ {0}
        /\ 0 \in DOMAIN block' /\ DOMAIN block' \subseteq 0..(ofs' - 1)
        /\ block'[o] = g /\ o \in DOMAIN block'
        /\ \A x, y : Lies(x, y) => Lies(x, y)' /\ x < o
    BY <1>0, <1>o, <2>1, PutGrows
  <2>3. PICK x \in Nat : x = o + HeaderSize + z
    BY <2>2
  <2>4. PICK te2 \in Places : /\ te2[k + 1] = x
                              /\ \A j \in Nat : j # k + 1 => te2[j] = te[j]
    <3>1. [te EXCEPT ![k + 1] = x] \in Places
      BY <1>n DEF Places
    <3>2. /\ [te EXCEPT ![k + 1] = x][k + 1] = x
          /\ \A j \in Nat : j # k + 1 => [te EXCEPT ![k + 1] = x][j] = te[j]
      BY <1>n DEF Places
    <3> QED  BY <3>1, <3>2
  <2>5. /\ save'.at = "tex" /\ save'.item = k + 1
        /\ Late' /\ Texs' = k /\ Mats' = Len(model.mats)
    BY <1>0, <1>4, <1>n, <2>1 DEF Step, Late, Mats, Texs
  <2>6. Dense'
    BY <1>4, <2>2 DEF Dense
  <2>7. PartsLie(pa, su)' /\ SubsetsLie(su)'
    <3>1. len \in Nat /\ len' \in Nat /\ len <= len'
      BY <2>2
    <3> QED  BY <1>0, <1>4, <2>2, <2>5, <3>1, PartsStay
  <2>8. TexturesLie(te2)'
    <3>1. ASSUME NEW j \in 1..k
          PROVE  /\ Lies(te2[j], TextureAt(te2, j))'
                 /\ te2[j] + HeaderSize + model.texs[j].size <= len'
      <4>1. j \in Nat /\ te2[j] = te[j]
        BY <1>n, <2>4
      <4>2. CASE j = k
        <5>1. TextureAt(te2, j)' = g
          BY <1>0, <2>3, <2>4, <2>g, <2>z, <4>2 DEF TextureAt, After
        <5> QED  BY <1>2, <2>2, <2>z, <4>1, <4>2, <5>1 DEF Lies
      <4>3. CASE j # k
        <5>1. j \in 1..Texs /\ j \in 1..Len(model.texs)
          BY <1>1, <1>4, <1>5, <1>n, <4>3
        <5>2. PICK y : y = TextureAt(te, j)
          OBVIOUS
        <5>3. te2[j + 1] = te[j + 1]
          BY <1>n, <2>4, <4>1, <4>3
        <5>4. TextureAt(te2, j)' = y
          BY <1>0, <5>2, <5>3 DEF TextureAt, After
        <5>5. Lies(te[j], y) /\ te[j] + HeaderSize + model.texs[j].size <= len
          BY <1>0, <5>1, <5>2 DEF TexturesLie
        <5>6. te[j] + HeaderSize + model.texs[j].size <= len'
          <6>1. PICK c \in Nat : c = te[j]
            BY <4>1 DEF Places
          <6>2. PICK d \in Nat : d = model.texs[j].size
            BY <1>1, <5>1
          <6>3. c + HeaderSize + d <= len
            BY <5>5, <6>1, <6>2
          <6>4. c + HeaderSize + d <= len'
            BY <2>2, <6>3
          <6> QED  BY <6>1, <6>2, <6>4
        <5> QED  BY <2>2, <4>1, <5>4, <5>5, <5>6 DEF Lies
      <4> QED  BY <4>2, <4>3
    <3>2. After(model.texs, te2, 0)' = l
      <4>1. te2[1] = te[1]
        BY <1>n, <2>4
      <4> QED  BY <1>0, <1>l, <4>1 DEF After
    <3> QED  BY <1>0, <1>3, <2>2, <2>3, <2>4, <2>5, <3>1, <3>2
              DEF TexturesLie, Lies
  <2>9. MaterialsLie(ma)'
    BY <1>m2, <2>2, <2>5
  <2> QED  BY <1>3, <2>6, <2>7, <2>8, <2>9 DEF Laid
<1>6. CASE k > Len(model.texs)
  <2>1. save' = Step("finish", 0, 0) /\ block' = block /\ len' = len /\ ofs' = ofs
    BY <1>6, <1>k DEF WriteTexture, file
  <2>2. k = Len(model.texs) + 1
    BY <1>1, <1>6
  <2>3. /\ save'.at = "finish" /\ Late'
        /\ Mats' = Len(model.mats) /\ Texs' = Len(model.texs)
    BY <1>0, <1>4, <2>1 DEF Step, Late, Mats, Texs
  <2>4. \A x, g : Lies(x, g) => Lies(x, g)'
    BY <2>1 DEF Lies
  <2>5. Dense'
    BY <1>0, <1>4, <2>1 DEF Dense
  <2>6. PartsLie(pa, su)' /\ SubsetsLie(su)'
    <3>1. len \in Nat /\ len' \in Nat /\ len <= len'
      BY <1>0, <2>1 DEF Dense
    <3> QED  BY <1>0, <1>4, <2>3, <2>4, <3>1, PartsStay
  <2>7. MaterialsLie(ma)'
    BY <1>m2, <2>3, <2>4
  <2>8. TexturesLie(te)'
    <3>1. ASSUME NEW j \in 1..Len(model.texs)
          PROVE  /\ Lies(te[j], TextureAt(te, j))'
                 /\ te[j] + HeaderSize + model.texs[j].size <= len'
      <4>1. PICK y : y = TextureAt(te, j)
        OBVIOUS
      <4>2. TextureAt(te, j)' = y
        BY <1>0, <4>1 DEF TextureAt, After
      <4>3. Lies(te[j], y) /\ te[j] + HeaderSize + model.texs[j].size <= len
        BY <1>0, <1>1, <1>4, <2>2, <4>1 DEF TexturesLie
      <4> QED  BY <2>1, <2>4, <4>2, <4>3 DEF Lies
    <3>2. After(model.texs, te, 0)' = l
      BY <1>0, <1>l DEF After
    <3> QED  BY <1>0, <1>3, <2>3, <3>1, <3>2 DEF TexturesLie, Lies
  <2> QED  BY <1>3, <2>5, <2>6, <2>7, <2>8 DEF Laid
<1> QED  BY <1>1, <1>5, <1>6

LEMMA FinishLays ==
  ASSUME SaveFits, NEW pa \in Places, NEW su \in [Nat -> Places],
         NEW ma \in Places, NEW te \in Places, Laid(pa, su, ma, te),
         Finish, ~ full
  PROVE  Laid(pa, su, ma, te)'
<1>0. /\ save.at = "finish" /\ model \in Models /\ model' = model
      /\ state = "saving" /\ state' = "whole" /\ save' = Off
      /\ libs' = libs /\ len' = len /\ ofs' = ofs
      /\ block' = [o \in DOMAIN block |-> IF o = 0 THEN FileHeader(libs)
                                                   ELSE block[o]]
      /\ Dense /\ PartsLie(pa, su) /\ SubsetsLie(su) /\ MaterialsLie(ma)
      /\ TexturesLie(te)
      /\ libs = [mats |-> libs.mats, texs |-> libs.texs]
  BY DEF Finish, SaveFits, Laid
<1>1. /\ save'.at = "off" /\ Late /\ Late' /\ Whole' /\ ~ Whole
      /\ Mats = Len(model.mats) /\ Mats' = Len(model.mats)
      /\ Texs = Len(model.texs) /\ Texs' = Len(model.texs)
  BY <1>0 DEF Off, Step, Late, Whole, Mats, Texs
<1>2. \A x, g : Lies(x, g) => Lies(x, g)'
  BY <1>0 DEF Lies
<1>3. Dense'
  BY <1>0, <1>1 DEF Dense, FileHeader
<1>4. PartsLie(pa, su)' /\ SubsetsLie(su)'
  <2>1. len \in Nat /\ len' \in Nat /\ len <= len'
    BY <1>0 DEF Dense
  <2> QED  BY <1>0, <1>1, <1>2, <2>1, PartsStay
<1>5. MaterialsLie(ma)'
  <2>1. ASSUME NEW j \in 1..Len(model.mats)
        PROVE  Lies(ma[j], MaterialAt(ma, j))'
    <3>1. PICK y : y = MaterialAt(ma, j)
      OBVIOUS
    <3>2. MaterialAt(ma, j)' = y
      BY <1>0, <3>1 DEF MaterialAt, After
    <3>3. Lies(ma[j], y)
      BY <1>0, <1>1, <3>1 DEF MaterialsLie
    <3> QED  BY <1>2, <3>2, <3>3 DEF Lies
  <2>2. libs'.mats = After(model.mats, ma, 0)'
    BY <1>0, <1>1 DEF MaterialsLie, After
  <2> QED  BY <1>0, <1>1, <2>1, <2>2 DEF MaterialsLie, Lies
<1>6. TexturesLie(te)'
  <2>1. ASSUME NEW j \in 1..Len(model.texs)
        PROVE  /\ Lies(te[j], TextureAt(te, j))'
               /\ te[j] + HeaderSize + model.texs[j].size <= len'
    <3>1. PICK y : y = TextureAt(te, j)
      OBVIOUS
    <3>2. TextureAt(te, j)' = y
      BY <1>0, <3>1 DEF TextureAt, After
    <3>3. Lies(te[j], y) /\ te[j] + HeaderSize + model.texs[j].size <= len
      BY <1>0, <1>1, <3>1 DEF TexturesLie
    <3> QED  BY <1>0, <1>2, <3>2, <3>3 DEF Lies
  <2>2. libs'.texs = After(model.texs, te, 0)'
    BY <1>0, <1>1 DEF TexturesLie, After
  <2> QED  BY <1>0, <1>1, <2>1, <2>2 DEF TexturesLie, Lies
<1> QED  BY <1>0, <1>3, <1>4, <1>5, <1>6 DEF Laid

LEMMA SaveOpenLays ==
  ASSUME NEW m \in Models, SaveOpen(m), ~ full'
  PROVE  \E pa \in Places, su \in [Nat -> Places], ma \in Places, te \in Places :
           Laid(pa, su, ma, te)'
<1>0. /\ model' = m /\ state' = "saving" /\ libs' = NoLibs
      /\ block' = [o \in {0} |-> FileHeader(NoLibs)]
      /\ len' = HeaderSize /\ ofs' = HeaderSize
      /\ save' = IF m.parts # <<>> THEN Step("part", 1, 0) ELSE Step("mat", 0, 1)
  BY DEF SaveOpen
<1>1. HeaderSize \in Nat \ {0, 1}
  BY ScanFileAssumption
<1>2. PICK pa \in Places : \A k \in Nat : pa[k] = HeaderSize
  <2>1. [k \in Nat |-> HeaderSize] \in Places
    BY <1>1 DEF Places
  <2>2. \A k \in Nat : [j \in Nat |-> HeaderSize][k] = HeaderSize
    OBVIOUS
  <2> QED  BY <2>1, <2>2
<1>3. PICK su \in [Nat -> Places] : TRUE
  <2>1. [k \in Nat |-> pa] \in [Nat -> Places]
    OBVIOUS
  <2> QED  BY <2>1
<1>4. Parts' = m.parts /\ (m.parts = <<>> => Len(m.parts) = 0)
  BY <1>0 DEF Parts
<1>5. Dense'
  BY <1>0, <1>1 DEF Dense, Whole
<1>6. libs' = [mats |-> libs'.mats, texs |-> libs'.texs]
  BY <1>0 DEF NoLibs
<1>7. CASE m.parts # <<>>
  <2>1. /\ save'.at = "part" /\ save'.part = 1 /\ ~ Late' /\ Closed' = 0
        /\ Begun' = 0 /\ Mats' = 0 /\ Texs' = 0
    BY <1>0, <1>7 DEF Step, Late, Whole, Closed, Begun, Mats, Texs
  <2>2. PartsLie(pa, su)'
    BY <1>0, <1>2, <2>1 DEF PartsLie
  <2>3. SubsetsLie(su)' /\ MaterialsLie(pa)' /\ TexturesLie(pa)'
    BY <2>1 DEF SubsetsLie, MaterialsLie, TexturesLie
  <2> QED  BY <1>5, <1>6, <2>2, <2>3 DEF Laid
<1>8. CASE m.parts = <<>>
  <2>1. /\ save'.at = "mat" /\ save'.item = 1 /\ Late' /\ Closed' = 0
        /\ Begun' = 0 /\ Mats' = 0 /\ Texs' = 0
    BY <1>0, <1>4, <1>8 DEF Step, Late, Whole, Closed, Begun, Mats, Texs
  <2>2. PartsLie(pa, su)'
    BY <1>2, <1>4, <1>8, <2>1 DEF PartsLie
  <2>3. SubsetsLie(su)' /\ MaterialsLie(pa)' /\ TexturesLie(pa)'
    BY <1>0, <1>2, <2>1 DEF SubsetsLie, MaterialsLie, TexturesLie
  <2> QED  BY <1>5, <1>6, <2>2, <2>3 DEF Laid
<1> QED  BY <1>7, <1>8

-----------------------------------------------------------------------------
(* Where a save is, whatever room the disk has *)

LEMMA PutRoom ==
  ASSUME NEW h, NEW size, Put(h, size), full \in BOOLEAN
  PROVE  full' \in BOOLEAN /\ (~ full' => ~ full)
BY DEF Put

LEMMA LoadStepGuard ==
  ASSUME LoadStep
  PROVE  load # "off"
BY DEF LoadStep, ReadHeader, ReadPart, ReadSubset, ReadMaterial, ReadTexture,
       EndLoop, Reject, OutOfMemory

LEMMA SaveFitsStep ==
  ASSUME SaveFits, [Next]_vars
  PROVE  SaveFits'
<1>0. /\ full \in BOOLEAN
      /\ save = Step(save.at, save.part, save.item)
      /\ state = "saving" <=> save.at # "off"
      /\ save.at # "off" => load = "off"
      /\ Whole \/ save.at # "off" => model \in Models
  BY DEF SaveFits
<1>1. ASSUME NEW m \in Models, SaveOpen(m)  PROVE SaveFits'
  <2>1. /\ full' \in BOOLEAN /\ state' = "saving" /\ model' = m /\ load' = "off"
        /\ save' = IF m.parts # <<>> THEN Step("part", 1, 0) ELSE Step("mat", 0, 1)
    BY <1>1 DEF SaveOpen, loader
  <2>2. /\ Parts' = m.parts /\ Len(m.parts) \in Nat /\ Len(m.mats) \in Nat
        /\ m.parts # <<>> => Len(m.parts) # 0
    <3>1. m.parts \in Seq(ToSet(m.parts)) /\ m.mats \in Seq(ToSet(m.mats))
      BY ModelAssumption
    <3>2. ASSUME NEW S, NEW s \in Seq(S)
          PROVE  Len(s) \in Nat /\ (s # <<>> => Len(s) # 0)
      BY <3>2, LenProperties, EmptySeq
    <3> QED  BY <2>1, <3>1, <3>2 DEF Parts
  <2>3. CASE m.parts # <<>>
    <3>1. /\ save' = Step("part", 1, 0) /\ save'.at = "part" /\ save'.part = 1
          /\ save'.item = 0
      BY <2>1, <2>3 DEF Step
    <3>2. 1 \in 1..Len(m.parts)
      BY <2>2, <2>3
    <3> QED  BY <2>1, <2>2, <3>1, <3>2 DEF SaveFits
  <2>4. CASE m.parts = <<>>
    <3>1. /\ save' = Step("mat", 0, 1) /\ save'.at = "mat" /\ save'.part = 0
          /\ save'.item = 1
      BY <2>1, <2>4 DEF Step
    <3>2. 1 \in 1..(Len(m.mats) + 1)
      BY <2>2
    <3> QED  BY <2>1, <3>1, <3>2 DEF SaveFits
  <2> QED  BY <2>3, <2>4
<1>2. CASE WritePart
  <2>1. /\ save.at = "part" /\ save.part \in 1..Len(Parts) /\ full' \in BOOLEAN
        /\ model' = model /\ state' = state /\ load' = load
    BY <1>0, <1>2, PutRoom DEF WritePart, SaveFits, loader
  <2>2. PICK p \in 1..Len(Parts) : p = save.part
    BY <2>1
  <2>3. /\ save' = Step("subset", p, 1)
        /\ save'.at = "subset" /\ save'.part = p /\ save'.item = 1
    BY <1>2, <2>2 DEF WritePart, Step
  <2>4. Parts' = Parts /\ 1 \in 1..(Len(Parts[p]) + 1)
    BY <1>0, <2>1, ModelFits DEF Parts
  <2> QED  BY <1>0, <2>1, <2>3, <2>4 DEF SaveFits
<1>3. CASE WriteSubset
  <2>1. /\ save.at = "subset" /\ save.part \in 1..Len(Parts)
        /\ save.item \in 1..(Len(Parts[save.part]) + 1)
        /\ save.item <= Len(Parts[save.part]) /\ full' \in BOOLEAN
        /\ model' = model /\ state' = state /\ load' = load /\ Parts' = Parts
    BY <1>0, <1>3, PutRoom DEF WriteSubset, SaveFits, loader, Parts
  <2>2. PICK p \in 1..Len(Parts) : p = save.part
    BY <2>1
  <2>3. PICK i \in 1..(Len(Parts[p]) + 1) : i = save.item /\ i <= Len(Parts[p])
    BY <2>1, <2>2
  <2>4. save = Step("subset", p, i) /\ save' = [save EXCEPT !.item = @ + 1]
    BY <1>0, <1>3, <2>1, <2>2, <2>3 DEF WriteSubset
  <2>5. save' = Step("subset", p, i + 1)
    BY <2>4 DEF Step
  <2>6. Len(Parts[p]) \in Nat
    BY <1>0, <2>1, ModelFits
  <2>7. /\ save'.at = "subset" /\ save'.part = p /\ save'.item = i + 1
        /\ i + 1 \in 1..(Len(Parts[p]) + 1)
    BY <2>3, <2>5, <2>6 DEF Step
  <2> QED  BY <1>0, <2>1, <2>5, <2>7 DEF SaveFits
<1>4. CASE ClosePart
  <2>1. /\ save.at = "subset" /\ save.part \in 1..Len(Parts) /\ full' = full
        /\ model' = model /\ state' = state /\ load' = load /\ Parts' = Parts
    BY <1>4 DEF ClosePart, SaveFits, loader, Parts
  <2>2. PICK p \in 1..Len(Parts) : p = save.part
    BY <2>1
  <2>3. save' = IF p = Len(Parts) THEN Step("mat", 0, 1) ELSE Step("part", p + 1, 0)
    BY <1>4, <2>2 DEF ClosePart, Parts
  <2>4. Len(Parts) \in Nat /\ Len(model.mats) \in Nat
    BY <1>0, <2>1, ModelFits
  <2>5. CASE p = Len(Parts)
    <3>1. /\ save' = Step("mat", 0, 1)
          /\ save'.at = "mat" /\ save'.part = 0 /\ save'.item = 1
      BY <2>3, <2>5 DEF Step
    <3> QED  BY <1>0, <2>1, <2>4, <3>1 DEF SaveFits
  <2>6. CASE p # Len(Parts)
    <3>1. /\ save' = Step("part", p + 1, 0)
          /\ save'.at = "part" /\ save'.part = p + 1 /\ save'.item = 0
      BY <2>3, <2>6 DEF Step
    <3>2. p + 1 \in 1..Len(Parts)
      BY <2>4, <2>6
    <3> QED  BY <1>0, <2>1, <3>1, <3>2 DEF SaveFits
  <2> QED  BY <2>5, <2>6
<1>5. CASE WriteMaterial
  <2>1. /\ save.at = "mat" /\ full' \in BOOLEAN
        /\ model' = model /\ state' = state /\ load' = load
    BY <1>0, <1>5, PutRoom DEF WriteMaterial, loader
  <2>2. PICK k \in 1..(Len(model.mats) + 1) : k = save.item
    BY <2>1 DEF SaveFits
  <2>3. Len(model.mats) \in Nat /\ Len(model.texs) \in Nat
    BY <1>0, <2>1, ModelFits
  <2>4. CASE k <= Len(model.mats)
    <3>1. /\ save' = Step("mat", 0, k + 1)
          /\ save'.at = "mat" /\ save'.part = 0 /\ save'.item = k + 1
      BY <1>5, <2>2, <2>3, <2>4 DEF WriteMaterial, Step
    <3>2. k + 1 \in 1..(Len(model.mats) + 1)
      BY <2>3, <2>4
    <3> QED  BY <1>0, <2>1, <3>1, <3>2 DEF SaveFits
  <2>5. CASE ~ k <= Len(model.mats)
    <3>1. /\ save' = Step("tex", 0, 1)
          /\ save'.at = "tex" /\ save'.part = 0 /\ save'.item = 1
      BY <1>5, <2>2, <2>5 DEF WriteMaterial, Step
    <3> QED  BY <1>0, <2>1, <2>3, <3>1 DEF SaveFits
  <2> QED  BY <2>4, <2>5
<1>6. CASE WriteTexture
  <2>1. /\ save.at = "tex" /\ full' \in BOOLEAN
        /\ model' = model /\ state' = state /\ load' = load
    BY <1>0, <1>6, PutRoom DEF WriteTexture, loader
  <2>2. PICK k \in 1..(Len(model.texs) + 1) : k = save.item
    BY <2>1 DEF SaveFits
  <2>3. Len(model.texs) \in Nat
    BY <1>0, <2>1, ModelFits
  <2>4. CASE k <= Len(model.texs)
    <3>1. /\ save' = Step("tex", 0, k + 1)
          /\ save'.at = "tex" /\ save'.part = 0 /\ save'.item = k + 1
      BY <1>6, <2>2, <2>3, <2>4 DEF WriteTexture, Step
    <3>2. k + 1 \in 1..(Len(model.texs) + 1)
      BY <2>3, <2>4
    <3> QED  BY <1>0, <2>1, <3>1, <3>2 DEF SaveFits
  <2>5. CASE ~ k <= Len(model.texs)
    <3>1. /\ save' = Step("finish", 0, 0)
          /\ save'.at = "finish" /\ save'.part = 0 /\ save'.item = 0
      BY <1>6, <2>2, <2>5 DEF WriteTexture, Step
    <3> QED  BY <1>0, <2>1, <3>1 DEF SaveFits
  <2> QED  BY <2>4, <2>5
<1>7. ASSUME save' = Off, state' # "saving", full' \in BOOLEAN,
             Whole' => model' \in Models
      PROVE  SaveFits'
  <2>1. save'.at = "off" /\ save'.part = 0 /\ save'.item = 0
    BY <1>7 DEF Off, Step
  <2> QED  BY <1>7, <2>1 DEF SaveFits, Off
<1>8. CASE Finish
  <2>1. model' = model /\ model \in Models /\ full' = full
    BY <1>0, <1>8 DEF Finish
  <2> QED  BY <1>0, <1>7, <1>8, <2>1 DEF Finish
<1>9. CASE Die
  BY <1>0, <1>7, <1>9 DEF Die, Whole
<1>10. ASSUME save' = save, full' = full, model' = model, save.at = "off",
              state' = state \/ state' = "short"
       PROVE  SaveFits'
  <2>1. save'.at = "off" /\ ~ state' = "saving" /\ (Whole' => Whole)
    BY <1>0, <1>10 DEF Whole
  <2> QED  BY <1>0, <1>10, <2>1 DEF SaveFits
<1>11. CASE Cut
  BY <1>0, <1>10, <1>11 DEF Cut, CutAt, saver
<1>12. CASE Start
  <2>1. save.at = "off"
    BY <1>12 DEF Start, Off, Step
  <2> QED  BY <1>10, <1>12, <2>1 DEF Start, saver
<1>13. CASE LoadStep
  <2>1. save.at = "off"
    BY <1>0, <1>13, LoadStepGuard
  <2> QED  BY <1>10, <1>13, <2>1 DEF LoadStep, saver
<1>14. CASE UNCHANGED vars
  BY <1>14 DEF SaveFits, vars, saver, loader, Whole, Parts
<1> QED
  BY <1>1, <1>2, <1>3, <1>4, <1>5, <1>6, <1>8, <1>9, <1>11, <1>12, <1>13, <1>14
    DEF Next, SaveStep

-----------------------------------------------------------------------------
(* Each step of a load of a complete file *)

LEMMA WholeLies ==
  ASSUME SaveFits, Whole, NEW pa \in Places, NEW su \in [Nat -> Places],
         NEW ma \in Places, NEW te \in Places, Laid(pa, su, ma, te)
  PROVE  /\ model \in Models
         /\ 0 \in DOMAIN block /\ block[0] = FileHeader(libs)
         /\ Parts # <<>> => pa[1] = HeaderSize
         /\ \A p \in 1..Len(Parts) : Lies(pa[p], PartAt(pa, su, p))
         /\ \A p \in 1..Len(Parts) : \A i \in 1..Len(Parts[p]) :
              /\ Lies(su[p][i], SubsetAt(su, p, i))
              /\ su[p][i] + HeaderSize + Parts[p][i].size <= len
         /\ \A k \in 1..Len(model.mats) : Lies(ma[k], MaterialAt(ma, k))
         /\ \A k \in 1..Len(model.texs) :
              /\ Lies(te[k], TextureAt(te, k))
              /\ te[k] + HeaderSize + model.texs[k].size <= len
         /\ libs.mats = After(model.mats, ma, 0)
         /\ libs.texs = After(model.texs, te, 0)
<1>1. model \in Models /\ save.at = "off" /\ Late
  BY DEF SaveFits, Whole, Late
<1>2. /\ Closed = Len(Parts) /\ Begun = Len(Parts)
      /\ Mats = Len(model.mats) /\ Texs = Len(model.texs)
  BY <1>1 DEF Closed, Begun, Mats, Texs
<1>3. Len(Parts) \in Nat
  BY <1>1, ModelFits
<1>4. \A p \in 1..Len(Parts) : Subs(p) = Len(Parts[p])
  BY <1>2, <1>3 DEF Subs
<1>5. Dense /\ PartsLie(pa, su) /\ SubsetsLie(su) /\ MaterialsLie(ma) /\ TexturesLie(te)
  BY DEF Laid
<1>6. /\ 0 \in DOMAIN block /\ block[0] = FileHeader(libs)
  BY <1>5 DEF Dense
<1>7. /\ Parts # <<>> => pa[1] = HeaderSize
      /\ \A p \in 1..Len(Parts) : Lies(pa[p], PartAt(pa, su, p))
  BY <1>2, <1>5 DEF PartsLie
<1>8. \A p \in 1..Len(Parts) : \A i \in 1..Len(Parts[p]) :
        /\ Lies(su[p][i], SubsetAt(su, p, i))
        /\ su[p][i] + HeaderSize + Parts[p][i].size <= len
  BY <1>2, <1>4, <1>5 DEF SubsetsLie
<1>9. /\ \A k \in 1..Len(model.mats) : Lies(ma[k], MaterialAt(ma, k))
      /\ libs.mats = After(model.mats, ma, 0)
  BY <1>1, <1>2, <1>5 DEF MaterialsLie
<1>10. /\ \A k \in 1..Len(model.texs) :
            /\ Lies(te[k], TextureAt(te, k))
            /\ te[k] + HeaderSize + model.texs[k].size <= len
       /\ libs.texs = After(model.texs, te, 0)
  BY <1>1, <1>2, <1>5 DEF TexturesLie
<1> QED  BY <1>1, <1>6, <1>7, <1>8, <1>9, <1>10

\* A block that lies where a load looks is what it reads.
LEMMA ReadsBlock ==
  ASSUME NEW o, NEW h, Lies(o, h), NEW l
  PROVE  Read(o, l) = {h}
BY DEF Lies, Read

LEMMA ReadHeaderFollows ==
  ASSUME SaveFits, Opening, NEW pa \in Places, NEW su \in [Nat -> Places],
         NEW ma \in Places, NEW te \in Places,
         Laid(pa, su, ma, te), Follows(pa, su, ma, te), ReadHeader,
         UNCHANGED <<file, model, state, saver, stream>>
  PROVE  Follows(pa, su, ma, te)'
<1>1. /\ load = "header" /\ next = 0 /\ got = Nothing /\ Whole /\ Parts # <<>>
      /\ model' = model /\ libs' = libs /\ got' = got
  BY DEF ReadHeader, Follows, Opening, saver
<1>2. /\ model \in Models /\ pa[1] = HeaderSize
      /\ 0 \in DOMAIN block /\ block[0] = FileHeader(libs)
  BY <1>1, WholeLies
<1>3. Read(0, hdr) = {FileHeader(libs)}
  BY <1>2 DEF Read
<1>4. hdr' = FileHeader(libs) /\ load' = "part" /\ next' = HeaderSize
  BY <1>3 DEF ReadHeader, Goto, FileHeader
<1>5. Parts' = Parts /\ Len(Parts) \in Nat /\ Len(Parts) # 0
  BY <1>1, <1>2, ModelFits DEF Parts
<1>6. After(Parts, pa, 0) = HeaderSize /\ 0 \in 0..Len(Parts)
  BY <1>2, <1>5 DEF After
<1>7. GotParts(0)' /\ Len(got'.parts) = 0
  BY <1>1 DEF GotParts, Nothing
<1> QED  BY <1>1, <1>4, <1>5, <1>6, <1>7 DEF Follows, FileHeader

LEMMA ReadPartFollows ==
  ASSUME SaveFits, Opening, NEW pa \in Places, NEW su \in [Nat -> Places],
         NEW ma \in Places, NEW te \in Places,
         Laid(pa, su, ma, te), Follows(pa, su, ma, te), ReadPart,
         UNCHANGED <<file, model, state, saver, stream>>
  PROVE  Follows(pa, su, ma, te)'
<1>1. /\ load = "part" /\ next > 0 /\ hdr = FileHeader(libs) /\ hdr' = hdr
      /\ Whole /\ model' = model /\ libs' = libs
  BY DEF ReadPart, Follows, Opening, saver
<1>2. PICK k \in 0..Len(Parts) : /\ next = After(Parts, pa, k)
                                 /\ GotParts(k) /\ Len(got.parts) = k
  BY <1>1 DEF Follows
<1>3. /\ model \in Models
      /\ \A p \in 1..Len(Parts) : Lies(pa[p], PartAt(pa, su, p))
  BY <1>1, WholeLies
<1>4. /\ Parts' = Parts /\ Len(Parts) \in Nat
      /\ \A p \in 1..Len(Parts) : Len(Parts[p]) \in Nat \ {0}
  BY <1>1, <1>3, ModelFits DEF Parts
<1>5. k \in Nat /\ k + 1 \in 1..Len(Parts) /\ next = pa[k + 1]
  BY <1>1, <1>2, <1>4 DEF After
<1>6. PICK h : h = PartAt(pa, su, k + 1)
  OBVIOUS
<1>7. Read(next, part) = {h}
  BY <1>3, <1>5, <1>6, ReadsBlock
<1>8. /\ part' = h /\ load' = "subset" /\ next' = h.first
      /\ got' = [got EXCEPT !.parts = Append(@, <<>>)]
  BY <1>7 DEF ReadPart, Goto
<1>9. next' = After(Parts[k + 1], su[k + 1], 0) /\ part' = PartAt(pa, su, k + 1)'
  BY <1>4, <1>5, <1>6, <1>8 DEF PartAt, After
<1>10. PICK g \in Seq(Seq(Entries)) : g = got.parts
  BY <1>2 DEF GotParts
<1>11. got = [parts |-> g, mats |-> {}, texs |-> {}]
  BY <1>2, <1>10 DEF GotParts
<1>12. got' = [parts |-> Append(g, <<>>), mats |-> {}, texs |-> {}]
  BY <1>8, <1>11
<1>13. PICK g2 : g2 = Append(g, <<>>)
  OBVIOUS
<1>14. /\ g2 \in Seq(Seq(Entries)) /\ Len(g2) = k + 1 /\ g2[k + 1] = <<>>
       /\ \A p \in 1..k : g2[p] = g[p]
  BY <1>2, <1>5, <1>10, <1>13, AppendProperties, EmptySeq
<1>15. Entries' = Entries /\ All(Parts)' = All(Parts)
  BY <1>1, <1>4 DEF Entries, Loaded, All
<1>16. GotParts(k)'
  BY <1>2, <1>10, <1>12, <1>13, <1>14, <1>15 DEF GotParts
<1>17. Len(got'.parts) = k + 1 /\ Len(got'.parts[k + 1]) = 0
  BY <1>12, <1>13, <1>14
<1>18. /\ k + 1 \in 1..Len(Parts) /\ (k + 1) - 1 = k /\ 0 \in 0..Len(Parts[k + 1])
       /\ 1..0 = {}
  BY <1>4, <1>5
<1> QED  BY <1>1, <1>4, <1>8, <1>9, <1>16, <1>17, <1>18 DEF Follows, FileHeader

LEMMA ReadSubsetFollows ==
  ASSUME SaveFits, Opening, NEW pa \in Places, NEW su \in [Nat -> Places],
         NEW ma \in Places, NEW te \in Places,
         Laid(pa, su, ma, te), Follows(pa, su, ma, te), ReadSubset,
         UNCHANGED <<file, model, state, saver, stream>>
  PROVE  Follows(pa, su, ma, te)'
<1>1. /\ load = "subset" /\ next > 0 /\ hdr = FileHeader(libs) /\ hdr' = hdr
      /\ Whole /\ model' = model /\ libs' = libs /\ part' = part
  BY DEF ReadSubset, Follows, Opening, saver
<1>2. PICK k \in 1..Len(Parts) : \E n \in 0..Len(Parts[k]) :
        /\ next = After(Parts[k], su[k], n)
        /\ part = PartAt(pa, su, k)
        /\ GotParts(k - 1) /\ Len(got.parts) = k /\ Len(got.parts[k]) = n
        /\ \A i \in 1..n : got.parts[k][i] = Loaded(k, i)
  BY <1>1 DEF Follows
<1>3. PICK n \in 0..Len(Parts[k]) :
        /\ next = After(Parts[k], su[k], n)
        /\ part = PartAt(pa, su, k)
        /\ GotParts(k - 1) /\ Len(got.parts) = k /\ Len(got.parts[k]) = n
        /\ \A i \in 1..n : got.parts[k][i] = Loaded(k, i)
  BY <1>2
<1>4. /\ model \in Models
      /\ \A p \in 1..Len(Parts) : \A i \in 1..Len(Parts[p]) :
           /\ Lies(su[p][i], SubsetAt(su, p, i))
           /\ su[p][i] + HeaderSize + Parts[p][i].size <= len
  BY <1>1, WholeLies
<1>5. /\ Parts' = Parts /\ DOMAIN Parts = 1..Len(Parts) /\ Len(Parts) \in Nat
      /\ Len(Parts[k]) \in Nat \ {0} /\ DOMAIN Parts[k] = 1..Len(Parts[k])
  BY <1>1, <1>4, ModelFits DEF Parts
<1>6. /\ n \in Nat /\ n + 1 \in 1..Len(Parts[k]) /\ next = su[k][n + 1]
      /\ k \in Nat
  BY <1>1, <1>3, <1>5 DEF After
<1>7. PICK h : h = SubsetAt(su, k, n + 1)
  OBVIOUS
<1>8. Read(next, subset) = {h}
  BY <1>4, <1>6, <1>7, ReadsBlock
<1>9. PICK g \in Seq(Seq(Entries)) : g = got.parts
  BY <1>3 DEF GotParts
<1>10. got = [parts |-> g, mats |-> {}, texs |-> {}] /\ Len(g) = k
  BY <1>3, <1>9 DEF GotParts
<1>11. PICK e : e = [mat |-> h.mat, data |-> h.data, size |-> h.size,
                     there |-> DataThere(next, h)]
  OBVIOUS
<1>12. /\ load' = "subset" /\ next' = h.next
       /\ got' = [got EXCEPT !.parts[Len(got.parts)] = Append(@, e)]
  BY <1>8, <1>11 DEF ReadSubset, Goto
<1>13. e = Loaded(k, n + 1)
  <2>1. next + HeaderSize + h.size <= len
    BY <1>4, <1>6, <1>7 DEF SubsetAt
  <2> QED  BY <1>7, <1>11, <2>1 DEF SubsetAt, Loaded, DataThere
<1>14. e \in Entries
  BY <1>5, <1>6, <1>13 DEF Entries
<1>15. PICK g2 : g2 = [g EXCEPT ![k] = Append(@, e)]
  OBVIOUS
<1>16. got' = [parts |-> g2, mats |-> {}, texs |-> {}]
  BY <1>10, <1>12, <1>15
<1>17. /\ DOMAIN g = 1..k /\ k \in DOMAIN g
       /\ \A p \in 1..k : g[p] \in Seq(Entries)
  BY <1>6, <1>9, <1>10, LenProperties, ElementOfSeq
<1>18. PICK s \in Seq(Entries) : s = g[k]
  BY <1>17
<1>19. PICK t : t = Append(s, e)
  OBVIOUS
<1>20. /\ t \in Seq(Entries) /\ Len(t) = n + 1 /\ t[n + 1] = e
       /\ \A i \in 1..n : t[i] = s[i]
  BY <1>3, <1>6, <1>9, <1>14, <1>18, <1>19, AppendProperties
<1>21. /\ g2 \in Seq(Seq(Entries)) /\ Len(g2) = k /\ g2[k] = t
       /\ \A p \in 1..k : p # k => g2[p] = g[p]
  <2>1. g2 = [g EXCEPT ![k] = t]
    BY <1>15, <1>17, <1>18, <1>19
  <2>2. g2 \in [1..k -> Seq(Entries)]
    BY <1>9, <1>10, <1>17, <1>20, <2>1, LenProperties
  <2>3. g2 \in Seq(Seq(Entries)) /\ Len(g2) = k
    BY <1>6, <2>2, IsASeq, LenProperties
  <2> QED  BY <1>17, <2>1, <2>3
<1>22. Entries' = Entries /\ All(Parts)' = All(Parts)
  BY <1>1, <1>5 DEF Entries, Loaded, All
<1>23. GotParts(k - 1)'
  <2>1. \A p \in 1..(k - 1) : g2[p] = All(Parts)[p]
    <3>1. \A p \in 1..(k - 1) : g[p] = All(Parts)[p]
      BY <1>3, <1>9 DEF GotParts
    <3>2. \A p \in 1..(k - 1) : p \in 1..k /\ p # k
      BY <1>6
    <3> QED  BY <1>21, <3>1, <3>2
  <2> QED  BY <1>16, <1>21, <1>22, <2>1 DEF GotParts
<1>24. /\ Len(got'.parts) = k /\ Len(got'.parts[k]) = n + 1
       /\ \A i \in 1..(n + 1) : got'.parts[k][i] = Loaded(k, i)'
  <2>1. \A i \in 1..(n + 1) : Loaded(k, i)' = Loaded(k, i)
    BY <1>5 DEF Loaded
  <2>2. \A i \in 1..(n + 1) : t[i] = Loaded(k, i)
    BY <1>3, <1>6, <1>9, <1>13, <1>18, <1>20
  <2> QED  BY <1>16, <1>20, <1>21, <2>1, <2>2
<1>25. /\ next' = After(Parts[k], su[k], n + 1) /\ part' = PartAt(pa, su, k)'
       /\ n + 1 \in 0..Len(Parts[k])
  BY <1>1, <1>3, <1>5, <1>6, <1>7, <1>12 DEF SubsetAt, PartAt, After
<1> QED  BY <1>1, <1>5, <1>12, <1>23, <1>24, <1>25 DEF Follows, FileHeader

LEMMA ReadMaterialFollows ==
  ASSUME SaveFits, Opening, NEW pa \in Places, NEW su \in [Nat -> Places],
         NEW ma \in Places, NEW te \in Places,
         Laid(pa, su, ma, te), Follows(pa, su, ma, te), ReadMaterial,
         UNCHANGED <<file, model, state, saver, stream>>
  PROVE  Follows(pa, su, ma, te)'
<1>1. /\ load = "mat" /\ next > 0 /\ hdr = FileHeader(libs) /\ hdr' = hdr
      /\ Whole /\ model' = model /\ libs' = libs
  BY DEF ReadMaterial, Follows, Opening, saver
<1>2. PICK n \in 0..Len(model.mats) :
        /\ next = After(model.mats, ma, n)
        /\ got = [parts |-> All(Parts), mats |-> {model.mats[k] : k \in 1..n},
                  texs |-> {}]
  BY <1>1 DEF Follows
<1>3. /\ model \in Models
      /\ \A k \in 1..Len(model.mats) : Lies(ma[k], MaterialAt(ma, k))
  BY <1>1, WholeLies
<1>4. Parts' = Parts /\ Len(model.mats) \in Nat
  BY <1>1, <1>3, ModelFits DEF Parts
<1>5. n \in Nat /\ n + 1 \in 1..Len(model.mats) /\ next = ma[n + 1]
  BY <1>1, <1>2, <1>4 DEF After
<1>6. PICK h : h = MaterialAt(ma, n + 1)
  OBVIOUS
<1>7. Read(next, mat) = {h}
  BY <1>3, <1>5, <1>6, ReadsBlock
<1>8. /\ load' = "mat" /\ next' = h.next
      /\ got' = [got EXCEPT !.mats = @ \union {h.name}]
  BY <1>7 DEF ReadMaterial, Goto
<1>9. got' = [parts |-> All(Parts), texs |-> {},
              mats |-> {model.mats[k] : k \in 1..n} \union {model.mats[n + 1]}]
  BY <1>2, <1>6, <1>8 DEF MaterialAt
<1>10. {model.mats[k] : k \in 1..n} \union {model.mats[n + 1]}
         = {model.mats[k] : k \in 1..(n + 1)}
  <2>1. 1..(n + 1) = 1..n \union {n + 1}
    BY <1>5
  <2> QED  BY <2>1
<1>11. All(Parts)' = All(Parts)
  BY <1>4 DEF All
<1>12. next' = After(model.mats, ma, n + 1) /\ n + 1 \in 0..Len(model.mats)
  BY <1>5, <1>6, <1>8 DEF MaterialAt
<1>13. got' = [parts |-> All(Parts), mats |-> {model.mats[k] : k \in 1..(n + 1)},
               texs |-> {}]'
  BY <1>1, <1>9, <1>10, <1>11
<1>14. /\ next' = After(model.mats, ma, n + 1)' /\ n + 1 \in 0..Len(model.mats)'
       /\ hdr' = FileHeader(libs)'
  BY <1>1, <1>12 DEF After, FileHeader
<1> QED  BY <1>8, <1>13, <1>14 DEF Follows

LEMMA ReadTextureFollows ==
  ASSUME SaveFits, Opening, NEW pa \in Places, NEW su \in [Nat -> Places],
         NEW ma \in Places, NEW te \in Places,
         Laid(pa, su, ma, te), Follows(pa, su, ma, te), ReadTexture,
         UNCHANGED <<file, model, state, saver, stream>>
  PROVE  Follows(pa, su, ma, te)'
<1>1. /\ load = "tex" /\ next > 0 /\ hdr = FileHeader(libs) /\ hdr' = hdr
      /\ Whole /\ model' = model /\ libs' = libs
  BY DEF ReadTexture, Follows, Opening, saver
<1>2. PICK n \in 0..Len(model.texs) :
        /\ next = After(model.texs, te, n)
        /\ got = [parts |-> All(Parts), mats |-> ToSet(model.mats),
                  texs |-> {LoadedTex(k) : k \in 1..n}]
  BY <1>1 DEF Follows
<1>3. /\ model \in Models
      /\ \A k \in 1..Len(model.texs) :
           /\ Lies(te[k], TextureAt(te, k))
           /\ te[k] + HeaderSize + model.texs[k].size <= len
  BY <1>1, WholeLies
<1>4. /\ Parts' = Parts /\ Len(model.texs) \in Nat
      /\ \A j, k \in 1..Len(model.texs) :
           model.texs[j].name = model.texs[k].name => j = k
  BY <1>1, <1>3, ModelFits DEF Parts
<1>5. n \in Nat /\ n + 1 \in 1..Len(model.texs) /\ next = te[n + 1]
  BY <1>1, <1>2, <1>4 DEF After
<1>6. PICK h : h = TextureAt(te, n + 1)
  OBVIOUS
<1>7. Read(next, tex) = {h}
  BY <1>3, <1>5, <1>6, ReadsBlock
<1>8. PICK e : e = [name |-> h.name, size |-> h.size, there |-> DataThere(next, h)]
  OBVIOUS
<1>9. /\ load' = "tex" /\ next' = h.next
      /\ got' = [got EXCEPT !.texs = {t \in @ : t.name # h.name} \union {e}]
  BY <1>7, <1>8 DEF ReadTexture, Goto
<1>10. e = LoadedTex(n + 1)
  <2>1. next + HeaderSize + h.size <= len
    BY <1>3, <1>5, <1>6 DEF TextureAt
  <2> QED  BY <1>6, <1>8, <2>1 DEF TextureAt, LoadedTex, DataThere
<1>11. PICK T : T = {LoadedTex(k) : k \in 1..n}
  OBVIOUS
<1>12. {t \in T : t.name # h.name} = T
  <2>1. ASSUME NEW k \in 1..n
        PROVE  LoadedTex(k).name # h.name
    <3>1. k \in 1..Len(model.texs) /\ k # n + 1
      BY <1>4, <1>5
    <3>2. LoadedTex(k).name = model.texs[k].name /\ h.name = model.texs[n + 1].name
      BY <1>6 DEF LoadedTex, TextureAt
    <3> QED  BY <1>4, <1>5, <3>1, <3>2
  <2> QED  BY <1>11, <2>1
<1>13. got' = [parts |-> All(Parts), mats |-> ToSet(model.mats),
               texs |-> T \union {LoadedTex(n + 1)}]
  BY <1>2, <1>9, <1>10, <1>11, <1>12
<1>14. T \union {LoadedTex(n + 1)} = {LoadedTex(k) : k \in 1..(n + 1)}
  <2>1. 1..(n + 1) = 1..n \union {n + 1}
    BY <1>5
  <2> QED  BY <1>11, <2>1
<1>15. /\ All(Parts)' = All(Parts)
       /\ \A k \in 1..(n + 1) : LoadedTex(k)' = LoadedTex(k)
  BY <1>1, <1>4 DEF All, LoadedTex
<1>16. next' = After(model.texs, te, n + 1) /\ n + 1 \in 0..Len(model.texs)
  BY <1>5, <1>6, <1>9 DEF TextureAt
<1>17. {LoadedTex(k) : k \in 1..(n + 1)}' = {LoadedTex(k) : k \in 1..(n + 1)}
  BY <1>15
<1> QED  BY <1>1, <1>9, <1>13, <1>14, <1>15, <1>16, <1>17
           DEF Follows, FileHeader, After

\* The loop over a part's subsets, or over the parts, ends when all are loaded.
LEMMA EndLoopFollows ==
  ASSUME SaveFits, Opening, NEW pa \in Places, NEW su \in [Nat -> Places],
         NEW ma \in Places, NEW te \in Places,
         Laid(pa, su, ma, te), Follows(pa, su, ma, te), EndLoop, load # "tex",
         UNCHANGED <<file, model, state, saver, stream>>
  PROVE  Follows(pa, su, ma, te)'
<1>1. /\ next <= 0 /\ got' = got /\ Whole /\ model' = model /\ libs' = libs
      /\ load \in {"part", "subset", "mat"} /\ hdr = FileHeader(libs)
      /\ hdr' = hdr /\ part' = part
  BY DEF EndLoop, Follows, Opening, saver, locals
<1>2. /\ model \in Models
      /\ \A p \in 1..Len(Parts) : Lies(pa[p], PartAt(pa, su, p))
      /\ \A p \in 1..Len(Parts) : \A i \in 1..Len(Parts[p]) :
           Lies(su[p][i], SubsetAt(su, p, i))
      /\ \A k \in 1..Len(model.mats) : Lies(ma[k], MaterialAt(ma, k))
      /\ libs.mats = After(model.mats, ma, 0)
      /\ libs.texs = After(model.texs, te, 0)
  BY <1>1, WholeLies
<1>3. /\ Parts' = Parts /\ DOMAIN Parts = 1..Len(Parts) /\ Len(Parts) \in Nat
      /\ \A p \in 1..Len(Parts) : /\ Len(Parts[p]) \in Nat
                                  /\ DOMAIN Parts[p] = 1..Len(Parts[p])
      /\ Len(model.mats) \in Nat /\ DOMAIN model.mats = 1..Len(model.mats)
      /\ Len(model.texs) \in Nat
  BY <1>1, <1>2, ModelFits DEF Parts
<1>4. Entries' = Entries /\ All(Parts)' = All(Parts)
  BY <1>1, <1>3 DEF Entries, Loaded, All
<1>5. hdr' = FileHeader(libs)'
  BY <1>1 DEF FileHeader
<1>6. CASE load = "subset"
  <2>1. PICK k \in 1..Len(Parts) : \E n \in 0..Len(Parts[k]) :
          /\ next = After(Parts[k], su[k], n)
          /\ part = PartAt(pa, su, k)
          /\ GotParts(k - 1) /\ Len(got.parts) = k /\ Len(got.parts[k]) = n
          /\ \A i \in 1..n : got.parts[k][i] = Loaded(k, i)
    BY <1>6 DEF Follows
  <2>2. PICK n \in 0..Len(Parts[k]) :
          /\ next = After(Parts[k], su[k], n)
          /\ part = PartAt(pa, su, k)
          /\ GotParts(k - 1) /\ Len(got.parts) = k /\ Len(got.parts[k]) = n
          /\ \A i \in 1..n : got.parts[k][i] = Loaded(k, i)
    BY <2>1
  <2>3. n = Len(Parts[k]) /\ k \in Nat /\ n \in Nat
    <3>1. k \in Nat /\ n \in Nat
      BY <1>3
    <3>2. SUFFICES ASSUME n # Len(Parts[k])  PROVE FALSE
      BY <3>1
    <3>3. n + 1 \in 1..Len(Parts[k]) /\ next = su[k][n + 1]
      BY <1>3, <2>2, <3>1, <3>2 DEF After
    <3>4. next > 0
      BY <1>2, <3>3 DEF Lies
    <3>5. next \in Nat
      <4>1. su[k] \in Places /\ n + 1 \in Nat
        BY <3>1
      <4> QED  BY <3>3, <4>1 DEF Places
    <3> QED  BY <1>1, <3>4, <3>5
  <2>4. load' = "part" /\ next' = After(Parts, pa, k)
    BY <1>6, <2>2 DEF EndLoop, Goto, PartAt
  <2>5. PICK g \in Seq(Seq(Entries)) : g = got.parts
    BY <2>2 DEF GotParts
  <2>6. PICK s \in Seq(Entries) : s = g[k]
    BY <2>2, <2>3, <2>5, ElementOfSeq
  <2>7. DOMAIN s = 1..n /\ s = [i \in 1..n |-> s[i]]
    <3>1. Len(s) = n
      BY <2>2, <2>5, <2>6
    <3> QED  BY <3>1, LenProperties
  <2>8. s = All(Parts)[k]
    <3>1. All(Parts)[k] = [i \in 1..n |-> Loaded(k, i)]
      BY <1>3, <2>3 DEF All, Loaded
    <3>2. \A i \in 1..n : s[i] = Loaded(k, i)
      BY <2>2, <2>5, <2>6
    <3>3. [i \in 1..n |-> s[i]] = [i \in 1..n |-> Loaded(k, i)]
      BY <3>2
    <3> QED  BY <2>7, <3>1, <3>3
  <2>9. GotParts(k)'
    <3>1. ASSUME NEW p \in 1..k  PROVE g[p] = All(Parts)[p]
      <4>1. CASE p = k
        BY <2>6, <2>8, <4>1
      <4>2. CASE p # k
        <5>1. p \in 1..(k - 1)
          BY <2>3, <4>2
        <5> QED  BY <2>2, <2>5, <5>1 DEF GotParts
      <4> QED  BY <4>1, <4>2
    <3>2. got = [parts |-> g, mats |-> {}, texs |-> {}]
      BY <2>2, <2>5 DEF GotParts
    <3> QED  BY <1>1, <1>4, <2>5, <3>1, <3>2 DEF GotParts
  <2>10. /\ next' = After(Parts, pa, k)' /\ Len(got'.parts) = k
         /\ k \in 0..Len(Parts)'
    <3>1. After(Parts, pa, k)' = After(Parts, pa, k)
      BY <1>3 DEF After
    <3>2. k \in 0..Len(Parts)
      BY <1>3
    <3> QED  BY <1>1, <1>3, <2>2, <2>4, <3>1, <3>2
  <2> QED  BY <1>5, <2>4, <2>9, <2>10 DEF Follows
<1>7. CASE load = "part"
  <2>1. PICK k \in 0..Len(Parts) : /\ next = After(Parts, pa, k)
                                   /\ GotParts(k) /\ Len(got.parts) = k
    BY <1>7 DEF Follows
  <2>2. k = Len(Parts)
    <3>1. SUFFICES ASSUME k # Len(Parts)  PROVE FALSE
      OBVIOUS
    <3>2. k + 1 \in 1..Len(Parts) /\ k + 1 \in Nat
      <4>1. PICK m \in Nat : m = Len(Parts)
        BY <1>3
      <4>2. k \in 0..m /\ k # m
        BY <3>1, <4>1
      <4> QED  BY <4>1, <4>2
    <3>3. next = pa[k + 1]
      BY <2>1, <3>1 DEF After
    <3>4. next > 0 /\ next \in Nat
      BY <1>2, <3>2, <3>3 DEF Lies, Places
    <3> QED  BY <1>1, <3>4
  <2>3. load' = "mat" /\ next' = After(model.mats, ma, 0)
    BY <1>1, <1>2, <1>7 DEF EndLoop, Goto, FileHeader
  <2>4. PICK g \in Seq(Seq(Entries)) : g = got.parts
    BY <2>1 DEF GotParts
  <2>5. g = All(Parts)
    <3>1. DOMAIN g = 1..k /\ g = [p \in 1..k |-> g[p]]
      BY <2>1, <2>4, LenProperties
    <3>2. \A p \in 1..k : g[p] = All(Parts)[p]
      BY <2>1, <2>4 DEF GotParts
    <3>3. All(Parts) = [p \in 1..k |-> All(Parts)[p]]
      BY <1>3, <2>2 DEF All
    <3> QED  BY <3>1, <3>2, <3>3
  <2>6. got' = [parts |-> All(Parts), mats |-> {model.mats[j] : j \in 1..0},
                texs |-> {}]'
    <3>1. got = [parts |-> g, mats |-> {}, texs |-> {}]
      BY <2>1, <2>4 DEF GotParts
    <3>2. {model'.mats[j] : j \in 1..0} = {}
      OBVIOUS
    <3> QED  BY <1>1, <1>4, <2>5, <3>1, <3>2
  <2>7. next' = After(model.mats, ma, 0)' /\ 0 \in 0..Len(model.mats)'
    BY <1>1, <1>3, <2>3 DEF After
  <2> QED  BY <1>5, <2>3, <2>6, <2>7 DEF Follows
<1>8. CASE load = "mat"
  <2>1. PICK n \in 0..Len(model.mats) :
          /\ next = After(model.mats, ma, n)
          /\ got = [parts |-> All(Parts), mats |-> {model.mats[k] : k \in 1..n},
                    texs |-> {}]
    BY <1>8 DEF Follows
  <2>2. n = Len(model.mats)
    <3>1. SUFFICES ASSUME n # Len(model.mats)  PROVE FALSE
      OBVIOUS
    <3>2. n + 1 \in 1..Len(model.mats) /\ n + 1 \in Nat /\ next = ma[n + 1]
      BY <1>3, <2>1, <3>1 DEF After
    <3>3. next > 0 /\ next \in Nat
      BY <1>2, <3>2 DEF Lies, Places
    <3> QED  BY <1>1, <3>3
  <2>3. load' = "tex" /\ next' = After(model.texs, te, 0)
    BY <1>1, <1>2, <1>8 DEF EndLoop, Goto, FileHeader
  <2>4. {model.mats[k] : k \in 1..n} = ToSet(model.mats)
    BY <1>3, <2>2 DEF ToSet
  <2>5. got' = [parts |-> All(Parts), mats |-> ToSet(model.mats),
                texs |-> {LoadedTex(k) : k \in 1..0}]'
    <3>1. {LoadedTex(k) : k \in 1..0}' = {}
      OBVIOUS
    <3>2. ToSet(model.mats)' = ToSet(model.mats)
      BY <1>1
    <3> QED  BY <1>1, <1>4, <2>1, <2>4, <3>1, <3>2
  <2>6. next' = After(model.texs, te, 0)' /\ 0 \in 0..Len(model.texs)'
    BY <1>1, <1>3, <2>3 DEF After
  <2> QED  BY <1>5, <2>3, <2>5, <2>6 DEF Follows
<1> QED  BY <1>1, <1>6, <1>7, <1>8

\* After the last texture the model is complete.
LEMMA EndLoopOpens ==
  ASSUME SaveFits, Opening, NEW pa \in Places, NEW su \in [Nat -> Places],
         NEW ma \in Places, NEW te \in Places,
         Laid(pa, su, ma, te), Follows(pa, su, ma, te), EndLoop, load = "tex"
  PROVE  load' = "off" /\ result' = AsLoaded(model)
<1>1. next <= 0 /\ Whole /\ load' = "off" /\ result' = got
  BY DEF EndLoop, Opening, Return, Goto
<1>2. /\ model \in Models
      /\ \A k \in 1..Len(model.texs) : Lies(te[k], TextureAt(te, k))
  BY <1>1, WholeLies
<1>3. Len(model.texs) \in Nat /\ DOMAIN model.texs = 1..Len(model.texs)
  BY <1>2, ModelFits
<1>4. PICK n \in 0..Len(model.texs) :
        /\ next = After(model.texs, te, n)
        /\ got = [parts |-> All(Parts), mats |-> ToSet(model.mats),
                  texs |-> {LoadedTex(k) : k \in 1..n}]
  BY DEF Follows
<1>5. n = Len(model.texs)
  <2>1. SUFFICES ASSUME n # Len(model.texs)  PROVE FALSE
    OBVIOUS
  <2>2. n + 1 \in 1..Len(model.texs) /\ n + 1 \in Nat /\ next = te[n + 1]
    BY <1>3, <1>4, <2>1 DEF After
  <2>3. next > 0 /\ next \in Nat
    BY <1>2, <2>2 DEF Lies, Places
  <2> QED  BY <1>1, <2>3
<1>6. {LoadedTex(k) : k \in 1..n} = AllTexs(model.texs)
  BY <1>3, <1>5 DEF LoadedTex, AllTexs
<1> QED  BY <1>1, <1>4, <1>6 DEF AsLoaded, Parts

\* No header is refused.
LEMMA NeverRejected ==
  ASSUME SaveFits, Opening, NEW pa \in Places, NEW su \in [Nat -> Places],
         NEW ma \in Places, NEW te \in Places,
         Laid(pa, su, ma, te), Follows(pa, su, ma, te)
  PROVE  ~ Reject
<1>1. SUFFICES ASSUME Reject  PROVE FALSE
  OBVIOUS
<1>2. /\ Whole /\ Parts # <<>> /\ load \in {"header", "part", "subset", "mat", "tex"}
      /\ load = "header" \/ next > 0
  BY <1>1 DEF Reject, Opening, Follows
<1>3. PICK h \in Read(next, Local(load)) : h.kind # Kind(load)
  BY <1>1 DEF Reject
<1>4. /\ model \in Models
      /\ 0 \in DOMAIN block /\ block[0] = FileHeader(libs)
      /\ \A p \in 1..Len(Parts) : Lies(pa[p], PartAt(pa, su, p))
      /\ \A p \in 1..Len(Parts) : \A i \in 1..Len(Parts[p]) :
           Lies(su[p][i], SubsetAt(su, p, i))
      /\ \A k \in 1..Len(model.mats) : Lies(ma[k], MaterialAt(ma, k))
      /\ \A k \in 1..Len(model.texs) : Lies(te[k], TextureAt(te, k))
  BY <1>2, WholeLies
<1>5. /\ Len(Parts) \in Nat
      /\ \A p \in 1..Len(Parts) : Len(Parts[p]) \in Nat
      /\ Len(model.mats) \in Nat /\ Len(model.texs) \in Nat
  BY <1>4, ModelFits
<1>6. CASE load = "header"
  <2>1. next = 0
    BY <1>6 DEF Follows
  <2>2. Read(next, Local(load)) = {FileHeader(libs)}
    BY <1>4, <2>1 DEF Read
  <2> QED  BY <1>3, <1>6, <2>2 DEF FileHeader, Kind
<1>7. CASE load = "part"
  <2>1. PICK k \in 0..Len(Parts) : next = After(Parts, pa, k)
    BY <1>7 DEF Follows
  <2>2. k + 1 \in 1..Len(Parts) /\ next = pa[k + 1]
    BY <1>2, <1>5, <1>7, <2>1 DEF After
  <2>3. Read(next, Local(load)) = {PartAt(pa, su, k + 1)}
    BY <1>4, <2>2, ReadsBlock
  <2> QED  BY <1>3, <1>7, <2>3 DEF PartAt, Kind
<1>8. CASE load = "subset"
  <2>1. PICK k \in 1..Len(Parts) : \E n \in 0..Len(Parts[k]) :
          next = After(Parts[k], su[k], n)
    BY <1>8 DEF Follows
  <2>2. PICK n \in 0..Len(Parts[k]) : next = After(Parts[k], su[k], n)
    BY <2>1
  <2>3. n + 1 \in 1..Len(Parts[k]) /\ next = su[k][n + 1]
    BY <1>2, <1>5, <1>8, <2>2 DEF After
  <2>4. Read(next, Local(load)) = {SubsetAt(su, k, n + 1)}
    BY <1>4, <2>3, ReadsBlock
  <2> QED  BY <1>3, <1>8, <2>4 DEF SubsetAt, Kind
<1>9. CASE load = "mat"
  <2>1. PICK k \in 0..Len(model.mats) : next = After(model.mats, ma, k)
    BY <1>9 DEF Follows
  <2>2. k + 1 \in 1..Len(model.mats) /\ next = ma[k + 1]
    BY <1>2, <1>5, <1>9, <2>1 DEF After
  <2>3. Read(next, Local(load)) = {MaterialAt(ma, k + 1)}
    BY <1>4, <2>2, ReadsBlock
  <2> QED  BY <1>3, <1>9, <2>3 DEF MaterialAt, Kind
<1>10. CASE load = "tex"
  <2>1. PICK k \in 0..Len(model.texs) : next = After(model.texs, te, k)
    BY <1>10 DEF Follows
  <2>2. k + 1 \in 1..Len(model.texs) /\ next = te[k + 1]
    BY <1>2, <1>5, <1>10, <2>1 DEF After
  <2>3. Read(next, Local(load)) = {TextureAt(te, k + 1)}
    BY <1>4, <2>2, ReadsBlock
  <2> QED  BY <1>3, <1>10, <2>3 DEF TextureAt, Kind
<1> QED  BY <1>2, <1>6, <1>7, <1>8, <1>9, <1>10

-----------------------------------------------------------------------------
(* The invariant *)

LEMMA LaidStays ==
  ASSUME NEW pa \in Places, NEW su \in [Nat -> Places], NEW ma \in Places,
         NEW te \in Places, UNCHANGED <<file, model, state, saver>>
  PROVE  /\ Sound' <=> Sound
         /\ Laid(pa, su, ma, te)' <=> Laid(pa, su, ma, te)
<1>1. /\ block' = block /\ len' = len /\ model' = model /\ state' = state
      /\ save' = save /\ ofs' = ofs /\ partOfs' = partOfs /\ libs' = libs
      /\ full' = full /\ Parts' = Parts
  BY DEF file, saver, Parts
<1>2. /\ Whole' = Whole /\ Late' = Late /\ Begun' = Begun /\ Closed' = Closed
      /\ Mats' = Mats /\ Texs' = Texs
  BY <1>1 DEF Whole, Late, Begun, Closed, Mats, Texs
<1>3. \A p : Subs(p)' = Subs(p)
  BY <1>1, <1>2 DEF Subs
<1>4. \A o, h : Lies(o, h)' = Lies(o, h)
  BY <1>1 DEF Lies
<1>5. Dense' <=> Dense
  BY <1>1, <1>2 DEF Dense, FileHeader
<1>6. PartsLie(pa, su)' <=> PartsLie(pa, su)
  BY <1>1, <1>2 DEF PartsLie, PartAt, After, Lies
<1>7. SubsetsLie(su)' <=> SubsetsLie(su)
  BY <1>1, <1>2, <1>3 DEF SubsetsLie, SubsetAt, After, Lies
<1>8. MaterialsLie(ma)' <=> MaterialsLie(ma)
  BY <1>1, <1>2 DEF MaterialsLie, MaterialAt, After, Lies
<1>9. TexturesLie(te)' <=> TexturesLie(te)
  BY <1>1, <1>2 DEF TexturesLie, TextureAt, After, Lies
<1> QED  BY <1>1, <1>2, <1>5, <1>6, <1>7, <1>8, <1>9 DEF Laid, Sound

LEMMA FollowsStays ==
  ASSUME NEW pa \in Places, NEW su \in [Nat -> Places], NEW ma \in Places,
         NEW te \in Places, Follows(pa, su, ma, te),
         load' = load, next' = next, got' = got, hdr' = hdr, part' = part,
         libs' = libs, model' = model, Parts' = Parts
  PROVE  Follows(pa, su, ma, te)'
<1>1. /\ \A k, i : Loaded(k, i)' = Loaded(k, i)
      /\ \A k : LoadedTex(k)' = LoadedTex(k)
      /\ \A k : PartAt(pa, su, k)' = PartAt(pa, su, k)
      /\ All(Parts)' = All(Parts) /\ FileHeader(libs)' = FileHeader(libs)
  BY DEF Loaded, LoadedTex, PartAt, After, All, FileHeader
<1>2. Entries' = Entries
  BY DEF Entries, Loaded
<1>3. \A k : GotParts(k) => GotParts(k)'
  BY <1>1, <1>2 DEF GotParts
<1>4. load \in {"header", "part", "subset", "mat", "tex"}
  BY DEF Follows
<1>h. load # "header" => hdr' = FileHeader(libs)'
  BY <1>1 DEF Follows
<1>5. CASE load = "header"
  BY <1>5 DEF Follows, Nothing
<1>6. CASE load = "part"
  <2>1. PICK k \in 0..Len(Parts) : /\ next = After(Parts, pa, k)
                                   /\ GotParts(k) /\ Len(got.parts) = k
    BY <1>6 DEF Follows
  <2>2. /\ k \in 0..Len(Parts)' /\ next' = After(Parts, pa, k)'
        /\ GotParts(k)' /\ Len(got'.parts) = k
    BY <1>3, <2>1 DEF After
  <2> QED  BY <1>6, <1>h, <2>2 DEF Follows
<1>7. CASE load = "subset"
  <2>1. PICK k \in 1..Len(Parts) : \E n \in 0..Len(Parts[k]) :
          /\ next = After(Parts[k], su[k], n)
          /\ part = PartAt(pa, su, k)
          /\ GotParts(k - 1) /\ Len(got.parts) = k /\ Len(got.parts[k]) = n
          /\ \A i \in 1..n : got.parts[k][i] = Loaded(k, i)
    BY <1>7 DEF Follows
  <2>2. PICK n \in 0..Len(Parts[k]) :
          /\ next = After(Parts[k], su[k], n)
          /\ part = PartAt(pa, su, k)
          /\ GotParts(k - 1) /\ Len(got.parts) = k /\ Len(got.parts[k]) = n
          /\ \A i \in 1..n : got.parts[k][i] = Loaded(k, i)
    BY <2>1
  <2>3. /\ k \in 1..Len(Parts)' /\ n \in 0..Len(Parts[k])'
        /\ next' = After(Parts[k], su[k], n)'
        /\ part' = PartAt(pa, su, k)'
        /\ GotParts(k - 1)' /\ Len(got'.parts) = k /\ Len(got'.parts[k]) = n
        /\ \A i \in 1..n : got'.parts[k][i] = Loaded(k, i)'
    BY <1>1, <1>3, <2>2 DEF After
  <2> QED  BY <1>7, <1>h, <2>3 DEF Follows
<1>8. CASE load = "mat"
  <2>1. PICK n \in 0..Len(model.mats) :
          /\ next = After(model.mats, ma, n)
          /\ got = [parts |-> All(Parts), mats |-> {model.mats[k] : k \in 1..n},
                    texs |-> {}]
    BY <1>8 DEF Follows
  <2>2. {model.mats[k] : k \in 1..n}' = {model.mats[k] : k \in 1..n}
    OBVIOUS
  <2>3. /\ n \in 0..Len(model.mats)' /\ next' = After(model.mats, ma, n)'
        /\ got' = [parts |-> All(Parts), mats |-> {model.mats[k] : k \in 1..n},
                   texs |-> {}]'
    BY <1>1, <2>1, <2>2 DEF After
  <2> QED  BY <1>8, <1>h, <2>3 DEF Follows
<1>9. CASE load = "tex"
  <2>1. PICK n \in 0..Len(model.texs) :
          /\ next = After(model.texs, te, n)
          /\ got = [parts |-> All(Parts), mats |-> ToSet(model.mats),
                    texs |-> {LoadedTex(k) : k \in 1..n}]
    BY <1>9 DEF Follows
  <2>2. {LoadedTex(k) : k \in 1..n}' = {LoadedTex(k) : k \in 1..n}
    BY <1>1
  <2>3. /\ n \in 0..Len(model.texs)' /\ next' = After(model.texs, te, n)'
        /\ got' = [parts |-> All(Parts), mats |-> ToSet(model.mats),
                   texs |-> {LoadedTex(k) : k \in 1..n}]'
    BY <1>1, <2>1, <2>2 DEF After
  <2> QED  BY <1>9, <1>h, <2>3 DEF Follows
<1> QED  BY <1>4, <1>5, <1>6, <1>7, <1>8, <1>9

LEMMA LoadStepFollows ==
  ASSUME SaveFits, Opening, NEW pa \in Places, NEW su \in [Nat -> Places],
         NEW ma \in Places, NEW te \in Places,
         Laid(pa, su, ma, te), Follows(pa, su, ma, te), LoadStep
  PROVE  /\ load' # "off" => Follows(pa, su, ma, te)'
         /\ load' = "off" => result' = AsLoaded(model) \/ Subsets(got) = MaxSubsets
<1>1. UNCHANGED <<file, model, state, saver, stream>>
  BY DEF LoadStep
<1>2. CASE ReadHeader
  <2>1. load' # "off"
    BY <1>2 DEF ReadHeader, Goto
  <2> QED  BY <1>1, <1>2, <2>1, ReadHeaderFollows
<1>3. CASE ReadPart
  <2>1. load' # "off"
    BY <1>3 DEF ReadPart, Goto
  <2> QED  BY <1>1, <1>3, <2>1, ReadPartFollows
<1>4. CASE ReadSubset
  <2>1. load' # "off"
    BY <1>4 DEF ReadSubset, Goto
  <2> QED  BY <1>1, <1>4, <2>1, ReadSubsetFollows
<1>5. CASE ReadMaterial
  <2>1. load' # "off"
    BY <1>5 DEF ReadMaterial, Goto
  <2> QED  BY <1>1, <1>5, <2>1, ReadMaterialFollows
<1>6. CASE ReadTexture
  <2>1. load' # "off"
    BY <1>6 DEF ReadTexture, Goto
  <2> QED  BY <1>1, <1>6, <2>1, ReadTextureFollows
<1>7. CASE EndLoop /\ load # "tex"
  <2>1. load' # "off"
    BY <1>7 DEF EndLoop, Goto
  <2> QED  BY <1>1, <1>7, <2>1, EndLoopFollows
<1>8. CASE EndLoop /\ load = "tex"
  BY <1>8, EndLoopOpens
<1>9. CASE Reject
  BY <1>9, NeverRejected
<1>10. CASE OutOfMemory
  BY <1>10 DEF OutOfMemory, Return
<1> QED  BY <1>2, <1>3, <1>4, <1>5, <1>6, <1>7, <1>8, <1>9, <1>10 DEF LoadStep

LEMMA InitInv == Init => IInv
<1> SUFFICES ASSUME Init  PROVE IInv
  OBVIOUS
<1>1. SaveFits
  BY DEF Init, SaveFits, Off, Step, Whole
<1>2. ~ Sound /\ ~ Opening
  BY DEF Init, Sound, Opening, Whole
<1>3. PICK pa \in Places : TRUE
  <2>1. [k \in Nat |-> 0] \in Places
    BY DEF Places
  <2> QED  BY <2>1
<1>4. PICK su \in [Nat -> Places] : TRUE
  <2>1. [k \in Nat |-> pa] \in [Nat -> Places]
    OBVIOUS
  <2> QED  BY <2>1
<1>5. Fits(pa, su, pa, pa)
  BY <1>2 DEF Fits
<1> QED  BY <1>1, <1>3, <1>4, <1>5 DEF IInv

LEMMA NextInv == IInv /\ [Next]_vars => IInv'
<1> SUFFICES ASSUME IInv, [Next]_vars  PROVE IInv'
  OBVIOUS
<1>0. PICK pa \in Places, su \in [Nat -> Places], ma \in Places, te \in Places :
        Fits(pa, su, ma, te)
  BY DEF IInv
<1>s. /\ SaveFits /\ SaveFits'
      /\ Sound => Laid(pa, su, ma, te)
      /\ Opening => Follows(pa, su, ma, te)
  BY <1>0, SaveFitsStep DEF IInv, Fits
<1>w. ASSUME NEW pa2 \in Places, NEW su2 \in [Nat -> Places],
             NEW ma2 \in Places, NEW te2 \in Places,
             Sound' => Laid(pa2, su2, ma2, te2)',
             Opening' => Follows(pa2, su2, ma2, te2)'
      PROVE  IInv'
  BY <1>s, <1>w DEF IInv, Fits
<1>1. ASSUME NEW m \in Models, SaveOpen(m)  PROVE IInv'
  <2>1. state' = "saving" /\ load' = "off"
    BY <1>1 DEF SaveOpen, loader
  <2>2. ~ Opening' /\ (Sound' => ~ full')
    BY <2>1 DEF Opening, Sound, Whole
  <2>3. CASE full'
    BY <1>w, <2>2, <2>3
  <2>4. CASE ~ full'
    BY <1>1, <1>w, <2>2, <2>4, SaveOpenLays
  <2> QED  BY <2>3, <2>4
<1>2. ASSUME SaveStep
      PROVE  state = "saving" /\ load' = "off" /\ (Sound' => ~ full' /\ ~ full)
  <2>1. save.at # "off" /\ load' = load /\ full \in BOOLEAN
    BY <1>2, <1>s DEF SaveFits, SaveStep, WritePart, WriteSubset, ClosePart,
         WriteMaterial, WriteTexture, Finish, loader
  <2>2. state = "saving" /\ load' = "off"
    BY <1>s, <2>1 DEF SaveFits
  <2>3. ~ full' => ~ full
    BY <1>2, <2>1, PutRoom DEF SaveStep, WritePart, WriteSubset, ClosePart,
         WriteMaterial, WriteTexture, Finish
  <2>4. Sound' => ~ full'
    <3>1. CASE Finish
      BY <3>1 DEF Finish, Sound, Whole
    <3>2. CASE ~ Finish
      <4>1. state' = state
        BY <1>2, <3>2 DEF SaveStep, WritePart, WriteSubset, ClosePart,
             WriteMaterial, WriteTexture
      <4> QED  BY <2>2, <4>1 DEF Sound, Whole
    <3> QED  BY <3>1, <3>2
  <2> QED  BY <2>2, <2>3, <2>4
<1>3. ASSUME SaveStep  PROVE IInv'
  <2>1. ~ Opening'
    BY <1>2, <1>3 DEF Opening
  <2>2. CASE ~ Sound'
    BY <1>w, <2>1, <2>2
  <2>3. CASE Sound'
    <3>1. ~ full' /\ ~ full /\ Laid(pa, su, ma, te)
      BY <1>2, <1>3, <1>s, <2>3 DEF Sound
    <3>2. CASE WritePart
      BY <1>s, <1>w, <2>1, <3>1, <3>2, WritePartLays
    <3>3. CASE WriteSubset
      BY <1>s, <1>w, <2>1, <3>1, <3>3, WriteSubsetLays
    <3>4. CASE ClosePart
      BY <1>s, <1>w, <2>1, <3>1, <3>4, ClosePartLays
    <3>5. CASE WriteMaterial
      BY <1>s, <1>w, <2>1, <3>1, <3>5, WriteMaterialLays
    <3>6. CASE WriteTexture
      BY <1>s, <1>w, <2>1, <3>1, <3>6, WriteTextureLays
    <3>7. CASE Finish
      BY <1>s, <1>w, <2>1, <3>1, <3>7, FinishLays
    <3> QED  BY <1>3, <3>2, <3>3, <3>4, <3>5, <3>6, <3>7 DEF SaveStep
  <2> QED  BY <2>2, <2>3
<1>4. CASE Die
  <2>1. ~ Opening' /\ ~ Sound'
    BY <1>4 DEF Die, Opening, Sound, Whole
  <2> QED  BY <1>w, <2>1
<1>5. CASE Cut
  <2>1. ~ Opening' /\ ~ Sound'
    BY <1>5 DEF Cut, CutAt, Opening, Sound, Whole
  <2> QED  BY <1>w, <2>1
<1>6. CASE Start
  <2>1. UNCHANGED <<file, model, state, saver>>
    BY <1>6 DEF Start
  <2>2. Sound' => Laid(pa, su, ma, te)'
    BY <1>s, <2>1, LaidStays
  <2>3. load' = "header" /\ next' = 0 /\ got' = Nothing
    BY <1>6 DEF Start, Goto
  <2>4. Follows(pa, su, ma, te)'
    BY <2>3 DEF Follows, Nothing
  <2> QED  BY <1>w, <2>2, <2>4
<1>7. CASE LoadStep
  <2>1. UNCHANGED <<file, model, state, saver>>
    BY <1>7 DEF LoadStep
  <2>2. Sound' => Laid(pa, su, ma, te)'
    BY <1>s, <2>1, LaidStays
  <2>3. Opening' => Opening /\ Sound
    BY <1>7, <2>1, LoadStepGuard DEF Opening, Sound, Whole, Parts
  <2>4. Opening' => Follows(pa, su, ma, te)'
    <3>1. Opening' => load' # "off"
      BY DEF Opening
    <3> QED  BY <1>7, <1>s, <2>3, <3>1, LoadStepFollows
  <2> QED  BY <1>w, <2>2, <2>4
<1>8. CASE UNCHANGED vars
  <2>1. UNCHANGED <<file, model, state, saver, loader>>
    BY <1>8 DEF vars
  <2>2. Sound' => Laid(pa, su, ma, te)'
    BY <1>s, <2>1, LaidStays
  <2>3. /\ load' = load /\ next' = next /\ got' = got /\ hdr' = hdr
        /\ part' = part /\ libs' = libs /\ model' = model /\ state' = state
        /\ Parts' = Parts
    BY <2>1 DEF loader, locals, saver, Parts
  <2>4. Opening' => Opening
    BY <2>3 DEF Opening, Whole
  <2>5. Follows(pa, su, ma, te) => Follows(pa, su, ma, te)'
    BY <2>3, FollowsStays
  <2> QED  BY <1>s, <1>w, <2>2, <2>4, <2>5
<1> QED  BY <1>1, <1>3, <1>4, <1>5, <1>6, <1>7, <1>8 DEF Next

\* The blocks of a complete file lie one behind the other, and a load of it is
\* always at the block that comes next.
THEOREM FileInductive == Spec => []IInv
<1> QED  BY InitInv, NextInv, PTL DEF Spec

-----------------------------------------------------------------------------
(* Every header leads to the right block *)

\* What stands at an offset of the file.
PartNo(p)      == <<"part", p, 0>>
SubsetNo(p, i) == <<"subset", p, i>>
TextureNo(k)   == <<"tex", k, 0>>
MaterialNo     == <<"mat", 0, 0>>

\* What the save writes next.
Due ==
  IF save.at = "part" THEN PartNo(save.part)
  ELSE IF save.at = "subset" /\ save.item <= Len(Parts[save.part])
    THEN SubsetNo(save.part, save.item)
  ELSE IF save.at = "subset" /\ save.part < Len(Parts) THEN PartNo(save.part + 1)
  ELSE IF save.at = "subset" /\ model.mats # <<>> THEN MaterialNo
  ELSE IF save.at = "mat" /\ save.item <= Len(model.mats) THEN MaterialNo
  ELSE IF save.at = "tex" THEN TextureNo(save.item)
  ELSE TextureNo(1)

\* A block that a header leads to: it is there, or the file ends before.
Beyond(o) == /\ o + HeaderSize > len
             /\ state = "saving" /\ ~ full => o = ofs
Leads(lab, o, l) == /\ o \in Nat /\ o >= HeaderSize /\ o <= ofs /\ lab[o] = l
                    /\ o \in DOMAIN block \/ Beyond(o)

PartRight(lab, h, p) ==
  /\ p \in 1 .. Len(Parts)
  /\ h = [kind |-> "PART", first |-> h.first, next |-> h.next]
  /\ Leads(lab, h.first, SubsetNo(p, 1))
  /\ h.next = -1 \/ (p < Len(Parts) /\ Leads(lab, h.next, PartNo(p + 1)))
SubsetRight(lab, h, p, i) ==
  /\ p \in 1 .. Len(Parts) /\ i \in 1 .. Len(Parts[p])
  /\ h = [kind |-> "SUBSET", mat |-> Parts[p][i].mat, data |-> Parts[p][i].data,
          size |-> Parts[p][i].size, next |-> h.next]
  /\ h.next = -1 \/ (i < Len(Parts[p]) /\ Leads(lab, h.next, SubsetNo(p, i + 1)))
TextureRight(lab, h, k) ==
  /\ k \in 1 .. Len(model.texs)
  /\ h = [kind |-> "TEX", name |-> model.texs[k].name,
          size |-> model.texs[k].size, next |-> h.next]
  /\ h.next = -1 \/ (k < Len(model.texs) /\ Leads(lab, h.next, TextureNo(k + 1)))
Right(lab, o) ==
  /\ \A p \in Nat : lab[o] = PartNo(p) => PartRight(lab, block[o], p)
  /\ \A p, i \in Nat : lab[o] = SubsetNo(p, i) => SubsetRight(lab, block[o], p, i)
  /\ \A k \in Nat : lab[o] = TextureNo(k) => TextureRight(lab, block[o], k)

LeadsToTextures(lab, o) ==
  o \in {0, -1} \/ (model.texs # <<>> /\ Leads(lab, o, TextureNo(1)))
LibsLead(lab) == /\ libs = [mats |-> libs.mats, texs |-> libs.texs]
                 /\ LeadsToTextures(lab, libs.texs)

\* The file, at any time of a save, after it, and after a cut.
Room ==
  /\ ofs \in Nat /\ ofs >= HeaderSize /\ len \in Nat /\ len <= ofs
  /\ \A o \in DOMAIN block : /\ o \in Nat /\ o + HeaderSize <= len
                             /\ o = 0 \/ o >= HeaderSize
  /\ 0 \in DOMAIN block \/ len < HeaderSize
  /\ state = "saving" /\ ~ full => len = ofs
  /\ Parts = <<>> => len <= HeaderSize
Heads(lab) ==
  /\ 0 \in DOMAIN block =>
       /\ block[0] = FileHeader([mats |-> block[0].mats, texs |-> block[0].texs])
       /\ LeadsToTextures(lab, block[0].texs)
  /\ state \in {"saving", "interrupted"} /\ 0 \in DOMAIN block =>
       block[0] = FileHeader(NoLibs)
  /\ state \in {"interrupted", "whole"} => 0 \in DOMAIN block
  /\ state = "saving" => LibsLead(lab)
  /\ Parts # <<>> => Leads(lab, HeaderSize, PartNo(1))
Writes(lab) ==
  /\ state = "saving" /\ save.at # "finish" => lab[ofs] = Due
  /\ save.at = "subset" => /\ partOfs \in Nat /\ partOfs >= HeaderSize
                           /\ partOfs < ofs /\ lab[partOfs] = PartNo(save.part)
Linked(lab) ==
  /\ Room /\ Heads(lab) /\ Writes(lab)
  /\ \A o \in DOMAIN block : o > 0 => Right(lab, o)

-----------------------------------------------------------------------------
(* What a step of the save does to the blocks that are there *)

LEMMA RightStays ==
  ASSUME NEW lab, NEW lab2, NEW o, Right(lab, o), lab2[o] = lab[o],
         block'[o] = block[o], model' = model,
         \A x, l : Leads(lab, x, l) => Leads(lab2, x, l)'
  PROVE  Right(lab2, o)'
<1>1. Parts' = Parts
  BY DEF Parts
<1>2. ASSUME NEW p \in Nat, lab2[o] = PartNo(p)
      PROVE  PartRight(lab2, block[o], p)'
  <2>1. PartRight(lab, block[o], p)
    BY <1>2 DEF Right
  <2> QED  BY <1>1, <2>1 DEF PartRight
<1>3. ASSUME NEW p \in Nat, NEW i \in Nat, lab2[o] = SubsetNo(p, i)
      PROVE  SubsetRight(lab2, block[o], p, i)'
  <2>1. SubsetRight(lab, block[o], p, i)
    BY <1>3 DEF Right
  <2> QED  BY <1>1, <2>1 DEF SubsetRight
<1>4. ASSUME NEW k \in Nat, lab2[o] = TextureNo(k)
      PROVE  TextureRight(lab2, block[o], k)'
  <2>1. TextureRight(lab, block[o], k)
    BY <1>4 DEF Right
  <2> QED  BY <2>1 DEF TextureRight
<1> QED  BY <1>2, <1>3, <1>4 DEF Right

\* The file grows at its end, if at all.
LEMMA PutAdds ==
  ASSUME Room, NEW h, NEW size \in Nat, Put(h, size), state = "saving",
         full \in BOOLEAN
  PROVE  /\ ofs' = ofs + HeaderSize + size /\ len' \in Nat /\ len' <= ofs'
         /\ ofs' \in Nat /\ HeaderSize \in Nat \ {0, 1}
         /\ ofs \notin DOMAIN block
         /\ ~ full' => len' = ofs' /\ ~ full /\ ofs \in DOMAIN block'
         /\ DOMAIN block' \subseteq DOMAIN block \union {ofs}
         /\ ofs \in DOMAIN block' => block'[ofs] = h /\ ofs + HeaderSize <= len'
         /\ \A o \in DOMAIN block : o \in DOMAIN block' /\ block'[o] = block[o]
         /\ len <= len'
         /\ ofs \notin DOMAIN block' => len' = len
         /\ full => len' = len /\ full'
<1>1. /\ HeaderSize \in Nat \ {0, 1} /\ ofs \in Nat /\ len \in Nat /\ len <= ofs
      /\ \A o \in DOMAIN block : o \in Nat /\ o + HeaderSize <= len
      /\ ~ full => len = ofs
  BY ScanFileAssumption DEF Room
<1>2. ofs \notin DOMAIN block
  BY <1>1
<1>3. ofs' = ofs + HeaderSize + size
  BY DEF Put
<1>4. CASE /\ ~ full
           /\ block' = [o \in DOMAIN block \union {ofs} |->
                          IF o = ofs THEN h ELSE block[o]]
           /\ \/ len' = ofs + HeaderSize + size /\ full' = FALSE
              \/ full' = TRUE /\ size > 0 /\ len' = ofs + HeaderSize + size - 1
  <2>1. /\ ofs \in DOMAIN block' /\ block'[ofs] = h
        /\ DOMAIN block' \subseteq DOMAIN block \union {ofs}
        /\ \A o \in DOMAIN block : o \in DOMAIN block' /\ block'[o] = block[o]
    BY <1>2, <1>4
  <2>2. /\ len' \in Nat /\ len' <= ofs' /\ ofs + HeaderSize <= len'
        /\ len <= len' /\ (~ full' => len' = ofs')
    BY <1>1, <1>3, <1>4
  <2> QED  BY <1>1, <1>2, <1>3, <1>4, <2>1, <2>2
<1>5. CASE full' = TRUE /\ UNCHANGED file
  BY <1>1, <1>2, <1>3, <1>5 DEF file
<1> QED  BY <1>4, <1>5 DEF Put

\* The place z, which was none, has the name x.
Named(lab, z, x, lab2) == lab2 = [o \in Nat |-> IF o = z THEN x ELSE lab[o]]

\* What was there, or expected at the end, still is after a block more.
LEMMA PutLeads ==
  ASSUME Room, NEW h, NEW size \in Nat, Put(h, size), state = "saving",
         state' = state, full \in BOOLEAN, NEW x, NEW lab, NEW lab2,
         NEW z, z = ofs', Named(lab, z, x, lab2)
  PROVE  /\ \A o, l : Leads(lab, o, l) => Leads(lab2, o, l)'
         /\ Leads(lab2, z, x)'
         /\ \A o \in 0 .. ofs : lab2[o] = lab[o]
         /\ lab2[z] = x
<1>1. /\ ofs' = ofs + HeaderSize + size /\ len' \in Nat /\ len' <= ofs'
      /\ ofs' \in Nat /\ HeaderSize \in Nat \ {0, 1}
      /\ ~ full' => len' = ofs' /\ ~ full /\ ofs \in DOMAIN block'
      /\ \A o \in DOMAIN block : o \in DOMAIN block'
      /\ ofs \notin DOMAIN block' => len' = len
      /\ full => len' = len /\ full'
  BY PutAdds
<1>2. /\ ofs \in Nat /\ len \in Nat /\ len <= ofs /\ ofs < z /\ z \in Nat
      /\ ~ full => len = ofs
  BY <1>1 DEF Room
<1>3. lab2[z] = x /\ \A o \in 0 .. ofs : lab2[o] = lab[o]
  BY <1>1, <1>2 DEF Named
<1>4. Leads(lab2, z, x)'
  BY <1>1, <1>2, <1>3 DEF Leads, Beyond
<1>5. ASSUME NEW o, NEW l, Leads(lab, o, l)  PROVE Leads(lab2, o, l)'
  <2>1. /\ o \in Nat /\ o >= HeaderSize /\ o <= ofs /\ lab[o] = l
        /\ o \in DOMAIN block \/ Beyond(o)
    BY <1>5 DEF Leads
  <2>2. lab2[o] = l /\ o <= ofs'
    <3>1. o \in 0 .. ofs
      BY <1>2, <2>1
    <3> QED  BY <1>2, <1>3, <2>1, <3>1
  <2>3. o \in DOMAIN block' \/ Beyond(o)'
    <3>1. CASE o \in DOMAIN block
      BY <1>1, <3>1
    <3>2. CASE Beyond(o) /\ ~ full
      <4>1. o = ofs
        BY <3>2 DEF Beyond
      <4>2. CASE ofs \in DOMAIN block'
        BY <4>1, <4>2
      <4>3. CASE ofs \notin DOMAIN block'
        BY <1>1, <1>2, <4>1, <4>3 DEF Beyond
      <4> QED  BY <4>2, <4>3
    <3>3. CASE Beyond(o) /\ full
      BY <1>1, <3>3 DEF Beyond
    <3> QED  BY <2>1, <3>1, <3>2, <3>3
  <2> QED  BY <2>1, <2>2, <2>3 DEF Leads
<1> QED  BY <1>3, <1>4, <1>5

\* A block more at the end: it must be right itself, and what is due next is
\* what is expected behind it.
LEMMA PutLinks ==
  ASSUME SaveFits, NEW lab, Linked(lab), state = "saving", state' = state,
         model' = model, Parts # <<>>, NEW h, NEW size \in Nat, Put(h, size),
         NEW y, y = ofs, NEW z, z = ofs', NEW x, save'.at # "finish" => x = Due',
         NEW lab2, Named(lab, z, x, lab2),
         y \in DOMAIN block' => Right(lab2, y)',
         LibsLead(lab2)',
         save'.at = "subset" => /\ partOfs' \in Nat /\ partOfs' >= HeaderSize
                                /\ partOfs' <= y
                                /\ lab[partOfs'] = PartNo(save'.part)
  PROVE  Linked(lab2)'
<1>0. /\ Room /\ Heads(lab) /\ Writes(lab) /\ full \in BOOLEAN
      /\ \A o \in DOMAIN block : o > 0 => Right(lab, o)
      /\ Parts' = Parts
  BY DEF Linked, SaveFits, Parts
<1>1. /\ \A o, l : Leads(lab, o, l) => Leads(lab2, o, l)'
      /\ \A o \in 0 .. y : lab2[o] = lab[o]
      /\ lab2[z] = x
  <2>1. /\ \A o, l : Leads(lab, o, l) => Leads(lab2, o, l)'
        /\ \A o \in 0 .. ofs : lab2[o] = lab[o]
        /\ lab2[z] = x
    BY <1>0, PutLeads
  <2> QED  BY <2>1
<1>2. /\ z = y + HeaderSize + size /\ len' \in Nat /\ len' <= z
      /\ z \in Nat /\ HeaderSize \in Nat \ {0, 1}
      /\ y \notin DOMAIN block
      /\ ~ full' => len' = z /\ ~ full /\ y \in DOMAIN block'
      /\ DOMAIN block' \subseteq DOMAIN block \union {y}
      /\ y \in DOMAIN block' => y + HeaderSize <= len'
      /\ \A o \in DOMAIN block : o \in DOMAIN block' /\ block'[o] = block[o]
      /\ len <= len'
      /\ y \notin DOMAIN block' => len' = len
      /\ full => len' = len
  BY <1>0, PutAdds
<1>3. /\ y \in Nat /\ y >= HeaderSize /\ len \in Nat /\ len <= y
      /\ \A o \in DOMAIN block : /\ o \in Nat /\ o + HeaderSize <= len
                                 /\ o = 0 \/ o >= HeaderSize
      /\ 0 \in DOMAIN block \/ len < HeaderSize
      /\ ~ full => len = y
  BY <1>0 DEF Room
<1>4. Room'
  <2>1. \A o \in DOMAIN block' : /\ o \in Nat /\ o + HeaderSize <= len'
                                 /\ o = 0 \/ o >= HeaderSize
    BY <1>2, <1>3
  <2>2. 0 \in DOMAIN block' \/ len' < HeaderSize
    <3>1. CASE 0 \in DOMAIN block
      BY <1>2, <3>1
    <3>2. CASE 0 \notin DOMAIN block /\ y \notin DOMAIN block'
      BY <1>2, <1>3, <3>2
    <3>3. CASE 0 \notin DOMAIN block /\ y \in DOMAIN block'
      <4>1. len < y
        BY <1>2, <1>3, <3>3
      <4>2. full = TRUE
        BY <1>0, <1>3, <4>1
      <4> QED  BY <1>2, <1>3, <3>3, <4>2
    <3> QED  BY <3>1, <3>2, <3>3
  <2>3. z >= HeaderSize
    BY <1>2, <1>3
  <2> QED  BY <1>0, <1>2, <2>1, <2>2, <2>3 DEF Room
<1>5. 0 \in DOMAIN block' => 0 \in DOMAIN block /\ block'[0] = block[0]
  BY <1>2, <1>3
<1>6. \A o : LeadsToTextures(lab, o) => LeadsToTextures(lab2, o)'
  BY <1>1 DEF LeadsToTextures
<1>7. Heads(lab2)'
  <2>1. /\ 0 \in DOMAIN block' =>
             block'[0] = FileHeader([mats |-> block'[0].mats,
                                     texs |-> block'[0].texs])
        /\ state' \in {"saving", "interrupted"} /\ 0 \in DOMAIN block' =>
             block'[0] = FileHeader(NoLibs)
    BY <1>0, <1>5 DEF Heads
  <2>2. 0 \in DOMAIN block' => LeadsToTextures(lab2, block[0].texs)'
    <3>1. ASSUME 0 \in DOMAIN block'  PROVE LeadsToTextures(lab2, block[0].texs)'
      <4>1. PICK o : o = block[0].texs
        OBVIOUS
      <4>2. LeadsToTextures(lab, o)
        BY <1>0, <1>5, <3>1, <4>1 DEF Heads
      <4>3. LeadsToTextures(lab2, o)' /\ o = block'[0].texs
        BY <1>5, <1>6, <3>1, <4>1, <4>2
      <4> QED  BY <4>3
    <3> QED  BY <3>1
  <2>3. Leads(lab2, HeaderSize, PartNo(1))'
    BY <1>0, <1>1 DEF Heads
  <2> QED  BY <2>1, <2>2, <2>3 DEF Heads
<1>8. Writes(lab2)'
  <2>1. save'.at = "subset" => lab2[partOfs'] = PartNo(save'.part)
    <3>1. save'.at = "subset" => partOfs' \in 0 .. y
      BY <1>3
    <3> QED  BY <1>1, <3>1
  <2>2. save'.at = "subset" => partOfs' < z
    BY <1>2, <1>3
  <2> QED  BY <1>1, <2>1, <2>2 DEF Writes
<1>9. ASSUME NEW o \in DOMAIN block', o > 0  PROVE Right(lab2, o)'
  <2>1. CASE o = y
    BY <1>9, <2>1
  <2>2. CASE o # y
    <3>1. o \in DOMAIN block /\ block'[o] = block[o] /\ Right(lab, o)
      BY <1>0, <1>2, <1>9, <2>2
    <3>2. o \in 0 .. y
      BY <1>2, <1>3, <3>1
    <3> QED  BY <1>1, <3>1, <3>2, RightStays
  <2> QED  BY <2>1, <2>2
<1> QED  BY <1>4, <1>7, <1>8, <1>9 DEF Linked

LEMMA NamesDiffer ==
  /\ \A p, q \in Nat : PartNo(p) = PartNo(q) => p = q
  /\ \A p, i, q, j \in Nat : SubsetNo(p, i) = SubsetNo(q, j) => p = q /\ i = j
  /\ \A k, j \in Nat : TextureNo(k) = TextureNo(j) => k = j
  /\ \A p, q, i, k : /\ PartNo(p) # SubsetNo(q, i) /\ PartNo(p) # TextureNo(k)
                     /\ SubsetNo(q, i) # TextureNo(k)
                     /\ MaterialNo # PartNo(p) /\ MaterialNo # SubsetNo(q, i)
                     /\ MaterialNo # TextureNo(k)
BY DEF PartNo, SubsetNo, TextureNo, MaterialNo

\* The offset of the first texture leads there also when the file has grown.
LEMMA TexturesStay ==
  ASSUME NEW lab, NEW lab2, NEW o, LeadsToTextures(lab, o), model' = model,
         \A x, l : Leads(lab, x, l) => Leads(lab2, x, l)'
  PROVE  LeadsToTextures(lab2, o)'
BY DEF LeadsToTextures

LEMMA LibsStay ==
  ASSUME NEW lab, NEW lab2, LibsLead(lab), model' = model,
         libs' = [mats |-> libs'.mats, texs |-> libs.texs],
         \A x, l : Leads(lab, x, l) => Leads(lab2, x, l)'
  PROVE  LibsLead(lab2)'
<1>1. PICK o : o = libs.texs
  OBVIOUS
<1>2. LeadsToTextures(lab2, o)'
  BY <1>1, TexturesStay DEF LibsLead
<1> QED  BY <1>1, <1>2 DEF LibsLead

LEMMA WritePartLinks ==
  ASSUME SaveFits, NEW lab, Linked(lab), WritePart
  PROVE  \E lab2 : Linked(lab2)'
<1>1. /\ save.at = "part" /\ save.part \in 1 .. Len(Parts) /\ model \in Models
      /\ state = "saving" /\ state' = state /\ model' = model /\ libs' = libs
      /\ full \in BOOLEAN
  BY DEF WritePart, SaveFits
<1>2. PICK p \in 1 .. Len(Parts) : p = save.part
  BY <1>1
<1>3. /\ save' = Step("subset", p, 1)
      /\ save'.at = "subset" /\ save'.part = p /\ save'.item = 1
  BY <1>2 DEF WritePart, Step
<1>4. /\ Len(Parts) \in Nat /\ Parts # <<>> /\ Len(Parts[p]) \in Nat \ {0}
      /\ Parts' = Parts /\ p \in Nat
  BY <1>1, ModelFits DEF Parts
<1>5. Due' = SubsetNo(p, 1)
  BY <1>3, <1>4 DEF Due
<1>6. Room /\ Heads(lab) /\ Writes(lab) /\ HeaderSize \in Nat \ {0, 1}
  BY ScanFileAssumption DEF Linked
<1>7. PICK y \in Nat : y = ofs /\ y >= HeaderSize /\ lab[y] = PartNo(p)
  BY <1>1, <1>2, <1>6 DEF Room, Writes, Due
<1>8. PICK h : /\ h = [kind |-> "PART", first |-> y + HeaderSize, next |-> -1]
               /\ Put(h, 0) /\ partOfs' = y
  BY <1>7 DEF WritePart
<1>9. PICK z \in Nat : z = ofs' /\ z = y + HeaderSize
  BY <1>1, <1>6, <1>7, <1>8, PutAdds
<1>10. PICK lab2 : Named(lab, z, SubsetNo(p, 1), lab2)
  BY DEF Named
<1>11. /\ \A o, l : Leads(lab, o, l) => Leads(lab2, o, l)'
       /\ Leads(lab2, z, SubsetNo(p, 1))'
       /\ \A o \in 0 .. y : lab2[o] = lab[o]
  BY <1>1, <1>6, <1>7, <1>8, <1>9, <1>10, PutLeads
<1>12. lab2[y] = PartNo(p)
  <2>1. y \in 0 .. y
    BY <1>7
  <2> QED  BY <1>7, <1>11, <2>1
<1>13. ASSUME y \in DOMAIN block'  PROVE Right(lab2, y)'
  <2>1. block'[y] = h
    BY <1>1, <1>6, <1>7, <1>8, <1>13, PutAdds
  <2>2. PartRight(lab2, h, p)'
    BY <1>2, <1>4, <1>8, <1>9, <1>11 DEF PartRight
  <2> QED  BY <1>4, <1>12, <2>1, <2>2, NamesDiffer DEF Right
<1>14. LibsLead(lab2)'
  <2>1. LibsLead(lab) /\ libs' = [mats |-> libs'.mats, texs |-> libs.texs]
    BY <1>1, <1>6 DEF Heads, LibsLead
  <2> QED  BY <1>1, <1>11, <2>1, LibsStay
<1>15. /\ save'.at # "finish" => SubsetNo(p, 1) = Due'
       /\ save'.at = "subset" => /\ partOfs' \in Nat /\ partOfs' >= HeaderSize
                                 /\ partOfs' <= y
                                 /\ lab[partOfs'] = PartNo(save'.part)
  BY <1>3, <1>5, <1>7, <1>8
<1>16. Linked(lab2)'
  BY <1>1, <1>4, <1>7, <1>8, <1>9, <1>10, <1>13, <1>14, <1>15, PutLinks
<1> QED  BY <1>16

LEMMA WriteSubsetLinks ==
  ASSUME SaveFits, NEW lab, Linked(lab), WriteSubset
  PROVE  \E lab2 : Linked(lab2)'
<1>1. /\ save.at = "subset" /\ save.part \in 1 .. Len(Parts) /\ model \in Models
      /\ state = "saving" /\ state' = state /\ model' = model /\ libs' = libs
      /\ full \in BOOLEAN /\ partOfs' = partOfs
      /\ save = Step(save.at, save.part, save.item)
      /\ save.item <= Len(Parts[save.part])
      /\ save.item \in 1..(Len(Parts[save.part]) + 1)
  BY DEF WriteSubset, SaveFits, Parts
<1>2. PICK p \in 1 .. Len(Parts) : p = save.part
  BY <1>1
<1>3. /\ Len(Parts) \in Nat /\ Parts # <<>> /\ Len(Parts[p]) \in Nat \ {0}
      /\ Parts' = Parts /\ p \in Nat
      /\ \A j \in 1 .. Len(Parts[p]) : Parts[p][j].size \in Nat
  BY <1>1, ModelFits DEF Parts
<1>4. PICK i \in 1 .. Len(Parts[p]) : i = save.item
  BY <1>1, <1>2, <1>3
<1>5. /\ save' = Step("subset", p, i + 1) /\ save'.at = "subset"
      /\ save'.part = p /\ save'.item = i + 1
  BY <1>1, <1>2, <1>4 DEF WriteSubset, Step
<1>6. Room /\ Heads(lab) /\ Writes(lab) /\ HeaderSize \in Nat \ {0, 1}
  BY ScanFileAssumption DEF Linked
<1>7. PICK y \in Nat : y = ofs /\ y >= HeaderSize /\ lab[y] = SubsetNo(p, i)
  BY <1>1, <1>2, <1>4, <1>6 DEF Room, Writes, Due
<1>8. PICK size \in Nat : size = Parts[p][i].size
  BY <1>3
<1>9. PICK h : /\ h = [kind |-> "SUBSET", mat |-> Parts[p][i].mat,
                       data |-> Parts[p][i].data, size |-> size,
                       next |-> IF i = Len(Parts[p]) THEN -1
                                ELSE y + HeaderSize + size]
               /\ Put(h, size)
  BY <1>2, <1>4, <1>7, <1>8 DEF WriteSubset, NextOfs, Parts
<1>10. PICK z \in Nat : z = ofs' /\ z = y + HeaderSize + size
  BY <1>1, <1>6, <1>7, <1>9, PutAdds
<1>11. PICK x : x = Due'
  OBVIOUS
<1>12. i < Len(Parts[p]) => x = SubsetNo(p, i + 1)
  BY <1>3, <1>5, <1>11 DEF Due
<1>13. PICK lab2 : Named(lab, z, x, lab2)
  BY DEF Named
<1>14. /\ \A o, l : Leads(lab, o, l) => Leads(lab2, o, l)'
       /\ Leads(lab2, z, x)'
       /\ \A o \in 0 .. y : lab2[o] = lab[o]
  BY <1>1, <1>6, <1>7, <1>9, <1>10, <1>13, PutLeads
<1>15. lab2[y] = SubsetNo(p, i)
  <2>1. y \in 0 .. y
    BY <1>7
  <2> QED  BY <1>7, <1>14, <2>1
<1>16. ASSUME y \in DOMAIN block'  PROVE Right(lab2, y)'
  <2>1. block'[y] = h
    BY <1>1, <1>6, <1>7, <1>9, <1>16, PutAdds
  <2>2. h = [kind |-> "SUBSET", mat |-> Parts[p][i].mat, data |-> Parts[p][i].data,
             size |-> Parts[p][i].size, next |-> h.next]
    BY <1>8, <1>9
  <2>3. /\ h.next = -1 \/ (i < Len(Parts[p]) /\ h.next = z)
        /\ i < Len(Parts[p]) => Leads(lab2, z, SubsetNo(p, i + 1))'
    BY <1>3, <1>9, <1>10, <1>12, <1>14
  <2>4. SubsetRight(lab2, h, p, i)'
    <3>1. p \in 1 .. Len(Parts') /\ i \in 1 .. Len(Parts'[p])
      BY <1>3
    <3> QED  BY <1>3, <2>2, <2>3, <3>1 DEF SubsetRight
  <2>5. p \in Nat /\ i \in Nat /\ SubsetRight(lab2, block[y], p, i)'
    BY <1>3, <2>1, <2>4 DEF SubsetRight
  <2>6. /\ \A q : lab2[y] # PartNo(q)
        /\ \A k : lab2[y] # TextureNo(k)
        /\ \A q, j \in Nat : lab2[y] = SubsetNo(q, j) => q = p /\ j = i
    BY <1>15, <2>5, NamesDiffer
  <2> QED  BY <2>5, <2>6 DEF Right
<1>17. LibsLead(lab2)'
  <2>1. LibsLead(lab) /\ libs' = [mats |-> libs'.mats, texs |-> libs.texs]
    BY <1>1, <1>6 DEF Heads, LibsLead
  <2> QED  BY <1>1, <1>14, <2>1, LibsStay
<1>18. /\ partOfs' \in Nat /\ partOfs' >= HeaderSize /\ partOfs' <= y
       /\ lab[partOfs'] = PartNo(save'.part)
  BY <1>1, <1>2, <1>5, <1>6, <1>7 DEF Writes
<1>19. Linked(lab2)'
  BY <1>1, <1>3, <1>7, <1>9, <1>10, <1>11, <1>13, <1>16, <1>17, <1>18, PutLinks
<1> QED  BY <1>19

\* Where the blocks are and what is expected does not change.
LEMMA LeadsStay ==
  ASSUME NEW lab, UNCHANGED <<len, state, ofs, full>>, DOMAIN block' = DOMAIN block
  PROVE  \A o, l : Leads(lab, o, l) => Leads(lab, o, l)'
BY DEF Leads, Beyond

LEMMA ClosePartLinks ==
  ASSUME SaveFits, NEW lab, Linked(lab), ClosePart
  PROVE  \E lab2 : Linked(lab2)'
<1>1. /\ save.at = "subset" /\ save.part \in 1 .. Len(Parts) /\ model \in Models
      /\ state = "saving" /\ state' = state /\ model' = model /\ libs' = libs
      /\ full \in BOOLEAN /\ partOfs' = partOfs
      /\ full' = full /\ ofs' = ofs /\ len' = len
      /\ save.item > Len(Parts[save.part])
      /\ save.item \in 1..(Len(Parts[save.part]) + 1)
  BY DEF ClosePart, SaveFits, Parts
<1>2. PICK p \in 1 .. Len(Parts) : p = save.part
  BY <1>1
<1>3. /\ Len(Parts) \in Nat /\ Parts # <<>> /\ Len(Parts[p]) \in Nat \ {0}
      /\ Parts' = Parts /\ p \in Nat
      /\ Len(model.mats) \in Nat /\ (Len(model.mats) = 0 <=> model.mats = <<>>)
  BY <1>1, ModelFits DEF Parts
<1>4. save' = IF p = Len(Parts) THEN Step("mat", 0, 1) ELSE Step("part", p + 1, 0)
  BY <1>2 DEF ClosePart, Parts
<1>5. Due' = Due
  <2>1. CASE p = Len(Parts)
    <3>1. save'.at = "mat" /\ save'.item = 1
      BY <1>4, <2>1 DEF Step
    <3>2. Due = IF model.mats # <<>> THEN MaterialNo ELSE TextureNo(1)
      BY <1>1, <1>2, <1>3, <2>1 DEF Due
    <3>3. Due' = IF model.mats # <<>> THEN MaterialNo ELSE TextureNo(1)
      BY <1>1, <1>3, <3>1 DEF Due
    <3> QED  BY <3>2, <3>3
  <2>2. CASE p # Len(Parts)
    <3>1. save'.at = "part" /\ save'.part = p + 1
      BY <1>4, <2>2 DEF Step
    <3>2. Due = PartNo(p + 1)
      BY <1>1, <1>2, <1>3, <2>2 DEF Due
    <3>3. Due' = PartNo(p + 1)
      BY <3>1 DEF Due
    <3> QED  BY <3>2, <3>3
  <2> QED  BY <2>1, <2>2
<1>6. /\ Room /\ Heads(lab) /\ Writes(lab) /\ HeaderSize \in Nat \ {0, 1}
      /\ \A o \in DOMAIN block : o > 0 => Right(lab, o)
  BY ScanFileAssumption DEF Linked
<1>7. PICK q \in Nat : q = partOfs /\ q >= HeaderSize /\ q < ofs /\ lab[q] = PartNo(p)
  BY <1>1, <1>2, <1>6 DEF Writes
<1>8. /\ DOMAIN block' = DOMAIN block
      /\ \A o \in DOMAIN block : o # q => block'[o] = block[o]
      /\ q \in DOMAIN block =>
           block'[q] = [block[q] EXCEPT !.next = IF p = Len(Parts) THEN -1 ELSE ofs]
  BY <1>2, <1>7 DEF ClosePart, Parts
<1>9. \A o, l : Leads(lab, o, l) => Leads(lab, o, l)'
  BY <1>1, <1>8, LeadsStay
<1>10. /\ ofs \in Nat /\ ofs >= HeaderSize /\ len \in Nat /\ len <= ofs
       /\ lab[ofs] = Due
  BY <1>1, <1>6 DEF Room, Writes
<1>11. Room'
  BY <1>1, <1>3, <1>6, <1>8 DEF Room
<1>12. Heads(lab)'
  <2>1. 0 \in DOMAIN block => block'[0] = block[0]
    BY <1>6, <1>7, <1>8
  <2>2. \A o : LeadsToTextures(lab, o) => LeadsToTextures(lab, o)'
    BY <1>1, <1>9 DEF LeadsToTextures
  <2>3. 0 \in DOMAIN block' => LeadsToTextures(lab, block[0].texs)'
    <3>1. PICK o : o = block[0].texs
      OBVIOUS
    <3>2. 0 \in DOMAIN block' => LeadsToTextures(lab, o)' /\ o = block'[0].texs
      BY <1>6, <1>8, <2>1, <2>2, <3>1 DEF Heads
    <3> QED  BY <3>2
  <2>4. LibsLead(lab)'
    <3>1. LibsLead(lab) /\ libs' = [mats |-> libs'.mats, texs |-> libs.texs]
      BY <1>1, <1>6 DEF Heads, LibsLead
    <3> QED  BY <1>1, <1>9, <3>1, LibsStay
  <2>5. Leads(lab, HeaderSize, PartNo(1))'
    BY <1>3, <1>6, <1>9 DEF Heads
  <2> QED  BY <1>1, <1>6, <1>8, <2>1, <2>3, <2>4, <2>5 DEF Heads
<1>13. Writes(lab)'
  <2>1. save'.at # "subset"
    BY <1>4 DEF Step
  <2> QED  BY <1>1, <1>5, <1>10, <2>1 DEF Writes
<1>14. ASSUME NEW o \in DOMAIN block', o > 0  PROVE Right(lab, o)'
  <2>1. o \in DOMAIN block /\ Right(lab, o)
    BY <1>6, <1>8, <1>14
  <2>2. CASE o # q
    BY <1>1, <1>8, <1>9, <2>1, <2>2, RightStays
  <2>3. CASE o = q
    <3>1. PartRight(lab, block[q], p)
      BY <1>3, <1>7, <2>1, <2>3 DEF Right
    <3>2. p < Len(Parts) => Leads(lab, ofs, PartNo(p + 1))
      <4>1. p < Len(Parts) => Due = PartNo(p + 1)
        BY <1>1, <1>2, <1>3 DEF Due
      <4> QED  BY <1>6, <1>10, <4>1 DEF Leads, Beyond
    <3>3. PICK y : y = ofs
      OBVIOUS
    <3>4. PICK h, g : /\ h = block[q]
                      /\ g = [h EXCEPT !.next = IF p = Len(Parts) THEN -1 ELSE y]
                      /\ block'[q] = g
      BY <1>8, <2>1, <2>3, <3>3
    <3>5. /\ h = [kind |-> "PART", first |-> h.first, next |-> h.next]
          /\ Leads(lab, h.first, SubsetNo(p, 1))
      BY <3>1, <3>4 DEF PartRight
    <3>6. /\ g = [kind |-> "PART", first |-> g.first, next |-> g.next]
          /\ g.first = h.first
          /\ g.next = IF p = Len(Parts) THEN -1 ELSE y
      BY <3>4, <3>5
    <3>7. PartRight(lab, g, p)'
      BY <1>2, <1>3, <1>9, <3>2, <3>3, <3>5, <3>6 DEF PartRight
    <3> QED  BY <1>3, <1>7, <2>3, <3>4, <3>7, NamesDiffer DEF Right
  <2> QED  BY <2>2, <2>3
<1> QED  BY <1>11, <1>12, <1>13, <1>14 DEF Linked

\* The file stays as it is, and the save goes on to the next list.
LEMMA GoOnLinks ==
  ASSUME NEW lab, Linked(lab), UNCHANGED <<file, model, state, ofs, full>>,
         save'.at # "subset", save'.at # "finish" => Due' = Due,
         save.at # "finish", LibsLead(lab)'
  PROVE  Linked(lab)'
<1>1. /\ Room /\ Heads(lab) /\ Writes(lab) /\ Parts' = Parts
      /\ \A o \in DOMAIN block : o > 0 => Right(lab, o)
      /\ block' = block /\ len' = len
  BY DEF Linked, Parts, file
<1>2. \A o, l : Leads(lab, o, l) => Leads(lab, o, l)'
  BY <1>1, LeadsStay
<1>3. Room'
  BY <1>1 DEF Room
<1>4. Heads(lab)'
  <2>1. 0 \in DOMAIN block' => LeadsToTextures(lab, block[0].texs)'
    <3>1. PICK o : o = block[0].texs
      OBVIOUS
    <3>2. 0 \in DOMAIN block' => LeadsToTextures(lab, o)' /\ o = block'[0].texs
      BY <1>1, <1>2, <3>1 DEF Heads, LeadsToTextures
    <3> QED  BY <3>2
  <2> QED  BY <1>1, <1>2, <2>1 DEF Heads
<1>5. Writes(lab)'
  BY <1>1 DEF Writes
<1>6. ASSUME NEW o \in DOMAIN block', o > 0  PROVE Right(lab, o)'
  BY <1>1, <1>2, <1>6, RightStays
<1> QED  BY <1>3, <1>4, <1>5, <1>6 DEF Linked

LEMMA WriteMaterialLinks ==
  ASSUME SaveFits, NEW lab, Linked(lab), WriteMaterial
  PROVE  \E lab2 : Linked(lab2)'
<1>1. /\ save.at = "mat" /\ model \in Models
      /\ state = "saving" /\ state' = state /\ model' = model
      /\ full \in BOOLEAN /\ partOfs' = partOfs
      /\ save.item \in 1..(Len(model.mats) + 1)
      /\ libs' = IF save.item = 1 THEN [libs EXCEPT !.mats = LibOfs(model.mats)]
                                  ELSE libs
  BY DEF WriteMaterial, SaveFits
<1>2. /\ Len(model.mats) \in Nat /\ (Len(model.mats) = 0 <=> model.mats = <<>>)
      /\ Parts' = Parts
      /\ Parts = <<>> => model.mats = <<>>
  BY <1>1, ModelFits, ModelAssumption DEF Parts
<1>3. /\ Room /\ Heads(lab) /\ Writes(lab) /\ HeaderSize \in Nat \ {0, 1}
  BY ScanFileAssumption DEF Linked
<1>4. LibsLead(lab) /\ libs' = [mats |-> libs'.mats, texs |-> libs.texs]
  <2>1. LibsLead(lab)
    BY <1>1, <1>3 DEF Heads
  <2> QED  BY <1>1, <2>1 DEF LibsLead
<1>5. PICK k \in 1..(Len(model.mats) + 1) : k = save.item
  BY <1>1
<1>6. CASE k > Len(model.mats)
  <2>1. /\ save' = Step("tex", 0, 1) /\ UNCHANGED <<file, ofs, full>>
    BY <1>5, <1>6 DEF WriteMaterial
  <2>2. save'.at = "tex" /\ save'.item = 1
    BY <2>1 DEF Step
  <2>3. Due' = TextureNo(1) /\ Due = TextureNo(1)
    BY <1>1, <1>2, <1>5, <1>6, <2>2 DEF Due
  <2>4. \A o, l : Leads(lab, o, l) => Leads(lab, o, l)'
    BY <1>1, <2>1, LeadsStay DEF file
  <2>5. LibsLead(lab)'
    BY <1>1, <1>4, <2>4, LibsStay
  <2> QED  BY <1>1, <2>1, <2>2, <2>3, <2>5, GoOnLinks
<1>7. CASE k <= Len(model.mats)
  <2>1. Parts # <<>>
    BY <1>2, <1>5, <1>7
  <2>2. PICK y \in Nat : y = ofs /\ y >= HeaderSize /\ lab[y] = MaterialNo
    BY <1>1, <1>3, <1>5, <1>7 DEF Room, Writes, Due
  <2>3. PICK h : Put(h, 0)
    BY <1>5, <1>7 DEF WriteMaterial
  <2>4. save' = Step("mat", 0, k + 1)
    BY <1>5, <1>7 DEF WriteMaterial
  <2>5. save'.at = "mat"
    BY <2>4 DEF Step
  <2>6. PICK z \in Nat : z = ofs'
    BY <1>1, <1>3, <2>3, PutAdds
  <2>7. PICK x : x = Due'
    OBVIOUS
  <2>8. PICK lab2 : Named(lab, z, x, lab2)
    BY DEF Named
  <2>9. /\ \A o, l : Leads(lab, o, l) => Leads(lab2, o, l)'
        /\ \A o \in 0 .. y : lab2[o] = lab[o]
    BY <1>1, <1>3, <2>2, <2>3, <2>6, <2>8, PutLeads
  <2>10. lab2[y] = MaterialNo
    <3>1. y \in 0 .. y
      BY <2>2
    <3> QED  BY <2>2, <2>9, <3>1
  <2>11. Right(lab2, y)'
    BY <2>10, NamesDiffer DEF Right
  <2>12. LibsLead(lab2)'
    BY <1>1, <1>4, <2>9, LibsStay
  <2>13. Linked(lab2)'
    BY <1>1, <2>1, <2>2, <2>3, <2>5, <2>6, <2>7, <2>8, <2>11, <2>12, PutLinks
  <2> QED  BY <2>13
<1> QED  BY <1>2, <1>5, <1>6, <1>7

LEMMA WriteTextureLinks ==
  ASSUME SaveFits, NEW lab, Linked(lab), WriteTexture
  PROVE  \E lab2 : Linked(lab2)'
<1>1. /\ save.at = "tex" /\ model \in Models
      /\ state = "saving" /\ state' = state /\ model' = model
      /\ full \in BOOLEAN /\ partOfs' = partOfs
      /\ save.item \in 1..(Len(model.texs) + 1)
      /\ libs' = IF save.item = 1 THEN [libs EXCEPT !.texs = LibOfs(model.texs)]
                                  ELSE libs
  BY DEF WriteTexture, SaveFits
<1>2. /\ Len(model.texs) \in Nat /\ (Len(model.texs) = 0 <=> model.texs = <<>>)
      /\ Parts' = Parts
      /\ Parts = <<>> => model.texs = <<>>
      /\ \A j \in 1 .. Len(model.texs) : model.texs[j].size \in Nat
  BY <1>1, ModelFits, ModelAssumption DEF Parts
<1>3. /\ Room /\ Heads(lab) /\ Writes(lab) /\ HeaderSize \in Nat \ {0, 1}
  BY ScanFileAssumption DEF Linked
<1>4. LibsLead(lab)
  BY <1>1, <1>3 DEF Heads
<1>5. PICK k \in 1..(Len(model.texs) + 1) : k = save.item
  BY <1>1
<1>6. PICK y \in Nat : /\ y = ofs /\ y >= HeaderSize /\ lab[y] = TextureNo(k)
                       /\ len \in Nat /\ len <= y
  BY <1>1, <1>3, <1>5 DEF Room, Writes, Due
<1>7. /\ libs' = [mats |-> libs'.mats, texs |-> libs'.texs]
      /\ k # 1 => libs'.texs = libs.texs
      /\ k = 1 => libs'.texs = IF model.texs = <<>> THEN -1 ELSE y
  BY <1>1, <1>4, <1>5, <1>6 DEF LibsLead, LibOfs
<1>8. CASE k > Len(model.texs)
  <2>1. /\ save' = Step("finish", 0, 0) /\ UNCHANGED <<file, ofs, full>>
    BY <1>5, <1>8 DEF WriteTexture
  <2>2. save'.at = "finish"
    BY <2>1 DEF Step
  <2>3. \A o, l : Leads(lab, o, l) => Leads(lab, o, l)'
    BY <1>1, <2>1, LeadsStay DEF file
  <2>4. LibsLead(lab)'
    <3>1. CASE k = 1
      <4>1. libs'.texs = -1
        BY <1>2, <1>7, <1>8, <3>1
      <4> QED  BY <1>7, <4>1 DEF LibsLead, LeadsToTextures
    <3>2. CASE k # 1
      BY <1>1, <1>4, <1>7, <2>3, <3>2, LibsStay
    <3> QED  BY <3>1, <3>2
  <2> QED  BY <1>1, <2>1, <2>2, <2>4, GoOnLinks
<1>9. CASE k <= Len(model.texs)
  <2>1. Parts # <<>> /\ model.texs # <<>> /\ k \in 1 .. Len(model.texs) /\ k \in Nat
    BY <1>2, <1>5, <1>9
  <2>2. PICK size \in Nat : size = model.texs[k].size
    BY <1>2, <2>1
  <2>3. PICK h : /\ h = [kind |-> "TEX", name |-> model.texs[k].name, size |-> size,
                         next |-> IF k = Len(model.texs) THEN -1
                                  ELSE y + HeaderSize + size]
                 /\ Put(h, size)
    BY <1>5, <1>6, <1>9, <2>2 DEF WriteTexture, NextOfs, LastOf
  <2>4. save' = Step("tex", 0, k + 1)
    BY <1>5, <1>9 DEF WriteTexture
  <2>5. save'.at = "tex" /\ save'.item = k + 1
    BY <2>4 DEF Step
  <2>6. PICK z \in Nat : z = ofs' /\ z = y + HeaderSize + size
    BY <1>1, <1>3, <1>6, <2>3, PutAdds
  <2>7. Due' = TextureNo(k + 1)
    BY <2>5 DEF Due
  <2>8. PICK lab2 : Named(lab, z, TextureNo(k + 1), lab2)
    BY DEF Named
  <2>9. /\ \A o, l : Leads(lab, o, l) => Leads(lab2, o, l)'
        /\ Leads(lab2, z, TextureNo(k + 1))'
        /\ \A o \in 0 .. y : lab2[o] = lab[o]
    BY <1>1, <1>3, <1>6, <2>3, <2>6, <2>8, PutLeads
  <2>10. lab2[y] = TextureNo(k)
    <3>1. y \in 0 .. y
      BY <1>6
    <3> QED  BY <1>6, <2>9, <3>1
  <2>11. ASSUME y \in DOMAIN block'  PROVE Right(lab2, y)'
    <3>1. block'[y] = h
      BY <1>1, <1>3, <1>6, <2>3, <2>11, PutAdds
    <3>2. TextureRight(lab2, h, k)'
      BY <1>1, <1>2, <2>1, <2>2, <2>3, <2>6, <2>9 DEF TextureRight
    <3> QED  BY <2>1, <2>10, <3>1, <3>2, NamesDiffer DEF Right
  <2>12. LibsLead(lab2)'
    <3>1. CASE k = 1
      <4>1. Leads(lab, y, TextureNo(1))
        BY <1>3, <1>6, <3>1 DEF Leads, Beyond
      <4>2. libs'.texs = y /\ Leads(lab2, y, TextureNo(1))'
        BY <1>7, <2>1, <2>9, <3>1, <4>1
      <4> QED  BY <1>1, <1>7, <2>1, <4>2 DEF LibsLead, LeadsToTextures
    <3>2. CASE k # 1
      BY <1>1, <1>4, <1>7, <2>9, <3>2, LibsStay
    <3> QED  BY <3>1, <3>2
  <2>13. Linked(lab2)'
    BY <1>1, <1>6, <2>1, <2>3, <2>5, <2>6, <2>7, <2>8, <2>11, <2>12, PutLinks
  <2> QED  BY <2>13
<1> QED  BY <1>2, <1>5, <1>8, <1>9

LEMMA FinishLinks ==
  ASSUME SaveFits, NEW lab, Linked(lab), Finish
  PROVE  Linked(lab)'
<1>1. /\ state = "saving" /\ state' = IF full THEN "short" ELSE "whole"
      /\ full \in BOOLEAN /\ save' = Step("off", 0, 0)
      /\ len' = len /\ model' = model /\ ofs' = ofs /\ full' = full
      /\ block' = [o \in DOMAIN block |-> IF o = 0 THEN FileHeader(libs)
                                                   ELSE block[o]]
  BY DEF Finish, SaveFits, Off
<1>2. /\ Room /\ Heads(lab) /\ Parts' = Parts
      /\ \A o \in DOMAIN block : o > 0 => Right(lab, o)
      /\ HeaderSize \in Nat \ {0, 1}
  BY <1>1, ScanFileAssumption DEF Linked, Parts
<1>3. /\ DOMAIN block' = DOMAIN block
      /\ \A o \in DOMAIN block : o # 0 => block'[o] = block[o]
      /\ 0 \in DOMAIN block => block'[0] = FileHeader(libs)
  BY <1>1
<1>4. \A o, l : Leads(lab, o, l) => Leads(lab, o, l)'
  BY <1>1, <1>3 DEF Leads, Beyond
<1>5. Room'
  BY <1>1, <1>2, <1>3 DEF Room
<1>6. Heads(lab)'
  <2>1. LibsLead(lab)
    BY <1>1, <1>2 DEF Heads
  <2>2. 0 \in DOMAIN block' =>
          /\ block'[0] = FileHeader([mats |-> block'[0].mats,
                                     texs |-> block'[0].texs])
          /\ LeadsToTextures(lab, block[0].texs)'
    <3>1. PICK o : o = libs.texs
      OBVIOUS
    <3>2. LeadsToTextures(lab, o)'
      BY <1>1, <1>4, <2>1, <3>1 DEF LibsLead, LeadsToTextures
    <3>3. 0 \in DOMAIN block' => block'[0].texs = o
      BY <1>3, <3>1 DEF FileHeader
    <3> QED  BY <1>3, <3>2, <3>3 DEF FileHeader
  <2>3. state' = "whole" => 0 \in DOMAIN block'
    BY <1>1, <1>2, <1>3 DEF Room
  <2> QED  BY <1>1, <1>2, <1>4, <2>2, <2>3 DEF Heads
<1>7. Writes(lab)'
  BY <1>1 DEF Writes, Step
<1>8. ASSUME NEW o \in DOMAIN block', o > 0  PROVE Right(lab, o)'
  <2>1. o \in DOMAIN block /\ block'[o] = block[o] /\ Right(lab, o)
    BY <1>2, <1>3, <1>8
  <2> QED  BY <1>1, <1>4, <2>1, RightStays
<1> QED  BY <1>5, <1>6, <1>7, <1>8 DEF Linked

\* The save is killed: nothing of the file changes.
LEMMA DieLinks ==
  ASSUME SaveFits, NEW lab, Linked(lab), save.at # "off", Die
  PROVE  Linked(lab)'
<1>1. /\ state = "saving" /\ state' = IF full THEN "short" ELSE "interrupted"
      /\ full \in BOOLEAN /\ save' = Step("off", 0, 0)
      /\ len' = len /\ block' = block /\ model' = model /\ ofs' = ofs /\ full' = full
  BY DEF Die, SaveFits, Off, file
<1>2. /\ Room /\ Heads(lab) /\ Parts' = Parts
      /\ \A o \in DOMAIN block : o > 0 => Right(lab, o)
      /\ HeaderSize \in Nat \ {0, 1}
  BY <1>1, ScanFileAssumption DEF Linked, Parts
<1>3. \A o, l : Leads(lab, o, l) => Leads(lab, o, l)'
  BY <1>1 DEF Leads, Beyond
<1>4. Room'
  BY <1>1, <1>2 DEF Room
<1>5. Heads(lab)'
  <2>1. 0 \in DOMAIN block' => LeadsToTextures(lab, block[0].texs)'
    <3>1. PICK o : o = block[0].texs
      OBVIOUS
    <3>2. 0 \in DOMAIN block' => LeadsToTextures(lab, o)' /\ o = block'[0].texs
      BY <1>1, <1>2, <1>3, <3>1 DEF Heads, LeadsToTextures
    <3> QED  BY <3>2
  <2>2. state' = "interrupted" => 0 \in DOMAIN block'
    BY <1>1, <1>2 DEF Room
  <2> QED  BY <1>1, <1>2, <1>3, <2>1, <2>2 DEF Heads
<1>6. Writes(lab)'
  BY <1>1 DEF Writes, Step
<1>7. ASSUME NEW o \in DOMAIN block', o > 0  PROVE Right(lab, o)'
  BY <1>1, <1>2, <1>3, <1>7, RightStays
<1> QED  BY <1>4, <1>5, <1>6, <1>7 DEF Linked

\* A copy lacks the blocks at the end.
LEMMA CutLinks ==
  ASSUME SaveFits, NEW lab, Linked(lab), Cut
  PROVE  Linked(lab)'
<1>1. /\ state = "whole" /\ state' = "short" /\ save' = save /\ save.at = "off"
      /\ model' = model /\ ofs' = ofs /\ full' = full
  BY DEF Cut, CutAt, SaveFits, saver
<1>2. /\ Room /\ Heads(lab) /\ Parts' = Parts
      /\ \A o \in DOMAIN block : o > 0 => Right(lab, o)
      /\ HeaderSize \in Nat \ {0, 1}
  BY <1>1, ScanFileAssumption DEF Linked, Parts
<1>3. PICK n \in Ends : CutAt(n)
  BY DEF Cut
<1>4. n \in Nat /\ n <= len
  BY <1>2, <1>3 DEF Ends, Room
<1>5. /\ DOMAIN block' = {o \in DOMAIN block : o + HeaderSize <= n}
      /\ \A o \in DOMAIN block' : o \in DOMAIN block /\ block'[o] = block[o]
      /\ len' = n
  BY <1>3 DEF CutAt
<1>6. ASSUME NEW o, NEW l, Leads(lab, o, l)  PROVE Leads(lab, o, l)'
  <2>1. /\ o \in Nat /\ o >= HeaderSize /\ o <= ofs /\ lab[o] = l
        /\ o \in DOMAIN block \/ o + HeaderSize > len
    BY <1>6 DEF Leads, Beyond
  <2>2. o \in DOMAIN block' \/ o + HeaderSize > n
    BY <1>2, <1>4, <1>5, <2>1 DEF Room
  <2> QED  BY <1>1, <1>5, <2>1, <2>2 DEF Leads, Beyond
<1>7. Room'
  <2>1. 0 \in DOMAIN block
    BY <1>1, <1>2 DEF Heads
  <2>2. 0 \in DOMAIN block' \/ n < HeaderSize
    BY <1>2, <1>4, <1>5, <2>1
  <2> QED  BY <1>1, <1>2, <1>4, <1>5, <2>2 DEF Room
<1>8. Heads(lab)'
  <2>1. 0 \in DOMAIN block' => LeadsToTextures(lab, block[0].texs)'
    <3>1. PICK o : o = block[0].texs
      OBVIOUS
    <3>2. 0 \in DOMAIN block' => LeadsToTextures(lab, o)' /\ o = block'[0].texs
      BY <1>1, <1>2, <1>5, <1>6, <3>1 DEF Heads, LeadsToTextures
    <3> QED  BY <3>2
  <2> QED  BY <1>1, <1>2, <1>5, <1>6, <2>1 DEF Heads
<1>9. Writes(lab)'
  BY <1>1 DEF Writes
<1>10. ASSUME NEW o \in DOMAIN block', o > 0  PROVE Right(lab, o)'
  BY <1>1, <1>2, <1>5, <1>6, <1>10, RightStays
<1> QED  BY <1>7, <1>8, <1>9, <1>10 DEF Linked

LEMMA SaveOpenLinks ==
  ASSUME NEW m \in Models, SaveOpen(m)
  PROVE  \E lab2 : Linked(lab2)'
<1>1. /\ model' = m /\ state' = "saving" /\ ofs' = HeaderSize /\ libs' = NoLibs
      /\ save' = IF Parts' # <<>> THEN Step("part", 1, 0) ELSE Step("mat", 0, 1)
      /\ HeaderSize \in Nat \ {0, 1}
  BY ScanFileAssumption DEF SaveOpen, Parts
<1>2. /\ DOMAIN block' \subseteq {0}
      /\ 0 \in DOMAIN block' => /\ block'[0] = FileHeader(NoLibs)
                                /\ len' = HeaderSize /\ ~ full'
      /\ 0 \notin DOMAIN block' => len' = 0 /\ full'
  BY DEF SaveOpen
<1>3. PICK x : x = Due'
  OBVIOUS
<1>4. PICK lab : lab = [o \in Nat |-> x]
  OBVIOUS
<1>5. /\ save'.at # "subset"
      /\ Parts' # <<>> => x = PartNo(1)
  BY <1>1, <1>3 DEF Step, Due
<1>6. Room'
  BY <1>1, <1>2 DEF Room
<1>7. Heads(lab)'
  <2>1. NoLibs = [mats |-> NoLibs.mats, texs |-> NoLibs.texs] /\ NoLibs.texs = 0
    BY DEF NoLibs
  <2>2. Parts' # <<>> => Leads(lab, HeaderSize, PartNo(1))'
    BY <1>1, <1>2, <1>4, <1>5 DEF Leads, Beyond
  <2>3. LibsLead(lab)'
    BY <1>1, <2>1 DEF LibsLead, LeadsToTextures
  <2>4. FileHeader(NoLibs).mats = 0 /\ FileHeader(NoLibs).texs = 0
    BY DEF FileHeader, NoLibs
  <2>5. 0 \in DOMAIN block' =>
          /\ block'[0] = FileHeader([mats |-> block'[0].mats,
                                     texs |-> block'[0].texs])
          /\ LeadsToTextures(lab, block[0].texs)'
    BY <1>2, <2>4 DEF LeadsToTextures, NoLibs
  <2> QED  BY <1>1, <1>2, <2>2, <2>3, <2>5 DEF Heads
<1>8. Writes(lab)'
  BY <1>1, <1>3, <1>4, <1>5 DEF Writes
<1>9. \A o \in DOMAIN block' : ~ (o > 0)
  BY <1>2
<1>10. Linked(lab)'
  BY <1>6, <1>7, <1>8, <1>9 DEF Linked
<1> QED  BY <1>10

\* What depends on the file, the save and the model only.
LEMMA LinkedStays ==
  ASSUME NEW lab, Linked(lab), UNCHANGED <<file, model, state, saver>>
  PROVE  /\ Linked(lab)'
         /\ \A o, l : Leads(lab, o, l) <=> Leads(lab, o, l)'
<1>1. /\ block' = block /\ len' = len /\ model' = model /\ state' = state
      /\ save' = save /\ ofs' = ofs /\ partOfs' = partOfs /\ libs' = libs
      /\ full' = full /\ Parts' = Parts
      /\ Room /\ Heads(lab) /\ Writes(lab)
      /\ \A o \in DOMAIN block : o > 0 => Right(lab, o)
  BY DEF file, saver, Parts, Linked
<1>2. \A o, l : Leads(lab, o, l) <=> Leads(lab, o, l)'
  BY <1>1 DEF Leads, Beyond
<1>3. Room'
  BY <1>1 DEF Room
<1>4. Heads(lab)'
  <2>1. 0 \in DOMAIN block' => LeadsToTextures(lab, block[0].texs)'
    <3>1. PICK o : o = block[0].texs
      OBVIOUS
    <3>2. 0 \in DOMAIN block' => LeadsToTextures(lab, o)' /\ o = block'[0].texs
      BY <1>1, <1>2, <3>1 DEF Heads, LeadsToTextures
    <3> QED  BY <3>2
  <2>2. state' = "saving" => LibsLead(lab)'
    <3>1. ASSUME state = "saving"  PROVE LibsLead(lab)'
      <4>1. LibsLead(lab) /\ libs' = [mats |-> libs'.mats, texs |-> libs.texs]
        BY <1>1, <3>1 DEF Heads, LibsLead
      <4> QED  BY <1>1, <1>2, <4>1, LibsStay
    <3> QED  BY <1>1, <3>1
  <2> QED  BY <1>1, <1>2, <2>1, <2>2 DEF Heads
<1>5. Writes(lab)'
  <2>1. Due' = Due
    BY <1>1 DEF Due
  <2> QED  BY <1>1, <2>1 DEF Writes
<1>6. ASSUME NEW o \in DOMAIN block', o > 0  PROVE Right(lab, o)'
  BY <1>1, <1>2, <1>6, RightStays
<1> QED  BY <1>2, <1>3, <1>4, <1>5, <1>6 DEF Linked

-----------------------------------------------------------------------------
(* A load of any file *)

\* A header of a file, whatever else it holds.
Shape(o, h) ==
  /\ h.kind = "FILE" => h.first = HeaderSize /\ h.texs \in Int
  /\ h.kind = "PART" => h.first = o + HeaderSize /\ h.next \in Int
  /\ h.kind = "SUBSET" => /\ h.size \in Nat /\ h.next \in Int
                          /\ h.next <= 0 \/ h.next > HeaderSize
  /\ h.kind = "TEX" => /\ h.size \in Nat /\ h.next \in Int
                       /\ \E k \in 1 .. Len(model.texs) :
                            h.name = model.texs[k].name /\ h.size = model.texs[k].size
\* A block at HeaderSize leaves room for its header.
Place(o) == o \in {0, HeaderSize} \/ o >= 2 * HeaderSize
Shapes ==
  /\ \A o \in DOMAIN block : o \in Nat /\ Place(o) /\ Shape(o, block[o])
  /\ state = "saving" => ofs \in Nat /\ Place(ofs)

LEMMA PutShapes ==
  ASSUME Shapes, NEW h, NEW size \in Nat, Put(h, size), state = "saving",
         UNCHANGED <<model, state>>, ofs >= HeaderSize, Shape(ofs, h)
  PROVE  Shapes'
<1>1. HeaderSize \in Nat \ {0, 1}
  BY ScanFileAssumption
<1>2. /\ DOMAIN block' \subseteq DOMAIN block \union {ofs}
      /\ \A o \in DOMAIN block' : block'[o] = IF o = ofs THEN h ELSE block[o]
      \/ block' = block
  BY DEF Put, file
<1>3. ofs \in Nat /\ Place(ofs) /\ ofs' = ofs + HeaderSize + size
  BY DEF Shapes, Put
<1>4. ofs' \in Nat /\ Place(ofs)'
  BY <1>1, <1>3 DEF Place
<1>5. ASSUME NEW o \in DOMAIN block'
      PROVE  o \in Nat /\ Place(o)' /\ Shape(o, block[o])'
  <2>1. o \in Nat /\ Place(o) /\ Shape(o, block'[o])
    <3>1. CASE block' = block
      BY <3>1, <1>5 DEF Shapes
    <3>2. CASE block' # block /\ o = ofs
      BY <1>2, <1>3, <1>5, <3>2
    <3>3. CASE block' # block /\ o # ofs
      BY <1>2, <1>5, <3>3 DEF Shapes
    <3> QED  BY <3>1, <3>2, <3>3
  <2> QED  BY <2>1 DEF Place, Shape
<1> QED  BY <1>4, <1>5 DEF Shapes

LEMMA SaveShapes ==
  ASSUME SaveFits, NEW lab, Linked(lab), model \in Models, Shapes, SaveStep \/ Die,
         state = "saving"
  PROVE  Shapes'
<1>1. /\ state = "saving" /\ HeaderSize \in Nat \ {0, 1} /\ Room /\ Heads(lab)
      /\ ofs \in Nat /\ ofs >= HeaderSize /\ model' = model
  BY ScanFileAssumption
     DEF SaveStep, WritePart, WriteSubset, ClosePart, WriteMaterial,
         WriteTexture, Finish, Die, Linked, Room
<1>2. CASE WritePart
  <2>1. PICK h : /\ h = [kind |-> "PART", first |-> ofs + HeaderSize, next |-> -1]
                 /\ Put(h, 0)
    BY <1>2 DEF WritePart
  <2>2. Shape(ofs, h) /\ state' = state
    BY <1>2, <2>1 DEF Shape, WritePart
  <2> QED  BY <1>1, <2>1, <2>2, PutShapes
<1>3. CASE WriteSubset
  <2>1. PICK t : t = Parts[save.part][save.item]
    OBVIOUS
  <2>2. t.size \in Nat
    <3>1. /\ save.part \in 1 .. Len(Parts)
          /\ save.item \in 1 .. (Len(Parts[save.part]) + 1)
          /\ save.item <= Len(Parts[save.part])
      BY <1>3 DEF WriteSubset, SaveFits, Parts
    <3>2. Len(Parts[save.part]) \in Nat
      BY <3>1, ModelFits
    <3>3. save.item \in 1 .. Len(Parts[save.part])
      BY <3>1, <3>2
    <3> QED  BY <2>1, <3>1, <3>3, ModelFits
  <2>3. PICK y : y = NextOfs(t.size, save.item = Len(Parts[save.part]))
    OBVIOUS
  <2>4. y \in Int /\ (y <= 0 \/ y > HeaderSize)
    BY <1>1, <2>2, <2>3 DEF NextOfs
  <2>5. PICK h : /\ h = [kind |-> "SUBSET", mat |-> t.mat, data |-> t.data,
                         size |-> t.size, next |-> y]
                 /\ Put(h, t.size)
    BY <1>3, <2>1, <2>3 DEF WriteSubset, Parts
  <2>6. Shape(ofs, h) /\ state' = state
    BY <1>3, <2>2, <2>4, <2>5 DEF Shape, WriteSubset
  <2> QED  BY <1>1, <2>2, <2>5, <2>6, PutShapes
<1>4. CASE ClosePart
  <2>1. PICK y \in Int :
          block' = IF partOfs \in DOMAIN block
                     THEN [block EXCEPT ![partOfs].next = y] ELSE block
    <3>1. \A last : (IF last THEN -1 ELSE ofs) \in Int
      BY <1>1
    <3> QED  BY <1>4, <3>1 DEF ClosePart
  <2>2. ofs' = ofs /\ state' = state /\ DOMAIN block' = DOMAIN block
    BY <1>4, <2>1 DEF ClosePart
  <2>3. ASSUME NEW o \in DOMAIN block  PROVE Shape(o, block'[o])
    <3>1. CASE o # partOfs
      BY <2>1, <2>3, <3>1 DEF Shapes
    <3>2. CASE o = partOfs
      <4>1. PICK p \in 1 .. Len(Parts) : p = save.part /\ lab[o] = PartNo(p) /\ o > 0
        BY <1>1, <1>4, <3>2 DEF ClosePart, SaveFits, Linked, Writes
      <4>2. Right(lab, o) /\ p \in Nat
        BY <2>3, <4>1, ModelFits DEF Linked
      <4>3. PartRight(lab, block[o], p)
        BY <4>1, <4>2 DEF Right
      <4>4. PICK f, n : block[o] = [kind |-> "PART", first |-> f, next |-> n]
        BY <4>3 DEF PartRight
      <4>5. f = o + HeaderSize
        BY <2>3, <4>4 DEF Shapes, Shape
      <4>6. block'[o] = [kind |-> "PART", first |-> f, next |-> y]
        BY <2>1, <2>3, <3>2, <4>4
      <4> QED  BY <4>5, <4>6 DEF Shape
    <3> QED  BY <3>1, <3>2
  <2> QED  BY <1>1, <2>2, <2>3 DEF Shapes, Shape, Place
<1>5. CASE WriteMaterial
  <2>1. CASE \E h : h.kind = "MATERIAL" /\ Put(h, 0)
    <3>1. PICK h : h.kind = "MATERIAL" /\ Put(h, 0)
      BY <2>1
    <3>2. Shape(ofs, h) /\ state' = state
      BY <1>5, <3>1 DEF Shape, WriteMaterial
    <3> QED  BY <1>1, <3>1, <3>2, PutShapes
  <2>2. CASE UNCHANGED <<file, ofs>>
    BY <1>1, <1>5, <2>2 DEF WriteMaterial, file, Shapes, Shape, Place
  <2> QED  BY <1>5, <2>1, <2>2 DEF WriteMaterial
<1>6. CASE WriteTexture
  <2>1. CASE save.item <= Len(model.texs) /\ ~ UNCHANGED <<file, ofs, full>>
    <3>1. PICK t : t = model.texs[save.item]
      OBVIOUS
    <3>2. save.item \in 1 .. Len(model.texs) /\ t.size \in Nat
      <4>1. /\ save.item \in 1 .. (Len(model.texs) + 1) /\ Len(model.texs) \in Nat
        BY <1>6, ModelFits DEF WriteTexture, SaveFits
      <4> QED  BY <2>1, <3>1, <4>1, ModelFits
    <3>3. PICK y : y = NextOfs(t.size, LastOf(model.texs, save.item))
      OBVIOUS
    <3>4. y \in Int
      BY <1>1, <3>2, <3>3 DEF NextOfs
    <3>5. PICK h : /\ h = [kind |-> "TEX", name |-> t.name, size |-> t.size,
                           next |-> y]
                   /\ Put(h, t.size)
      BY <1>6, <2>1, <3>1, <3>3 DEF WriteTexture
    <3>6. Shape(ofs, h) /\ state' = state
      BY <1>6, <3>1, <3>2, <3>4, <3>5 DEF Shape, WriteTexture
    <3> QED  BY <1>1, <3>2, <3>5, <3>6, PutShapes
  <2>2. CASE UNCHANGED <<file, ofs>>
    BY <1>1, <1>6, <2>2 DEF WriteTexture, file, Shapes, Shape, Place
  <2> QED  BY <1>6, <2>1, <2>2 DEF WriteTexture
<1>7. CASE Finish
  <2>1. libs.texs \in Int
    BY <1>1 DEF Heads, LibsLead, LeadsToTextures, Leads
  <2>2. /\ DOMAIN block' = DOMAIN block /\ state' # "saving"
        /\ \A o \in DOMAIN block : block'[o] = IF o = 0 THEN FileHeader(libs)
                                               ELSE block[o]
    BY <1>7 DEF Finish
  <2>3. ASSUME NEW o \in DOMAIN block  PROVE Shape(o, block'[o])
    <3>1. CASE o = 0
      BY <2>1, <2>2, <3>1 DEF Shape, FileHeader
    <3>2. CASE o # 0
      BY <2>2, <3>2 DEF Shapes
    <3> QED  BY <3>1, <3>2
  <2> QED  BY <1>1, <2>2, <2>3 DEF Shapes, Shape, Place
<1>8. CASE Die
  <2>1. block' = block /\ ofs' = ofs /\ state' # "saving"
    BY <1>8 DEF Die, file
  <2> QED  BY <1>1, <2>1 DEF Shapes, Shape, Place
<1> QED  BY <1>2, <1>3, <1>4, <1>5, <1>6, <1>7, <1>8 DEF SaveStep

\* What a load that ended, or the last round of a loop, has left.
Old ==
  /\ hdr.kind = "FILE" => hdr.first = HeaderSize /\ hdr.texs \in Int
  /\ part.kind = "PART" => /\ part.first \in Nat /\ part.first >= HeaderSize
                           /\ part.next \in Int
  /\ subset.kind = "SUBSET" => /\ subset.size \in Nat /\ subset.next \in Int
                               /\ subset.next <= 0 \/ subset.next > HeaderSize
  /\ tex.kind = "TEX" => tex.size \in Nat /\ tex.next \in Int
\* The last subset of a part leads nowhere.
Spent == subset.kind = "SUBSET" => subset.size \in Nat /\ subset.next \in Int
                                   /\ subset.next <= 0

\* The load follows one offset to where there is no block, again and again.
Caught ==
  \/ /\ load \in {"part", "subset"} /\ part.kind = "PART"
     /\ part.next \in Nat \ {0} /\ part.next \notin DOMAIN block
     /\ load = "part" => next = part.next
  \/ /\ load = "subset" /\ subset.kind = "SUBSET"
     /\ subset.next \in Nat \ {0} /\ subset.next \notin DOMAIN block
     /\ next = subset.next

GotLen == Len(got.parts)
\* The loaded subsets with their data are those of the model.
PartsTrue ==
  /\ \E S : got.parts \in Seq(Seq(S))
  /\ \A p \in 1 .. GotLen : \A i \in 1 .. Len(got.parts[p]) :
       got.parts[p][i].there =>
         /\ p \in 1 .. Len(Parts) /\ i \in 1 .. Len(Parts[p])
         /\ got.parts[p][i] = Loaded(p, i)
TexsTrue == \A t \in got.texs : t.there => t \in AllTexs(model.texs)
InParts == Parts # <<>> => GotLen <= Len(Parts)
\* The file ends before the first part.
Tiny == len < 2 * HeaderSize

HeaderRead == /\ hdr.kind = "FILE"
              /\ len < HeaderSize \/ (0 \in DOMAIN block /\ hdr = block[0])

AtHeader == load = "header" /\ next = 0 /\ got = Nothing

\* The part before is known, and so is its last subset, unless there was none.
AtPart(lab) ==
  /\ load = "part" /\ HeaderRead
  /\ got = [parts |-> got.parts, mats |-> {}, texs |-> {}] /\ InParts
  /\ \/ GotLen = 0 /\ next = HeaderSize
     \/ /\ GotLen > 0 /\ Spent /\ part.next = next /\ next \in Int
        /\ \/ next <= 0
           \/ /\ GotLen < Len(Parts) /\ next \in DOMAIN block
              /\ Leads(lab, next, PartNo(GotLen + 1))

\* The first subset of a part may be missing, a later one is there.  Where it is
\* missing, the subset of an earlier load is used only if there is none at all.
AtSubset(lab) ==
  /\ load = "subset" /\ HeaderRead
  /\ got = [parts |-> got.parts, mats |-> {}, texs |-> {}]
  /\ GotLen > 0 /\ InParts
  /\ part.kind = "PART" /\ part.next \in Int
  /\ \/ part.next <= 0
     \/ GotLen < Len(Parts) /\ Leads(lab, part.next, PartNo(GotLen + 1))
  /\ next \in Int
  /\ \/ next <= 0 /\ Spent
     \/ /\ got.parts[GotLen] = <<>> /\ next >= HeaderSize
        /\ Tiny \/ (GotLen <= Len(Parts) /\ Leads(lab, next, SubsetNo(GotLen, 1)))
        /\ Tiny \/ Spent \/ next = 2 * HeaderSize
     \/ /\ GotLen <= Len(Parts) /\ next \in DOMAIN block
        /\ Len(got.parts[GotLen]) < Len(Parts[GotLen])
        /\ Leads(lab, next, SubsetNo(GotLen, Len(got.parts[GotLen]) + 1))

AtMaterial ==
  /\ load = "mat" /\ HeaderRead
  /\ got = [parts |-> got.parts, mats |-> got.mats, texs |-> {}]
  /\ GotLen > 0 /\ InParts
  /\ state = "interrupted" => got.mats = {} /\ next = 0

AtTexture ==
  /\ load = "tex" /\ next \in Int
  /\ got = [parts |-> got.parts, mats |-> got.mats, texs |-> got.texs]
  /\ GotLen > 0 /\ InParts /\ TexsTrue
  /\ state = "interrupted" => got.mats = {} /\ got.texs = {} /\ next = 0

\* A load under way.
Loads(lab) ==
  \/ Caught
  \/ PartsTrue /\ (AtHeader \/ AtPart(lab) \/ AtSubset(lab) \/ AtMaterial
                     \/ AtTexture)

LEMMA BlockRead ==
  ASSUME NEW o, NEW v, NEW h \in Read(o, v), h.kind # "junk"
  PROVE  /\ h = IF o \in DOMAIN block THEN block[o] ELSE v
         /\ o \notin DOMAIN block => ~ (o < len)
BY DEF Read, Junk

\* No step of a load leaves a header that no file has.
LEMMA LoadOld ==
  ASSUME Shapes, Old, LoadStep
  PROVE  Old'
<1>1. HeaderSize \in Nat \ {0, 1}
  BY ScanFileAssumption
<1>2. ASSUME NEW o, NEW v, NEW h \in Read(o, v), h.kind # "junk"
      PROVE  \/ h = v
             \/ o \in Nat /\ Shape(o, h)
  BY <1>2, BlockRead DEF Shapes
<1>3. CASE ReadHeader
  <2>1. PICK h \in Read(0, hdr) : h.kind = "FILE" /\ hdr' = h
    BY <1>3 DEF ReadHeader
  <2>2. h.first = HeaderSize /\ h.texs \in Int
    BY <1>2, <2>1 DEF Shape, Old
  <2> QED  BY <1>3, <2>1, <2>2 DEF Old, ReadHeader
<1>4. CASE ReadPart
  <2>1. PICK h \in Read(next, part) : h.kind = "PART" /\ part' = h
    BY <1>4 DEF ReadPart
  <2>2. h.first \in Nat /\ h.first >= HeaderSize /\ h.next \in Int
    BY <1>1, <1>2, <2>1 DEF Shape, Old
  <2> QED  BY <1>4, <2>1, <2>2 DEF Old, ReadPart
<1>5. CASE ReadSubset
  <2>1. PICK h \in Read(next, subset) : h.kind = "SUBSET" /\ subset' = h
    BY <1>5 DEF ReadSubset
  <2>2. h.size \in Nat /\ h.next \in Int /\ (h.next <= 0 \/ h.next > HeaderSize)
    BY <1>2, <2>1 DEF Shape, Old
  <2> QED  BY <1>5, <2>1, <2>2 DEF Old, ReadSubset
<1>6. CASE ReadMaterial
  BY <1>6 DEF Old, ReadMaterial
<1>7. CASE ReadTexture
  <2>1. PICK h \in Read(next, tex) : h.kind = "TEX" /\ tex' = h
    BY <1>7 DEF ReadTexture
  <2>2. h.size \in Nat /\ h.next \in Int
    BY <1>2, <2>1 DEF Shape, Old
  <2> QED  BY <1>7, <2>1, <2>2 DEF Old, ReadTexture
<1>8. CASE EndLoop \/ Reject \/ OutOfMemory
  <2>1. UNCHANGED locals
    BY <1>8 DEF EndLoop, Reject, OutOfMemory, Return
  <2> QED  BY <2>1 DEF Old, locals
<1> QED  BY <1>3, <1>4, <1>5, <1>6, <1>7, <1>8 DEF LoadStep

LEMMA CaughtStays ==
  ASSUME Caught, LoadStep, load' # "off"
  PROVE  Caught'
<1>1. block' = block /\ (load = "part" \/ load = "subset")
  BY DEF Caught, LoadStep, file
<1>2. CASE ReadPart
  <2>1. /\ load = "part" /\ next \in Nat \ {0} /\ next \notin DOMAIN block
        /\ part.next = next /\ part.kind = "PART"
    BY <1>2 DEF ReadPart, Caught
  <2>2. PICK h \in Read(next, part) : h.kind = "PART" /\ part' = h /\ load' = "subset"
    BY <1>2 DEF ReadPart, Goto
  <2>3. part' = part
    BY <2>1, <2>2, BlockRead
  <2> QED  BY <1>1, <2>1, <2>2, <2>3 DEF Caught
<1>3. CASE ReadSubset
  <2>1. load = "subset" /\ part' = part
    BY <1>3 DEF ReadSubset
  <2>2. PICK h \in Read(next, subset) :
          h.kind = "SUBSET" /\ subset' = h /\ load' = "subset" /\ next' = h.next
    BY <1>3 DEF ReadSubset, Goto
  <2>3. CASE /\ part.kind = "PART" /\ part.next \in Nat \ {0}
             /\ part.next \notin DOMAIN block
    BY <1>1, <2>1, <2>2, <2>3 DEF Caught
  <2>4. CASE /\ subset.kind = "SUBSET" /\ subset.next \in Nat \ {0}
             /\ subset.next \notin DOMAIN block /\ next = subset.next
    <3>1. subset' = subset
      BY <2>2, <2>4, BlockRead
    <3> QED  BY <1>1, <2>2, <2>4, <3>1 DEF Caught
  <2> QED  BY <2>1, <2>3, <2>4 DEF Caught
<1>4. CASE EndLoop
  <2>1. CASE load = "part"
    <3>1. next \in Nat \ {0}
      BY <2>1 DEF Caught
    <3> QED  BY <1>4, <3>1 DEF EndLoop
  <2>2. CASE load = "subset"
    <3>1. next <= 0 /\ load' = "part" /\ next' = part.next /\ part' = part
      BY <1>4, <2>2 DEF EndLoop, Goto, locals
    <3>2. ~ (next \in Nat \ {0})
      BY <3>1
    <3> QED  BY <1>1, <2>2, <3>1, <3>2 DEF Caught
  <2> QED  BY <1>1, <2>1, <2>2
<1>5. ~ ReadHeader /\ ~ ReadMaterial /\ ~ ReadTexture
  BY <1>1 DEF ReadHeader, ReadMaterial, ReadTexture
<1>6. ~ Reject /\ ~ OutOfMemory
  BY DEF Reject, OutOfMemory, Return
<1> QED  BY <1>2, <1>3, <1>4, <1>5, <1>6 DEF LoadStep

LEMMA LeadsTo ==
  ASSUME NEW lab, Linked(lab), NEW o, NEW l, Leads(lab, o, l)
  PROVE  /\ o \in Nat /\ o >= HeaderSize /\ o > 0 /\ lab[o] = l
         /\ o \notin DOMAIN block => o + HeaderSize > len
         /\ o \in DOMAIN block => Right(lab, o)
<1>1. HeaderSize \in Nat \ {0, 1}
  BY ScanFileAssumption
<1> QED  BY <1>1 DEF Leads, Beyond, Linked

\* What a step of a load leaves alone.
LEMMA LoadKeeps ==
  ASSUME NEW lab, Linked(lab), model \in Models,
         UNCHANGED <<file, model, state, saver, stream>>
  PROVE  /\ block' = block /\ len' = len /\ model' = model /\ state' = state
         /\ Parts' = Parts /\ Linked(lab)'
         /\ \A o, l : Leads(lab, o, l) <=> Leads(lab, o, l)'
         /\ HeaderSize \in Nat \ {0, 1} /\ len \in Nat
         /\ Room /\ Heads(lab)
         /\ Len(Parts) \in Nat /\ (Len(Parts) = 0 <=> Parts = <<>>)
         /\ Len(model.texs) \in Nat
<1>1. /\ block' = block /\ len' = len /\ model' = model /\ state' = state
      /\ Parts' = Parts /\ Linked(lab)'
      /\ \A o, l : Leads(lab, o, l) <=> Leads(lab, o, l)'
  BY LinkedStays DEF file, Parts
<1>2. /\ HeaderSize \in Nat \ {0, 1} /\ len \in Nat /\ Room /\ Heads(lab)
      /\ Len(Parts) \in Nat /\ (Len(Parts) = 0 <=> Parts = <<>>)
      /\ Len(model.texs) \in Nat
  BY ScanFileAssumption, ModelFits DEF Linked, Room
<1> QED  BY <1>1, <1>2

LEMMA LoadHeader ==
  ASSUME NEW lab, Linked(lab), model \in Models, Old, AtHeader, PartsTrue,
         ReadHeader, UNCHANGED <<file, model, state, saver, stream>>
  PROVE  AtPart(lab)' /\ PartsTrue'
<1>1. /\ block' = block /\ len' = len /\ Parts' = Parts
      /\ HeaderSize \in Nat \ {0, 1} /\ Room /\ Heads(lab)
      /\ Len(Parts) \in Nat
  BY LoadKeeps
<1>2. PICK h \in Read(0, hdr) : h.kind = "FILE" /\ hdr' = h /\ load' = "part"
                                /\ next' = h.first
  BY DEF ReadHeader, Goto
<1>3. got' = got /\ got = Nothing
  BY DEF ReadHeader, AtHeader
<1>4. /\ h.first = HeaderSize
      /\ len < HeaderSize \/ (0 \in DOMAIN block /\ h = block[0])
  <2>1. CASE 0 \in DOMAIN block
    <3>1. h = block[0]
      BY <1>2, <2>1, BlockRead
    <3>2. /\ h = FileHeader([mats |-> h.mats, texs |-> h.texs])
          /\ LeadsToTextures(lab, h.texs)
      BY <1>1, <2>1, <3>1 DEF Heads
    <3>3. h.first = HeaderSize
      BY <3>2 DEF FileHeader
    <3> QED  BY <2>1, <3>1, <3>3
  <2>2. CASE 0 \notin DOMAIN block
    <3>1. h = hdr /\ len < HeaderSize
      BY <1>1, <1>2, <2>2, BlockRead DEF Room
    <3> QED  BY <1>2, <3>1 DEF Old
  <2> QED  BY <2>1, <2>2
<1>5. /\ GotLen' = 0
      /\ got' = [parts |-> got'.parts, mats |-> {}, texs |-> {}]
  BY <1>3, EmptySeq DEF GotLen, Nothing
<1>6. AtPart(lab)'
  BY <1>1, <1>2, <1>3, <1>4, <1>5
     DEF AtPart, HeaderRead, InParts
<1>7. PartsTrue'
  BY <1>1, <1>3 DEF PartsTrue, GotLen, Loaded
<1> QED  BY <1>6, <1>7

LEMMA PartsOnly ==
  ASSUME NEW g, NEW e, g = [parts |-> e, mats |-> {}, texs |-> {}]
  PROVE  g.parts = e /\ g = [parts |-> g.parts, mats |-> {}, texs |-> {}]
OBVIOUS

\* A part more, without subsets.
LEMMA PartAdded ==
  ASSUME PartsTrue, got' = [got EXCEPT !.parts = Append(@, <<>>)],
         got = [parts |-> got.parts, mats |-> {}, texs |-> {}], Parts' = Parts
  PROVE  /\ PartsTrue' /\ GotLen' = GotLen + 1 /\ GotLen \in Nat
         /\ got'.parts[GotLen'] = <<>>
         /\ got' = [parts |-> got'.parts, mats |-> {}, texs |-> {}]
<1>1. PICK S : got.parts \in Seq(Seq(S))
  BY DEF PartsTrue
<1>2. PICK ps \in Seq(Seq(S)) : ps = got.parts
  BY <1>1
<1>3. <<>> \in Seq(S)
  OBVIOUS
<1>4. /\ Append(ps, <<>>) \in Seq(Seq(S)) /\ Len(Append(ps, <<>>)) = Len(ps) + 1
      /\ Append(ps, <<>>)[Len(ps) + 1] = <<>> /\ Len(ps) \in Nat
      /\ \A i \in 1 .. Len(ps) : Append(ps, <<>>)[i] = ps[i]
  BY <1>2, <1>3, AppendProperties, LenProperties
<1>5. /\ got'.parts = Append(ps, <<>>)
      /\ got' = [parts |-> got'.parts, mats |-> {}, texs |-> {}]
  <2>1. got = [parts |-> ps, mats |-> {}, texs |-> {}]
    BY <1>2
  <2>2. PICK e : e = Append(ps, <<>>)
    OBVIOUS
  <2>3. got' = [got EXCEPT !.parts = e]
    BY <1>2, <2>2
  <2>4. got' = [parts |-> e, mats |-> {}, texs |-> {}]
    BY <2>1, <2>3
  <2>5. got'.parts = e /\ got' = [parts |-> got'.parts, mats |-> {}, texs |-> {}]
    BY <2>4, PartsOnly
  <2> QED  BY <2>2, <2>5
<1>6. GotLen = Len(ps) /\ GotLen' = Len(ps) + 1
  BY <1>2, <1>4, <1>5 DEF GotLen
<1>7. ASSUME NEW p \in 1 .. GotLen', NEW i \in 1 .. Len(got'.parts[p]),
             got'.parts[p][i].there
      PROVE  /\ p \in 1 .. Len(Parts) /\ i \in 1 .. Len(Parts[p])
             /\ got'.parts[p][i] = Loaded(p, i)
  <2>1. p # Len(ps) + 1
    <3>1. ASSUME p = Len(ps) + 1  PROVE FALSE
      <4>1. got'.parts[p] = <<>>
        BY <1>4, <1>5, <3>1
      <4>2. i \in 1 .. 0
        BY <1>7, <4>1, EmptySeq
      <4> QED  BY <4>2
    <3> QED  BY <3>1
  <2>2. p \in 1 .. Len(ps) /\ got'.parts[p] = got.parts[p]
    BY <1>2, <1>4, <1>5, <1>6, <1>7, <2>1
  <2> QED  BY <1>6, <1>7, <2>2 DEF PartsTrue
<1>8. \A p, i : Loaded(p, i)' = Loaded(p, i)
  BY DEF Loaded
<1>9. PartsTrue'
  BY <1>4, <1>5, <1>7, <1>8 DEF PartsTrue
<1> QED  BY <1>4, <1>5, <1>6, <1>9

LEMMA LoadPart ==
  ASSUME NEW lab, Linked(lab), model \in Models, Shapes, Old, AtPart(lab), PartsTrue,
         ReadPart, UNCHANGED <<file, model, state, saver, stream>>
  PROVE  (AtSubset(lab)' \/ Caught') /\ PartsTrue'
<1>1. /\ block' = block /\ len' = len /\ Parts' = Parts
      /\ HeaderSize \in Nat \ {0, 1} /\ len \in Nat /\ Room /\ Heads(lab)
      /\ Len(Parts) \in Nat /\ (Len(Parts) = 0 <=> Parts = <<>>)
      /\ \A o, l : Leads(lab, o, l) <=> Leads(lab, o, l)'
  BY LoadKeeps
<1>2. PICK h \in Read(next, part) : /\ h.kind = "PART" /\ part' = h
                                    /\ load' = "subset" /\ next' = h.first
  BY DEF ReadPart, Goto
<1>3. /\ next > 0 /\ UNCHANGED <<hdr, subset, mat, tex>>
      /\ got' = [got EXCEPT !.parts = Append(@, <<>>)]
      /\ HeaderRead /\ InParts
      /\ got = [parts |-> got.parts, mats |-> {}, texs |-> {}]
  BY DEF ReadPart, AtPart
<1>4. /\ PartsTrue' /\ GotLen' = GotLen + 1 /\ GotLen \in Nat
      /\ got'.parts[GotLen'] = <<>>
      /\ got' = [parts |-> got'.parts, mats |-> {}, texs |-> {}]
  BY <1>1, <1>3, PartAdded
<1>5. PICK k \in Nat : k = GotLen
  BY <1>4
<1>6. CASE next \in DOMAIN block
  <2>1. h = block[next] /\ next > 0
    BY <1>2, <1>3, <1>6, BlockRead
  <2>2. Leads(lab, next, PartNo(k + 1))
    <3>1. CASE k = 0
      <4>1. next = HeaderSize
        BY <1>5, <3>1 DEF AtPart
      <4>2. Parts # <<>>
        BY <1>1, <1>6, <4>1 DEF Room
      <4> QED  BY <1>1, <3>1, <4>1, <4>2 DEF Heads
    <3>2. CASE k # 0
      <4>1. next \in Int /\ (next <= 0 \/ Leads(lab, next, PartNo(k + 1)))
        BY <1>5, <3>2 DEF AtPart
      <4> QED  BY <1>3, <4>1
    <3> QED  BY <3>1, <3>2
  <2>3. Right(lab, next) /\ lab[next] = PartNo(k + 1)
    BY <1>6, <2>2, LeadsTo
  <2>4. PartRight(lab, h, k + 1)
    BY <1>5, <2>1, <2>3 DEF Right
  <2>5. /\ k + 1 \in 1 .. Len(Parts)
        /\ Leads(lab, h.first, SubsetNo(k + 1, 1))
        /\ h.next = -1 \/ (k + 1 < Len(Parts)
                             /\ Leads(lab, h.next, PartNo((k + 1) + 1)))
    BY <2>4 DEF PartRight
  <2>6. /\ h.first \in Nat /\ h.first >= HeaderSize /\ h.next \in Int
    BY <2>5 DEF Leads
  <2>7. /\ Leads(lab, h.first, SubsetNo(k + 1, 1))'
        /\ h.next = -1 \/ (k + 1 < Len(Parts)
                             /\ Leads(lab, h.next, PartNo((k + 1) + 1))')
    BY <1>1, <2>5
  <2>8. GotLen' = k + 1 /\ GotLen' <= Len(Parts') /\ InParts'
    BY <1>1, <1>4, <1>5, <2>5 DEF InParts
  <2>9. /\ Leads(lab, next, SubsetNo(GotLen, 1))'
        /\ \/ part'.next = -1
           \/ GotLen' < Len(Parts') /\ Leads(lab, part.next, PartNo(GotLen + 1))'
    BY <1>1, <1>2, <2>7, <2>8 DEF Leads, SubsetNo, PartNo
  <2>10. HeaderRead' /\ (Spent' \/ next' = 2 * HeaderSize)
    <3>1. HeaderRead'
      BY <1>1, <1>3 DEF HeaderRead
    <3>2. CASE k = 0
      <4>1. next = HeaderSize
        BY <1>5, <3>2 DEF AtPart
      <4>2. h.first = next + HeaderSize
        BY <1>2, <1>6, <2>1 DEF Shapes, Shape
      <4> QED  BY <1>1, <1>2, <3>1, <4>1, <4>2
    <3>3. CASE k # 0
      <4>1. Spent
        BY <1>5, <3>3 DEF AtPart
      <4> QED  BY <1>3, <3>1, <4>1 DEF Spent
    <3> QED  BY <3>2, <3>3
  <2>11. /\ GotLen' > 0
         /\ part'.kind = "PART" /\ part'.next \in Int
         /\ next' \in Int /\ next' >= HeaderSize
    BY <1>2, <1>4, <2>6
  <2>12. \/ part'.next <= 0
         \/ GotLen' < Len(Parts') /\ Leads(lab, part.next, PartNo(GotLen + 1))'
    <3>1. CASE part'.next = -1
      BY <3>1
    <3>2. CASE GotLen' < Len(Parts') /\ Leads(lab, part.next, PartNo(GotLen + 1))'
      BY <3>2
    <3> QED  BY <2>9, <3>1, <3>2
  <2>13. AtSubset(lab)'
    BY <1>1, <1>2, <1>4, <2>8, <2>9, <2>10, <2>11, <2>12 DEF AtSubset
  <2> QED  BY <1>4, <2>13
<1>7. CASE next \notin DOMAIN block
  <2>1. h = part
    BY <1>2, <1>7, BlockRead
  <2>2. k = 0 /\ next = HeaderSize
    <3>1. k > 0 => next \in Int /\ next <= 0
      BY <1>5, <1>7 DEF AtPart
    <3>2. k = 0
      BY <1>3, <3>1
    <3> QED  BY <1>5, <3>2 DEF AtPart
  <2>3. h.first \in Nat /\ h.first >= HeaderSize /\ h.next \in Int
    BY <1>2, <2>1 DEF Old
  <2>4. Tiny
    <3>1. CASE Parts = <<>>
      BY <1>1, <3>1 DEF Room, Tiny
    <3>2. CASE Parts # <<>>
      <4>1. Leads(lab, HeaderSize, PartNo(1))
        BY <1>1, <3>2 DEF Heads
      <4>2. HeaderSize + HeaderSize > len
        BY <1>7, <2>2, <4>1, LeadsTo
      <4> QED  BY <1>1, <4>2 DEF Tiny
    <3> QED  BY <3>1, <3>2
  <2>5. Tiny' /\ GotLen' = 1 /\ InParts'
    BY <1>1, <1>4, <1>5, <2>2, <2>4 DEF Tiny, InParts
  <2>6. CASE h.next <= 0
    <3>1. AtSubset(lab)'
      BY <1>1, <1>2, <1>3, <1>4, <2>3, <2>5, <2>6 DEF AtSubset, HeaderRead
    <3> QED  BY <1>4, <3>1
  <2>7. CASE ~ (h.next <= 0)
    <3>1. h.next \in Nat \ {0}
      BY <2>3, <2>7
    <3>2. h.next \notin DOMAIN block
      BY <1>1, <2>4, <3>1 DEF Room, Tiny
    <3>3. Caught'
      BY <1>1, <1>2, <3>1, <3>2 DEF Caught
    <3> QED  BY <1>4, <3>3
  <2> QED  BY <2>6, <2>7
<1> QED  BY <1>6, <1>7

\* A subset more in the last part.
LEMMA SubsetAdded ==
  ASSUME PartsTrue, NEW k \in Nat \ {0}, k = GotLen, NEW n, n = Len(got.parts[k]),
         NEW e, got' = [got EXCEPT !.parts[Len(got.parts)] = Append(@, e)],
         got = [parts |-> got.parts, mats |-> {}, texs |-> {}], Parts' = Parts,
         e.there => /\ k \in 1 .. Len(Parts) /\ n + 1 \in 1 .. Len(Parts[k])
                    /\ e = Loaded(k, n + 1)
  PROVE  /\ PartsTrue' /\ GotLen' = k /\ n \in Nat
         /\ Len(got'.parts[k]) = n + 1
         /\ got' = [parts |-> got'.parts, mats |-> {}, texs |-> {}]
<1>1. PICK S : got.parts \in Seq(Seq(S))
  BY DEF PartsTrue
<1>2. PICK S2 : S2 = S \union {e}
  OBVIOUS
<1>3. PICK g \in Seq(Seq(S)) : g = got.parts
  BY <1>1
<1>4. /\ got = [parts |-> g, mats |-> {}, texs |-> {}] /\ Len(g) = k
      /\ DOMAIN g = 1..k /\ k \in DOMAIN g
      /\ \A p \in 1..k : g[p] \in Seq(S)
  BY <1>3, LenProperties, ElementOfSeq DEF GotLen
<1>5. \A s \in Seq(S) : s \in Seq(S2)
  BY <1>2, SeqMonotonic
<1>6. PICK s \in Seq(S2) : s = g[k]
  BY <1>4, <1>5
<1>7. PICK t : t = Append(s, e)
  OBVIOUS
<1>8. /\ n \in Nat /\ Len(s) = n
      /\ t \in Seq(S2) /\ Len(t) = n + 1 /\ t[n + 1] = e
      /\ \A i \in 1..n : t[i] = s[i]
  BY <1>2, <1>3, <1>6, <1>7, AppendProperties, LenProperties
<1>9. PICK g2 : g2 = [g EXCEPT ![k] = t]
  OBVIOUS
<1>10. got' = [parts |-> g2, mats |-> {}, texs |-> {}]
  <2>1. g2 = [g EXCEPT ![k] = Append(@, e)]
    BY <1>4, <1>6, <1>7, <1>9
  <2> QED  BY <1>4, <2>1
<1>11. got'.parts = g2 /\ got' = [parts |-> got'.parts, mats |-> {}, texs |-> {}]
  BY <1>10, PartsOnly
<1>12. /\ g2 \in Seq(Seq(S2)) /\ Len(g2) = k /\ g2[k] = t
       /\ \A p \in 1..k : p # k => g2[p] = g[p]
  <2>1. g \in Seq(Seq(S2))
    BY <1>3, <1>5, SeqMonotonic
  <2>2. g2 \in Seq(Seq(S2)) /\ Len(g2) = k
    BY <1>4, <1>8, <1>9, <2>1, ExceptSeq
  <2> QED  BY <1>4, <1>9, <2>2
<1>13. \A p, i : Loaded(p, i)' = Loaded(p, i)
  BY DEF Loaded
<1>14. ASSUME NEW p \in 1 .. k, NEW i \in 1 .. Len(g2[p]), g2[p][i].there
       PROVE  /\ p \in 1 .. Len(Parts) /\ i \in 1 .. Len(Parts[p])
              /\ g2[p][i] = Loaded(p, i)
  <2>1. CASE p # k
    <3>1. g2[p] = got.parts[p]
      BY <1>3, <1>12, <2>1
    <3> QED  BY <1>14, <3>1 DEF PartsTrue
  <2>2. CASE p = k /\ i # n + 1
    <3>1. i \in 1 .. n
      BY <1>8, <1>12, <1>14, <2>2
    <3>2. g2[p][i] = got.parts[p][i] /\ i \in 1 .. Len(got.parts[p])
      BY <1>3, <1>6, <1>8, <1>12, <2>2, <3>1
    <3> QED  BY <1>14, <3>2 DEF PartsTrue
  <2>3. CASE p = k /\ i = n + 1
    BY <1>8, <1>12, <1>14, <2>3
  <2> QED  BY <2>1, <2>2, <2>3
<1>15. GotLen' = k
  BY <1>11, <1>12 DEF GotLen
<1>16. PartsTrue'
  BY <1>11, <1>12, <1>13, <1>14, <1>15 DEF PartsTrue
<1> QED  BY <1>8, <1>11, <1>12, <1>15, <1>16

LEMMA LoadSubset ==
  ASSUME NEW lab, Linked(lab), model \in Models, Shapes, Old, AtSubset(lab),
         PartsTrue, ReadSubset, UNCHANGED <<file, model, state, saver, stream>>
  PROVE  (AtSubset(lab)' \/ Caught') /\ PartsTrue'
<1>1. /\ block' = block /\ len' = len /\ Parts' = Parts
      /\ HeaderSize \in Nat \ {0, 1} /\ len \in Nat /\ Room /\ Heads(lab)
      /\ Len(Parts) \in Nat /\ (Len(Parts) = 0 <=> Parts = <<>>)
      /\ \A o, l : Leads(lab, o, l) <=> Leads(lab, o, l)'
      /\ \A p \in 1..Len(Parts) :
              /\ Len(Parts[p]) \in Nat \ {0}
              /\ \A i \in 1..Len(Parts[p]) : Parts[p][i].size \in Nat
  BY LoadKeeps, ModelFits
<1>2. PICK h \in Read(next, subset) :
        /\ h.kind = "SUBSET" /\ subset' = h /\ load' = "subset" /\ next' = h.next
        /\ got' = [got EXCEPT !.parts[Len(got.parts)] =
                     Append(@, [mat |-> h.mat, data |-> h.data, size |-> h.size,
                                there |-> DataThere(next, h)])]
  BY DEF ReadSubset, Goto
<1>3. /\ next > 0 /\ UNCHANGED <<hdr, part, mat, tex>>
      /\ HeaderRead /\ InParts
      /\ got = [parts |-> got.parts, mats |-> {}, texs |-> {}]
      /\ next \in Int
      /\ part.kind = "PART" /\ part.next \in Int
  BY DEF ReadSubset, AtSubset
<1>4. PICK k \in Nat \ {0} : k = GotLen
  <2>1. GotLen \in Nat
    BY LenProperties DEF GotLen, PartsTrue
  <2>2. GotLen > 0
    BY DEF AtSubset
  <2> QED  BY <2>1, <2>2
<1>5. PICK n : n = Len(got.parts[k])
  OBVIOUS
<1>6. PICK e : e = [mat |-> h.mat, data |-> h.data, size |-> h.size,
                    there |-> DataThere(next, h)]
  OBVIOUS
<1>7. e.there <=> next + HeaderSize + h.size <= len
  BY <1>6 DEF DataThere
<1>8. HeaderRead'
  BY <1>1, <1>3 DEF HeaderRead
<1>9. ASSUME GotLen' = k
      PROVE  /\ InParts' /\ GotLen' > 0
             /\ \/ part'.next <= 0
                \/ /\ GotLen' < Len(Parts')
                   /\ Leads(lab, part.next, PartNo(GotLen + 1))'
  <2>1. InParts' /\ GotLen' > 0
    BY <1>1, <1>3, <1>4, <1>9 DEF InParts
  <2>2. CASE part.next <= 0
    BY <1>3, <2>1, <2>2
  <2>3. CASE k < Len(Parts) /\ Leads(lab, part.next, PartNo(k + 1))
    <3>1. PICK o : o = part.next
      OBVIOUS
    <3>2. Leads(lab, o, PartNo(k + 1))'
      BY <1>1, <2>3, <3>1
    <3>3. Leads(lab, part.next, PartNo(GotLen + 1))'
      BY <1>3, <1>9, <3>1, <3>2 DEF Leads, PartNo
    <3> QED  BY <1>1, <1>9, <2>1, <2>3, <3>3
  <2> QED  BY <1>4, <2>2, <2>3 DEF AtSubset
<1>10. CASE next \in DOMAIN block
  <2>1. h = block[next]
    BY <1>2, <1>10, BlockRead
  <2>2. Leads(lab, next, SubsetNo(k, n + 1))
    <3>1. CASE Leads(lab, next, SubsetNo(k, Len(got.parts[k]) + 1))
      BY <1>5, <3>1
    <3>2. CASE Leads(lab, next, SubsetNo(k, 1)) /\ got.parts[k] = <<>>
      <4>1. n + 1 = 1
        BY <1>5, <3>2, EmptySeq
      <4> QED  BY <3>2, <4>1
    <3>3. ~ (next >= HeaderSize /\ Tiny)
      BY <1>1, <1>3, <1>10 DEF Room, Tiny
    <3>4. ~ (next <= 0)
      BY <1>3
    <3> QED  BY <1>4, <3>1, <3>2, <3>3, <3>4 DEF AtSubset
  <2>3. Right(lab, next) /\ lab[next] = SubsetNo(k, n + 1)
    BY <1>10, <2>2, LeadsTo
  <2>4. n \in Nat
    <3>1. PICK S : got.parts \in Seq(Seq(S))
      BY DEF PartsTrue
    <3>2. got.parts[k] \in Seq(S)
      BY <1>4, <3>1, LenProperties, ElementOfSeq DEF GotLen
    <3> QED  BY <1>5, <3>2, LenProperties
  <2>5. SubsetRight(lab, h, k, n + 1)
    BY <1>3, <2>1, <2>3, <2>4 DEF Right
  <2>6. /\ k \in 1 .. Len(Parts) /\ n + 1 \in 1 .. Len(Parts[k])
        /\ h = [kind |-> "SUBSET", mat |-> Parts[k][n + 1].mat,
                data |-> Parts[k][n + 1].data, size |-> Parts[k][n + 1].size,
                next |-> h.next]
        /\ h.next = -1 \/ (n + 1 < Len(Parts[k])
                             /\ Leads(lab, h.next, SubsetNo(k, (n + 1) + 1)))
    BY <2>5 DEF SubsetRight
  <2>7. e.there => e = Loaded(k, n + 1)
    <3>1. e.there <=> DataThere(next, h)
      BY <1>6
    <3>2. DataThere(next, h) \in BOOLEAN
      BY DEF DataThere
    <3>3. /\ h.mat = Parts[k][n + 1].mat /\ h.data = Parts[k][n + 1].data
          /\ h.size = Parts[k][n + 1].size
      BY <2>6
    <3> QED  BY <1>6, <3>1, <3>2, <3>3 DEF Loaded
  <2>8. /\ PartsTrue' /\ GotLen' = k
        /\ Len(got'.parts[k]) = n + 1
        /\ got' = [parts |-> got'.parts, mats |-> {}, texs |-> {}]
    BY <1>1, <1>2, <1>3, <1>4, <1>5, <1>6, <2>6, <2>7, SubsetAdded
  <2>9. CASE h.next = -1
    <3>1. Spent' /\ next' <= 0 /\ next' \in Int
      BY <1>1, <1>2, <2>6, <2>9 DEF Spent
    <3>2. AtSubset(lab)'
      BY <1>1, <1>2, <1>3, <1>8, <1>9, <2>8, <3>1 DEF AtSubset
    <3> QED  BY <2>8, <3>2
  <2>10. CASE /\ n + 1 < Len(Parts[k]) /\ h.next \in DOMAIN block
              /\ Leads(lab, h.next, SubsetNo(k, (n + 1) + 1))
    <3>1. Leads(lab, h.next, SubsetNo(k, (n + 1) + 1))'
      BY <1>1, <2>10
    <3>2. Leads(lab, next, SubsetNo(GotLen, Len(got.parts[GotLen]) + 1))'
      BY <1>2, <2>8, <3>1 DEF Leads, SubsetNo
    <3>3. /\ next' \in Int /\ next' \in DOMAIN block' /\ GotLen' <= Len(Parts')
          /\ Len(got'.parts[GotLen']) < Len(Parts'[GotLen'])
      BY <1>1, <1>2, <2>6, <2>8, <2>10 DEF Leads
    <3>4. AtSubset(lab)'
      BY <1>1, <1>2, <1>3, <1>8, <1>9, <2>8, <3>2, <3>3 DEF AtSubset
    <3> QED  BY <2>8, <3>4
  <2>11. CASE /\ h.next \notin DOMAIN block
              /\ Leads(lab, h.next, SubsetNo(k, (n + 1) + 1))
    <3>1. h.next \in Nat \ {0}
      BY <2>11, LeadsTo
    <3>2. Caught'
      BY <1>1, <1>2, <2>11, <3>1 DEF Caught
    <3> QED  BY <2>8, <3>2
  <2> QED  BY <2>6, <2>9, <2>10, <2>11
<1>11. CASE next \notin DOMAIN block
  <2>1. h = subset
    BY <1>2, <1>11, BlockRead
  <2>2. /\ next + HeaderSize > len
        /\ Tiny \/ Spent \/ next = 2 * HeaderSize
    <3>1. CASE next >= HeaderSize /\ Tiny
      BY <1>1, <1>3, <3>1 DEF Tiny
    <3>2. CASE Leads(lab, next, SubsetNo(k, 1)) /\ (Spent \/ next = 2 * HeaderSize)
      BY <1>11, <3>2, LeadsTo
    <3>3. ~ (next <= 0)
      BY <1>3
    <3> QED  BY <1>4, <1>11, <3>1, <3>2, <3>3 DEF AtSubset
  <2>3. h.size \in Nat /\ h.next \in Int /\ (h.next <= 0 \/ h.next > HeaderSize)
    BY <1>2, <2>1 DEF Old
  <2>4. ~ e.there
    BY <1>1, <1>3, <1>7, <2>2, <2>3
  <2>5. /\ PartsTrue' /\ GotLen' = k
        /\ got' = [parts |-> got'.parts, mats |-> {}, texs |-> {}]
    BY <1>1, <1>2, <1>3, <1>4, <1>5, <1>6, <2>4, SubsetAdded
  <2>6. CASE h.next <= 0
    <3>1. Spent' /\ next' <= 0 /\ next' \in Int
      BY <1>2, <2>3, <2>6 DEF Spent
    <3>2. AtSubset(lab)'
      BY <1>1, <1>2, <1>3, <1>8, <1>9, <2>5, <3>1 DEF AtSubset
    <3> QED  BY <2>5, <3>2
  <2>7. CASE ~ (h.next <= 0)
    <3>1. h.next \in Nat \ {0} /\ h.next > HeaderSize
      BY <1>1, <2>3, <2>7
    <3>2. Tiny \/ next = 2 * HeaderSize
      <4>1. ~ Spent
        BY <1>2, <2>1, <2>7 DEF Spent
      <4> QED  BY <2>2, <4>1
    <3>3. ASSUME NEW o \in DOMAIN block  PROVE o # h.next
      <4>1. /\ o \in Nat /\ o + HeaderSize <= len
            /\ o \in {0, HeaderSize} \/ o >= 2 * HeaderSize
        BY <1>1, <3>3 DEF Room, Shapes, Place
      <4>2. o < 2 * HeaderSize
        <5>1. CASE Tiny
          BY <1>1, <4>1, <5>1 DEF Tiny
        <5>2. CASE next = 2 * HeaderSize
          BY <1>1, <2>2, <4>1, <5>2
        <5> QED  BY <3>2, <5>1, <5>2
      <4> QED  BY <1>1, <3>1, <4>1, <4>2
    <3>4. Caught'
      BY <1>1, <1>2, <3>1, <3>3 DEF Caught
    <3> QED  BY <2>5, <3>4
  <2> QED  BY <2>6, <2>7
<1> QED  BY <1>10, <1>11

LEMMA PartsTrueStays ==
  ASSUME PartsTrue, got'.parts = got.parts, Parts' = Parts
  PROVE  PartsTrue' /\ GotLen' = GotLen
BY DEF PartsTrue, GotLen, Loaded

\* The subsets of a part end.
LEMMA EndSubsets ==
  ASSUME NEW lab, Linked(lab), model \in Models, AtSubset(lab), PartsTrue, EndLoop,
         UNCHANGED <<file, model, state, saver, stream>>
  PROVE  (AtPart(lab)' \/ Caught') /\ PartsTrue'
<1>1. /\ block' = block /\ len' = len /\ Parts' = Parts
      /\ HeaderSize \in Nat \ {0, 1} /\ Room
      /\ Len(Parts) \in Nat /\ (Len(Parts) = 0 <=> Parts = <<>>)
      /\ \A o, l : Leads(lab, o, l) <=> Leads(lab, o, l)'
  BY LoadKeeps
<1>2. /\ next <= 0 /\ load' = "part" /\ next' = part.next
      /\ UNCHANGED <<hdr, part, subset, mat, tex, got>>
  BY DEF EndLoop, AtSubset, Goto, locals
<1>3. /\ HeaderRead /\ InParts
      /\ got = [parts |-> got.parts, mats |-> {}, texs |-> {}]
      /\ part.kind = "PART" /\ part.next \in Int /\ GotLen > 0 /\ next \in Int
  BY DEF AtSubset
<1>4. Spent
  <2>1. ~ (next >= HeaderSize)
    BY <1>1, <1>2, <1>3
  <2>2. ~ (next \in DOMAIN block /\ \E l : Leads(lab, next, l))
    BY <1>2, LeadsTo
  <2> QED  BY <2>1, <2>2 DEF AtSubset
<1>5. PartsTrue' /\ GotLen' = GotLen
  BY <1>1, <1>2, PartsTrueStays
<1>6. /\ HeaderRead' /\ Spent' /\ InParts'
      /\ GotLen' > 0 /\ part' = part /\ next' \in Int
      /\ got' = [parts |-> got'.parts, mats |-> {}, texs |-> {}]
  BY <1>1, <1>2, <1>3, <1>4, <1>5 DEF HeaderRead, Spent, InParts
<1>7. CASE part.next <= 0
  <2>1. AtPart(lab)'
    BY <1>2, <1>3, <1>6, <1>7 DEF AtPart
  <2> QED  BY <1>5, <2>1
<1>8. CASE GotLen < Len(Parts) /\ Leads(lab, part.next, PartNo(GotLen + 1))
  <2>1. PICK o, k : o = part.next /\ k = GotLen
    OBVIOUS
  <2>2. Leads(lab, o, PartNo(k + 1)) /\ Leads(lab, o, PartNo(k + 1))'
    BY <1>1, <1>8, <2>1
  <2>3. CASE o \in DOMAIN block
    <3>1. Leads(lab, next, PartNo(GotLen + 1))'
      BY <1>2, <1>5, <2>1, <2>2 DEF Leads, PartNo
    <3>2. AtPart(lab)'
      BY <1>1, <1>2, <1>3, <1>5, <1>6, <1>8, <2>1, <2>3, <3>1 DEF AtPart
    <3> QED  BY <1>5, <3>2
  <2>4. CASE o \notin DOMAIN block
    <3>1. o \in Nat \ {0}
      BY <2>2, LeadsTo
    <3>2. Caught'
      BY <1>1, <1>2, <1>3, <2>1, <2>4, <3>1 DEF Caught
    <3> QED  BY <1>5, <3>2
  <2> QED  BY <2>3, <2>4
<1> QED  BY <1>7, <1>8 DEF AtSubset

\* The parts end.
LEMMA EndParts ==
  ASSUME NEW lab, Linked(lab), model \in Models, AtPart(lab), PartsTrue, EndLoop,
         UNCHANGED <<file, model, state, saver, stream>>
  PROVE  AtMaterial' /\ PartsTrue'
<1>1. /\ block' = block /\ len' = len /\ Parts' = Parts /\ state' = state
      /\ HeaderSize \in Nat \ {0, 1} /\ Room /\ Heads(lab)
  BY LoadKeeps
<1>2. /\ next <= 0 /\ load' = "mat" /\ next' = hdr.mats
      /\ UNCHANGED <<hdr, part, subset, mat, tex, got>>
  BY DEF EndLoop, AtPart, Goto, locals
<1>3. /\ HeaderRead /\ InParts
      /\ got = [parts |-> got.parts, mats |-> {}, texs |-> {}]
  BY DEF AtPart
<1>4. GotLen > 0
  BY <1>1, <1>2 DEF AtPart
<1>5. PartsTrue' /\ GotLen' = GotLen
  BY <1>1, <1>2, PartsTrueStays
<1>6. state = "interrupted" => hdr.mats = 0
  <2>1. ASSUME state = "interrupted"  PROVE hdr.mats = 0
    <3>1. 0 \in DOMAIN block /\ block[0] = FileHeader(NoLibs)
      BY <1>1, <2>1 DEF Heads
    <3>2. hdr = block[0]
      BY <1>1, <1>3, <3>1 DEF HeaderRead, Room
    <3> QED  BY <3>1, <3>2 DEF FileHeader, NoLibs
  <2> QED  BY <2>1
<1>7. /\ HeaderRead' /\ InParts' /\ GotLen' > 0
      /\ got' = [parts |-> got'.parts, mats |-> {}, texs |-> {}]
  BY <1>1, <1>2, <1>3, <1>4, <1>5 DEF HeaderRead, InParts
<1>8. got'.mats = {} /\ got' = [parts |-> got'.parts, mats |-> got'.mats, texs |-> {}]
  BY <1>7
<1>9. AtMaterial'
  BY <1>1, <1>2, <1>6, <1>7, <1>8 DEF AtMaterial
<1> QED  BY <1>5, <1>9

LEMMA LoadMaterial ==
  ASSUME NEW lab, Linked(lab), model \in Models, AtMaterial, PartsTrue, ReadMaterial,
         UNCHANGED <<file, model, state, saver, stream>>
  PROVE  AtMaterial' /\ PartsTrue'
<1>1. /\ block' = block /\ len' = len /\ Parts' = Parts /\ state' = state
  BY LoadKeeps
<1>2. PICK ms : got' = [got EXCEPT !.mats = ms]
  BY DEF ReadMaterial
<1>3. load' = "mat" /\ UNCHANGED <<hdr, part, subset, tex>> /\ next > 0
  BY DEF ReadMaterial, Goto
<1>4. /\ HeaderRead /\ InParts /\ GotLen > 0
      /\ got = [parts |-> got.parts, mats |-> got.mats, texs |-> {}]
      /\ state # "interrupted"
  BY <1>3 DEF AtMaterial
<1>5. PICK ps : got = [parts |-> ps, mats |-> got.mats, texs |-> {}] /\ ps = got.parts
  BY <1>4
<1>6. got' = [parts |-> ps, mats |-> ms, texs |-> {}]
  BY <1>2, <1>5
<1>7. got'.parts = ps /\ got' = [parts |-> got'.parts, mats |-> got'.mats, texs |-> {}]
  <2>1. PICK g : g = [parts |-> ps, mats |-> ms, texs |-> {}]
    OBVIOUS
  <2>2. g.parts = ps /\ g = [parts |-> g.parts, mats |-> g.mats, texs |-> {}]
    BY <2>1
  <2> QED  BY <1>6, <2>1, <2>2
<1>8. PartsTrue' /\ GotLen' = GotLen
  BY <1>1, <1>5, <1>7, PartsTrueStays
<1>9. HeaderRead' /\ InParts'
  BY <1>1, <1>3, <1>4, <1>8 DEF HeaderRead, InParts
<1>10. AtMaterial'
  BY <1>1, <1>3, <1>4, <1>7, <1>8, <1>9 DEF AtMaterial
<1> QED  BY <1>8, <1>10

\* The materials end.
LEMMA EndMaterials ==
  ASSUME NEW lab, Linked(lab), model \in Models, Old, AtMaterial, PartsTrue, EndLoop,
         UNCHANGED <<file, model, state, saver, stream>>
  PROVE  AtTexture' /\ PartsTrue'
<1>1. /\ block' = block /\ len' = len /\ Parts' = Parts /\ state' = state
      /\ model' = model /\ HeaderSize \in Nat \ {0, 1} /\ Room /\ Heads(lab)
  BY LoadKeeps
<1>2. /\ load' = "tex" /\ next' = hdr.texs
      /\ UNCHANGED <<hdr, part, subset, mat, tex, got>>
  BY DEF EndLoop, AtMaterial, Goto, locals
<1>3. /\ HeaderRead /\ InParts /\ GotLen > 0
      /\ got = [parts |-> got.parts, mats |-> got.mats, texs |-> {}]
      /\ state = "interrupted" => got.mats = {}
  BY DEF AtMaterial
<1>4. PartsTrue' /\ GotLen' = GotLen
  BY <1>1, <1>2, PartsTrueStays
<1>5. state = "interrupted" => hdr.texs = 0
  <2>1. ASSUME state = "interrupted"  PROVE hdr.texs = 0
    <3>1. 0 \in DOMAIN block /\ block[0] = FileHeader(NoLibs)
      BY <1>1, <2>1 DEF Heads
    <3>2. hdr = block[0]
      BY <1>1, <1>3, <3>1 DEF HeaderRead, Room
    <3> QED  BY <3>1, <3>2 DEF FileHeader, NoLibs
  <2> QED  BY <2>1
<1>6. hdr.texs \in Int
  BY <1>3 DEF HeaderRead, Old
<1>7. /\ InParts' /\ GotLen' > 0 /\ TexsTrue' /\ got'.texs = {}
      /\ got' = [parts |-> got'.parts, mats |-> got'.mats, texs |-> got'.texs]
  <2>1. got.texs = {} /\ got = [parts |-> got.parts, mats |-> got.mats, texs |-> got.texs]
    BY <1>3
  <2> QED  BY <1>1, <1>2, <1>3, <1>4, <2>1 DEF InParts, TexsTrue
<1>8. AtTexture'
  BY <1>1, <1>2, <1>3, <1>5, <1>6, <1>7 DEF AtTexture
<1> QED  BY <1>4, <1>8

LEMMA LoadTexture ==
  ASSUME NEW lab, Linked(lab), model \in Models, Shapes, Old, AtTexture,
         PartsTrue, ReadTexture, UNCHANGED <<file, model, state, saver, stream>>
  PROVE  AtTexture' /\ PartsTrue'
<1>1. /\ block' = block /\ len' = len /\ Parts' = Parts /\ state' = state
      /\ model' = model /\ Len(model.texs) \in Nat
      /\ HeaderSize \in Nat \ {0, 1} /\ len \in Nat
      /\ DOMAIN model.texs = 1..Len(model.texs)
      /\ \A k \in 1..Len(model.texs) : model.texs[k].size \in Nat
  BY LoadKeeps, ModelFits
<1>2. PICK h \in Read(next, tex) :
        /\ h.kind = "TEX" /\ tex' = h /\ load' = "tex" /\ next' = h.next
        /\ got' = [got EXCEPT !.texs = {t \in @ : t.name # h.name} \union
                     {[name |-> h.name, size |-> h.size,
                       there |-> DataThere(next, h)]}]
  BY DEF ReadTexture, Goto
<1>3. /\ next > 0 /\ next \in Int /\ InParts /\ GotLen > 0
      /\ TexsTrue /\ state # "interrupted"
      /\ got = [parts |-> got.parts, mats |-> got.mats, texs |-> got.texs]
  BY DEF ReadTexture, AtTexture
<1>4. PICK ps, ts, e : /\ ps = got.parts
                       /\ ts = {t \in got.texs : t.name # h.name} \union {e}
                       /\ e = [name |-> h.name, size |-> h.size,
                               there |-> DataThere(next, h)]
  OBVIOUS
<1>5. /\ got'.parts = ps /\ got'.texs = ts
      /\ got' = [parts |-> got'.parts, mats |-> got'.mats, texs |-> got'.texs]
  <2>1. PICK ms : got = [parts |-> ps, mats |-> ms, texs |-> got.texs]
    BY <1>3, <1>4
  <2>2. got' = [got EXCEPT !.texs = ts]
    BY <1>2, <1>4
  <2>3. got' = [parts |-> ps, mats |-> ms, texs |-> ts]
    BY <2>1, <2>2
  <2>4. PICK g : g = [parts |-> ps, mats |-> ms, texs |-> ts]
    OBVIOUS
  <2>5. /\ g.parts = ps /\ g.texs = ts
        /\ g = [parts |-> g.parts, mats |-> g.mats, texs |-> g.texs]
    BY <2>4
  <2> QED  BY <2>3, <2>4, <2>5
<1>6. PartsTrue' /\ GotLen' = GotLen
  BY <1>1, <1>4, <1>5, PartsTrueStays
<1>7. e.there <=> next + HeaderSize + h.size <= len
  BY <1>4 DEF DataThere
<1>8. h.next \in Int /\ (e.there => e \in AllTexs(model.texs))
  <2>1. CASE next \in DOMAIN block
    <3>1. Shape(next, h)
      BY <1>2, <2>1, BlockRead DEF Shapes
    <3>2. PICK k \in 1 .. Len(model.texs) :
            h.name = model.texs[k].name /\ h.size = model.texs[k].size
      BY <1>2, <3>1 DEF Shape
    <3>3. h.next \in Int
      BY <1>2, <3>1 DEF Shape
    <3>4. e.there <=> DataThere(next, h)
      BY <1>4
    <3>5. DataThere(next, h) \in BOOLEAN
      BY DEF DataThere
    <3>6. e.there => e = [name |-> model.texs[k].name, size |-> model.texs[k].size,
                          there |-> TRUE]
      BY <1>4, <3>2, <3>4, <3>5
    <3> QED  BY <1>1, <3>3, <3>6 DEF AllTexs
  <2>2. CASE next \notin DOMAIN block
    <3>1. h = tex /\ ~ (next < len)
      BY <1>2, <2>2, BlockRead
    <3>2. h.size \in Nat /\ h.next \in Int
      BY <1>2, <3>1 DEF Old
    <3>3. ~ e.there
      BY <1>1, <1>3, <1>7, <3>1, <3>2
    <3> QED  BY <3>2, <3>3
  <2> QED  BY <2>1, <2>2
<1>9. TexsTrue'
  BY <1>1, <1>3, <1>4, <1>5, <1>8 DEF TexsTrue
<1>10. InParts' /\ GotLen' > 0
  BY <1>1, <1>3, <1>6 DEF InParts
<1>11. AtTexture'
  BY <1>1, <1>2, <1>3, <1>5, <1>8, <1>9, <1>10 DEF AtTexture
<1> QED  BY <1>6, <1>11

LEMMA LoadsStep ==
  ASSUME NEW lab, Linked(lab), model \in Models, Shapes, Old, Loads(lab),
         LoadStep, load' # "off"
  PROVE  Loads(lab)'
<1>1. UNCHANGED <<file, model, state, saver, stream>>
  BY DEF LoadStep
<1>2. ~ Reject /\ ~ OutOfMemory
  BY DEF Reject, OutOfMemory, Return
<1>3. CASE Caught
  BY <1>3, CaughtStays DEF Loads
<1>4. CASE PartsTrue /\ AtHeader
  <2>1. ReadHeader
    BY <1>2, <1>4 DEF LoadStep, AtHeader, ReadPart, ReadSubset, ReadMaterial,
         ReadTexture, EndLoop
  <2> QED  BY <1>1, <1>4, <2>1, LoadHeader DEF Loads
<1>5. CASE PartsTrue /\ AtPart(lab)
  <2>1. ReadPart \/ EndLoop
    BY <1>2, <1>5 DEF LoadStep, AtPart, ReadHeader, ReadSubset, ReadMaterial,
         ReadTexture
  <2> QED  BY <1>1, <1>5, <2>1, LoadPart, EndParts DEF Loads
<1>6. CASE PartsTrue /\ AtSubset(lab)
  <2>1. ReadSubset \/ EndLoop
    BY <1>2, <1>6 DEF LoadStep, AtSubset, ReadHeader, ReadPart, ReadMaterial,
         ReadTexture
  <2> QED  BY <1>1, <1>6, <2>1, LoadSubset, EndSubsets DEF Loads
<1>7. CASE PartsTrue /\ AtMaterial
  <2>1. ReadMaterial \/ EndLoop
    BY <1>2, <1>7 DEF LoadStep, AtMaterial, ReadHeader, ReadPart, ReadSubset,
         ReadTexture
  <2> QED  BY <1>1, <1>7, <2>1, LoadMaterial, EndMaterials DEF Loads
<1>8. CASE PartsTrue /\ AtTexture
  <2>1. ReadTexture \/ EndLoop
    BY <1>2, <1>8 DEF LoadStep, AtTexture, ReadHeader, ReadPart, ReadSubset,
         ReadMaterial
  <2>2. ~ EndLoop
    BY <1>8 DEF EndLoop, AtTexture, Return
  <2> QED  BY <1>1, <1>8, <2>1, <2>2, LoadTexture DEF Loads
<1> QED  BY <1>3, <1>4, <1>5, <1>6, <1>7, <1>8 DEF Loads

\* What a load returns is true of the model.
LEMMA GotTrue ==
  ASSUME model \in Models, PartsTrue, TexsTrue
  PROVE  DataTrue(got, model)
<1>1. PICK S : got.parts \in Seq(Seq(S))
  BY DEF PartsTrue
<1>2. DOMAIN got.parts = 1 .. GotLen
  BY <1>1, LenProperties DEF GotLen
<1>3. \A p \in 1 .. GotLen : DOMAIN got.parts[p] = 1 .. Len(got.parts[p])
  BY <1>1, LenProperties, ElementOfSeq DEF GotLen
<1>4. /\ DOMAIN Parts = 1 .. Len(Parts)
      /\ \A p \in 1 .. Len(Parts) : DOMAIN Parts[p] = 1 .. Len(Parts[p])
  BY ModelFits
<1>5. ASSUME NEW p \in DOMAIN got.parts, NEW i \in DOMAIN got.parts[p],
             got.parts[p][i].there
      PROVE  /\ p \in DOMAIN Parts /\ i \in DOMAIN Parts[p]
             /\ got.parts[p][i] = All(Parts)[p][i]
  <2>1. /\ p \in 1 .. Len(Parts) /\ i \in 1 .. Len(Parts[p])
        /\ got.parts[p][i] = Loaded(p, i)
    BY <1>2, <1>3, <1>5 DEF PartsTrue
  <2>2. p \in DOMAIN Parts /\ i \in DOMAIN Parts[p]
    BY <1>4, <2>1
  <2>3. All(Parts)[p][i] = Loaded(p, i)
    BY <2>2 DEF All, Loaded
  <2> QED  BY <2>1, <2>2, <2>3
<1> QED  BY <1>5 DEF DataTrue, TexsTrue, Parts

-----------------------------------------------------------------------------
(* The file's blocks keep what ModelFile promises of a file *)

LEMMA GotSeen ==
  ASSUME model \in Models, PartsTrue, AtTexture,
         state \in {"interrupted", "short", "whole"},
         state = "whole" /\ Parts # <<>> => got = AsLoaded(model)
  PROVE  Form(got) \in Abstract!Seen
<1>1. DataTrue(got, model)
  BY GotTrue DEF AtTexture
<1>2. /\ GotLen \in Nat /\ GotLen > 0 /\ InParts
      /\ state = "interrupted" => got.mats = {} /\ got.texs = {}
  BY LenProperties DEF GotLen, PartsTrue, AtTexture
<1>3. /\ Len(Parts) \in Nat /\ (Len(Parts) = 0 <=> Parts = <<>>)
      /\ (Parts = <<>> => model.mats = <<>> /\ model.texs = <<>>)
      /\ model.mats \in Seq(ToSet(model.mats)) /\ model.texs \in Seq(ToSet(model.texs))
  BY ModelFits, ModelAssumption DEF Parts
<1>4. /\ Form(got) \in {"whole", "torn", "prefix", "stale"}
      /\ got = AsLoaded(model) => Form(got) = "whole" \/ Form(got) = "prefix"
  BY <1>1 DEF Form
<1>5. ASSUME NEW S, NEW s \in Seq(S), s # <<>>
      PROVE  ToSet(s) # {} /\ DOMAIN s # {}
  <2>1. Len(s) \in Nat \ {0} /\ DOMAIN s = 1 .. Len(s)
    BY <1>5, LenProperties, EmptySeq
  <2>2. 1 \in DOMAIN s
    BY <2>1
  <2> QED  BY <2>2 DEF ToSet
<1>6. /\ model.mats # <<>> => ToSet(model.mats) # {}
      /\ model.texs # <<>> => ToSet(model.texs) # {} /\ DOMAIN model.texs # {}
  BY <1>3, <1>5
<1>7. CASE state = "short"
  BY <1>4, <1>7 DEF Abstract!Seen, Abstract!Forms
<1>8. CASE state = "whole" /\ Parts # <<>>
  <2>1. got = AsLoaded(model)
    BY <1>8
  <2>2. got.mats = ToSet(model.mats) /\ got.texs = AllTexs(model.texs)
    BY <2>1 DEF AsLoaded
  <2>3. ~ (got.mats = {} /\ got.texs = {} /\ ~ (model.mats = <<>> /\ model.texs = <<>>))
    BY <1>6, <2>2 DEF AllTexs
  <2>4. Form(got) = "whole"
    BY <2>1, <2>3 DEF Form
  <2> QED  BY <1>8, <2>4 DEF Abstract!Seen, Abstract!Opens, Parts
<1>9. CASE state = "whole" /\ Parts = <<>>
  <2>1. GotLen \notin 1 .. Len(Parts)
    BY <1>2, <1>3, <1>9
  <2>2. got # AsLoaded(model)
    <3>1. All(Parts) = <<>>
      BY <1>9 DEF All
    <3>2. AsLoaded(model).parts = <<>>
      BY <3>1 DEF AsLoaded, Parts
    <3>3. got.parts # <<>>
      BY <1>2, EmptySeq DEF GotLen
    <3> QED  BY <3>2, <3>3
  <2>3. Form(got) = "stale"
    BY <1>1, <2>1, <2>2 DEF Form, GotLen, Parts
  <2> QED  BY <1>9, <2>3 DEF Abstract!Seen, Abstract!Opens, Parts
<1>10. CASE state = "interrupted" /\ model.mats = <<>> /\ model.texs = <<>>
  <2>1. Form(got) # "prefix"
    BY <1>1, <1>10 DEF Form
  <2> QED  BY <1>4, <1>10, <2>1 DEF Abstract!Seen, Abstract!Bare
<1>11. CASE state = "interrupted" /\ ~ (model.mats = <<>> /\ model.texs = <<>>)
  <2>1. got.mats = {} /\ got.texs = {}
    BY <1>2, <1>11
  <2>2. got # AsLoaded(model)
    <3>1. /\ AsLoaded(model).mats = ToSet(model.mats)
          /\ AsLoaded(model).texs = AllTexs(model.texs)
      BY DEF AsLoaded
    <3> QED  BY <1>6, <1>11, <2>1, <3>1 DEF AllTexs
  <2>3. ~ (/\ got.mats = ToSet(model.mats)
           /\ Names(got.texs) = Names(ToSet(model.texs)))
    BY <1>6, <1>11, <2>1 DEF Names
  <2>4. Len(got.parts) \in 1 .. Len(model.parts)
    <3>1. Parts # <<>>
      BY <1>3, <1>11
    <3>2. GotLen \in 1 .. Len(Parts)
      BY <1>2, <1>3, <3>1 DEF InParts
    <3> QED  BY <3>2 DEF GotLen, Parts
  <2>5. Form(got) = "prefix"
    BY <1>1, <1>11, <2>1, <2>2, <2>3, <2>4 DEF Form
  <2> QED  BY <1>11, <2>5 DEF Abstract!Seen, Abstract!Bare
<1> QED  BY <1>7, <1>8, <1>9, <1>10, <1>11

\* The first k parts of a model as they are loaded, the last one up to its n-th
\* subset.
Beginning(m, k, n) ==
  [parts |-> [p \in 1 .. k |-> IF p < k THEN All(m.parts)[p]
                               ELSE [i \in 1 .. n |-> All(m.parts)[k][i]]],
   mats |-> {}, texs |-> {}]

\* A loader has memory for the subsets of each model.
EnoughMemory ==
  \A m \in Models : \A k \in DOMAIN m.parts :
    \A n \in 0 .. (Len(m.parts[k]) - 1) : Subsets(Beginning(m, k, n)) < MaxSubsets

LEMMA MemoryLasts ==
  ASSUME SaveFits, Opening, EnoughMemory, NEW pa \in Places,
         NEW su \in [Nat -> Places], NEW ma \in Places, NEW te \in Places,
         Laid(pa, su, ma, te), Follows(pa, su, ma, te), load = "subset", next > 0
  PROVE  Subsets(got) # MaxSubsets
<1>1. PICK k \in 1..Len(Parts) : \E n \in 0..Len(Parts[k]) :
        /\ next = After(Parts[k], su[k], n)
        /\ GotParts(k - 1) /\ Len(got.parts) = k /\ Len(got.parts[k]) = n
        /\ \A i \in 1..n : got.parts[k][i] = Loaded(k, i)
  BY DEF Follows
<1>2. PICK n \in 0..Len(Parts[k]) :
        /\ next = After(Parts[k], su[k], n)
        /\ GotParts(k - 1) /\ Len(got.parts) = k /\ Len(got.parts[k]) = n
        /\ \A i \in 1..n : got.parts[k][i] = Loaded(k, i)
  BY <1>1
<1>3. model \in Models /\ MaxSubsets \in Nat
  BY ScanFileAssumption, WholeLies DEF Opening
<1>4. /\ Len(Parts) \in Nat /\ DOMAIN Parts = 1..Len(Parts)
      /\ Len(Parts[k]) \in Nat \ {0} /\ DOMAIN Parts[k] = 1..Len(Parts[k])
  BY <1>3, ModelFits
<1>5. n # Len(Parts[k])
  <2>1. n = Len(Parts[k]) => next = -1
    BY <1>2 DEF After
  <2>2. next # -1
    OBVIOUS
  <2> QED  BY <2>1, <2>2
<1>6. PICK g \in Seq(Seq(Entries)) : /\ g = got.parts
                                     /\ got = [parts |-> g, mats |-> {}, texs |-> {}]
  BY <1>2 DEF GotParts
<1>7. /\ DOMAIN g = 1..k
      /\ \A p \in 1..(k - 1) : g[p] = All(Parts)[p]
      /\ DOMAIN g[k] = 1..n
      /\ \A i \in 1..n : g[k][i] = All(Parts)[k][i]
  <2>1. DOMAIN g = 1..k /\ k \in DOMAIN g /\ g[k] \in Seq(Entries)
    BY <1>2, <1>4, <1>6, LenProperties, ElementOfSeq
  <2>2. DOMAIN g[k] = 1..n
    BY <1>2, <1>6, <2>1, LenProperties
  <2>3. \A i \in 1..n : g[k][i] = All(Parts)[k][i]
    BY <1>2, <1>4, <1>6 DEF Loaded, All
  <2> QED  BY <1>2, <1>6, <2>1, <2>2, <2>3 DEF GotParts
<1>8. PICK b : b = [p \in 1 .. k |-> IF p < k THEN All(Parts)[p]
                                   ELSE [i \in 1 .. n |-> All(Parts)[k][i]]]
  OBVIOUS
<1>9. g = b
  <2>1. ASSUME NEW p \in 1..k  PROVE g[p] = b[p]
    <3>1. CASE p # k
      <4>1. p \in 1..(k - 1) /\ p < k
        BY <1>4, <3>1
      <4> QED  BY <1>7, <1>8, <4>1
    <3>2. CASE p = k
      <4>1. b[p] = [i \in 1 .. n |-> All(Parts)[k][i]]
        BY <1>4, <1>8, <3>2
      <4>2. PICK f \in Seq(Entries) : f = g[k]
        BY <1>2, <1>4, <1>6, ElementOfSeq
      <4>3. f = [i \in DOMAIN f |-> f[i]]
        BY LenProperties
      <4> QED  BY <1>7, <3>2, <4>1, <4>2, <4>3
    <3> QED  BY <3>1, <3>2
  <2>2. g = [p \in DOMAIN g |-> g[p]]
    BY LenProperties
  <2> QED  BY <1>7, <1>8, <2>1, <2>2
<1>10. got = Beginning(model, k, n)
  BY <1>6, <1>8, <1>9 DEF Beginning, Parts
<1>11. Subsets(Beginning(model, k, n)) < MaxSubsets
  <2>1. k \in DOMAIN model.parts /\ n \in 0 .. (Len(model.parts[k]) - 1)
    BY <1>4, <1>5 DEF Parts
  <2> QED  BY <1>3, <2>1 DEF EnoughMemory
<1> QED  BY <1>3, <1>10, <1>11

LEMMA WholeReturns ==
  ASSUME IInv, state = "whole", Parts # <<>>, EnoughMemory, LoadStep, load' = "off"
  PROVE  load = "tex" /\ next <= 0 /\ EndLoop /\ got = AsLoaded(model)
<1>1. SaveFits /\ Opening /\ Sound
  BY LoadStepGuard DEF IInv, Opening, Sound, Whole
<1>2. PICK pa \in Places, su \in [Nat -> Places], ma \in Places, te \in Places :
        Laid(pa, su, ma, te) /\ Follows(pa, su, ma, te)
  BY <1>1 DEF IInv, Fits
<1>3. ~ Reject
  BY <1>1, <1>2, NeverRejected
<1>4. ~ OutOfMemory
  BY <1>1, <1>2, MemoryLasts DEF OutOfMemory
<1>5. EndLoop /\ load = "tex" /\ next <= 0 /\ result' = got
  BY <1>3, <1>4 DEF LoadStep, ReadHeader, ReadPart, ReadSubset, ReadMaterial,
       ReadTexture, EndLoop, Goto, Return
<1>6. result' = AsLoaded(model)
  BY <1>1, <1>2, <1>5, EndLoopOpens
<1> QED  BY <1>5, <1>6

\* Every header of the file leads to the block it should, and a load knows
\* where it is.
FInv ==
  /\ state \in {"absent", "saving", "interrupted", "short", "whole"}
  /\ save.at = "off" => save = Off
  /\ Shapes /\ Old
  /\ state = "absent" => /\ DOMAIN block = {} /\ hdr.kind # "FILE"
                         /\ load \in {"off", "header"}
  /\ state # "absent" =>
       /\ model \in Models
       /\ \E lab : Linked(lab) /\ (load # "off" => Loads(lab))

LEMMA FInvInit == Init => FInv
BY DEF Init, FInv, Off, Old, Shapes, Junk

LEMMA OldStays ==
  ASSUME Old, UNCHANGED locals
  PROVE  Old'
BY DEF Old, locals

LEMMA ShapesStay ==
  ASSUME Shapes, UNCHANGED <<file, model, state, saver>>
  PROVE  Shapes'
BY DEF Shapes, Shape, Place, file, saver

LEMMA FInvSave ==
  ASSUME SaveFits, FInv, SaveStep \/ Die
  PROVE  FInv'
<1>1. /\ save.at # "off" /\ state = "saving" /\ load = "off"
      /\ UNCHANGED loader /\ model' = model
  BY DEF SaveFits, FInv, SaveStep, WritePart, WriteSubset, ClosePart,
       WriteMaterial, WriteTexture, Finish, Die
<1>2. PICK lab : Linked(lab)
  BY <1>1 DEF FInv
<1>3. \E lab2 : Linked(lab2)'
  BY <1>1, <1>2, WritePartLinks, WriteSubsetLinks, ClosePartLinks,
     WriteMaterialLinks, WriteTextureLinks, FinishLinks, DieLinks DEF SaveStep
<1>4. /\ state' \in {"saving", "interrupted", "short", "whole"}
      /\ save'.at = "off" => save' = Off
  <2>1. CASE Finish \/ Die
    BY <2>1 DEF Finish, Die
  <2>2. CASE WritePart \/ WriteSubset \/ ClosePart \/ WriteMaterial \/ WriteTexture
    <3>1. state' = state
      BY <2>2 DEF WritePart, WriteSubset, ClosePart, WriteMaterial, WriteTexture
    <3>2. save'.at # "off"
      BY <1>1, <2>2 DEF WritePart, WriteSubset, ClosePart, WriteMaterial,
           WriteTexture, Step, SaveFits
    <3> QED  BY <1>1, <3>1, <3>2
  <2> QED  BY <2>1, <2>2 DEF SaveStep
<1>5. load' = "off" /\ Old'
  <2>1. UNCHANGED locals /\ load' = load
    BY <1>1 DEF loader
  <2> QED  BY <1>1, <2>1, OldStays DEF FInv
<1>6. Shapes'
  BY <1>1, <1>2, SaveShapes DEF FInv
<1> QED  BY <1>1, <1>3, <1>4, <1>5, <1>6 DEF FInv

LEMMA FInvOpen ==
  ASSUME FInv, NEW m \in Models, SaveOpen(m)
  PROVE  FInv'
<1>1. \E lab : Linked(lab)'
  BY SaveOpenLinks
<1>2. /\ load = "off" /\ load' = load /\ UNCHANGED locals
      /\ state' = "saving" /\ model' \in Models
      /\ save'.at # "off"
  BY DEF SaveOpen, loader, Step
<1>3. Old'
  BY <1>2, OldStays DEF FInv
<1>4. Shapes'
  <2>1. /\ DOMAIN block' \subseteq {0} /\ ofs' = HeaderSize
        /\ \A o \in DOMAIN block' : block'[o] = FileHeader(NoLibs)
    BY DEF SaveOpen
  <2>2. FileHeader(NoLibs).kind = "FILE" /\ FileHeader(NoLibs).first = HeaderSize
        /\ FileHeader(NoLibs).texs = 0
    BY DEF FileHeader, NoLibs
  <2> QED  BY <2>1, <2>2, ScanFileAssumption DEF Shapes, Shape, Place
<1> QED  BY <1>1, <1>2, <1>3, <1>4 DEF FInv

LEMMA FInvCut ==
  ASSUME SaveFits, FInv, Cut
  PROVE  FInv'
<1>1. /\ state = "whole" /\ state' = "short" /\ load = "off"
      /\ UNCHANGED <<loader, saver, model>>
  BY DEF Cut, CutAt
<1>2. PICK lab : Linked(lab)'
  BY <1>1, CutLinks DEF FInv
<1>3. load' = load /\ UNCHANGED locals /\ save' = save /\ model' = model
  BY <1>1 DEF loader, saver
<1>4. Old'
  BY <1>1, <1>3, OldStays DEF FInv
<1>5. Shapes'
  <2>1. \A o \in DOMAIN block' : o \in DOMAIN block /\ block'[o] = block[o]
    BY DEF Cut, CutAt
  <2> QED  BY <1>1, <2>1 DEF Shapes, Shape, Place, FInv
<1> QED  BY <1>1, <1>2, <1>3, <1>4, <1>5 DEF FInv

LEMMA FInvStart ==
  ASSUME FInv, Start
  PROVE  FInv'
<1>1. /\ load = "off" /\ load' = "header" /\ next' = 0 /\ got' = Nothing
      /\ UNCHANGED <<file, model, state, saver>>
      /\ \/ hdr' = Junk /\ part' = Junk /\ subset' = Junk /\ mat' = Junk
              /\ tex' = Junk
         \/ UNCHANGED locals
  BY DEF Start, Goto
<1>2. /\ block' = block /\ model' = model /\ state' = state /\ save' = save
      /\ hdr'.kind = "FILE" => hdr.kind = "FILE"
  BY <1>1 DEF file, saver, locals, Junk
<1>3. Old'
  <2>1. Old
    BY <1>1 DEF FInv
  <2>2. CASE hdr' = Junk /\ part' = Junk /\ subset' = Junk /\ tex' = Junk
    BY <2>2 DEF Old, Junk
  <2> QED  BY <1>1, <2>1, <2>2, OldStays
<1>4. ASSUME NEW lab, Linked(lab)  PROVE Linked(lab)' /\ Loads(lab)'
  <2>1. Linked(lab)'
    BY <1>1, <1>4, LinkedStays
  <2>2. AtHeader'
    BY <1>1 DEF AtHeader, Nothing
  <2>3. PartsTrue'
    <3>1. got'.parts = <<>> /\ <<>> \in Seq(Seq({})) /\ Len(<<>>) = 0
      BY <1>1, EmptySeq DEF Nothing
    <3> QED  BY <3>1 DEF PartsTrue, GotLen
  <2> QED  BY <2>1, <2>2, <2>3 DEF Loads
<1>5. Shapes'
  BY <1>1, ShapesStay DEF FInv
<1> QED  BY <1>1, <1>2, <1>3, <1>4, <1>5 DEF FInv

LEMMA FInvLoad ==
  ASSUME IInv, FInv, EnoughMemory, LoadStep
  PROVE  FInv'
<1>1. /\ UNCHANGED <<file, model, state, saver>> /\ load # "off"
  BY LoadStepGuard DEF LoadStep
<1>2. block' = block /\ model' = model /\ state' = state /\ save' = save
  BY <1>1 DEF file, saver
<1>3. Shapes' /\ Old'
  BY <1>1, ShapesStay, LoadOld DEF FInv
<1>4. CASE state = "absent"
  <2>1. DOMAIN block = {} /\ hdr.kind # "FILE" /\ load = "header"
    BY <1>1, <1>4 DEF FInv
  <2>2. ~ ReadHeader
    <3>1. ASSUME ReadHeader  PROVE FALSE
      <4>1. PICK h \in Read(0, hdr) : h.kind = "FILE"
        BY <3>1 DEF ReadHeader
      <4>2. h = hdr
        BY <2>1, <4>1, BlockRead
      <4> QED  BY <2>1, <4>1, <4>2
    <3> QED  BY <3>1
  <2>3. Reject
    BY <2>1, <2>2 DEF LoadStep, ReadPart, ReadSubset, ReadMaterial, ReadTexture,
         EndLoop, OutOfMemory
  <2>4. load' = "off" /\ hdr' = hdr
    BY <2>3 DEF Reject, Return, locals
  <2> QED  BY <1>2, <1>3, <1>4, <2>1, <2>4 DEF FInv
<1>5. CASE state # "absent"
  <2>1. PICK lab : Linked(lab) /\ Loads(lab) /\ model \in Models
    BY <1>1, <1>5 DEF FInv
  <2>2. Linked(lab)'
    BY <1>1, <2>1, LinkedStays
  <2>3. load' # "off" => Loads(lab)'
    BY <2>1, LoadsStep DEF FInv
  <2> QED  BY <1>2, <1>3, <1>5, <2>1, <2>2, <2>3 DEF FInv
<1> QED  BY <1>4, <1>5

LEMMA FormStays ==
  ASSUME model' = model, NEW r, result' = r
  PROVE  Promised' = IF r = NoModel THEN NoModel
                     ELSE [model |-> model, form |-> Form(r)]
BY DEF Promised, Form

LEMMA PromisedStays ==
  ASSUME model' = model, result' = result
  PROVE  Promised' = Promised
<1>1. PICK r : r = result
  OBVIOUS
<1> QED  BY <1>1, FormStays DEF Promised

LEMMA Returned ==
  ASSUME IInv, FInv, EnoughMemory, LoadStep, load' = "off"
  PROVE  Promised' \in Abstract!Outcomes
<1>1. load # "off" /\ model' = model
  BY LoadStepGuard DEF LoadStep
<1>2. CASE state = "whole" /\ Parts # <<>>
  <2>1. EndLoop /\ load = "tex" /\ got = AsLoaded(model)
    BY <1>2, WholeReturns
  <2> QED
    <3>1. PICK lab : Loads(lab) /\ model \in Models
      BY <1>1, <1>2 DEF FInv
    <3>2. PartsTrue /\ AtTexture
      BY <2>1, <3>1 DEF Loads, Caught, AtHeader, AtPart, AtSubset, AtMaterial
    <3>3. Form(got) \in Abstract!Seen
      BY <1>2, <2>1, <3>1, <3>2, GotSeen
    <3>4. got # NoModel
      BY <2>1, <3>1, NoModelAssumption
    <3>5. result' = got
      BY <2>1 DEF EndLoop, Return, Goto
    <3>6. Promised' = [model |-> model, form |-> Form(got)]
      BY <1>1, <3>4, <3>5, FormStays
    <3> QED  BY <3>3, <3>6 DEF Abstract!Outcomes, Abstract!Loaded
<1>3. CASE ~ (state = "whole" /\ Parts # <<>>)
  <2>1. NoModel \in Abstract!Outcomes
    BY <1>3 DEF Abstract!Outcomes, Abstract!Opens, Parts
  <2>2. CASE EndLoop
    <3>1. load = "tex" /\ result' = got
      BY <1>1, <2>2 DEF EndLoop, Return, Goto
    <3>2. state \in {"interrupted", "short", "whole"}
      BY <1>1, <3>1 DEF FInv, IInv, SaveFits
    <3>3. PICK lab : Loads(lab) /\ model \in Models
      BY <1>1, <3>2 DEF FInv
    <3>4. PartsTrue /\ AtTexture
      BY <3>1, <3>3 DEF Loads, Caught, AtHeader, AtPart, AtSubset, AtMaterial
    <3>5. Form(got) \in Abstract!Seen
      BY <1>3, <3>2, <3>3, <3>4, GotSeen
    <3>6. Promised' = IF got = NoModel THEN NoModel
                      ELSE [model |-> model, form |-> Form(got)]
      BY <1>1, <3>1, FormStays
    <3>7. [model |-> model, form |-> Form(got)] \in Abstract!Outcomes
      BY <3>5 DEF Abstract!Outcomes, Abstract!Loaded
    <3> QED  BY <2>1, <3>6, <3>7
  <2>3. CASE Reject \/ OutOfMemory
    <3>1. result' = NoModel
      BY <2>3 DEF Reject, OutOfMemory, Return
    <3>2. Promised' = NoModel
      BY <3>1 DEF Promised
    <3> QED  BY <2>1, <3>2
  <2>4. EndLoop \/ Reject \/ OutOfMemory
    BY DEF LoadStep, ReadHeader, ReadPart, ReadSubset, ReadMaterial, ReadTexture,
         Goto
  <2> QED  BY <2>2, <2>3, <2>4
<1> QED  BY <1>2, <1>3

\* Nothing happens.
LEMMA LoadsStay ==
  ASSUME NEW lab, Loads(lab), UNCHANGED vars
  PROVE  Loads(lab)'
<1>1. /\ block' = block /\ len' = len /\ Parts' = Parts /\ state' = state
      /\ model' = model /\ load' = load /\ next' = next /\ got' = got
      /\ hdr' = hdr /\ part' = part /\ subset' = subset /\ tex' = tex
      /\ ofs' = ofs /\ full' = full
  BY DEF vars, file, saver, loader, locals, Parts
<1>2. GotLen' = GotLen /\ (Tiny <=> Tiny')
  BY <1>1 DEF GotLen, Tiny
<1>3. /\ PartsTrue => PartsTrue'
      /\ TexsTrue => TexsTrue'
      /\ InParts => InParts'
      /\ HeaderRead => HeaderRead'
  BY <1>1, <1>2, PartsTrueStays DEF TexsTrue, InParts, HeaderRead
<1>4. Spent => Spent'
  BY <1>1 DEF Spent
<1>5. Caught => Caught'
  BY <1>1 DEF Caught
<1>6. AtHeader => AtHeader'
  BY <1>1 DEF AtHeader, Nothing
<1>7. AtPart(lab) => AtPart(lab)'
  BY <1>1, <1>2, <1>3, <1>4 DEF AtPart, Leads, Beyond, PartNo
<1>8. AtSubset(lab) => AtSubset(lab)'
  BY <1>1, <1>2, <1>3, <1>4 DEF AtSubset, Leads, Beyond, PartNo, SubsetNo
<1>9. AtMaterial => AtMaterial'
  BY <1>1, <1>2, <1>3 DEF AtMaterial
<1>10. AtTexture => AtTexture'
  BY <1>1, <1>2, <1>3 DEF AtTexture
<1> QED  BY <1>3, <1>5, <1>6, <1>7, <1>8, <1>9, <1>10 DEF Loads

LEMMA FInvStep ==
  ASSUME IInv, FInv, EnoughMemory, [Next]_vars
  PROVE  FInv'
<1>1. SaveFits
  BY DEF IInv
<1>2. CASE UNCHANGED vars
  <2>1. /\ UNCHANGED <<file, model, state, saver>> /\ UNCHANGED locals
        /\ load' = load /\ block' = block /\ model' = model /\ state' = state
        /\ save' = save /\ hdr' = hdr
    BY <1>2 DEF vars, loader, file, saver, locals
  <2>2. Shapes' /\ Old'
    BY <2>1, OldStays, ShapesStay DEF FInv
  <2>3. \A lab : Linked(lab) => Linked(lab)'
    BY <2>1, LinkedStays
  <2>4. \A lab : Loads(lab) => Loads(lab)'
    BY <1>2, LoadsStay
  <2> QED  BY <2>1, <2>2, <2>3, <2>4 DEF FInv
<1>3. CASE Next
  BY <1>1, <1>3, FInvOpen, FInvSave, FInvCut, FInvStart, FInvLoad DEF Next
<1> QED  BY <1>2, <1>3

\* A step of the file's code is a step of ModelFile or leaves it alone.
LEMMA StepImplements ==
  ASSUME IInv, FInv, EnoughMemory, [Next]_vars
  PROVE  [Abstract!Next]_(Abstract!vars)
<1>1. SaveFits
  BY DEF IInv
<1>2. ASSUME model' = model, state' = state, load' = load, result' = result
      PROVE  UNCHANGED Abstract!vars
  BY <1>2, PromisedStays DEF Abstract!vars
<1>3. ASSUME NEW m \in Models, SaveOpen(m)  PROVE Abstract!Next
  <2>1. /\ load = "off" /\ load' = load /\ model' = m /\ state' = "saving"
        /\ result' = NoModel
    BY <1>3 DEF SaveOpen, loader
  <2>2. Promised' = NoModel
    BY <2>1 DEF Promised
  <2> QED  BY <2>1, <2>2 DEF Abstract!Next, Abstract!Save
<1>4. CASE SaveStep /\ ~ Finish
  BY <1>2, <1>4 DEF SaveStep, WritePart, WriteSubset, ClosePart, WriteMaterial,
       WriteTexture, loader
<1>5. CASE Finish \/ Die
  <2>1. /\ state = "saving" /\ state' \in {"whole", "short", "interrupted"}
        /\ model' = model /\ load' = load /\ result' = result
    BY <1>1, <1>5 DEF SaveFits, FInv, Finish, Die, loader
  <2> QED  BY <2>1, PromisedStays DEF Abstract!Next, Abstract!Saved
<1>6. CASE Cut
  <2>1. /\ state = "whole" /\ state' = "short" /\ load = "off"
        /\ model' = model /\ load' = load /\ result' = result
    BY <1>6 DEF Cut, CutAt, loader
  <2> QED  BY <2>1, PromisedStays DEF Abstract!Next, Abstract!Cut
<1>7. CASE Start
  <2>1. /\ load = "off" /\ load' = "header" /\ save.at = "off"
        /\ model' = model /\ state' = state /\ result' = result
    BY <1>7 DEF Start, Goto, Off, Step
  <2>2. state # "saving"
    BY <1>1, <2>1 DEF SaveFits
  <2> QED  BY <2>1, <2>2, PromisedStays DEF Abstract!Next, Abstract!Load
<1>8. CASE LoadStep
  <2>1. load # "off" /\ model' = model /\ state' = state
    BY <1>8, LoadStepGuard DEF LoadStep
  <2>2. CASE load' = "off"
    <3>1. Promised' \in Abstract!Outcomes
      BY <1>8, <2>2, Returned
    <3> QED  BY <2>1, <2>2, <3>1 DEF Abstract!Next, Abstract!LoadEnds
  <2>3. CASE load' # "off"
    <3>1. result' = result
      BY <1>8, <2>3 DEF LoadStep, ReadHeader, ReadPart, ReadSubset, ReadMaterial,
           ReadTexture, EndLoop, Reject, OutOfMemory, Return
    <3> QED  BY <2>1, <2>3, <3>1, PromisedStays DEF Abstract!vars
  <2> QED  BY <2>2, <2>3
<1>9. CASE UNCHANGED vars
  <2>1. model' = model /\ state' = state /\ load' = load /\ result' = result
    BY <1>9 DEF vars, loader
  <2> QED  BY <1>2, <2>1
<1> QED  BY <1>3, <1>4, <1>5, <1>6, <1>7, <1>8, <1>9 DEF Next, SaveStep

\* If there is memory for the subsets of each model, the blocks keep every promise
\* of ModelFile: a complete file opens as the very model, one whose save was broken
\* off never with a material or a texture, and no file, however short, shows data
\* of another model.
THEOREM FileImplements ==
  ASSUME EnoughMemory
  PROVE  Spec => ImplementsModelFile
<1>1. Init => FInv /\ Abstract!Init
  <2>1. Init => Abstract!Init
    BY DEF Init, Abstract!Init, Promised
  <2> QED  BY <2>1, FInvInit
<1>2. IInv /\ FInv /\ [Next]_vars => FInv'
  BY FInvStep
<1>3. IInv /\ FInv /\ [Next]_vars => [Abstract!Next]_(Abstract!vars)
  BY StepImplements
<1> QED  BY <1>1, <1>2, <1>3, FileInductive, PTL
         DEF Spec, ImplementsModelFile, Abstract!Spec
=============================================================================
