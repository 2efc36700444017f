-------------------------- MODULE DiskLayoutProofs --------------------------
(***************************************************************************)
(* Proofs about DiskLayout: for every way to cut a download into files a   *)
(* write stays inside the files, and the files implement one linear image. *)
(* The hypothesis PositionsAreInts is the download's: past INT_MAX bytes   *)
(* the position wraps around in the code, and none of this holds.          *)
(***************************************************************************)
EXTENDS DiskLayout, WellFoundedInduction, SequenceTheorems, TLAPS

-----------------------------------------------------------------------------
(***************************************************************************)
(* Where the files begin.                                                  *)
(***************************************************************************)
\* Induction, for a set of numbers.
LEMMA NatSubset ==
    ASSUME NEW S \in SUBSET Nat, 0 \in S, \A n \in S : n + 1 \in S
    PROVE  S = Nat
<1> DEFINE T == Nat \ S
<1>1. SUFFICES ASSUME T # {} PROVE FALSE
  OBVIOUS
<1>2. PICK m \in T : \A y \in T : ~(<<y, m>> \in OpToRel(<, Nat))
  <2>1. T \subseteq Nat
    OBVIOUS
  <2> HIDE DEF T
  <2> QED BY <1>1, <2>1, NatLessThanWellFounded, WFMin
<1>3. m # 0 /\ m - 1 \in Nat /\ m - 1 \notin T
  <2>1. m # 0 /\ m - 1 \in Nat /\ m - 1 < m
    OBVIOUS
  <2>2. <<m - 1, m>> \in OpToRel(<, Nat)
    BY <2>1 DEF OpToRel
  <2> QED BY <1>2, <2>1, <2>2
<1>4. m - 1 + 1 \in S
  BY <1>3
<1> QED BY <1>3, <1>4

\* The sums of the first lengths exist, for as many files as there are.
LEMMA SumsExist ==
    ASSUME NEW L, NEW N \in Nat
    PROVE  \E g : g = [f \in 1 .. N + 1 |-> IF f = 1 THEN 0 ELSE g[f - 1] + L[f - 1]]
<1> DEFINE Sums(n, g) == g = [f \in 1 .. n + 1 |-> IF f = 1 THEN 0 ELSE g[f - 1] + L[f - 1]]
           S == {n \in Nat : \E g : Sums(n, g)}
<1>1. 0 \in S
  <2>1. Sums(0, [f \in 1 .. 1 |-> 0])
    OBVIOUS
  <2> QED BY <2>1
<1>2. ASSUME NEW n \in S PROVE n + 1 \in S
  <2>1. PICK g : Sums(n, g)
    OBVIOUS
  <2> DEFINE h == [f \in 1 .. n + 2 |-> IF f = n + 2 THEN g[n + 1] + L[n + 1] ELSE g[f]]
  <2>2. Sums(n + 1, h)
    <3>1. \A f \in 1 .. n + 1 : g[f] = IF f = 1 THEN 0 ELSE g[f - 1] + L[f - 1]
      BY <2>1
    <3>2. \A f \in 1 .. n + 2 : h[f] = IF f = 1 THEN 0 ELSE h[f - 1] + L[f - 1]
      BY <3>1
    <3>3. n + 1 + 1 = n + 2
      OBVIOUS
    <3>4. h = [f \in 1 .. n + 2 |-> h[f]]
      OBVIOUS
    <3> HIDE DEF h
    <3> QED BY <3>2, <3>3, <3>4
  <2>3. \E k : Sums(n + 1, k)
    <3> HIDE DEF h, Sums
    <3> QED BY <2>2
  <2> HIDE DEF h, Sums
  <2> QED BY <2>3
<1>3. S \in SUBSET Nat
  OBVIOUS
<1>4. S = Nat
  <2> HIDE DEF S
  <2> QED BY <1>1, <1>2, <1>3, NatSubset
<1> QED BY <1>4

\* The recursive definition of BytesBefore defines what it says.
LEMMA BytesBeforeStep ==
    ASSUME NEW L \in Seq(Nat)
    PROVE  BytesBefore(L) =
             [f \in 1 .. Len(L) + 1 |->
                 IF f = 1 THEN 0 ELSE BytesBefore(L)[f - 1] + L[f - 1]]
<1> DEFINE Sums(g) == g = [f \in 1 .. Len(L) + 1 |-> IF f = 1 THEN 0 ELSE g[f - 1] + L[f - 1]]
<1>1. \E g : Sums(g)
  BY SumsExist
<1>2. BytesBefore(L) = CHOOSE g : Sums(g)
  BY DEF BytesBefore
<1>3. Sums(CHOOSE g : Sums(g))
  <2> HIDE DEF Sums
  <2> QED BY <1>1
<1> QED BY <1>2, <1>3

\* Each file begins where the one before it ends.
LEMMA FilesAdjoin ==
    ASSUME NEW L \in Seq(Nat)
    PROVE  /\ BytesBefore(L)[1] = 0
           /\ \A f \in 1 .. Len(L) : BytesBefore(L)[f + 1] = BytesBefore(L)[f] + L[f]
           /\ \A f \in 1 .. Len(L) + 1 : BytesBefore(L)[f] \in Nat
<1> DEFINE B == BytesBefore(L)
<1>1. Len(L) \in Nat /\ \A f \in 1 .. Len(L) : L[f] \in Nat
  OBVIOUS
<1>2. B = [f \in 1 .. Len(L) + 1 |-> IF f = 1 THEN 0 ELSE B[f - 1] + L[f - 1]]
  BY BytesBeforeStep
<1> HIDE DEF B
<1>3. B[1] = 0 /\ \A f \in 1 .. Len(L) : B[f + 1] = B[f] + L[f]
  BY <1>1, <1>2
<1>4. \A f \in 1 .. Len(L) + 1 : B[f] \in Nat
  <2> DEFINE S == {n \in Nat : n <= Len(L) => B[n + 1] \in Nat}
  <2>1. 0 \in S
    BY <1>3
  <2>2. ASSUME NEW n \in S PROVE n + 1 \in S
    <3>1. ASSUME n + 1 <= Len(L) PROVE B[(n + 1) + 1] \in Nat
      <4>1. n + 1 \in 1 .. Len(L) /\ B[n + 1] \in Nat
        BY <1>1, <3>1
      <4>2. L[n + 1] \in Nat /\ B[(n + 1) + 1] = B[n + 1] + L[n + 1]
        BY <1>1, <1>3, <4>1
      <4> QED BY <4>1, <4>2
    <3> QED BY <3>1
  <2>3. S = Nat
    <3> HIDE DEF S
    <3>1. S \in SUBSET Nat
      BY DEF S
    <3> QED BY <2>1, <2>2, <3>1, NatSubset
  <2>4. ASSUME NEW f \in 1 .. Len(L) + 1 PROVE B[f] \in Nat
    <3>1. f - 1 \in Nat /\ f - 1 <= Len(L) /\ (f - 1) + 1 = f
      BY <1>1
    <3>2. B[(f - 1) + 1] \in Nat
      BY <2>3, <3>1
    <3> QED BY <3>1, <3>2
  <2> QED BY <2>4
<1> QED BY <1>3, <1>4 DEF B

\* A later file begins no earlier.
LEMMA FilesAscend ==
    ASSUME NEW L \in Seq(Nat), NEW f \in 1 .. Len(L) + 1, NEW g \in 1 .. Len(L) + 1, f <= g
    PROVE  BytesBefore(L)[f] <= BytesBefore(L)[g]
<1> DEFINE B == BytesBefore(L)
           S == {n \in Nat : f + n <= Len(L) + 1 => B[f] <= B[f + n]}
<1>1. Len(L) \in Nat /\ \A h \in 1 .. Len(L) : L[h] \in Nat
  OBVIOUS
<1>2. /\ \A h \in 1 .. Len(L) : B[h + 1] = B[h] + L[h]
      /\ \A h \in 1 .. Len(L) + 1 : B[h] \in Nat
  BY FilesAdjoin
<1> HIDE DEF B
<1>3. 0 \in S
  BY <1>1, <1>2
<1>4. ASSUME NEW n \in S PROVE n + 1 \in S
  <2>1. ASSUME f + (n + 1) <= Len(L) + 1 PROVE B[f] <= B[f + (n + 1)]
    <3>1. f + n \in 1 .. Len(L) /\ f + (n + 1) = (f + n) + 1 /\ B[f] <= B[f + n]
      BY <1>1, <2>1
    <3>2. B[(f + n) + 1] = B[f + n] + L[f + n] /\ L[f + n] \in Nat
      BY <3>1, <1>1, <1>2
    <3>3. f + n \in 1 .. Len(L) + 1 /\ B[f] \in Nat /\ B[f + n] \in Nat
      BY <3>1, <1>1, <1>2
    <3>4. B[f] <= B[(f + n) + 1]
      BY <3>1, <3>2, <3>3
    <3> QED BY <3>1, <3>4
  <2> QED BY <2>1
<1>5. S = Nat
  <2>1. S \in SUBSET Nat
    OBVIOUS
  <2> HIDE DEF S
  <2> QED BY <1>3, <1>4, <2>1, NatSubset
<1>6. g - f \in Nat /\ f + (g - f) = g
  BY <1>1
<1>7. \A n \in Nat : f + n <= Len(L) + 1 => B[f] <= B[f + n]
  BY <1>5
<1> HIDE DEF S
<1>8. B[f] <= B[f + (g - f)]
  BY <1>1, <1>6, <1>7
<1> QED BY <1>6, <1>8 DEF B

\* Every byte before the end is in a file.
LEMMA FilesCover ==
    ASSUME NEW L \in Seq(Nat), NEW b \in Nat, b < BytesBefore(L)[Len(L) + 1]
    PROVE  \E f \in 1 .. Len(L) : BytesBefore(L)[f] <= b /\ b < BytesBefore(L)[f] + L[f]
<1> DEFINE B == BytesBefore(L)
           Found == \E f \in 1 .. Len(L) : B[f] <= b /\ b < B[f] + L[f]
           S == {n \in Nat : n <= Len(L) /\ b < B[n + 1] => Found}
<1>1. Len(L) \in Nat /\ \A f \in 1 .. Len(L) : L[f] \in Nat
  OBVIOUS
<1>2. /\ B[1] = 0
      /\ \A f \in 1 .. Len(L) : B[f + 1] = B[f] + L[f]
      /\ \A f \in 1 .. Len(L) + 1 : B[f] \in Nat
  BY FilesAdjoin
<1> HIDE DEF B
<1>3. 0 \in S
  BY <1>2
<1>4. ASSUME NEW n \in S PROVE n + 1 \in S
  <2>1. ASSUME n + 1 <= Len(L), b < B[(n + 1) + 1] PROVE Found
    <3>1. n + 1 \in 1 .. Len(L) /\ B[(n + 1) + 1] = B[n + 1] + L[n + 1] /\ B[n + 1] \in Nat
      BY <1>1, <1>2, <2>1
    <3>2. CASE b < B[n + 1]
      BY <1>1, <2>1, <3>2
    <3>3. CASE B[n + 1] <= b
      BY <3>1, <3>3, <2>1
    <3> QED BY <3>1, <3>2, <3>3
  <2> HIDE DEF Found
  <2> QED BY <2>1
<1>5. S = Nat
  <2>1. S \in SUBSET Nat
    OBVIOUS
  <2> HIDE DEF S
  <2> QED BY <1>3, <1>4, <2>1, NatSubset
<1>6. Found
  <2> HIDE DEF Found
  <2> QED BY <1>1, <1>5 DEF B
<1> QED BY <1>6 DEF B

-----------------------------------------------------------------------------
(***************************************************************************)
(* The image.                                                              *)
(***************************************************************************)
\* The image that the files fs of a download laid out as L hold.
ImageOf(L, fs) ==
    [b \in Offsets |->
        LET f == CHOOSE g \in 1 .. Len(L) :
                     b >= BytesBefore(L)[g] /\ b < BytesBefore(L)[g] + L[g]
        IN  fs[f][b - BytesBefore(L)[f]]]

\* Byte b is in file f.
InFile(L, f, b) ==
    f \in 1 .. Len(L) /\ BytesBefore(L)[f] <= b /\ b < BytesBefore(L)[f] + L[f]

LEMMA InOneFile ==
    ASSUME NEW L \in Layouts, NEW b \in Offsets
    PROVE  /\ \E f \in 1 .. Len(L) : InFile(L, f, b)
           /\ \A f, g \in 1 .. Len(L) : InFile(L, f, b) /\ InFile(L, g, b) => f = g
<1>1. /\ L \in Seq(Nat) /\ Len(L) \in Nat
      /\ BytesBefore(L)[Len(L) + 1] = file_length /\ b \in Nat /\ b < file_length
  BY LayoutAssumption DEF Offsets
<1>2. \A f \in 1 .. Len(L) : L[f] \in Nat
  BY <1>1
<1>3. \E f \in 1 .. Len(L) : InFile(L, f, b)
  BY <1>1, FilesCover DEF InFile
<1>4. ASSUME NEW f \in 1 .. Len(L), NEW g \in 1 .. Len(L),
             InFile(L, f, b), InFile(L, g, b), f < g
      PROVE  FALSE
  <2>1. f + 1 \in 1 .. Len(L) + 1 /\ g \in 1 .. Len(L) + 1 /\ f + 1 <= g
    BY <1>1, <1>4
  <2>2. BytesBefore(L)[f + 1] <= BytesBefore(L)[g]
    BY <1>1, <2>1, FilesAscend
  <2>3. /\ BytesBefore(L)[f + 1] = BytesBefore(L)[f] + L[f]
        /\ BytesBefore(L)[f] \in Nat /\ BytesBefore(L)[g] \in Nat
    BY <1>1, <2>1, FilesAdjoin
  <2> QED BY <1>1, <1>2, <1>4, <2>2, <2>3 DEF InFile
<1>5. ASSUME NEW f \in 1 .. Len(L), NEW g \in 1 .. Len(L), InFile(L, f, b), InFile(L, g, b)
      PROVE  f = g
  BY <1>1, <1>4, <1>5
<1> QED BY <1>3, <1>5

\* So a byte of the image is the byte of the file it is in.
LEMMA ImageByte ==
    ASSUME NEW L \in Layouts, NEW fs, NEW b \in Offsets, NEW f \in 1 .. Len(L), InFile(L, f, b)
    PROVE  ImageOf(L, fs)[b] = fs[f][b - BytesBefore(L)[f]]
<1>1. ASSUME NEW g \in 1 .. Len(L)
      PROVE  (b >= BytesBefore(L)[g] /\ b < BytesBefore(L)[g] + L[g]) <=> InFile(L, g, b)
  <2>1. L \in Seq(Nat) /\ Len(L) \in Nat /\ b \in Nat
    BY LayoutAssumption DEF Offsets
  <2>2. BytesBefore(L)[g] \in Nat
    BY <2>1, FilesAdjoin
  <2> QED BY <2>1, <2>2 DEF InFile
<1>2. f = CHOOSE g \in 1 .. Len(L) :
              b >= BytesBefore(L)[g] /\ b < BytesBefore(L)[g] + L[g]
  BY <1>1, InOneFile
<1> QED BY <1>2 DEF ImageOf

LEMMA ImageIs == Image = ImageOf(layout, files) /\ Image' = ImageOf(layout', files')
BY DEF Image, ImageOf, FirstByte, FileIndex

-----------------------------------------------------------------------------
(***************************************************************************)
(* Slices and their positions.                                             *)
(***************************************************************************)
LEMMA ProductsAscend ==
    ASSUME NEW a \in Nat, NEW b \in Nat, a <= b, NEW d \in Nat
    PROVE  a * d <= b * d /\ a * d \in Nat /\ b * d \in Nat
<1>1. PICK e \in Nat : b = a + e
  <2>1. b - a \in Nat /\ b = a + (b - a)
    OBVIOUS
  <2> QED BY <2>1
<1>2. (a + e) * d = a * d + e * d /\ a * d \in Nat /\ e * d \in Nat
  OBVIOUS
<1> QED BY <1>1, <1>2

LEMMA UpToQuotient ==
    ASSUME NEW a \in Nat, NEW d \in Nat \ {0}, NEW k \in 0 .. a \div d
    PROVE  k \in Nat /\ k * d \in Nat /\ k * d <= a
<1>1. a \div d \in Nat /\ (a \div d) * d <= a
  OBVIOUS
<1>2. k \in Nat /\ k <= a \div d
  BY <1>1
<1>3. k * d <= (a \div d) * d /\ k * d \in Nat
  BY <1>1, <1>2, ProductsAscend
<1> QED BY <1>1, <1>2, <1>3

\* A slice is not empty and lies inside the download.
LEMMA SliceFacts ==
    ASSUME NEW s \in Slices
    PROVE  /\ s.length \in 1 .. SliceLength
           /\ Start(s) \in Nat
           /\ Start(s) + s.length <= file_length
<1> USE LayoutAssumption
<1>1. PICK x \in 0 .. (file_length - 1) \div piece_length : s \in SlicesOf(x)
  BY DEF Slices
<1>2. x \in Nat /\ x * piece_length \in Nat /\ x * piece_length <= file_length - 1
  <2>1. file_length - 1 \in Nat /\ piece_length \in Nat \ {0}
    OBVIOUS
  <2> QED BY <1>1, <2>1, UpToQuotient
<1> DEFINE bytes == Smaller(piece_length, file_length - x * piece_length)
<1>3. bytes \in Nat \ {0} /\ x * piece_length + bytes <= file_length
  <2> DEFINE y == x * piece_length
  <2>1. y \in Nat /\ y <= file_length - 1
    BY <1>2
  <2> HIDE DEF y
  <2>2. Smaller(piece_length, file_length - y) \in Nat \ {0}
        /\ y + Smaller(piece_length, file_length - y) <= file_length
    BY <2>1 DEF Smaller
  <2> QED BY <2>2 DEF y
<1> DEFINE SliceAt(b) == [index |-> x, begin |-> b * SliceLength,
                          length |-> Smaller(SliceLength, bytes - b * SliceLength)]
<1>4. PICK b \in 0 .. (bytes - 1) \div SliceLength : s = SliceAt(b)
  BY <1>1 DEF SlicesOf
<1> HIDE DEF bytes
<1>5. b \in Nat /\ b * SliceLength \in Nat /\ b * SliceLength <= bytes - 1
  <2>1. bytes - 1 \in Nat /\ SliceLength \in Nat \ {0}
    BY <1>3
  <2> QED BY <1>4, <2>1, UpToQuotient
<1>6. /\ s.index = x /\ s.begin = b * SliceLength
      /\ s.length = Smaller(SliceLength, bytes - b * SliceLength)
  BY <1>4
<1> DEFINE pos == x * piece_length
           beg == b * SliceLength
<1>7. Start(s) = pos + beg
  BY <1>6 DEF Start
<1>8. pos \in Nat /\ beg \in Nat /\ beg <= bytes - 1 /\ pos + bytes <= file_length
      /\ s.length = Smaller(SliceLength, bytes - beg)
  BY <1>2, <1>3, <1>5, <1>6
<1> HIDE DEF pos, beg
<1>9. s.length \in 1 .. SliceLength /\ s.length <= bytes - beg
  BY <1>3, <1>8 DEF Smaller
<1> QED BY <1>3, <1>7, <1>8, <1>9

\* No slice is what stands for none.
LEMMA NoSliceIsNone == NoSlice \notin Slices
<1> SUFFICES ASSUME NoSlice \in Slices PROVE FALSE
  OBVIOUS
<1>1. PICK x \in 0 .. (file_length - 1) \div piece_length : NoSlice \in SlicesOf(x)
  BY DEF Slices
<1>2. NoSlice.index = x
  BY <1>1 DEF SlicesOf
<1>3. x # -1
  <2>1. (file_length - 1) \div piece_length \in Int
    BY LayoutAssumption
  <2> QED BY <2>1
<1> QED BY <1>2, <1>3 DEF NoSlice

\* The position is not wrapped.
LEMMA PositionIsStart ==
    ASSUME PositionsAreInts, NEW s \in Slices
    PROVE  Position(s) = Start(s)
<1>1. /\ Start(s) \in Nat /\ Start(s) <= IntMax /\ IntMax \in Nat
  BY SliceFacts, LayoutAssumption DEF PositionsAreInts
<1>2. ASSUME NEW n \in Nat, NEW M \in Nat, n <= M
      PROVE  (n + M + 1) % (2 * (M + 1)) = n + M + 1
  <2>1. 0 <= n + M + 1 /\ n + M + 1 < 2 * (M + 1)
    BY <1>2
  <2> QED BY <2>1
<1>3. (Start(s) + IntMax + 1) % (2 * (IntMax + 1)) = Start(s) + IntMax + 1
  BY <1>1, <1>2
<1> QED BY <1>1, <1>3 DEF Position, Wrapped

-----------------------------------------------------------------------------
(***************************************************************************)
(* One call of write.                                                      *)
(***************************************************************************)
\* What is known of the layout in a state.
LEMMA LayoutFacts ==
    ASSUME layout \in Layouts
    PROVE  /\ layout \in Seq(Nat) /\ Len(layout) \in Nat \ {0}
           /\ FileIndex = 1 .. Len(layout)
           /\ FirstByte[1] = 0 /\ FirstByte[Len(layout) + 1] = file_length
           /\ file_length \in Nat \ {0}
           /\ \A f \in FileIndex : /\ layout[f] \in Nat /\ FirstByte[f] \in Nat
                                   /\ FirstByte[f + 1] = FirstByte[f] + layout[f]
                                   /\ FirstByte[f] + layout[f] <= file_length
<1>1. layout \in Seq(Nat) /\ Len(layout) \in Nat \ {0}
      /\ BytesBefore(layout)[Len(layout) + 1] = file_length /\ file_length \in Nat \ {0}
  BY LayoutAssumption
<1>2. ASSUME NEW f \in 1 .. Len(layout)
      PROVE  /\ layout[f] \in Nat /\ BytesBefore(layout)[f] \in Nat
             /\ BytesBefore(layout)[f + 1] = BytesBefore(layout)[f] + layout[f]
             /\ BytesBefore(layout)[f] + layout[f] <= file_length
  <2>1. f + 1 \in 1 .. Len(layout) + 1 /\ Len(layout) + 1 \in 1 .. Len(layout) + 1
        /\ f + 1 <= Len(layout) + 1
    BY <1>1
  <2>2. BytesBefore(layout)[f + 1] <= BytesBefore(layout)[Len(layout) + 1]
    BY <1>1, <2>1, FilesAscend
  <2> QED BY <1>1, <2>2, FilesAdjoin
<1>3. BytesBefore(layout)[1] = 0
  BY <1>1, FilesAdjoin
<1> QED BY <1>1, <1>2, <1>3 DEF FirstByte, FileIndex

\* The next n bytes of the slice, written inside their file.
GoodWrite(f, at, from, n) ==
    /\ f \in FileIndex /\ at \in Nat /\ from \in Nat /\ n \in Nat
    /\ at + n <= layout[f] /\ from + n <= node.slice.length
    /\ FirstByte[f] + at = Start(node.slice) + from

\* The image once the bytes from .. from + n - 1 of the slice are in it.
ImageWith(from, n) ==
    [b \in Offsets |->
        IF b - Start(node.slice) \in from .. from + n - 1
        THEN Byte(node.payload, b - Start(node.slice)) ELSE Image[b]]

LEMMA FilesAfterWrite ==
    ASSUME TypeOK, node.slice \in Slices, node.payload \in Payloads,
           UNCHANGED <<layout, multi_files>>,
           NEW f, NEW at, NEW from, NEW n, GoodWrite(f, at, from, n),
           files' \in Written(f, at, from, n)
    PROVE  /\ files' \in [FileIndex -> [Offsets -> Bytes]]
           /\ \A g \in FileIndex : g # f => files'[g] = files[g]
           /\ \A o \in Offsets :
                 files'[f][o] = IF o - at \in 0 .. n - 1
                                THEN Byte(node.payload, from + o - at) ELSE files[f][o]
<1>1. at >= 0 /\ f \in FileIndex /\ at \in Nat /\ from \in Nat /\ n \in Nat
      /\ from + n <= node.slice.length
  BY DEF GoodWrite
<1> DEFINE new == [o \in Offsets |-> IF o - at \in 0 .. n - 1
                      THEN Byte(node.payload, from + o - at) ELSE files[f][o]]
<1>2. files' = [files EXCEPT ![f] = new]
  BY <1>1 DEF Written
<1>3. node.slice.length \in 1 .. SliceLength /\ SliceLength \in Nat
  BY SliceFacts, LayoutAssumption
<1>4. ASSUME NEW o \in Offsets PROVE new[o] \in Bytes
  <2>1. CASE o - at \in 0 .. n - 1
    <3>1. o \in Int
      BY LayoutAssumption DEF Offsets
    <3>2. from + o - at \in 0 .. SliceLength - 1
      BY <1>1, <1>3, <2>1, <3>1
    <3> QED BY <2>1, <3>2 DEF Bytes
  <2>2. CASE ~(o - at \in 0 .. n - 1)
    BY <1>1, <2>2 DEF TypeOK
  <2> QED BY <2>1, <2>2
<1>5. new \in [Offsets -> Bytes] /\ files \in [FileIndex -> [Offsets -> Bytes]]
  BY <1>4 DEF TypeOK
<1>6. \A o \in Offsets : new[o] = IF o - at \in 0 .. n - 1
                                  THEN Byte(node.payload, from + o - at) ELSE files[f][o]
  OBVIOUS
<1> HIDE DEF new
<1> QED BY <1>1, <1>2, <1>5, <1>6

\* A byte's place in the file and its place in the slice.
LEMMA SamePlace ==
    ASSUME NEW first \in Nat, NEW at \in Nat, NEW start \in Nat, NEW from \in Nat,
           NEW n \in Nat, NEW b \in Int, first + at = start + from
    PROVE  /\ (b - first) - at \in 0 .. n - 1 <=> b - start \in from .. from + n - 1
           /\ from + (b - first) - at = b - start
           /\ b - start \in from .. from + n - 1 => first <= b /\ b < first + at + n
OBVIOUS

LEMMA ImageAfterWrite ==
    ASSUME TypeOK, node.slice \in Slices, node.payload \in Payloads,
           UNCHANGED <<layout, multi_files>>,
           NEW f, NEW at, NEW from, NEW n, GoodWrite(f, at, from, n),
           files' \in Written(f, at, from, n)
    PROVE  Image' = ImageWith(from, n)
<1>1. layout \in Layouts /\ f \in FileIndex /\ at \in Nat /\ from \in Nat /\ n \in Nat
      /\ at + n <= layout[f] /\ FirstByte[f] + at = Start(node.slice) + from
  BY DEF TypeOK, GoodWrite
<1>2. /\ FileIndex = 1 .. Len(layout)
      /\ \A g \in FileIndex : layout[g] \in Nat /\ FirstByte[g] \in Nat
  BY <1>1, LayoutFacts
<1>3. Start(node.slice) \in Nat
  BY SliceFacts
<1> DEFINE fs == files'
           S == Start(node.slice)
<1>4. Image = ImageOf(layout, files) /\ Image' = ImageOf(layout, fs)
  BY ImageIs
<1>5. /\ \A g \in FileIndex : g # f => fs[g] = files[g]
      /\ \A o \in Offsets :
            fs[f][o] = IF o - at \in 0 .. n - 1
                       THEN Byte(node.payload, from + o - at) ELSE files[f][o]
  BY FilesAfterWrite
<1> HIDE DEF fs, S
<1>6. ASSUME NEW b \in Offsets
      PROVE  ImageOf(layout, fs)[b] =
                IF b - S \in from .. from + n - 1 THEN Byte(node.payload, b - S) ELSE Image[b]
  <2>1. PICK g \in 1 .. Len(layout) : InFile(layout, g, b)
    BY <1>1, InOneFile
  <2>2. /\ ImageOf(layout, fs)[b] = fs[g][b - FirstByte[g]]
        /\ Image[b] = files[g][b - FirstByte[g]]
    BY <1>1, <1>4, <2>1, ImageByte DEF FirstByte
  <2>3. g \in FileIndex /\ FirstByte[g] <= b /\ b < FirstByte[g] + layout[g] /\ b \in Int
        /\ layout[g] \in Nat /\ FirstByte[g] \in Nat /\ b < file_length /\ file_length \in Nat
    BY <1>2, <2>1, LayoutAssumption DEF InFile, FirstByte, Offsets
  <2>4. b - FirstByte[g] \in Offsets
    BY <2>3 DEF Offsets
  <2>5. FirstByte[f] \in Nat /\ layout[f] \in Nat /\ S \in Nat /\ FirstByte[f] + at = S + from
    BY <1>1, <1>2, <1>3 DEF S
  <2>6. /\ (b - FirstByte[f]) - at \in 0 .. n - 1 <=> b - S \in from .. from + n - 1
        /\ from + (b - FirstByte[f]) - at = b - S
        /\ b - S \in from .. from + n - 1 =>
              FirstByte[f] <= b /\ b < FirstByte[f] + at + n
    BY <1>1, <2>3, <2>5, SamePlace
  <2>7. CASE g = f
    <3>1. fs[f][b - FirstByte[f]] =
            IF (b - FirstByte[f]) - at \in 0 .. n - 1
            THEN Byte(node.payload, from + (b - FirstByte[f]) - at)
            ELSE files[f][b - FirstByte[f]]
      BY <1>5, <2>4, <2>7
    <3> QED BY <2>2, <2>6, <2>7, <3>1
  <2>8. CASE g # f
    <3>1. ASSUME b - S \in from .. from + n - 1 PROVE InFile(layout, f, b)
      <4>1. FirstByte[f] <= b /\ b < FirstByte[f] + at + n
        BY <2>6, <3>1
      <4>2. b < FirstByte[f] + layout[f]
        <5>1. FirstByte[f] + at + n <= FirstByte[f] + layout[f]
          BY <1>1, <2>5
        <5>2. FirstByte[f] + at + n \in Int /\ FirstByte[f] + layout[f] \in Int
          BY <1>1, <2>5
        <5> QED BY <2>3, <4>1, <5>1, <5>2
      <4> QED BY <1>1, <1>2, <4>1, <4>2 DEF InFile, FirstByte
    <3>2. ~(b - S \in from .. from + n - 1)
      BY <1>1, <1>2, <2>1, <2>8, <3>1, InOneFile
    <3> QED BY <1>5, <2>2, <2>3, <2>8, <3>2
  <2> QED BY <2>7, <2>8
<1>7. ImageOf(layout, fs) = [b \in Offsets |-> ImageOf(layout, fs)[b]]
  BY DEF ImageOf
<1>8. ImageOf(layout, fs) =
         [b \in Offsets |->
            IF b - S \in from .. from + n - 1 THEN Byte(node.payload, b - S) ELSE Image[b]]
  BY <1>6, <1>7
<1> QED BY <1>4, <1>8 DEF ImageWith, S

\* Where a write is, its slice is, and nothing is read.
LEMMA Walking ==
    ASSUME IInv, pc # "idle"
    PROVE  /\ TypeOK /\ layout \in Layouts
           /\ node.slice \in Slices /\ node.payload \in Payloads /\ i \in FileIndex
           /\ got = NoRead
           /\ node.slice.length \in Nat \ {0} /\ Start(node.slice) \in Nat
           /\ Start(node.slice) + node.slice.length <= file_length
<1>1. node.slice \in Slices
  BY DEF IInv, WalkInv
<1>2. SliceLength \in Nat
  BY LayoutAssumption
<1> QED BY <1>1, <1>2, SliceFacts DEF IInv, WalkInv, TypeOK

\* What a write to the files leaves of the invariant, wherever the loop goes.
FilesRight ==
    /\ layout \in Layouts /\ multi_files \in BOOLEAN
    /\ files \in [FileIndex -> [Offsets -> Bytes]]
    /\ NothingPastTheEnd /\ got = NoRead
    /\ ~multi_files => Len(layout) = 1

LEMMA WriteKeeps ==
    ASSUME IInv, pc # "idle", UNCHANGED <<layout, multi_files, got>>,
           NEW f, NEW at, NEW from, NEW n, GoodWrite(f, at, from, n),
           files' \in Written(f, at, from, n)
    PROVE  FilesRight'
<1>1. /\ TypeOK /\ node.slice \in Slices /\ node.payload \in Payloads /\ got = NoRead
      /\ layout \in Layouts
  BY Walking
<1>2. /\ files' \in [FileIndex -> [Offsets -> Bytes]]
      /\ \A g \in FileIndex : g # f => files'[g] = files[g]
      /\ \A o \in Offsets :
            files'[f][o] = IF o - at \in 0 .. n - 1
                           THEN Byte(node.payload, from + o - at) ELSE files[f][o]
  BY <1>1, FilesAfterWrite
<1>3. FileIndex' = FileIndex
  BY DEF FileIndex
<1>4. NothingPastTheEnd'
  <2> SUFFICES ASSUME multi_files', NEW g \in FileIndex, NEW o \in Offsets, o >= layout[g]
               PROVE  files'[g][o] = Zero
    BY <1>3 DEF NothingPastTheEnd
  <2>1. files[g][o] = Zero
    BY DEF IInv, NothingPastTheEnd
  <2>2. CASE g = f
    <3>1. at \in Nat /\ n \in Nat /\ at + n <= layout[f] /\ layout[f] \in Nat /\ o \in Int
      BY <1>1, <2>2, LayoutFacts, LayoutAssumption DEF GoodWrite, Offsets
    <3>2. ~(o - at \in 0 .. n - 1)
      BY <2>2, <3>1
    <3> QED BY <1>2, <2>1, <2>2, <3>2
  <2> QED BY <1>2, <2>1, <2>2
<1> QED BY <1>1, <1>2, <1>3, <1>4 DEF FilesRight, IInv, TypeOK

\* A call that returns.
LEMMA ReturnKeeps == FilesRight' /\ Return => IInv'
<1> SUFFICES ASSUME FilesRight', Return PROVE IInv'
  OBVIOUS
<1>1. TypeOK'
  BY DEF FilesRight, Return, TypeOK
<1>2. WalkInv'
  BY DEF Return, WalkInv
<1>3. SingleFileReadsBack'
  BY DEF FilesRight, SingleFileReadsBack, NoRead
<1> QED BY <1>1, <1>2, <1>3 DEF IInv, FilesRight

\* The bytes of the slice that a write puts on disk, in the terms of the image.
LEMMA WriteProgresses ==
    ASSUME IInv, pc # "idle", UNCHANGED <<layout, multi_files>>,
           NEW at, NEW n, GoodWrite(i, at, offset, n), files' \in Written(i, at, offset, n),
           IF offset + n = node.slice.length
           THEN node' = NoNode /\ offset' = 0
           ELSE node' = node /\ offset' = offset + n
    PROVE  [Linear!Next]_<<Image, node, offset>>
<1>1. Image' = ImageWith(offset, n)
  BY Walking, ImageAfterWrite
<1>2. n \in Nat /\ offset \in Nat /\ offset + n <= node.slice.length
      /\ node.slice.length \in Nat \ {0}
      /\ Start(node.slice) + node.slice.length <= file_length
      /\ Start(node.slice) \in Nat /\ file_length \in Nat
  BY Walking, LayoutAssumption DEF GoodWrite
<1>3. Image = [b \in Offsets |-> Image[b]]
  BY DEF Image
<1>4. CASE n = 0
  <2>1. ~ (offset + n = node.slice.length)
    BY <1>2, <1>4, Walking DEF IInv, WalkInv, TypeOK
  <2>2. Image' = Image
    BY <1>1, <1>2, <1>3, <1>4 DEF ImageWith
  <2> QED BY <1>2, <1>4, <2>1, <2>2
<1>5. CASE n \in 1 .. file_length
  <2>1. node # NoNode
    BY Walking, NoSliceIsNone DEF NoNode
  <2>2. Linear!Progress(n)
    BY <1>1, <1>2, <1>3, <2>1 DEF Linear!Progress, Linear!Idle, ImageWith, NoNode
  <2> QED BY <1>5, <2>2 DEF Linear!Next
<1> QED BY <1>2, <1>4, <1>5

-----------------------------------------------------------------------------
(***************************************************************************)
(* The actions: each keeps the invariant, and is a step of LinearDisk or   *)
(* leaves the image alone.                                                 *)
(***************************************************************************)
LinearStep == [Linear!Next]_<<Image, node, offset>>

\* A step that leaves files and layout alone leaves the image alone.
LEMMA SameImage == UNCHANGED <<layout, files>> => Image' = Image
BY DEF Image, FirstByte, FileIndex

LEMMA WriteSliceStep ==
    ASSUME PositionsAreInts, IInv, NEW s \in Slices, NEW v \in Payloads, WriteSlice(s, v)
    PROVE  IInv' /\ LinearStep
<1>1. pc = "idle" /\ pc' = "find" /\ node' = [slice |-> s, payload |-> v] /\ got' = NoRead
      /\ line_position' = Start(s) /\ Start(s) \in Nat
      /\ UNCHANGED <<layout, multi_files, files, i, offset, left>>
  BY PositionIsStart, SliceFacts DEF WriteSlice
<1>2. node = NoNode /\ i = 1 /\ offset = 0 /\ left = 0
  BY <1>1 DEF IInv, WalkInv
<1>3. 1 \in FileIndex /\ FirstByte[1] = 0
  BY LayoutFacts DEF IInv, TypeOK
<1>4. FileIndex' = FileIndex /\ FirstByte' = FirstByte
  BY <1>1 DEF FileIndex, FirstByte
<1>5. node'.slice = s /\ node'.payload = v
  BY <1>1
<1>6. TypeOK'
  BY <1>1, <1>4, <1>5 DEF IInv, TypeOK
<1>7. WalkInv'
  BY <1>1, <1>2, <1>3, <1>4, <1>5 DEF WalkInv
<1>8. NothingPastTheEnd'
  BY <1>1, <1>4 DEF IInv, NothingPastTheEnd
<1>9. SingleFileReadsBack'
  BY <1>1 DEF SingleFileReadsBack, NoRead
<1>10. Linear!Begin(s, v)
  BY <1>1, <1>2, SameImage DEF Linear!Begin, Linear!Idle, NoNode
<1> QED BY <1>1, <1>6, <1>7, <1>8, <1>9, <1>10 DEF IInv, LinearStep, Linear!Next

\* The whole slice goes to one file.
LEMMA WholeSliceStep ==
    ASSUME IInv, pc = "find", layout[i] >= line_position + node.slice.length,
           files' \in Written(i, line_position, 0, node.slice.length), Return,
           UNCHANGED <<layout, multi_files, got>>
    PROVE  IInv' /\ LinearStep
<1>1. line_position >= 0 /\ FirstByte[i] + line_position = Start(node.slice) /\ offset = 0
      /\ line_position \in Int
  BY DEF IInv, WalkInv, TypeOK
<1>2. layout[i] \in Nat
  BY Walking, LayoutFacts
<1>3. GoodWrite(i, line_position, offset, node.slice.length)
  BY <1>1, <1>2, Walking DEF GoodWrite
<1>4. IInv'
  BY <1>1, <1>3, WriteKeeps, ReturnKeeps
<1>5. node' = NoNode /\ offset' = 0
  BY DEF Return
<1>6. offset + node.slice.length = node.slice.length
  BY <1>1, Walking
<1>7. LinearStep
  BY <1>1, <1>3, <1>5, <1>6, WriteProgresses DEF LinearStep
<1> QED BY <1>4, <1>7

LEMMA WriteSingleFileStep ==
    ASSUME IInv, WriteSingleFile PROVE IInv' /\ LinearStep
<1>1. pc = "find" /\ ~multi_files /\ Len(layout) = 1
  BY DEF WriteSingleFile, IInv
<1>2. i = 1 /\ FirstByte[1] = 0 /\ FirstByte[1] + layout[1] = file_length /\ layout[1] \in Nat
  BY <1>1, Walking, LayoutFacts
<1>3. line_position = Start(node.slice)
  BY <1>1, <1>2 DEF IInv, WalkInv, TypeOK
<1>4. layout[i] >= line_position + node.slice.length
  BY <1>1, <1>2, <1>3, Walking
<1> QED BY <1>1, <1>2, <1>4, WholeSliceStep DEF WriteSingleFile

LEMMA WriteInsideStep ==
    ASSUME IInv, WriteInside PROVE IInv' /\ LinearStep
<1>1. pc = "find" /\ line_position + node.slice.length < layout[i]
  BY DEF WriteInside, Inside
<1>2. layout[i] \in Nat /\ line_position \in Int /\ node.slice.length \in Nat
  BY <1>1, Walking, LayoutFacts DEF TypeOK
<1>3. layout[i] >= line_position + node.slice.length
  BY <1>1, <1>2
<1> QED BY <1>1, <1>3, WholeSliceStep DEF WriteInside

\* The slice crosses the end of the file it begins in; the next file exists,
\* for the slice ends before the download does.
LEMMA WriteFirstPartStep ==
    ASSUME IInv, WriteFirstPart PROVE IInv' /\ LinearStep
<1>1. /\ pc = "find" /\ multi_files
      /\ line_position < layout[i] /\ line_position + node.slice.length >= layout[i]
      /\ files' \in Written(i, line_position, 0, FirstPart)
      /\ UNCHANGED <<layout, multi_files, got>>
  BY DEF WriteFirstPart, Crosses
<1>2. line_position >= 0 /\ FirstByte[i] + line_position = Start(node.slice) /\ offset = 0
      /\ line_position \in Int
  BY <1>1 DEF IInv, WalkInv, TypeOK
<1>3. /\ i \in 1 .. Len(layout) /\ FileIndex = 1 .. Len(layout) /\ Len(layout) \in Nat
      /\ layout[i] \in Nat /\ FirstByte[i] \in Nat
      /\ FirstByte[i + 1] = FirstByte[i] + layout[i]
      /\ FirstByte[Len(layout) + 1] = file_length /\ file_length \in Nat
  BY <1>1, Walking, LayoutFacts
<1>4. FirstPart = layout[i] - line_position /\ LeftAfterFirst = node.slice.length - FirstPart
  BY DEF FirstPart, LeftAfterFirst
<1>5. /\ node.slice.length \in Nat \ {0} /\ Start(node.slice) \in Nat
      /\ Start(node.slice) + node.slice.length <= file_length
      /\ node.slice \in Slices /\ node.payload \in Payloads /\ got = NoRead
  BY <1>1, Walking
<1>6. FirstPart \in Nat \ {0} /\ LeftAfterFirst \in Nat
      /\ LeftAfterFirst = node.slice.length - (offset + FirstPart)
  <2>1. layout[i] - line_position \in Nat \ {0}
    BY <1>1, <1>2, <1>3
  <2>2. node.slice.length - (layout[i] - line_position) \in Nat
    <3>1. ASSUME NEW a \in Nat, NEW b \in Int, NEW n \in Nat, b + n >= a
          PROVE  n - (a - b) \in Nat
      BY <3>1
    <3> QED BY <1>1, <1>2, <1>3, <1>5, <3>1
  <2>3. offset + FirstPart = FirstPart
    BY <1>2, <1>4, <2>1
  <2> QED BY <1>4, <2>1, <2>2, <2>3
<1>7. GoodWrite(i, line_position, offset, FirstPart)
  <2>1. line_position + FirstPart = layout[i] /\ line_position \in Nat
    BY <1>2, <1>3, <1>4
  <2>2. offset + FirstPart <= node.slice.length
    BY <1>2, <1>5, <1>6
  <2>3. FirstByte[i] + line_position = Start(node.slice) + offset
    BY <1>2, <1>5
  <2> QED BY <1>2, <1>3, <1>6, <2>1, <2>2, <2>3 DEF GoodWrite
<1>8. FilesRight'
  BY <1>1, <1>2, <1>7, WriteKeeps
<1>9. CASE LeftAfterFirst > 0
  <2>1. /\ pc' = "spill" /\ i' = i + 1 /\ offset' = offset + FirstPart /\ left' = LeftAfterFirst
        /\ node' = node /\ line_position' = line_position
    BY <1>2, <1>6, <1>9 DEF WriteFirstPart
  <2>2. FileIndex' = FileIndex /\ FirstByte' = FirstByte
    BY <1>1 DEF FileIndex, FirstByte
  <2>3. FirstByte[i + 1] = Start(node.slice) + FirstPart
    BY <1>2, <1>3, <1>4
  <2>4. i # Len(layout)
    <3>1. Start(node.slice) + FirstPart < file_length
      <4>1. FirstPart < node.slice.length
        BY ONLY <1>4, <1>5, <1>6, <1>9
      <4> QED BY ONLY <1>3, <1>5, <1>6, <4>1
    <3>2. Start(node.slice) + FirstPart \in Nat
      BY <1>5, <1>6
    <3> QED BY <1>3, <2>3, <3>1, <3>2
  <2>5. i + 1 \in FileIndex
    BY <1>3, <2>4
  <2>6. TypeOK'
    BY <1>2, <1>5, <1>6, <1>8, <2>1 DEF FilesRight, TypeOK
  <2>7. WalkInv'
    <3>1. left' > 0 /\ left' = node'.slice.length - offset'
      BY <1>6, <1>9, <2>1
    <3>2. FirstByte'[i'] = Start(node'.slice) + offset'
      BY <1>2, <1>6, <2>1, <2>2, <2>3
    <3> QED BY <1>1, <1>5, <2>1, <2>2, <2>5, <3>1, <3>2 DEF WalkInv
  <2>8. SingleFileReadsBack'
    BY <1>8 DEF FilesRight, SingleFileReadsBack, NoRead
  <2>9. IInv'
    BY <1>8, <2>6, <2>7, <2>8 DEF IInv, FilesRight
  <2>10. offset + FirstPart # node.slice.length
    BY <1>2, <1>5, <1>6, <1>9
  <2>11. LinearStep
    BY <1>1, <1>2, <1>7, <2>1, <2>10, WriteProgresses DEF LinearStep
  <2> QED BY <2>9, <2>11
<1>10. CASE ~(LeftAfterFirst > 0)
  <2>1. Return
    BY <1>10 DEF WriteFirstPart
  <2>2. offset + FirstPart = node.slice.length
    BY <1>2, <1>5, <1>6, <1>10
  <2>3. node' = NoNode /\ offset' = 0
    BY <2>1 DEF Return
  <2>4. LinearStep
    BY <1>1, <1>2, <1>7, <2>2, <2>3, WriteProgresses DEF LinearStep
  <2> QED BY <1>8, <2>1, <2>4, ReturnKeeps
<1> QED BY <1>9, <1>10

\* The slice does not begin in this file, and so in a later one.
LEMMA NextFileStep ==
    ASSUME IInv, NextFile PROVE IInv' /\ LinearStep
<1>1. /\ pc = "find" /\ ~Inside(i) /\ ~Crosses(i)
      /\ line_position' = line_position - layout[i] /\ i' = i + 1
      /\ UNCHANGED <<layout, multi_files, files, pc, node, offset, left, got>>
  BY DEF NextFile
<1>2. line_position >= 0 /\ FirstByte[i] + line_position = Start(node.slice) /\ offset = 0
      /\ left = 0 /\ line_position \in Int
  BY <1>1 DEF IInv, WalkInv, TypeOK
<1>3. /\ i \in 1 .. Len(layout) /\ FileIndex = 1 .. Len(layout) /\ Len(layout) \in Nat
      /\ layout[i] \in Nat /\ FirstByte[i] \in Nat
      /\ FirstByte[i + 1] = FirstByte[i] + layout[i]
      /\ FirstByte[Len(layout) + 1] = file_length /\ file_length \in Nat
  BY <1>1, Walking, LayoutFacts
<1>4. /\ node.slice.length \in Nat \ {0} /\ Start(node.slice) \in Nat
      /\ Start(node.slice) + node.slice.length <= file_length
      /\ node.slice \in Slices /\ node.payload \in Payloads /\ got = NoRead
  BY <1>1, Walking
<1>5. line_position >= layout[i]
  <2>1. ASSUME line_position < layout[i] PROVE FALSE
    <3>1. line_position + node.slice.length \in Int
      BY <1>2, <1>4
    <3> QED BY <1>1, <1>3, <2>1, <3>1 DEF Inside, Crosses
  <2> QED BY <1>2, <1>3, <2>1
<1>6. line_position' >= 0 /\ FirstByte[i + 1] + line_position' = Start(node.slice)
      /\ line_position' \in Int
  BY <1>1, <1>2, <1>3, <1>5
<1>7. i # Len(layout)
  <2>1. FirstByte[i + 1] <= Start(node.slice)
    BY <1>2, <1>3, <1>4, <1>6
  <2>2. Start(node.slice) < file_length
    BY <1>3, <1>4
  <2> QED BY <1>3, <1>4, <2>1, <2>2
<1>8. i + 1 \in FileIndex /\ FileIndex' = FileIndex /\ FirstByte' = FirstByte
  BY <1>1, <1>3, <1>7 DEF FileIndex, FirstByte
<1>9. TypeOK'
  BY <1>1, <1>6, <1>8 DEF IInv, TypeOK
<1>10. WalkInv'
  BY <1>1, <1>2, <1>4, <1>6, <1>8 DEF WalkInv
<1>11. NothingPastTheEnd' /\ SingleFileReadsBack'
  BY <1>1, <1>4, <1>8 DEF IInv, NothingPastTheEnd, SingleFileReadsBack, NoRead
<1>12. LinearStep
  BY <1>1, SameImage DEF LinearStep
<1> QED BY <1>1, <1>9, <1>10, <1>11, <1>12 DEF IInv

\* What is known in the spill.
SpillFacts ==
    /\ left \in Nat \ {0} /\ offset \in Nat /\ offset + left = node.slice.length
    /\ FirstByte[i] = Start(node.slice) + offset
    /\ i \in 1 .. Len(layout) /\ FileIndex = 1 .. Len(layout) /\ Len(layout) \in Nat
    /\ layout[i] \in Nat /\ FirstByte[i] \in Nat
    /\ FirstByte[i + 1] = FirstByte[i] + layout[i]
    /\ FirstByte[Len(layout) + 1] = file_length /\ file_length \in Nat
    /\ node.slice.length \in Nat \ {0} /\ Start(node.slice) \in Nat
    /\ Start(node.slice) + node.slice.length <= file_length

LEMMA Spilling == IInv /\ pc = "spill" => SpillFacts
<1> SUFFICES ASSUME IInv, pc = "spill" PROVE SpillFacts
  OBVIOUS
<1>1. i \in FileIndex /\ layout \in Layouts
      /\ node.slice.length \in Nat \ {0} /\ Start(node.slice) \in Nat
      /\ Start(node.slice) + node.slice.length <= file_length
  BY Walking
<1>2. left \in Nat \ {0} /\ offset \in Nat /\ left = node.slice.length - offset
      /\ FirstByte[i] = Start(node.slice) + offset
  BY DEF IInv, WalkInv, TypeOK
<1>3. offset + left = node.slice.length
  BY <1>1, <1>2
<1> QED BY <1>1, <1>2, <1>3, LayoutFacts DEF SpillFacts

LEMMA WriteLastPartStep ==
    ASSUME IInv, WriteLastPart PROVE IInv' /\ LinearStep
<1>1. /\ pc = "spill" /\ layout[i] >= left /\ files' \in Written(i, 0, offset, left)
      /\ Return /\ UNCHANGED <<layout, multi_files, got>>
  BY DEF WriteLastPart, SpillFrom
<1>2. SpillFacts
  BY <1>1, Spilling
<1>3. GoodWrite(i, 0, offset, left)
  BY <1>1, <1>2 DEF SpillFacts, GoodWrite
<1>4. IInv'
  BY <1>1, <1>3, WriteKeeps, ReturnKeeps
<1>5. node' = NoNode /\ offset' = 0 /\ offset + left = node.slice.length
  BY <1>1, <1>2 DEF Return, SpillFacts
<1>6. LinearStep
  BY <1>1, <1>3, <1>5, WriteProgresses DEF LinearStep
<1> QED BY <1>4, <1>6

LEMMA WriteWholeFileStep ==
    ASSUME IInv, WriteWholeFile PROVE IInv' /\ LinearStep
<1> DEFINE whole == layout[i]
           first == FirstByte[i]
           start == Start(node.slice)
           length == node.slice.length
<1>1. /\ pc = "spill" /\ files' \in Written(i, 0, offset, layout[i])
      /\ i' = i + 1
      /\ UNCHANGED <<layout, multi_files, pc, node, line_position, got>>
  BY DEF WriteWholeFile, SpillFrom
<1>2. whole < left /\ offset' = offset + whole /\ left' = left - whole
  BY DEF WriteWholeFile
<1>3. SpillFacts
  BY <1>1, Spilling
<1>4. /\ left \in Nat /\ offset \in Nat /\ whole \in Nat /\ first \in Nat /\ start \in Nat
      /\ length \in Nat /\ offset + left = length /\ first = start + offset
      /\ FirstByte[i + 1] = first + whole
      /\ start + length <= file_length /\ file_length \in Nat
  BY <1>3 DEF SpillFacts
<1> HIDE DEF whole, first, start, length
<1>5. left' \in Nat /\ left' > 0 /\ offset' \in Nat /\ left' = length - offset'
  BY <1>2, <1>4
<1>6. FirstByte[i + 1] = start + offset' /\ start + offset' < file_length
  BY <1>2, <1>4
<1>7. offset + whole <= length /\ offset + whole # length
  BY <1>2, <1>4
<1>8. GoodWrite(i, 0, offset, layout[i])
  <2>1. i \in FileIndex /\ 0 \in Nat /\ layout[i] \in Nat /\ 0 + layout[i] <= layout[i]
    BY <1>3 DEF SpillFacts
  <2>2. FirstByte[i] + 0 = Start(node.slice) + offset
    BY <1>4 DEF first, start
  <2>3. offset + layout[i] <= node.slice.length
    BY <1>7 DEF whole, length
  <2> QED BY <1>4, <2>1, <2>2, <2>3 DEF GoodWrite
<1>9. FilesRight'
  BY <1>1, <1>8, WriteKeeps
<1>10. i + 1 \in FileIndex /\ FileIndex' = FileIndex /\ FirstByte' = FirstByte
  <2>1. FirstByte[Len(layout) + 1] = file_length /\ i \in 1 .. Len(layout)
        /\ FileIndex = 1 .. Len(layout) /\ Len(layout) \in Nat
    BY <1>3 DEF SpillFacts
  <2>2. i # Len(layout)
    BY <1>4, <1>6, <2>1
  <2>3. i + 1 \in FileIndex
    BY <2>1, <2>2
  <2> QED BY <1>1, <2>3 DEF FileIndex, FirstByte
<1>11. node.slice \in Slices /\ node.payload \in Payloads /\ got = NoRead
  BY <1>1, Walking
<1>12. TypeOK'
  BY <1>1, <1>5, <1>9, <1>11 DEF FilesRight, TypeOK, IInv
<1>13. WalkInv'
  <2>1. multi_files
    BY <1>1 DEF IInv, WalkInv
  <2>2. left' = node'.slice.length - offset' /\ FirstByte'[i'] = Start(node'.slice) + offset'
    BY <1>1, <1>5, <1>6, <1>10 DEF start, length
  <2> QED BY <1>1, <1>5, <1>11, <1>10, <2>1, <2>2 DEF WalkInv
<1>14. SingleFileReadsBack'
  BY <1>9 DEF FilesRight, SingleFileReadsBack, NoRead
<1>15. IInv'
  BY <1>9, <1>12, <1>13, <1>14 DEF IInv, FilesRight
<1>16. offset + layout[i] # node.slice.length /\ offset' = offset + layout[i]
  BY <1>2, <1>7 DEF whole, length
<1>17. LinearStep
  BY <1>1, <1>8, <1>16, WriteProgresses DEF LinearStep
<1> QED BY <1>15, <1>17

\* A read of a download of one file finds its bytes of the image.
LEMMA ReadSliceStep ==
    ASSUME PositionsAreInts, IInv, NEW s \in Slices, ReadSlice(s)
    PROVE  IInv' /\ LinearStep
<1> DEFINE at == Start(s)
<1>1. /\ pc = "idle"
      /\ got' = IF at >= 0 /\ at + s.length <= file_length
                THEN [slice |-> s, ret |-> 0,
                      buff |-> [k \in 1 .. s.length |-> files[1][at + k - 1]]]
                ELSE [slice |-> s, ret |-> -1, buff |-> <<>>]
      /\ UNCHANGED <<layout, multi_files, files, pc, node, line_position, i, offset, left>>
  BY PositionIsStart DEF ReadSlice, ReadPosition, locals
<1>2. at \in Nat /\ at + s.length <= file_length /\ s.length \in Nat /\ file_length \in Nat
  <2>1. SliceLength \in Nat /\ file_length \in Nat
    BY LayoutAssumption
  <2> QED BY <2>1, SliceFacts
<1> HIDE DEF at
<1>3. /\ got'.slice = s /\ got'.ret = 0
      /\ got'.buff = [k \in 1 .. s.length |-> files[1][at + k - 1]]
  BY <1>1, <1>2
<1>4. FileIndex' = FileIndex /\ FirstByte' = FirstByte /\ Image' = Image
  BY <1>1, SameImage DEF FileIndex, FirstByte
<1>5. TypeOK'
  BY <1>1, <1>3, <1>4 DEF IInv, TypeOK
<1>6. WalkInv'
  BY <1>1, <1>4 DEF IInv, WalkInv
<1>7. NothingPastTheEnd'
  BY <1>1, <1>4 DEF IInv, NothingPastTheEnd
<1>8. SingleFileReadsBack'
  <2> SUFFICES ASSUME ~multi_files', NEW k \in 1 .. s.length
               PROVE  got'.buff[k] = Image'[Start(got'.slice) + k - 1]
    BY <1>3 DEF SingleFileReadsBack, HoldsImage
  <2>1. got'.buff[k] = files[1][at + k - 1]
    BY <1>3
  <2>2. Len(layout) = 1 /\ layout \in Layouts
    BY <1>1 DEF IInv, TypeOK
  <2>3. FirstByte[1] = 0 /\ FirstByte[1] + layout[1] = file_length /\ 1 \in FileIndex
    BY <2>2, LayoutFacts
  <2>4. at + k - 1 \in Offsets /\ at + k - 1 \in Nat /\ at + k - 1 < file_length
    BY <1>2 DEF Offsets
  <2>5. InFile(layout, 1, at + k - 1)
    BY <2>3, <2>4 DEF InFile, FirstByte, FileIndex
  <2>6. Image[at + k - 1] = files[1][(at + k - 1) - FirstByte[1]]
    <3> DEFINE b == at + k - 1
    <3>1. b \in Offsets /\ InFile(layout, 1, b) /\ 1 \in 1 .. Len(layout)
      BY <2>2, <2>4, <2>5
    <3> HIDE DEF b
    <3>2. ImageOf(layout, files)[b] = files[1][b - BytesBefore(layout)[1]]
      BY <2>2, <3>1, ImageByte
    <3> QED BY <3>2, ImageIs DEF FirstByte, b
  <2>7. (at + k - 1) - FirstByte[1] = at + k - 1
    BY <2>3, <2>4
  <2> QED BY <1>3, <1>4, <2>1, <2>6, <2>7 DEF at
<1>9. LinearStep
  BY <1>1, <1>4 DEF LinearStep
<1> QED BY <1>1, <1>5, <1>6, <1>7, <1>8, <1>9 DEF IInv

\* The zero that create_files writes goes past the end of its file, or to the
\* last byte of the image.
LEMMA StartAgainStep ==
    ASSUME IInv, StartAgain PROVE IInv' /\ LinearStep
<1>1. /\ files' = [f \in FileIndex |-> [files[f] EXCEPT ![file_length - 1] = Zero]]
      /\ Return /\ got' = NoRead /\ UNCHANGED <<layout, multi_files>>
  BY DEF StartAgain
<1>2. /\ layout \in Layouts /\ multi_files \in BOOLEAN
      /\ files \in [FileIndex -> [Offsets -> Bytes]] /\ Zero \in Bytes
      /\ ~multi_files => Len(layout) = 1
  BY DEF IInv, TypeOK, Bytes
<1>3. /\ FileIndex = 1 .. Len(layout) /\ file_length \in Nat \ {0}
      /\ \A f \in FileIndex : FirstByte[f] \in Nat
  BY <1>2, LayoutFacts
<1>4. \A f \in FileIndex, o \in Offsets :
         files'[f][o] = IF o = file_length - 1 THEN Zero ELSE files[f][o]
  BY <1>1, <1>2
<1>5. FileIndex' = FileIndex
  BY <1>1 DEF FileIndex
<1>6. FilesRight'
  <2>1. files' \in [FileIndex -> [Offsets -> Bytes]]
    BY <1>1, <1>2
  <2>2. NothingPastTheEnd'
    BY <1>1, <1>4, <1>5 DEF IInv, NothingPastTheEnd
  <2> QED BY <1>1, <1>2, <1>5, <2>1, <2>2 DEF FilesRight
<1>7. \A b \in Offsets :
         Image'[b] = Image[b] \/ (b = file_length - 1 /\ Image'[b] = Zero)
  <2> TAKE b \in Offsets
  <2>1. PICK f \in FileIndex : InFile(layout, f, b)
    BY <1>2, <1>3, InOneFile
  <2>2. /\ Image[b] = files[f][b - FirstByte[f]]
        /\ Image'[b] = files'[f][b - FirstByte[f]]
    <3>1. \A fs : ImageOf(layout, fs)[b] = fs[f][b - BytesBefore(layout)[f]]
      BY <1>2, <1>3, <2>1, ImageByte
    <3> QED BY <1>1, <3>1, ImageIs DEF FirstByte
  <2>3. b \in Nat /\ b < file_length /\ FirstByte[f] <= b /\ FirstByte[f] \in Nat
    BY <1>3, <2>1 DEF InFile, FirstByte, Offsets
  <2>4. b - FirstByte[f] \in Offsets
    BY <1>3, <2>3 DEF Offsets
  <2>5. b - FirstByte[f] = file_length - 1 => b = file_length - 1
    BY <1>3, <2>3
  <2> QED BY <1>4, <2>2, <2>4, <2>5
<1>8. Image' \in {Image, [Image EXCEPT ![file_length - 1] = Zero]}
  <2>1. Image = [b \in Offsets |-> Image[b]] /\ Image' = [b \in Offsets |-> Image'[b]]
    BY DEF Image, Offsets
  <2>2. CASE Image'[file_length - 1] = Zero
    <3>1. Image' = [Image EXCEPT ![file_length - 1] = Zero]
      BY <1>7, <2>1, <2>2
    <3> QED BY <3>1
  <2>3. CASE Image'[file_length - 1] # Zero
    <3>1. \A b \in Offsets : Image'[b] = Image[b]
      BY <1>7, <2>3
    <3>2. Image' = Image
      BY <2>1, <3>1
    <3> QED BY <3>2
  <2> QED BY <2>2, <2>3
<1>9. node' = NoNode /\ offset' = 0
  BY <1>1 DEF Return
<1>10. Linear!StartAgain
  BY <1>8, <1>9 DEF Linear!StartAgain, Linear!Idle, NoNode
<1> QED BY <1>1, <1>6, <1>10, ReturnKeeps DEF LinearStep, Linear!Next

-----------------------------------------------------------------------------
(***************************************************************************)
(* The theorems.                                                           *)
(***************************************************************************)
LEMMA NextStep == PositionsAreInts /\ IInv /\ [Next]_vars => IInv' /\ LinearStep
<1> SUFFICES ASSUME PositionsAreInts, IInv, [Next]_vars PROVE IInv' /\ LinearStep
  OBVIOUS
<1>1. CASE UNCHANGED vars
  <2>1. UNCHANGED <<layout, multi_files, files, pc, node, line_position, i, offset, left, got>>
    BY <1>1 DEF vars, locals
  <2>2. FileIndex' = FileIndex /\ FirstByte' = FirstByte /\ Image' = Image
    BY <2>1, SameImage DEF FileIndex, FirstByte
  <2>3. TypeOK' /\ NothingPastTheEnd' /\ SingleFileReadsBack'
    BY <2>1, <2>2 DEF IInv, TypeOK, NothingPastTheEnd, SingleFileReadsBack, HoldsImage
  <2>4. WalkInv'
    BY <2>1, <2>2 DEF IInv, WalkInv
  <2> QED BY <2>1, <2>2, <2>3, <2>4 DEF IInv, LinearStep
<1>2. CASE Next
  BY <1>2, WriteSliceStep, WriteSingleFileStep, WriteInsideStep, WriteFirstPartStep,
     NextFileStep, WriteLastPartStep, WriteWholeFileStep, ReadSliceStep, StartAgainStep DEF Next
<1> QED BY <1>1, <1>2

LEMMA InitStep == Init => IInv /\ Linear!Init
<1> SUFFICES ASSUME Init PROVE IInv /\ Linear!Init
  OBVIOUS
<1>1. TypeOK
  BY DEF Init, TypeOK, Bytes
<1>2. NothingPastTheEnd /\ WalkInv
  BY LayoutAssumption DEF Init, NothingPastTheEnd, WalkInv, Offsets
<1>3. SingleFileReadsBack
  BY DEF Init, SingleFileReadsBack, NoRead
<1>4. \A b \in Offsets : Image[b] = Zero
  <2> TAKE b \in Offsets
  <2>1. PICK f \in FileIndex : InFile(layout, f, b)
    BY InOneFile DEF Init, FileIndex
  <2>2. Image[b] = files[f][b - FirstByte[f]]
    BY <2>1, ImageByte, ImageIs DEF Init, FileIndex, FirstByte
  <2>3. FirstByte[f] \in Nat /\ FirstByte[f] <= b /\ b \in Nat /\ b < file_length /\ file_length \in Nat
    BY <2>1, LayoutFacts, LayoutAssumption DEF Init, InFile, FirstByte, Offsets
  <2>4. b - FirstByte[f] \in Offsets
    BY <2>3 DEF Offsets
  <2> QED BY <2>2, <2>4 DEF Init
<1>5. Image = [b \in 0 .. file_length - 1 |-> Zero]
  BY <1>4 DEF Image, Offsets
<1>6. Linear!Init
  BY <1>5 DEF Init, Linear!Init, Linear!Idle, NoNode
<1> QED BY <1>1, <1>2, <1>3, <1>6 DEF Init, IInv

\* The inductive invariant, however the download is cut into files.
THEOREM Invariance == ASSUME PositionsAreInts PROVE Spec => []IInv
BY InitStep, NextStep, PTL DEF Spec

\* A slice being written always ends inside the files, and nothing is written
\* past the end of one.
THEOREM LayoutHolds == ASSUME PositionsAreInts PROVE Spec => []LayoutInv
<1>1. IInv => LayoutInv
  BY DEF IInv, LayoutInv, NoFileMissing, WalkInv
<1> QED BY <1>1, Invariance, PTL

\* A download of one file is read back as it was written.
THEOREM SingleFileIsRead == ASSUME PositionsAreInts PROVE Spec => []SingleFileReadsBack
<1>1. IInv => SingleFileReadsBack
  BY DEF IInv
<1> QED BY <1>1, Invariance, PTL

\* The files implement one linear image of the download.
THEOREM ImplementsLinearDisk == ASSUME PositionsAreInts PROVE Spec => LinearSpec
<1>1. IInv /\ [Next]_vars => [Linear!Next]_<<Image, node, offset>>
  BY NextStep DEF LinearStep
<1> QED BY <1>1, InitStep, Invariance, PTL DEF Spec, LinearSpec, Linear!Spec, Linear!vars

=============================================================================
