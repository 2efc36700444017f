----------------------------- MODULE DiskLayout -----------------------------
(***************************************************************************)
(* How Test/data.c lays a download out over its files: create_files,       *)
(* write_btcache_node_to_harddisk and read_slice_from_hardisk.  Btcache    *)
(* takes the disk for one file; this module opens that up.                 *)
(*                                                                         *)
(* A write to several files is several calls of write, so the loop over    *)
(* the files is taken one call, and one file skipped, at a time, and the   *)
(* process may die between two of them.  Each file is as long as the whole *)
(* download, since create_files extends every one to file_length.          *)
(***************************************************************************)
EXTENDS Integers, Sequences

CONSTANTS
    Layouts,        \* the download's files: sequences of lengths, with one sum
    file_length,    \* that sum, which the parser of the metafile adds up
    piece_length,
    SliceLength,    \* the most bytes of a slice
    Payloads,       \* what a slice can hold
    IntMax          \* the largest int

\* The bytes that come before each of the files, and before the end.
BytesBefore(lengths) ==
    LET sum[f \in 1 .. Len(lengths) + 1] ==
            IF f = 1 THEN 0 ELSE sum[f - 1] + lengths[f - 1]
    IN  sum

ASSUME LayoutAssumption ==
    /\ {file_length, piece_length, SliceLength} \subseteq Nat \ {0}
    /\ IntMax \in Nat
    /\ \A lengths \in Layouts :
          /\ lengths \in Seq(Nat) /\ Len(lengths) > 0
          /\ BytesBefore(lengths)[Len(lengths) + 1] = file_length

VARIABLES
    layout, multi_files,    \* files_head and is_multi_files()
    files,                  \* the bytes of each file
    pc,                     \* "idle", "find" a file, "spill" into the next ones
    node,                   \* the slice being written and its payload
    line_position, i, offset, left,
    got                     \* what a read found, until the next write begins

locals == <<line_position, i, offset, left>>
vars   == <<layout, multi_files, files, pc, node, locals, got>>

Zero       == [payload |-> "zero", at |-> 0]
Byte(v, k) == [payload |-> v, at |-> k]
Bytes      == {Zero} \cup {Byte(v, k) : v \in Payloads, k \in 0 .. SliceLength - 1}
Offsets    == 0 .. file_length - 1
FileIndex  == 1 .. Len(layout)
Smaller(a, b) == IF a < b THEN a ELSE b

\* The slices a piece of the given index is cut into.
SlicesOf(index) ==
    LET bytes == Smaller(piece_length, file_length - index * piece_length)
    IN  {[index |-> index, begin |-> b * SliceLength,
          length |-> Smaller(SliceLength, bytes - b * SliceLength)] :
             b \in 0 .. (bytes - 1) \div SliceLength}
Slices == UNION {SlicesOf(index) : index \in 0 .. (file_length - 1) \div piece_length}

Start(s) == s.index * piece_length + s.begin

\* index, begin and piece_length are ints, and so is the position until it is
\* stored in line_position: past IntMax it wraps around.
Wrapped(n)  == ((n + IntMax + 1) % (2 * (IntMax + 1))) - (IntMax + 1)
Position(s) == Wrapped(Start(s))

NoSlice == [index |-> -1, begin |-> 0, length |-> 0]
NoNode == [slice |-> NoSlice]
NoRead == [slice |-> NoSlice, ret |-> -1, buff |-> <<>>]

Init ==
    /\ layout \in Layouts
    /\ multi_files \in BOOLEAN
    /\ ~multi_files => Len(layout) = 1
    /\ files = [f \in FileIndex |-> [o \in Offsets |-> Zero]]
    /\ pc = "idle" /\ node = NoNode /\ got = NoRead
    /\ line_position = 0 /\ i = 1 /\ offset = 0 /\ left = 0

-----------------------------------------------------------------------------
\* lseek(fds[f], at) and write(fds[f], node->buff + from, n).  A seek to a
\* negative position fails, and the write goes to where the descriptor stands.
Written(f, at, from, n) ==
    {[files EXCEPT ![f] = [o \in Offsets |->
        IF o - a \in 0 .. n - 1 THEN Byte(node.payload, from + o - a) ELSE @[o]]] :
     a \in IF at >= 0 THEN {at} ELSE Offsets}

Return == pc' = "idle" /\ node' = NoNode /\ line_position' = 0 /\ i' = 1 /\ offset' = 0 /\ left' = 0

\* write_btcache_node_to_harddisk is called.
WriteSlice(s, v) ==
    /\ pc = "idle"
    /\ pc' = "find"
    /\ node' = [slice |-> s, payload |-> v]
    /\ line_position' = Position(s)
    /\ got' = NoRead
    /\ UNCHANGED <<layout, multi_files, files, i, offset, left>>

WriteSingleFile ==
    /\ pc = "find" /\ ~multi_files
    /\ files' \in Written(1, line_position, 0, node.slice.length)
    /\ Return
    /\ UNCHANGED <<layout, multi_files, got>>

Inside(f) == line_position < layout[f] /\ line_position + node.slice.length < layout[f]
Crosses(f) == line_position < layout[f] /\ line_position + node.slice.length >= layout[f]

WriteInside ==
    /\ pc = "find" /\ multi_files /\ Inside(i)
    /\ files' \in Written(i, line_position, 0, node.slice.length)
    /\ Return
    /\ UNCHANGED <<layout, multi_files, got>>

\* Variants: the whole slice is written to the first file, and the operands of
\* the difference are swapped.
FirstPart_Whole == node.slice.length
FirstPart_Swapped == line_position - layout[i]
FirstPart == layout[i] - line_position

\* Variant: the first file takes nothing off what is left.
LeftAfterFirst_All == node.slice.length
LeftAfterFirst == node.slice.length - FirstPart

WriteFirstPart ==
    /\ pc = "find" /\ multi_files /\ Crosses(i)
    /\ files' \in Written(i, line_position, 0, FirstPart)
    /\ IF LeftAfterFirst > 0
       THEN /\ pc' = "spill" /\ i' = i + 1
            /\ offset' = FirstPart
            /\ left' = LeftAfterFirst
            /\ UNCHANGED <<node, line_position>>
       ELSE Return
    /\ UNCHANGED <<layout, multi_files, got>>

NextFile ==
    /\ pc = "find" /\ multi_files /\ ~Inside(i) /\ ~Crosses(i)
    /\ line_position' = line_position - layout[i]
    /\ i' = i + 1
    /\ UNCHANGED <<layout, multi_files, files, pc, node, offset, left, got>>

\* Variant: the rest of the buffer is written from its beginning.
SpillFrom_Start == 0
SpillFrom == offset

WriteLastPart ==
    /\ pc = "spill" /\ layout[i] >= left
    /\ files' \in Written(i, 0, SpillFrom, left)
    /\ Return
    /\ UNCHANGED <<layout, multi_files, got>>

WriteWholeFile ==
    /\ pc = "spill" /\ layout[i] < left
    /\ files' \in Written(i, 0, SpillFrom, layout[i])
    /\ offset' = offset + layout[i]
    /\ left' = left - layout[i]
    /\ i' = i + 1
    /\ UNCHANGED <<layout, multi_files, pc, node, line_position, got>>

\* read_slice_from_hardisk tests is_multi_files, the function, and not its
\* result: it always reads the first file at the linear position.  A read that
\* comes up short returns -1.
\* Variant: begin is forgotten.
ReadPosition_OfPiece(s) == Wrapped(s.index * piece_length)
ReadPosition(s) == Position(s)

ReadSlice(s) ==
    LET at == ReadPosition(s)
    IN  /\ pc = "idle"
        /\ got' = IF at >= 0 /\ at + s.length <= file_length
                  THEN [slice |-> s, ret |-> 0,
                        buff |-> [k \in 1 .. s.length |-> files[1][at + k - 1]]]
                  ELSE [slice |-> s, ret |-> -1, buff |-> <<>>]
        /\ UNCHANGED <<layout, multi_files, files, pc, node, locals>>

\* The process dies, in a write or out of it, and starts again: create_files
\* opens the files without truncating them and writes a zero at file_length - 1
\* of each.
StartAgain ==
    /\ files' = [f \in FileIndex |-> [files[f] EXCEPT ![file_length - 1] = Zero]]
    /\ Return
    /\ got' = NoRead
    /\ UNCHANGED <<layout, multi_files>>

Next ==
    \/ \E s \in Slices, v \in Payloads : WriteSlice(s, v)
    \/ WriteSingleFile \/ WriteInside \/ WriteFirstPart \/ NextFile
    \/ WriteLastPart \/ WriteWholeFile
    \/ \E s \in Slices : ReadSlice(s)
    \/ StartAgain

Spec == Init /\ [][Next]_vars

-----------------------------------------------------------------------------
\* Files of known bytes, and slices of the download or none.
TypeOK ==
    /\ layout \in Layouts /\ multi_files \in BOOLEAN
    /\ files \in [FileIndex -> [Offsets -> Bytes]]
    /\ pc \in {"idle", "find", "spill"}
    /\ node = NoNode \/ (node.slice \in Slices /\ node.payload \in Payloads)
    /\ got = NoRead \/ (got.slice \in Slices /\ got.ret \in {-1, 0})
    /\ line_position \in Int /\ offset \in Nat /\ left \in Nat

\* The loops over the files never follow the list past its last file: the
\* slice always ends before the files do.
NoFileMissing == pc # "idle" => i \in FileIndex

\* A slice never spills past the end of the file it is written to: what
\* create_files appended to a file stays zero.
NothingPastTheEnd ==
    multi_files => \A f \in FileIndex : \A o \in Offsets : o >= layout[f] => files[f][o] = Zero

\* The types, and both bounds of a slice on its way over the files.
LayoutInv == TypeOK /\ NoFileMissing /\ NothingPastTheEnd

\* The download as one image: byte b is in the file whose part of it holds b.
FirstByte == BytesBefore(layout)
Image == [b \in Offsets |->
    LET f == CHOOSE g \in FileIndex : b >= FirstByte[g] /\ b < FirstByte[g] + layout[g]
    IN  files[f][b - FirstByte[f]]]

\* Whatever the files are, a write goes to the linear position of its slice,
\* front to back, and touches nothing else; a crash leaves at most its end out.
Linear == INSTANCE LinearDisk WITH
    Total <- file_length, image <- Image, writing <- node, done <- offset
LinearSpec == Linear!Spec

HoldsImage(read) == \A k \in DOMAIN read.buff : read.buff[k] = Image[Start(read.slice) + k - 1]

\* With one file, a slice that is read is the slice that was written.
SingleFileReadsBack == ~multi_files /\ got.ret = 0 => HoldsImage(got)

\* Where a write stands: in the search the position is relative to file i, in
\* the spill file i begins where the bytes written end; and what a read found
\* is kept only between two writes.
WalkInv ==
    /\ pc = "idle" =>
          node = NoNode /\ line_position = 0 /\ i = 1 /\ offset = 0 /\ left = 0
    /\ pc # "idle" =>
          node.slice \in Slices /\ node.payload \in Payloads /\ i \in FileIndex /\ got = NoRead
    /\ pc = "find" =>
          /\ line_position >= 0 /\ FirstByte[i] + line_position = Start(node.slice)
          /\ offset = 0 /\ left = 0
    /\ pc = "spill" =>
          /\ multi_files /\ left > 0 /\ left = node.slice.length - offset
          /\ FirstByte[i] = Start(node.slice) + offset

\* The inductive invariant, for a download whose positions are ints.
IInv ==
    /\ TypeOK /\ NothingPastTheEnd /\ WalkInv /\ SingleFileReadsBack
    /\ ~multi_files => Len(layout) = 1

\* Every position in the download is an int.
PositionsAreInts == file_length - 1 <= IntMax

\* The same with any files, as the comment on the linear position says.
ReadsBack == got.ret = 0 => HoldsImage(got)

=============================================================================
