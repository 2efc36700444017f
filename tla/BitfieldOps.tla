---------------------------- MODULE BitfieldOps ----------------------------
(***************************************************************************)
(* The operations of Test/bitfield.c on one bitmap, as operators.          *)
(*                                                                         *)
(* A bitmap is the set of the positions whose bit is 1.  Position i is the *)
(* bit 0x80 >> (i % 8) of byte i / 8, so the last byte has positions from  *)
(* valid_length on that no piece owns.  A bitmap file is a record with the *)
(* number of bytes it holds and the bits set in them; NoFile is the file   *)
(* that does not exist.                                                    *)
(***************************************************************************)
EXTENDS Integers, FiniteSets

CONSTANT PieceCount     \* pieces_length/20, the number of pieces

ASSUME PieceCountAssumption == PieceCount \in Nat \ {0}

valid_length    == PieceCount
bitfield_length == (PieceCount + 7) \div 8
Bit             == 0 .. 8 * bitfield_length - 1

\* The positions that share a byte with position i.
ByteOf(i) == {b \in Bit : b \div 8 = i \div 8}

NoFile     == [length |-> -1, bits |-> {}]
BitmapFile == {NoFile} \cup [length : 0 .. bitfield_length, bits : SUBSET Bit]

\* What create_bitfield reads: a missing file gives an empty bitmap, and each
\* byte past the end of a short file is (unsigned char)EOF, that is 0xFF.
LoadBits(file) ==
    IF file = NoFile THEN {}
    ELSE {b \in Bit : b \div 8 < file.length => b \in file.bits}

get_bit_value(bits, i) ==
    IF i >= valid_length THEN -1 ELSE IF i \in bits THEN 1 ELSE 0

\* set_bit_value shifts by 7 minus a variable it never assigned, so the mask
\* is any single bit of the byte or, when the shift leaves the byte, 0; the
\* mask is then and-ed to the byte.  Each outcome of a sequence of calls
\* set_bit_value(bitmap, i, 1), one for every i in I: a byte that a call
\* touched keeps one of its bits or none.
SetBitOutcomes(bits, I) ==
    LET touched(b) == \E i \in I : i < valid_length /\ b \in ByteOf(i)
    IN  {B \in SUBSET bits :
            /\ \A b \in bits : ~touched(b) => b \in B
            /\ \A a, b \in B : touched(a) /\ b \in ByteOf(a) => a = b}

\* get_download_piece_num stops before the last byte, and adds to the count
\* it is given instead of starting from zero.
CountBits(bits, num) ==
    num + Cardinality({b \in bits : b \div 8 < bitfield_length - 1})

\* restore_bitmap returns at once when there is a bitmap.  With none it opens
\* the file with O_TRUNC and then dereferences the null bitmap.
RestoredFile(hasBitmap, hasName, file) ==
    IF hasBitmap \/ ~hasName THEN file ELSE [length |-> 0, bits |-> {}]

=============================================================================
