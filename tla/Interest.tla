------------------------------ MODULE Interest -----------------------------
(***************************************************************************)
(* is_interested of Test/bitfield.c: is there a piece that a peer has and  *)
(* the client does not?  dst is the bitmap of the peer, src the client's.  *)
(* Bitmaps are sets of positions, as in BitfieldOps; a peer's bitmap has   *)
(* no byte until its bitfield has come.                                    *)
(***************************************************************************)
EXTENDS BitfieldOps

CONSTANT Position       \* the positions that bitmaps differ in
ASSUME PositionAssumption == Position \subseteq Bit

VARIABLES
    dst, dst_length,    \* the peer's bits, and the bytes of its bitmap
    src,
    answer              \* of is_interested, or "none" before the call

interestVars == <<dst, dst_length, src, answer>>

WholeBytes == bitfield_length - 1

\* Variant: the bitmaps are taken for each other.
Wanted_Swapped(b) == b \in src /\ b \notin dst
Wanted(b) == b \in dst /\ b \notin src

\* The test of the last byte is c2 & (const_char[i] == 0), that is c2 & 0.
WantedInLastByte(b) == b \in dst /\ FALSE

\* Variant: the last byte is taken for a whole one.
InWholeBytes_All(b) == b \div 8 < bitfield_length
InWholeBytes(b) == b \div 8 < WholeBytes

Finds ==
    \/ \E b \in Bit : InWholeBytes(b) /\ Wanted(b)
    \/ \E i \in 0 .. (valid_length % 8) - 1 : WantedInLastByte(8 * WholeBytes + i)

InterestInit ==
    /\ dst_length \in {0, bitfield_length}
    /\ dst \in IF dst_length = 0 THEN {{}} ELSE SUBSET Position
    /\ src \in SUBSET Position
    /\ answer = "none"

is_interested ==
    /\ answer = "none"
    /\ answer' = IF dst_length # bitfield_length THEN "error"
                 ELSE IF Finds THEN "yes" ELSE "no"
    /\ UNCHANGED <<dst, dst_length, src>>

\* The bits change between two calls: the peer tells of another piece, or the
\* client has stored one.
Have ==
    /\ answer' = "none"
    /\ \E b \in Position :
        \/ dst_length > 0 /\ dst' = dst \cup {b} /\ UNCHANGED src
        \/ src' = src \cup {b} /\ UNCHANGED dst
    /\ UNCHANGED dst_length

\* all_set writes the byte 0x01, so it sets one bit in eight.
all_zero == src' = {} /\ answer' = "none" /\ UNCHANGED <<dst, dst_length>>
all_set  == src' = {b \in Bit : b % 8 = 7} /\ answer' = "none" /\ UNCHANGED <<dst, dst_length>>

InterestNext == is_interested \/ Have \/ all_zero \/ all_set

InterestSpec == InterestInit /\ [][InterestNext]_interestVars

-----------------------------------------------------------------------------
Owned(b) == b \in 0 .. valid_length - 1

InterestTypeOK ==
    /\ dst \subseteq Bit /\ src \subseteq Bit
    /\ dst_length \in {0, bitfield_length}
    /\ answer \in {"none", "error", "yes", "no"}

\* The client is interested only in a peer that has a piece it lacks: the bits
\* after the last piece, which a peer may send as it likes, do not count.
InterestIsJustified ==
    answer = "yes" => \E b \in dst \ src : Owned(b)

\* No piece of the whole bytes is overlooked.
WholeBytesAreSeen ==
    answer = "no" => \A b \in dst \ src : b \div 8 >= WholeBytes

\* An answer is right but for the pieces of the last byte, which are never seen.
InterestIsRight == InterestIsJustified /\ WholeBytesAreSeen

=============================================================================
