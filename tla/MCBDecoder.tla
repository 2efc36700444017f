---------------------------- MODULE MCBDecoder -----------------------------
(***************************************************************************)
(* BDecoder for TLC: every document of B code of up to MaxLength           *)
(* characters and every other file of up to four.  Four lists in each      *)
(* other, or four d's, wrap the two bits of tab_cursor.                    *)
(***************************************************************************)
EXTENDS BDecoder

MCContents == Documents \cup UNION {[1 .. n -> Characters] : n \in 1 .. 4}

=============================================================================
