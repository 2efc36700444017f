------------------------------- MODULE MCSha1 ------------------------------
(***************************************************************************)
(* Sha1 for TLC: blocks of six bytes, words of one byte that wrap at 16,   *)
(* so that the length is carried with every second byte and a message is   *)
(* too long at 32 bytes.  The bytes of a message are all different; two    *)
(* messages are hashed one after the other in the same context.            *)
(***************************************************************************)
EXTENDS Sha1

MCLengthOctet(w, k) == w

MCStreams == {[k \in 1 .. 14 |-> 200 + k], [k \in 1 .. 33 |-> 300 + k]}

MCOctet == 0 .. 400

MCGarbage == {[k \in 0 .. 5 |-> 0], [k \in 0 .. 5 |-> 255]}

=============================================================================
