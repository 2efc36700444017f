---------------------------- MODULE PeerSequence ---------------------------
(***************************************************************************)
(* What the list of peers promises: the peers in the order in which they   *)
(* were added, less those that were deleted.                               *)
(***************************************************************************)
EXTENDS Sequences, SequencesExt

CONSTANT Node

VARIABLE peers

Init == peers = <<>>

Add == \E node \in Node \ ToSet(peers) : peers' = Append(peers, node)

Delete == \E i \in 1 .. Len(peers) : peers' = RemoveAt(peers, i)

Spec == Init /\ [][Add \/ Delete]_peers

=============================================================================
