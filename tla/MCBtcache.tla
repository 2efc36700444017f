----------------------------- MODULE MCBtcache -----------------------------
(***************************************************************************)
(* Small instances of Btcache for TLC.                                     *)
(***************************************************************************)
EXTENDS Btcache, TLC

CONSTANTS p1, p2,   \* peers
          A, B      \* contents of slices

MCOnePeer  == {p1}
MCTwoPeers == {p1, p2}

\* malloc returns zeroed pages first, so 0 is the index to fear; -1 is the
\* index the code meant to assign.
MCHeapGarbage == {0}

MCNoFile   == {NoFile}
MCAnyFile  == {NoFile, [length |-> 0, bits |-> {}], [length |-> 1, bits |-> {0, 1}]}

\* All slices are equal but one, which is that of an empty file.
MCContents == {A, Zero}
MCOriginal == [r \in Place |-> IF r = <<1, 1>> THEN Zero ELSE A]

\* All slices are equal but the first one, so that a group of both pieces that
\* can be written can pass the hash and be right.
MCOtherContents == {A, B}
MCOtherOriginal == [r \in Place |-> IF r = <<0, 0>> THEN A ELSE B]

PeerSymmetry == Permutations(Peers)

=============================================================================
