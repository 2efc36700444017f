----------------------------- MODULE PieceStore -----------------------------
(***************************************************************************)
(* What the cache of data.c promises of the download on disk.  Groups of   *)
(* slices are written, one slice for each slot, with a label that says of  *)
(* which piece it is.  The slices labelled like the first are stored; one  *)
(* with another label may be stored, stay as it is or be lost.  A group    *)
(* with one label is a whole piece.  When the process dies, it may cut the *)
(* writing of one group short after its first slices.                      *)
(*                                                                         *)
(* Slices are named by piece and slot; nothing is said of the cache or of  *)
(* the peers.                                                              *)
(***************************************************************************)
EXTENDS Integers

CONSTANTS StorePiece,   \* the pieces that can be stored
          SlotCount,    \* the number of slices in a piece
          Blank         \* the slices that an empty file holds already

VARIABLES stored,       \* the slices the disk holds
          boots         \* how often the process has been started again

StoreSlot == 0 .. SlotCount - 1

\* The labels of a group.
Labels == [StoreSlot -> StorePiece]

\* The slices of a group L in the first n slots, and those with the label of
\* the first.
Named(L, n) == {<<L[k], k>> : k \in 0 .. n - 1}
Own(L, n)   == {<<L[k], k>> : k \in {l \in 0 .. n - 1 : L[l] = L[0]}}

Init == stored = Blank /\ boots = 0

\* The slices of own are stored now, and nothing outside own and named changed.
Writes(own, named) ==
    /\ own \subseteq stored'
    /\ stored \ named \subseteq stored'
    /\ stored' \subseteq stored \cup named \cup own

\* The groups of S are written.
WriteGroups(S) ==
    /\ boots' = boots
    /\ Writes(UNION {Own(L, SlotCount) : L \in S}, UNION {Named(L, SlotCount) : L \in S})

\* The process is started again, while it was not writing ...
StartAgain == boots' = boots + 1 /\ stored' = stored

\* ... or after it wrote the groups of S and the first n slices of group M.
DieWriting(S, M, n) ==
    /\ boots' = boots + 1
    /\ Writes((UNION {Own(L, SlotCount) : L \in S}) \cup Own(M, n),
              (UNION {Named(L, SlotCount) : L \in S}) \cup Named(M, n))

Next == \/ StartAgain
        \/ \E S \in SUBSET Labels :
              \/ WriteGroups(S)
              \/ \E M \in Labels, n \in 0 .. SlotCount : DieWriting(S, M, n)

Spec == Init /\ [][Next]_<<stored, boots>>

=============================================================================
