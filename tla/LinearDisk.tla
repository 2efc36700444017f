----------------------------- MODULE LinearDisk -----------------------------
(***************************************************************************)
(* What the disk of Test/data.c promises, whatever files it is split into: *)
(* one linear image of the download, into which a slice is written from    *)
(* its first byte to its last.  A crash can only leave the end of the one  *)
(* slice in progress unwritten; starting again may clear the last byte of  *)
(* the image, and nothing else.                                            *)
(***************************************************************************)
EXTENDS Integers

CONSTANTS
    Total,      \* the bytes of the download
    Slices,     \* records [index, begin, length]
    NoSlice,    \* a record that is none of them
    Start(_),   \* where a slice begins in the image
    Byte(_, _), \* Byte(v, k): byte k of a slice with payload v
    Payloads, Zero

VARIABLES image, writing, done

vars == <<image, writing, done>>

Idle == [slice |-> NoSlice]

Init ==
    /\ image = [b \in 0 .. Total - 1 |-> Zero]
    /\ writing = Idle /\ done = 0

Begin(s, v) ==
    /\ writing = Idle
    /\ writing' = [slice |-> s, payload |-> v]
    /\ UNCHANGED <<image, done>>

\* The next k bytes of the slice go to the image.
Progress(k) ==
    /\ writing # Idle
    /\ done + k <= writing.slice.length
    /\ LET first == Start(writing.slice)
       IN  image' = [b \in DOMAIN image |->
               IF b - first \in done .. done + k - 1
               THEN Byte(writing.payload, b - first) ELSE image[b]]
    /\ IF done + k = writing.slice.length
       THEN writing' = Idle /\ done' = 0
       ELSE writing' = writing /\ done' = done + k

StartAgain ==
    /\ writing' = Idle /\ done' = 0
    /\ image' \in {image, [image EXCEPT ![Total - 1] = Zero]}

Next ==
    \/ \E s \in Slices, v \in Payloads : Begin(s, v)
    \/ \E k \in 1 .. Total : Progress(k)
    \/ StartAgain

Spec == Init /\ [][Next]_vars

=============================================================================
