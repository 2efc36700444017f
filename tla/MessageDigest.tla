--------------------------- MODULE MessageDigest ---------------------------
(***************************************************************************)
(* What a context of a hash function promises: a message grows at its end, *)
(* is closed by the padding of the standard, and what was hashed is the    *)
(* padded message, whole blocks of it at a time.  A context that is used   *)
(* wrongly fails, and begins again only from nothing.                      *)
(***************************************************************************)
EXTENDS Integers, Sequences

CONSTANTS
    Octet,              \* what messages consist of
    Padded(_),          \* the message with the padding of the standard
    TooLong(_),         \* whether a message is more than the padding can tell
    BlockSize

VARIABLES message, state, hashed

Init == message = <<>> /\ state = "open" /\ hashed = <<>>

\* The blocks of a message that are full.
FullBlocks(m) == SubSeq(m, 1, Len(m) - (Len(m) % BlockSize))

Add ==
    /\ state = "open"
    /\ \E o \in Octet : message' = Append(message, o)
    /\ hashed' = FullBlocks(message')
    /\ state' = IF TooLong(message') THEN "failed" ELSE "open"

Close ==
    /\ state = "open"
    /\ state' = "closed"
    /\ hashed' = Padded(message)
    /\ UNCHANGED message

Fail ==
    /\ state = "closed"
    /\ state' = "failed"
    /\ UNCHANGED <<message, hashed>>

Reset ==
    /\ message' = <<>>
    /\ state' = "open"
    /\ hashed' = <<>>

Spec == Init /\ [][Add \/ Close \/ Fail \/ Reset]_<<message, state, hashed>>

=============================================================================
