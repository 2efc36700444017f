------------------------------ MODULE InfoHash ------------------------------
(***************************************************************************)
(* get_info_hash of the metafile parser: it looks for the end of the       *)
(* value of the key info by counting the lists and dictionaries that are   *)
(* open, and hashes from the beginning of that value to its end.           *)
(*                                                                         *)
(* The scan starts at begin, where find_keyword found the value (0 in this *)
(* module by itself); a NUL character follows the content.  A step is one  *)
(* turn of the loop.  The parser exists twice: InitialCount and            *)
(* FirstDigits tell Test/parser.c, where push_pop is not initialized and a *)
(* length does not begin with the largest digit, from                      *)
(* Demo/trackerDemo/parser.c.                                              *)
(***************************************************************************)
EXTENDS Bencode, SequencesExt

CONSTANTS
    Contents,           \* what follows the key info in metafiles
    InitialCount,       \* the values push_pop can begin with
    FirstDigits         \* the digits a length can begin with

VARIABLES
    content,
    pc,                 \* "scan", "hashed", "failed" for -1, or "overrun"
    begin,              \* where the value begins
    i, push_pop,
    info_hash           \* what was hashed, <<>> before

vars == <<content, pc, begin, i, push_pop, info_hash>>

filesize == Len(content) + 1
NUL      == "NUL"
At(c)    == IF c < Len(content) THEN content[c + 1] ELSE NUL

Init ==
    /\ content \in Contents
    /\ pc = "scan" /\ begin = 0 /\ i = 0
    /\ push_pop \in InitialCount
    /\ info_hash = <<>>

-----------------------------------------------------------------------------
\* The first position from c on whose character is not in S, or filesize.
SkipWhile(S, c) ==
    CHOOSE p \in c .. filesize :
        /\ p = filesize \/ At(p) \notin S
        /\ \A q \in c .. p - 1 : At(q) \in S

\* The first position from c on that holds the character, or filesize.
SkipTo(character, c) ==
    CHOOSE p \in c .. filesize :
        /\ p = filesize \/ At(p) = character
        /\ \A q \in c .. p - 1 : At(q) # character

Number(a, b) == FoldLeft(LAMBDA n, c : n * 10 + Digit[c], 0, SubSeq(content, a + 1, b))

Scanning == pc = "scan" /\ i < filesize

Open ==
    /\ Scanning /\ At(i) \in {"d", "l"}
    /\ push_pop' = push_pop + 1
    /\ i' = i + 1
    /\ UNCHANGED <<content, pc, begin, info_hash>>

SkipInteger ==
    /\ Scanning /\ At(i) = "i"
    /\ LET e == SkipTo("e", i + 1)
       IN  IF e = filesize
           THEN pc' = "failed" /\ UNCHANGED i
           ELSE i' = e + 1 /\ UNCHANGED pc
    /\ UNCHANGED <<content, push_pop, begin, info_hash>>

\* Variant: the ':' is not skipped.
StringEnd_AtColon(colon) == colon + Number(i, colon)
StringEnd(colon) == colon + 1 + Number(i, colon)

\* The character after the digits is skipped, whatever it is.
SkipString ==
    /\ Scanning /\ At(i) \in FirstDigits
    /\ i' = StringEnd(SkipWhile(Digits, i))
    /\ UNCHANGED <<content, pc, push_pop, begin, info_hash>>

\* Variant: the first value that is closed ends the scan.
Closed_First(count) == TRUE
Closed(count) == count = 0

Close ==
    /\ Scanning /\ At(i) = "e"
    /\ push_pop' = push_pop - 1
    /\ IF Closed(push_pop')
       THEN /\ pc' = "hashed"
            /\ info_hash' = SubSeq(content, begin + 1, i + 1)
            /\ UNCHANGED i
       ELSE i' = i + 1 /\ UNCHANGED <<pc, info_hash>>
    /\ UNCHANGED <<content, begin>>

OtherCharacter ==
    /\ Scanning /\ At(i) \notin FirstDigits \cup {"d", "l", "i", "e"}
    /\ pc' = "failed"
    /\ UNCHANGED <<content, i, push_pop, begin, info_hash>>

\* Variant: the test after the loop is missing.
AfterLoop_Hash(c) == "hashed"

\* The loop ends without an end.  Only i = filesize is taken for a failure: a
\* string that is longer than the file leaves i behind it, and the hash goes
\* from begin to an end that was never assigned.
AfterLoop(c) == IF c = filesize THEN "failed" ELSE "overrun"

RunOut ==
    /\ pc = "scan" /\ i >= filesize
    /\ pc' = AfterLoop(i)
    /\ UNCHANGED <<content, i, push_pop, begin, info_hash>>

Ended == pc \in {"hashed", "failed", "overrun"} /\ UNCHANGED vars

Next == Open \/ SkipInteger \/ SkipString \/ Close \/ OtherCharacter \/ RunOut \/ Ended

\* A sequential program takes its next step.
Spec == Init /\ [][Next]_vars /\ WF_vars(Next)

-----------------------------------------------------------------------------
TypeOK ==
    /\ pc \in {"scan", "hashed", "failed", "overrun"}
    /\ begin \in Nat /\ i \in Nat /\ push_pop \in Int
    /\ pc = "hashed" <=> info_hash # <<>>

\* The value begins as a list or a dictionary of B code.
WellFormed ==
    /\ At(begin) \in {"d", "l"}
    /\ \E n \in begin + 1 .. Len(content) : SubSeq(content, begin + 1, n) \in Values

\* What is hashed is the value of info: all of it and nothing that follows,
\* whatever the strings in it hold.
HashedIsOneValue == pc = "hashed" /\ WellFormed => info_hash \in Values

\* For a metafile whose value of info is B code the hash is computed.
InfoIsHashed == WellFormed => <>(pc = "hashed")

=============================================================================
