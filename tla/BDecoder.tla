------------------------------ MODULE BDecoder ------------------------------
(***************************************************************************)
(* The decoder of B code, BCode/BDecoder.c: print_int, print_str,          *)
(* print_array and print_dictionary call each other along the content,     *)
(* with the position and the depth in the globals file_cursor and          *)
(* tab_cursor, an unsigned short that wraps.  The calls are an explicit    *)
(* stack here, and a step is one turn of one of the loops.  No caller      *)
(* looks at what a call returned.                                          *)
(*                                                                         *)
(* malloc does not fail here, and a string's length is a number that an    *)
(* int holds.  What is printed is left out: the tabs and tags follow       *)
(* tab_cursor, and each string has the rest of the heap after it, since it *)
(* is copied without a terminator.                                         *)
(***************************************************************************)
EXTENDS Bencode, SequencesExt

CONSTANTS
    Contents,           \* the contents of files
    TabLimit            \* the numbers that an unsigned short has

ASSUME ContentsAssumption == Contents \subseteq Seq(Characters)
ASSUME TabLimitAssumption == TabLimit \in Nat \ {0}

VARIABLES
    content,            \* of the file, which a NUL character follows
    pc,                 \* "running", "done", or "overrun": a read past the NUL
    file_cursor, tab_cursor,
    stack               \* the calls of print_array and print_dictionary

vars == <<content, pc, file_cursor, tab_cursor, stack>>

file_size == Len(content)
UShort(n) == n % TabLimit
NUL       == "NUL"
At(c)     == IF c < file_size THEN content[c + 1] ELSE NUL
Here      == At(file_cursor)

\* A call began at position from; a dictionary is before a key, before a value
\* or in the call for its value.
Frame == [call : {"array", "dictionary"}, from : Nat, at : {"key", "value", "in value"}]
Calling == IF stack = <<>> THEN "main" ELSE Last(stack).call

Init ==
    /\ content \in Contents
    /\ pc = "running"
    /\ file_cursor = 0 /\ tab_cursor = 0
    /\ stack = <<>>

-----------------------------------------------------------------------------
\* The first position from c on that holds ch, or file_size + 1.
Find(ch, c) ==
    CHOOSE p \in c .. file_size + 1 :
        /\ p > file_size \/ At(p) = ch
        /\ \A q \in c .. p - 1 : At(q) # ch

\* len = len * 10 + (c - '0') from position a to before b, whatever is there.
Number(a, b) ==
    LET len[c \in a .. b] == IF c = a THEN 0 ELSE len[c - 1] * 10 + Digit[At(c - 1)]
    IN  len[b]

\* Variant: the ':' is not skipped.
StringEnd_AtColon(colon) == colon + Number(file_cursor, colon)
StringEnd(colon) == colon + 1 + Number(file_cursor, colon)

\* Where print_int or print_str leaves file_cursor; past file_size + 1 when it
\* does not find the end, or copies more than there is.
ScalarEnd ==
    IF Here = "i"
    THEN Find("e", file_cursor + 1) + 1
    ELSE LET colon == Find(":", file_cursor)
         IN  IF colon > file_size THEN file_size + 2 ELSE StringEnd(colon)

IsScalar == Here \in Digits \cup {"i"}

\* The loop of main looks at the content only before file_size.
Running == pc = "running" /\ (stack = <<>> \/ file_cursor <= file_size)
InMain  == Calling = "main" /\ file_cursor < file_size
In(at)  == Calling = "dictionary" /\ Last(stack).at = at
TakesValue == InMain \/ Calling = "array" \/ In("value")

\* The dictionary on top of the stack goes from its value to its next key.
\* Variant: it takes another value.
NextKey_Value(s) == IF s # <<>> /\ Last(s).call = "dictionary"
                    THEN Append(Front(s), [Last(s) EXCEPT !.at = "value"]) ELSE s
NextKey(s) == IF s # <<>> /\ Last(s).call = "dictionary"
              THEN Append(Front(s), [Last(s) EXCEPT !.at = "key"]) ELSE s

Overrun ==
    /\ pc = "running"
    /\ \/ stack # <<>> /\ file_cursor > file_size
       \/ /\ Running /\ ScalarEnd > file_size + 1
          /\ (TakesValue /\ IsScalar) \/ (In("key") /\ Here \in Digits)
    /\ pc' = "overrun"
    /\ UNCHANGED <<content, file_cursor, tab_cursor, stack>>

\* print_int or print_str for a value.
PrintScalar ==
    /\ Running /\ TakesValue /\ IsScalar /\ ScalarEnd <= file_size + 1
    /\ file_cursor' = ScalarEnd
    /\ stack' = NextKey(stack)
    /\ UNCHANGED <<content, pc, tab_cursor>>

PrintKey ==
    /\ Running /\ In("key") /\ Here \in Digits /\ ScalarEnd <= file_size + 1
    /\ file_cursor' = ScalarEnd
    /\ stack' = Append(Front(stack), [Last(stack) EXCEPT !.at = "value"])
    /\ UNCHANGED <<content, pc, tab_cursor>>

\* print_array or print_dictionary is called for a value.  In a dictionary the
\* value has a tab of its own.
Call ==
    /\ Running /\ TakesValue /\ Here \in {"l", "d"}
    /\ stack' = Append(IF In("value")
                       THEN Append(Front(stack), [Last(stack) EXCEPT !.at = "in value"])
                       ELSE stack,
                       [call |-> IF Here = "l" THEN "array" ELSE "dictionary",
                        from |-> file_cursor, at |-> "key"])
    /\ file_cursor' = file_cursor + 1
    /\ tab_cursor' = UShort(tab_cursor + IF In("value") THEN 2 ELSE 1)
    /\ UNCHANGED <<content, pc>>

\* Variants: a value that was a call keeps its tab, and every call takes one
\* off.
ValueTabs_None == 0
ValueTabs_Always == 1

\* The tabs that the caller takes off when its call returns.
ValueTabs == IF Len(stack) > 1 /\ stack[Len(stack) - 1].call = "dictionary" THEN 1 ELSE 0

\* The 'e' of a list or a dictionary.
Return ==
    /\ Running /\ Here = "e"
    /\ Calling = "array" \/ In("key")
    /\ file_cursor' = file_cursor + 1
    /\ tab_cursor' = UShort(tab_cursor - 1 - ValueTabs)
    /\ stack' = NextKey(Front(stack))
    /\ UNCHANGED <<content, pc>>

\* A dictionary goes back with -1 where a key is missing, its tab still on.
KeyIsMissing ==
    /\ Running /\ In("key") /\ Here \notin Digits \cup {"e"}
    /\ tab_cursor' = UShort(tab_cursor - ValueTabs)
    /\ stack' = NextKey(Front(stack))
    /\ UNCHANGED <<content, pc, file_cursor>>

\* A dictionary does without a value that does not begin like one.
ValueIsMissing ==
    /\ Running /\ In("value") /\ Here \notin Digits \cup {"i", "l", "d"}
    /\ stack' = NextKey(stack)
    /\ UNCHANGED <<content, pc, file_cursor, tab_cursor>>

\* main and print_array stay for ever where no value begins.
Stay ==
    /\ Running
    /\ \/ InMain /\ Here \notin Digits \cup {"i", "l", "d"}
       \/ Calling = "array" /\ Here \notin Digits \cup {"i", "l", "d", "e"}
    /\ UNCHANGED vars

MainReturns ==
    /\ Running /\ Calling = "main" /\ file_cursor >= file_size
    /\ pc' = "done"
    /\ UNCHANGED <<content, file_cursor, tab_cursor, stack>>

Ended == pc # "running" /\ UNCHANGED vars

Next ==
    \/ PrintScalar \/ PrintKey \/ Call \/ Return
    \/ KeyIsMissing \/ ValueIsMissing
    \/ Stay \/ Overrun \/ MainReturns \/ Ended

\* A sequential program takes its next step.
Spec == Init /\ [][Next]_vars /\ WF_vars(Next)

-----------------------------------------------------------------------------
TypeOK ==
    /\ pc \in {"running", "done", "overrun"}
    /\ file_cursor \in 0 .. file_size + 1
    /\ tab_cursor \in 0 .. TabLimit - 1
    /\ stack \in Seq(Frame)

\* The tabs of the calls that are open: one each, and one for a value.
Tab(f) == IF f.at = "in value" THEN 2 ELSE 1
TabsOf(s) ==
    LET tabs[k \in 0 .. Len(s)] == IF k = 0 THEN 0 ELSE tabs[k - 1] + Tab(s[k])
    IN  tabs[Len(s)]
Tabs == TabsOf(stack)

\* In B code the depth printed is that of the calls, as an unsigned short has
\* it.  Whatever else a file holds, tabs are only ever left on too many, so the
\* depth is not behind the calls until as many characters are read as the
\* unsigned short has numbers; with that many it wraps.
TabsFollowCalls ==
    /\ content \in Documents => tab_cursor = UShort(Tabs)
    /\ file_cursor < TabLimit => tab_cursor >= Tabs

\* The types, and the depth.
DecoderInv == TypeOK /\ TabsFollowCalls

\* Each call in B code returns at the end of the value it was called for.
CallsTakeOneValue ==
    [][(content \in Documents /\ Len(stack') < Len(stack))
        => (SubSeq(content, Last(stack).from + 1, file_cursor') \in Values)]_vars

\* B code is decoded to its end, and no tab is left on.
DocumentsAreDecoded ==
    content \in Documents => <>(pc = "done" /\ file_cursor = file_size /\ tab_cursor = 0)

=============================================================================
