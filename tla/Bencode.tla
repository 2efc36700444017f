------------------------------ MODULE Bencode ------------------------------
(***************************************************************************)
(* The reference for the two readers of B code in the repository: what the *)
(* values of the format are, as sequences of characters, up to a length.   *)
(*   integer     i digits e                                                *)
(*   string      length : that many characters, any characters             *)
(*   list        l values e                                                *)
(*   dictionary  d (string value)* e                                       *)
(* Integers are written with the digit 1.  Of the characters that are no   *)
(* digits there are those that mean something to the readers.              *)
(***************************************************************************)
EXTENDS Integers, Sequences

CONSTANTS
    MaxLength,          \* of a value, or of a sequence of values
    Digits              \* the digits that there are

AllDigits == {"0", "1", "2", "3", "4", "5", "6", "7", "8", "9"}
Marks     == {"d", "l", "i", "e", ":"}

ASSUME MaxLengthAssumption == MaxLength \in Nat
ASSUME DigitsAssumption == "1" \in Digits /\ Digits \subseteq AllDigits

Characters == Digits \cup Marks

\* A character less the character '0', as in ASCII.
Digit == [c \in AllDigits \cup Marks |->
    CASE c = "0" -> 0 [] c = "1" -> 1 [] c = "2" -> 2 [] c = "3" -> 3 [] c = "4" -> 4
      [] c = "5" -> 5 [] c = "6" -> 6 [] c = "7" -> 7 [] c = "8" -> 8 [] c = "9" -> 9
      [] c = ":" -> 10 [] c = "d" -> 52 [] c = "e" -> 53 [] c = "i" -> 57 [] c = "l" -> 60]

Integer(n) == IF n < 3 THEN {}
              ELSE {<<"i">> \o digits \o <<"e">> : digits \in [1 .. n - 2 -> {"1"}]}
String(n)  == {<<d, ":">> \o chars : d \in {c \in Digits : Digit[c] = n - 2},
                                     chars \in [1 .. n - 2 -> Characters]}

\* The values of length n, the sequences of values and the sequences of keys
\* with their values, where g has those of every smaller length.
ValuesOf(g, n) ==
    LET inside(part) == IF n < 2 THEN {} ELSE g[n - 2][part]
    IN  Integer(n) \cup String(n)
            \cup {<<"l">> \o s \o <<"e">> : s \in inside("values_")}
            \cup {<<"d">> \o s \o <<"e">> : s \in inside("pairs")}

SequencesOf(g, n) ==
    IF n = 0 THEN {<<>>}
    ELSE ValuesOf(g, n)
            \cup UNION {{v \o s : v \in g[m].value, s \in g[n - m].values_} : m \in 1 .. n - 1}

\* A key with its value, and the sequences of those.
PairOf(g, n) == UNION {{k \o v : k \in String(l), v \in g[n - l].value} : l \in 1 .. n}

PairsOf(g, n) ==
    IF n = 0 THEN {<<>>}
    ELSE UNION {{p \o s : p \in PairOf(g, m), s \in g[n - m].pairs} : m \in 1 .. n}

Grammar[n \in 0 .. MaxLength] ==
    [value   |-> ValuesOf(Grammar, n),
     values_ |-> SequencesOf(Grammar, n),
     pairs   |-> PairsOf(Grammar, n)]

Values    == UNION {Grammar[n].value : n \in 1 .. MaxLength}
Documents == UNION {Grammar[n].values_ : n \in 1 .. MaxLength}

=============================================================================
