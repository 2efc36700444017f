--------------------------- MODULE BencodeProofs ---------------------------
(***************************************************************************)
(* Proofs about Bencode, for values of any length: what the values of the  *)
(* format and the sequences of them look like, read from a position on.    *)
(***************************************************************************)
EXTENDS Bencode, SequenceTheorems, WellFoundedInduction, TLAPS

\* Induction, for a set of numbers: from all smaller numbers.
LEMMA NatFromSmaller ==
    ASSUME NEW S \in SUBSET Nat, \A n \in Nat : (\A m \in 0 .. n - 1 : m \in S) => n \in S
    PROVE  S = Nat
<1> DEFINE T == Nat \ S
<1>1. SUFFICES ASSUME T # {} PROVE FALSE
  OBVIOUS
<1>2. PICK m \in T : \A y \in T : ~(<<y, m>> \in OpToRel(<, Nat))
  <2>1. T \subseteq Nat
    OBVIOUS
  <2> HIDE DEF T
  <2> QED BY <1>1, <2>1, NatLessThanWellFounded, WFMin
<1>3. ASSUME NEW k \in 0 .. m - 1 PROVE k \in S
  <2>1. k \in Nat /\ k < m
    OBVIOUS
  <2>2. <<k, m>> \in OpToRel(<, Nat)
    BY <2>1 DEF OpToRel
  <2> QED BY <1>2, <2>1, <2>2
<1> QED BY <1>3

\* And from the number before.
LEMMA NatFromBefore ==
    ASSUME NEW S \in SUBSET Nat, 0 \in S, \A n \in S : n + 1 \in S
    PROVE  S = Nat
<1>1. ASSUME NEW n \in Nat, \A m \in 0 .. n - 1 : m \in S PROVE n \in S
  <2>1. CASE n = 0
    BY <2>1
  <2>2. CASE n # 0
    <3>1. n - 1 \in 0 .. n - 1 /\ (n - 1) + 1 = n
      BY <2>2
    <3>2. n - 1 \in S
      BY <1>1, <3>1
    <3>3. (n - 1) + 1 \in S
      BY <3>2
    <3> QED BY <3>1, <3>3
  <2> QED BY <2>1, <2>2
<1> QED BY <1>1, NatFromSmaller

-----------------------------------------------------------------------------
(***************************************************************************)
(* The recursive definition of the grammar defines what it says.           *)
(***************************************************************************)
\* What the members of the four sets look like.
IsValue(g, n, x) ==
    \/ x \in Integer(n) \/ x \in String(n)
    \/ n >= 2 /\ \E s \in g[n - 2].values_ : x = <<"l">> \o s \o <<"e">>
    \/ n >= 2 /\ \E s \in g[n - 2].pairs : x = <<"d">> \o s \o <<"e">>
Splits(g, n, x) ==
    \E m \in 1 .. n - 1 : \E v \in g[m].value : \E s \in g[n - m].values_ : x = v \o s
IsSequence(g, n, x) ==
    \/ n = 0 /\ x = <<>>
    \/ n # 0 /\ x \in ValuesOf(g, n)
    \/ n # 0 /\ Splits(g, n, x)
IsPair(g, n, x) ==
    \E l \in 1 .. n : \E k \in String(l) : \E v \in g[n - l].value : x = k \o v
SplitsPair(g, n, x) ==
    \E m \in 1 .. n : \E p \in PairOf(g, m) : \E s \in g[n - m].pairs : x = p \o s
IsPairs(g, n, x) ==
    \/ n = 0 /\ x = <<>>
    \/ n # 0 /\ SplitsPair(g, n, x)

LEMMA InValues ==
    ASSUME NEW g, NEW n \in Nat, NEW x
    PROVE  x \in ValuesOf(g, n) <=> IsValue(g, n, x)
<1> DEFINE X == IF n < 2 THEN {} ELSE g[n - 2].values_
           Y == IF n < 2 THEN {} ELSE g[n - 2].pairs
<1>1. ValuesOf(g, n) = Integer(n) \cup String(n)
          \cup {<<"l">> \o s \o <<"e">> : s \in X} \cup {<<"d">> \o s \o <<"e">> : s \in Y}
  BY Zenon DEF ValuesOf
<1>2. \A s : /\ s \in X <=> n >= 2 /\ s \in g[n - 2].values_
             /\ s \in Y <=> n >= 2 /\ s \in g[n - 2].pairs
  OBVIOUS
<1> HIDE DEF X, Y
<1>3. x \in ValuesOf(g, n) <=>
        \/ x \in Integer(n) \/ x \in String(n)
        \/ \E s \in X : x = <<"l">> \o s \o <<"e">>
        \/ \E s \in Y : x = <<"d">> \o s \o <<"e">>
  BY <1>1, Zenon
<1> QED BY <1>2, <1>3, Zenon DEF IsValue

LEMMA InSequences ==
    ASSUME NEW g, NEW n \in Nat, NEW x
    PROVE  x \in SequencesOf(g, n) <=> IsSequence(g, n, x)
<1> DEFINE X(m) == {v \o s : v \in g[m].value, s \in g[n - m].values_}
<1>1. \A m : x \in X(m) <=> \E v \in g[m].value : \E s \in g[n - m].values_ : x = v \o s
  OBVIOUS
<1>2. SequencesOf(g, n) = IF n = 0 THEN {<<>>}
                          ELSE ValuesOf(g, n) \cup UNION {X(m) : m \in 1 .. n - 1}
  BY DEF SequencesOf
<1> HIDE DEF X
<1>3. x \in UNION {X(m) : m \in 1 .. n - 1} <=> \E m \in 1 .. n - 1 : x \in X(m)
  OBVIOUS
<1> QED BY <1>1, <1>2, <1>3, Zenon DEF IsSequence, Splits

LEMMA InPair ==
    ASSUME NEW g, NEW n \in Nat, NEW x
    PROVE  x \in PairOf(g, n) <=> IsPair(g, n, x)
<1> DEFINE X(l) == {k \o v : k \in String(l), v \in g[n - l].value}
<1>1. \A l : x \in X(l) <=> \E k \in String(l) : \E v \in g[n - l].value : x = k \o v
  OBVIOUS
<1>2. PairOf(g, n) = UNION {X(l) : l \in 1 .. n}
  BY DEF PairOf
<1> HIDE DEF X
<1>3. x \in UNION {X(l) : l \in 1 .. n} <=> \E l \in 1 .. n : x \in X(l)
  OBVIOUS
<1> QED BY <1>1, <1>2, <1>3, Zenon DEF IsPair

LEMMA InPairs ==
    ASSUME NEW g, NEW n \in Nat, NEW x
    PROVE  x \in PairsOf(g, n) <=> IsPairs(g, n, x)
<1> DEFINE X(m) == {p \o s : p \in PairOf(g, m), s \in g[n - m].pairs}
<1>1. \A m : x \in X(m) <=> \E p \in PairOf(g, m) : \E s \in g[n - m].pairs : x = p \o s
  OBVIOUS
<1>2. PairsOf(g, n) = IF n = 0 THEN {<<>>} ELSE UNION {X(m) : m \in 1 .. n}
  BY DEF PairsOf
<1> HIDE DEF X
<1>3. x \in UNION {X(m) : m \in 1 .. n} <=> \E m \in 1 .. n : x \in X(m)
  OBVIOUS
<1> QED BY <1>1, <1>2, <1>3, Zenon DEF IsPairs, SplitsPair

\* What is said of length n depends on what is said of smaller lengths.
LEMMA PartsStay ==
    ASSUME NEW g, NEW h, NEW n \in Nat, \A m \in 0 .. n - 1 : g[m] = h[m]
    PROVE  /\ ValuesOf(g, n) \subseteq ValuesOf(h, n)
           /\ SequencesOf(g, n) \subseteq SequencesOf(h, n)
           /\ PairsOf(g, n) \subseteq PairsOf(h, n)
<1>1. ASSUME NEW x \in ValuesOf(g, n) PROVE x \in ValuesOf(h, n)
  <2>1. IsValue(g, n, x)
    BY InValues
  <2>2. n >= 2 => g[n - 2] = h[n - 2]
    OBVIOUS
  <2>3. IsValue(h, n, x)
    BY <2>1, <2>2, Zenon DEF IsValue
  <2> QED BY <2>3, InValues
<1>2. ASSUME NEW x \in SequencesOf(g, n) PROVE x \in SequencesOf(h, n)
  <2>1. IsSequence(g, n, x)
    BY InSequences
  <2>2. \A m \in 1 .. n - 1 : g[m] = h[m] /\ g[n - m] = h[n - m]
    OBVIOUS
  <2>3. Splits(g, n, x) => Splits(h, n, x)
    BY <2>2, Zenon DEF Splits
  <2>4. IsSequence(h, n, x)
    BY <1>1, <2>1, <2>3, Zenon DEF IsSequence
  <2> QED BY <2>4, InSequences
<1>3. ASSUME NEW j \in 1 .. n, NEW x \in PairOf(g, j) PROVE x \in PairOf(h, j)
  <2>1. j \in Nat
    OBVIOUS
  <2>2. IsPair(g, j, x)
    BY <2>1, InPair
  <2>3. \A l \in 1 .. j : g[j - l] = h[j - l]
    OBVIOUS
  <2>4. IsPair(h, j, x)
    BY <2>2, <2>3, Zenon DEF IsPair
  <2> QED BY <2>1, <2>4, InPair
<1>4. ASSUME NEW x \in PairsOf(g, n) PROVE x \in PairsOf(h, n)
  <2>1. IsPairs(g, n, x)
    BY InPairs
  <2>2. \A m \in 1 .. n : g[n - m] = h[n - m]
    OBVIOUS
  <2>3. SplitsPair(g, n, x) => SplitsPair(h, n, x)
    BY <1>3, <2>2, Zenon DEF SplitsPair
  <2>4. IsPairs(h, n, x)
    BY <2>1, <2>3, Zenon DEF IsPairs
  <2> QED BY <2>4, InPairs
<1> QED BY <1>1, <1>2, <1>4

LEMMA Local ==
    ASSUME NEW g, NEW h, NEW n \in Nat, \A m \in 0 .. n - 1 : g[m] = h[m]
    PROVE  /\ ValuesOf(g, n) = ValuesOf(h, n)
           /\ SequencesOf(g, n) = SequencesOf(h, n)
           /\ PairsOf(g, n) = PairsOf(h, n)
<1>1. \A m \in 0 .. n - 1 : h[m] = g[m]
  OBVIOUS
<1>2. /\ ValuesOf(g, n) \subseteq ValuesOf(h, n)
      /\ SequencesOf(g, n) \subseteq SequencesOf(h, n)
      /\ PairsOf(g, n) \subseteq PairsOf(h, n)
  BY PartsStay
<1>3. /\ ValuesOf(h, n) \subseteq ValuesOf(g, n)
      /\ SequencesOf(h, n) \subseteq SequencesOf(g, n)
      /\ PairsOf(h, n) \subseteq PairsOf(g, n)
  BY <1>1, PartsStay
<1> QED BY <1>2, <1>3

GrammarOf(g, n) ==
    [value |-> ValuesOf(g, n), values_ |-> SequencesOf(g, n), pairs |-> PairsOf(g, n)]

LEMMA GrammarExists ==
    ASSUME NEW N \in Nat
    PROVE  \E g : g = [n \in 0 .. N |-> GrammarOf(g, n)]
<1> DEFINE IsGrammar(k, g) == g = [n \in 0 .. k |-> GrammarOf(g, n)]
           S == {k \in Nat : \E g : IsGrammar(k, g)}
<1>1. 0 \in S
  <2> DEFINE e == [n \in 0 .. 0 |-> GrammarOf(<<>>, n)]
  <2>1. GrammarOf(<<>>, 0) = GrammarOf(e, 0)
    <3> HIDE DEF e
    <3> QED BY Local DEF GrammarOf
  <2>2. IsGrammar(0, e)
    BY <2>1
  <2> QED BY <2>2
<1>2. ASSUME NEW k \in S PROVE k + 1 \in S
  <2>1. PICK g : IsGrammar(k, g)
    OBVIOUS
  <2> DEFINE h == [n \in 0 .. k + 1 |-> IF n = k + 1 THEN GrammarOf(g, k + 1) ELSE g[n]]
  <2>2. \A n \in 0 .. k : h[n] = g[n]
    OBVIOUS
  <2>3. \A n \in 0 .. k : g[n] = GrammarOf(g, n)
    BY <2>1
  <2>4. h[k + 1] = GrammarOf(g, k + 1)
    OBVIOUS
  <2>5. h = [n \in 0 .. k + 1 |-> h[n]]
    OBVIOUS
  <2> HIDE DEF h
  <2>6. ASSUME NEW n \in 0 .. k + 1 PROVE GrammarOf(h, n) = GrammarOf(g, n)
    <3>1. \A m \in 0 .. n - 1 : h[m] = g[m]
      BY <2>2
    <3> QED BY <3>1, Local DEF GrammarOf
  <2>7. ASSUME NEW n \in 0 .. k + 1 PROVE h[n] = GrammarOf(h, n)
    BY <2>2, <2>3, <2>4, <2>6
  <2>8. IsGrammar(k + 1, h)
    BY <2>5, <2>7
  <2>9. \E f : IsGrammar(k + 1, f)
    <3> HIDE DEF IsGrammar
    <3> QED BY <2>8
  <2> HIDE DEF IsGrammar
  <2> QED BY <2>9
<1>3. S = Nat
  <2>1. S \in SUBSET Nat
    OBVIOUS
  <2> HIDE DEF S
  <2> QED BY <1>1, <1>2, <2>1, NatFromBefore
<1> QED BY <1>3

\* The grammar exists, and holds at each length what its rules say of the
\* smaller lengths.
THEOREM GrammarStep == \A n \in 0 .. MaxLength : Grammar[n] = GrammarOf(Grammar, n)
<1> DEFINE IsGrammar(g) == g = [n \in 0 .. MaxLength |-> GrammarOf(g, n)]
<1>1. \E g : IsGrammar(g)
  BY MaxLengthAssumption, GrammarExists
<1>2. Grammar = CHOOSE g : IsGrammar(g)
  BY DEF Grammar, GrammarOf
<1>3. IsGrammar(CHOOSE g : IsGrammar(g))
  <2> HIDE DEF IsGrammar
  <2> QED BY <1>1
<1> DEFINE f == Grammar
<1>4. IsGrammar(f)
  BY <1>2, <1>3
<1>5. f = [n \in 0 .. MaxLength |-> GrammarOf(f, n)]
  BY <1>4
<1> HIDE DEF f
<1>6. \A n \in 0 .. MaxLength : f[n] = GrammarOf(f, n)
  BY <1>5
<1> QED BY <1>6 DEF f

-----------------------------------------------------------------------------
(***************************************************************************)
(* The members of Grammar[n] are sequences of n characters.                *)
(***************************************************************************)
IsText(n, x) == x \in Seq(Characters) /\ Len(x) = n
Texts(n, X) == \A x \in X : IsText(n, x)

LEMMA TextOfTwo ==
    ASSUME NEW n \in Nat, NEW m \in Nat, NEW s, NEW t, IsText(n, s), IsText(m, t)
    PROVE  IsText(n + m, s \o t)
BY ConcatProperties DEF IsText

LEMMA TextOfOne == ASSUME NEW ch \in Characters PROVE IsText(1, <<ch>>)
BY DEF IsText

LEMMA TextInside ==
    ASSUME NEW n \in Nat, NEW s, IsText(n, s), NEW c \in Characters, NEW e \in Characters
    PROVE  IsText(n + 2, <<c>> \o s \o <<e>>)
<1>1. IsText(1, <<c>>) /\ IsText(1, <<e>>)
  BY TextOfOne
<1>2. IsText(1 + n, <<c>> \o s)
  BY <1>1, TextOfTwo
<1>3. 1 + n \in Nat /\ 1 + n + 1 = n + 2
  OBVIOUS
<1>4. IsText(1 + n + 1, <<c>> \o s \o <<e>>)
  BY <1>1, <1>2, <1>3, TextOfTwo
<1> QED BY <1>3, <1>4

LEMMA IntegerText ==
    ASSUME NEW n \in Nat, NEW x \in Integer(n)
    PROVE  n >= 3 /\ IsText(n, x) /\ \E s : x = <<"i">> \o s \o <<"e">> /\ IsText(n - 2, s)
                                            /\ \A i \in 1 .. n - 2 : s[i] = "1"
<1>1. n >= 3 /\ x \in {<<"i">> \o digits \o <<"e">> : digits \in [1 .. n - 2 -> {"1"}]}
  BY DEF Integer
<1>2. PICK s \in [1 .. n - 2 -> {"1"}] : x = <<"i">> \o s \o <<"e">>
  BY <1>1
<1>3. n - 2 \in Nat
  BY <1>1
<1>4. s \in Seq(Characters) /\ Len(s) = n - 2
  BY <1>3, DigitsAssumption DEF Characters, Marks, AllDigits
<1>5. IsText(n - 2, s)
  BY <1>4 DEF IsText
<1>6. IsText(n - 2 + 2, <<"i">> \o s \o <<"e">>)
  BY <1>3, <1>5, TextInside DEF Characters, Marks
<1>7. n - 2 + 2 = n
  OBVIOUS
<1> QED BY <1>1, <1>2, <1>5, <1>6, <1>7

LEMMA StringText ==
    ASSUME NEW n \in Nat, NEW x \in String(n)
    PROVE  /\ n >= 2 /\ IsText(n, x)
           /\ \E d \in Digits : \E s : x = <<d, ":">> \o s /\ Digit[d] = n - 2 /\ IsText(n - 2, s)
<1> DEFINE D == {c \in Digits : Digit[c] = n - 2}
           Y == [1 .. n - 2 -> Characters]
           IsString(d, s) == x = <<d, ":">> \o s
<1>1. \E d \in D : \E s \in Y : IsString(d, s)
  <2> DEFINE X == {<<d, ":">> \o s : d \in D, s \in Y}
  <2>1. String(n) = X
    BY DEF String
  <2> HIDE DEF D, Y
  <2>2. x \in X => \E d \in D : \E s \in Y : IsString(d, s)
    BY SMTT(30)
  <2> HIDE DEF X
  <2> QED BY <2>1, <2>2
<1>2. PICK d \in D : \E s \in Y : IsString(d, s)
  BY <1>1
<1>3. PICK s \in Y : IsString(d, s)
  BY <1>2
<1>4. d \in Digits /\ Digit[d] = n - 2
  OBVIOUS
<1>5. Digit[d] \in Nat
  BY <1>4, DigitsAssumption DEF Digit, AllDigits, Characters, Marks
<1>6. n - 2 \in Nat /\ 2 + (n - 2) = n
  BY <1>4, <1>5
<1>7. IsText(n - 2, s)
  BY <1>6 DEF IsText
<1>8. IsText(2, <<d, ":">>)
  BY <1>4 DEF IsText, Characters, Marks
<1>9. IsText(2 + (n - 2), <<d, ":">> \o s)
  BY <1>6, <1>7, <1>8, TextOfTwo
<1>10. n >= 2 /\ IsText(n, x)
  BY <1>3, <1>4, <1>5, <1>6, <1>9
<1> QED BY <1>3, <1>4, <1>7, <1>10, Zenon

\* The parts of Grammar[n], as the lemmas above have them.
LEMMA GrammarParts ==
    ASSUME NEW n \in 0 .. MaxLength
    PROVE  /\ n \in Nat
           /\ Grammar[n].value = ValuesOf(Grammar, n)
           /\ Grammar[n].values_ = SequencesOf(Grammar, n)
           /\ Grammar[n].pairs = PairsOf(Grammar, n)
<1>1. Grammar[n] = GrammarOf(Grammar, n) /\ n \in Nat
  BY MaxLengthAssumption, GrammarStep
<1> DEFINE g == Grammar[n]
<1>2. g = GrammarOf(Grammar, n)
  BY <1>1
<1> HIDE DEF g
<1>3. /\ g.value = ValuesOf(Grammar, n)
      /\ g.values_ = SequencesOf(Grammar, n)
      /\ g.pairs = PairsOf(Grammar, n)
  BY <1>2 DEF GrammarOf
<1> QED BY <1>1, <1>3 DEF g

Sized(n) ==
    /\ Texts(n, Grammar[n].value)
    /\ Texts(n, Grammar[n].values_)
    /\ Texts(n, Grammar[n].pairs)

LEMMA PairText ==
    ASSUME NEW n \in Nat, \A m \in 0 .. n - 1 : Sized(m), NEW x, IsPair(Grammar, n, x)
    PROVE  IsText(n, x)
<1>1. PICK l \in 1 .. n : \E k \in String(l) : \E v \in Grammar[n - l].value : x = k \o v
  BY DEF IsPair
<1>2. PICK k \in String(l) : \E v \in Grammar[n - l].value : x = k \o v
  BY <1>1
<1>3. PICK v \in Grammar[n - l].value : x = k \o v
  BY <1>2
<1>4. l \in Nat /\ n - l \in 0 .. n - 1 /\ n - l \in Nat /\ l + (n - l) = n
  OBVIOUS
<1>5. IsText(l, k)
  BY <1>4, StringText
<1>6. IsText(n - l, v)
  BY <1>4 DEF Sized, Texts
<1>7. IsText(l + (n - l), k \o v)
  BY <1>4, <1>5, <1>6, TextOfTwo
<1> QED BY <1>3, <1>4, <1>7

LEMMA GrammarSized == \A n \in 0 .. MaxLength : Sized(n)
<1> DEFINE S == {n \in Nat : n <= MaxLength => Sized(n)}
<1>1. ASSUME NEW n \in Nat, \A m \in 0 .. n - 1 : m \in S PROVE n \in S
  <2>1. SUFFICES ASSUME n <= MaxLength PROVE Sized(n)
    OBVIOUS
  <2>2. n \in 0 .. MaxLength
    BY <2>1, MaxLengthAssumption
  <2>3. \A m \in 0 .. n - 1 : Sized(m)
    BY <1>1, <2>1, MaxLengthAssumption
  <2>4. ASSUME NEW x \in ValuesOf(Grammar, n) PROVE IsText(n, x)
    <3>1. IsValue(Grammar, n, x)
      BY InValues
    <3>2. ASSUME n >= 2, NEW s, s \in Grammar[n - 2].values_ \/ s \in Grammar[n - 2].pairs,
                 NEW c \in {"l", "d"}, x = <<c>> \o s \o <<"e">>
          PROVE  IsText(n, x)
      <4>1. n - 2 \in 0 .. n - 1 /\ n - 2 \in Nat /\ n - 2 + 2 = n
        BY <3>2
      <4>2. IsText(n - 2, s)
        BY <2>3, <3>2, <4>1 DEF Sized, Texts
      <4>3. c \in Characters /\ "e" \in Characters
        BY DEF Characters, Marks
      <4>4. IsText(n - 2 + 2, x)
        BY <3>2, <4>1, <4>2, <4>3, TextInside
      <4> QED BY <4>1, <4>4
    <3>3. x \in Integer(n) => IsText(n, x)
      BY IntegerText
    <3>4. x \in String(n) => IsText(n, x)
      BY StringText
    <3>5. "l" \in {"l", "d"} /\ "d" \in {"l", "d"}
      OBVIOUS
    <3> QED BY <3>1, <3>2, <3>3, <3>4, <3>5, Zenon DEF IsValue
  <2>5. ASSUME NEW x \in SequencesOf(Grammar, n) PROVE IsText(n, x)
    <3>1. IsSequence(Grammar, n, x)
      BY InSequences
    <3>2. ASSUME Splits(Grammar, n, x) PROVE IsText(n, x)
      <4>1. PICK m \in 1 .. n - 1 : \E v \in Grammar[m].value : \E s \in Grammar[n - m].values_ :
                                       x = v \o s
        BY <3>2 DEF Splits
      <4>2. PICK v \in Grammar[m].value : \E s \in Grammar[n - m].values_ : x = v \o s
        BY <4>1
      <4>3. PICK s \in Grammar[n - m].values_ : x = v \o s
        BY <4>2
      <4>4. m \in 0 .. n - 1 /\ n - m \in 0 .. n - 1 /\ m \in Nat /\ n - m \in Nat
            /\ m + (n - m) = n
        OBVIOUS
      <4>5. IsText(m, v) /\ IsText(n - m, s)
        BY <2>3, <4>4 DEF Sized, Texts
      <4>6. IsText(m + (n - m), v \o s)
        BY <4>4, <4>5, TextOfTwo
      <4> QED BY <4>3, <4>4, <4>6
    <3>3. n = 0 /\ x = <<>> => IsText(n, x)
      BY DEF IsText
    <3> QED BY <2>4, <3>1, <3>2, <3>3, Zenon DEF IsSequence
  <2>6. ASSUME NEW x \in PairsOf(Grammar, n) PROVE IsText(n, x)
    <3>1. IsPairs(Grammar, n, x)
      BY InPairs
    <3>2. ASSUME SplitsPair(Grammar, n, x) PROVE IsText(n, x)
      <4>1. PICK m \in 1 .. n : \E p \in PairOf(Grammar, m) : \E s \in Grammar[n - m].pairs :
                                   x = p \o s
        BY <3>2 DEF SplitsPair
      <4>2. PICK p \in PairOf(Grammar, m) : \E s \in Grammar[n - m].pairs : x = p \o s
        BY <4>1
      <4>3. PICK s \in Grammar[n - m].pairs : x = p \o s
        BY <4>2
      <4>4. n - m \in 0 .. n - 1 /\ m \in Nat /\ n - m \in Nat /\ m + (n - m) = n
        OBVIOUS
      <4>5. \A k \in 0 .. m - 1 : Sized(k)
        BY <2>3
      <4>6. IsPair(Grammar, m, p)
        BY <4>4, InPair
      <4>7. IsText(m, p)
        BY <4>4, <4>5, <4>6, PairText
      <4>8. IsText(n - m, s)
        BY <2>3, <4>4 DEF Sized, Texts
      <4>9. IsText(m + (n - m), p \o s)
        BY <4>4, <4>7, <4>8, TextOfTwo
      <4> QED BY <4>3, <4>4, <4>9
    <3>3. n = 0 /\ x = <<>> => IsText(n, x)
      BY DEF IsText
    <3> QED BY <3>1, <3>2, <3>3, Zenon DEF IsPairs
  <2> QED BY <2>2, <2>4, <2>5, <2>6, GrammarParts, Zenon DEF Sized, Texts
<1>2. S = Nat
  <2>1. S \in SUBSET Nat
    OBVIOUS
  <2> HIDE DEF S
  <2> QED BY <1>1, <2>1, NatFromSmaller
<1> QED BY <1>2, MaxLengthAssumption

-----------------------------------------------------------------------------
(***************************************************************************)
(* What the characters from position a to before position b of a text c    *)
(* are: a value, a sequence of values, a string or a sequence of pairs.    *)
(***************************************************************************)
Part(c, a, b) == SubSeq(c, a + 1, b)

Stretch(c, a, b) == a \in Nat /\ b \in Nat /\ a <= b /\ b <= Len(c) /\ b - a <= MaxLength

IsVal(c, a, b)   == Stretch(c, a, b) /\ Part(c, a, b) \in Grammar[b - a].value
AreVals(c, a, b) == Stretch(c, a, b) /\ Part(c, a, b) \in Grammar[b - a].values_
ArePairs(c, a, b) == Stretch(c, a, b) /\ Part(c, a, b) \in Grammar[b - a].pairs
IsStr(c, a, b)   == Stretch(c, a, b) /\ Part(c, a, b) \in String(b - a)

Reads(c, a, b, s) == IsText(b - a, s) /\ \A i \in 1 .. b - a : s[i] = c[a + i]

LEMMA PartText ==
    ASSUME NEW c \in Seq(Characters), NEW a, NEW b, Stretch(c, a, b)
    PROVE  Reads(c, a, b, Part(c, a, b))
<1>1. /\ a \in Nat /\ b \in Nat /\ a <= b /\ b <= Len(c)
      /\ a + 1 \in Int /\ b \in Int /\ b - (a + 1) + 1 = b - a
  BY DEF Stretch
<1>2. \A i \in a + 1 .. b : c[i] \in Characters
  BY <1>1, ElementOfSeq
<1>3. /\ SubSeq(c, a + 1, b) \in Seq(Characters)
      /\ Len(SubSeq(c, a + 1, b)) = IF a + 1 <= b THEN b - (a + 1) + 1 ELSE 0
      /\ \A i \in 1 .. b - (a + 1) + 1 : SubSeq(c, a + 1, b)[i] = c[a + 1 + i - 1]
  BY <1>1, <1>2, SubSeqProperties
<1>4. \A i \in 1 .. b - a : a + 1 + i - 1 = a + i
  BY <1>1
<1> QED BY <1>1, <1>3, <1>4 DEF Part, IsText, Reads

\* Where two parts of a text meet.
Meet(c, a, m, b, s, t) ==
    /\ m \in Nat /\ a <= m /\ m <= b
    /\ Stretch(c, a, m) /\ Stretch(c, m, b)
    /\ s = Part(c, a, m) /\ t = Part(c, m, b)

LEMMA Cut ==
    ASSUME NEW c \in Seq(Characters), NEW a, NEW b, Stretch(c, a, b),
           NEW k \in Nat, NEW l \in Nat, NEW s, NEW t,
           IsText(k, s), IsText(l, t), Part(c, a, b) = s \o t
    PROVE  k + l = b - a /\ Meet(c, a, a + k, b, s, t)
<1>1. a \in Nat /\ b \in Nat /\ a <= b /\ b <= Len(c) /\ b - a <= MaxLength /\ Len(c) \in Nat
  BY DEF Stretch
<1>2. s \in Seq(Characters) /\ t \in Seq(Characters) /\ Len(s) = k /\ Len(t) = l
  BY DEF IsText
<1>3. Reads(c, a, b, s \o t)
  BY PartText
<1>9. IsText(b - a, s \o t) /\ \A i \in 1 .. b - a : (s \o t)[i] = c[a + i]
  BY <1>3 DEF Reads
<1>4. /\ Len(s \o t) = Len(s) + Len(t)
      /\ \A i \in 1 .. Len(s) + Len(t) :
             (s \o t)[i] = IF i <= Len(s) THEN s[i] ELSE t[i - Len(s)]
  BY <1>2, ConcatProperties
<1>5. k + l = b - a
  BY <1>2, <1>9, <1>4 DEF IsText
<1>6. Stretch(c, a, a + k) /\ Stretch(c, a + k, b)
  BY <1>1, <1>5, MaxLengthAssumption DEF Stretch
<1>7. s = Part(c, a, a + k)
  <2>0. Reads(c, a, a + k, Part(c, a, a + k))
    BY <1>6, PartText
  <2>1. IsText((a + k) - a, Part(c, a, a + k))
        /\ \A i \in 1 .. (a + k) - a : Part(c, a, a + k)[i] = c[a + i]
    BY <2>0 DEF Reads
  <2>2. (a + k) - a = k
    BY <1>1
  <2>3. \A i \in 1 .. k : s[i] = c[a + i]
    BY <1>1, <1>2, <1>9, <1>4, <1>5
  <2>4. \A i \in 1 .. Len(s) : s[i] = Part(c, a, a + k)[i]
    BY <1>2, <2>1, <2>2, <2>3
  <2>5. Part(c, a, a + k) \in Seq(Characters) /\ Len(s) = Len(Part(c, a, a + k))
    BY <1>2, <2>1, <2>2 DEF IsText
  <2> QED BY <1>2, <2>4, <2>5, SeqEqual
<1>8. t = Part(c, a + k, b)
  <2>0. Reads(c, a + k, b, Part(c, a + k, b))
    BY <1>6, PartText
  <2>1. IsText(b - (a + k), Part(c, a + k, b))
        /\ \A i \in 1 .. b - (a + k) : Part(c, a + k, b)[i] = c[a + k + i]
    BY <2>0 DEF Reads
  <2>2. b - (a + k) = l
    BY <1>1, <1>5
  <2>3. \A i \in 1 .. l : t[i] = c[a + k + i]
    <3>1. TAKE i \in 1 .. l
    <3>2. k + i \in 1 .. b - a /\ ~(k + i <= k) /\ k + i - k = i /\ a + (k + i) = a + k + i
      BY <1>1, <1>5
    <3>3. (s \o t)[k + i] = c[a + (k + i)]
      BY <1>9, <3>2
    <3>4. (s \o t)[k + i] = t[k + i - k]
      BY <1>2, <1>4, <1>5, <3>2
    <3> QED BY <3>2, <3>3, <3>4
  <2>4. \A i \in 1 .. Len(t) : t[i] = Part(c, a + k, b)[i]
    BY <1>2, <2>1, <2>2, <2>3
  <2>5. Part(c, a + k, b) \in Seq(Characters) /\ Len(t) = Len(Part(c, a + k, b))
    BY <1>2, <2>1, <2>2 DEF IsText
  <2> QED BY <1>2, <2>4, <2>5, SeqEqual
<1> QED BY <1>1, <1>5, <1>6, <1>7, <1>8 DEF Meet

\* A part between two characters.
Between(c, a, b, x, y, s) ==
    /\ a + 2 <= b
    /\ c[a + 1] = x /\ c[b] = y
    /\ Stretch(c, a + 1, b - 1) /\ Part(c, a + 1, b - 1) = s

LEMMA OneCharacter ==
    ASSUME NEW c \in Seq(Characters), NEW a, NEW b, NEW x, Stretch(c, a, b), b = a + 1,
           Part(c, a, b) = <<x>>
    PROVE  c[a + 1] = x
<1>1. Reads(c, a, b, Part(c, a, b))
  BY PartText
<1>2. 1 \in 1 .. b - a
  BY DEF Stretch
<1>3. Part(c, a, b)[1] = c[a + 1]
  BY <1>1, <1>2 DEF Reads
<1> QED BY <1>3

LEMMA CutInside ==
    ASSUME NEW c \in Seq(Characters), NEW a, NEW b, Stretch(c, a, b),
           NEW l \in Nat, NEW s, IsText(l, s), NEW x \in Characters, NEW y \in Characters,
           Part(c, a, b) = <<x>> \o s \o <<y>>
    PROVE  b - a = l + 2 /\ Between(c, a, b, x, y, s)
<1>1. IsText(1, <<x>>) /\ IsText(1, <<y>>)
  BY TextOfOne
<1>2. 1 + l \in Nat /\ IsText(1 + l, <<x>> \o s)
  BY <1>1, TextOfTwo
<1>3. 1 + l + 1 = b - a /\ Meet(c, a, a + (1 + l), b, <<x>> \o s, <<y>>)
  BY <1>1, <1>2, Cut
<1>4. a \in Nat /\ b \in Nat /\ b - a = l + 2 /\ a + (1 + l) = b - 1 /\ b - 1 + 1 = b
      /\ a + 1 = b - 1 - l
  BY <1>3 DEF Stretch
<1>5. Meet(c, a, b - 1, b, <<x>> \o s, <<y>>)
  BY <1>3, <1>4
<1>6. /\ Stretch(c, a, b - 1) /\ Stretch(c, b - 1, b)
      /\ Part(c, a, b - 1) = <<x>> \o s /\ Part(c, b - 1, b) = <<y>>
  BY <1>5 DEF Meet
<1>7. c[b - 1 + 1] = y
  BY <1>4, <1>6, OneCharacter
<1>8. Meet(c, a, a + 1, b - 1, <<x>>, s)
  BY <1>1, <1>6, Cut
<1>9. /\ Stretch(c, a, a + 1) /\ Stretch(c, a + 1, b - 1)
      /\ Part(c, a, a + 1) = <<x>> /\ Part(c, a + 1, b - 1) = s
  BY <1>8 DEF Meet
<1>10. c[a + 1] = x
  BY <1>9, OneCharacter
<1>11. a + 2 <= b
  BY <1>4
<1> QED BY <1>4, <1>7, <1>9, <1>10, <1>11 DEF Between

\* An integer, a list and a dictionary, by their first and last characters.
IsIntAt(c, a, b) ==
    a + 3 <= b /\ c[a + 1] = "i" /\ c[b] = "e" /\ \A i \in a + 2 .. b - 1 : c[i] = "1"
IsListAt(c, a, b) ==
    a + 2 <= b /\ c[a + 1] = "l" /\ c[b] = "e" /\ AreVals(c, a + 1, b - 1)
IsDictAt(c, a, b) ==
    a + 2 <= b /\ c[a + 1] = "d" /\ c[b] = "e" /\ ArePairs(c, a + 1, b - 1)
IsStrAt(c, a, b) ==
    /\ c[a + 1] \in Digits /\ c[a + 2] = ":" /\ a + 2 <= b
    /\ b = a + 2 + Digit[c[a + 1]]

LEMMA IntAt ==
    ASSUME NEW c \in Seq(Characters), NEW a, NEW b, Stretch(c, a, b),
           Part(c, a, b) \in Integer(b - a)
    PROVE  IsIntAt(c, a, b)
<1>1. a \in Nat /\ b \in Nat /\ b - a \in Nat
  BY DEF Stretch
<1>2. b - a >= 3
  BY <1>1, IntegerText
<1>3. PICK s : Part(c, a, b) = <<"i">> \o s \o <<"e">> /\ IsText(b - a - 2, s)
               /\ \A i \in 1 .. b - a - 2 : s[i] = "1"
  BY <1>1, IntegerText
<1>4. b - a - 2 \in Nat
  BY <1>1, <1>2
<1>5. "i" \in Characters /\ "e" \in Characters
  BY DEF Characters, Marks
<1>6. Between(c, a, b, "i", "e", s)
  BY <1>3, <1>4, <1>5, CutInside
<1>7. /\ c[a + 1] = "i" /\ c[b] = "e"
      /\ Stretch(c, a + 1, b - 1) /\ Part(c, a + 1, b - 1) = s
  BY <1>6 DEF Between
<1>8. Reads(c, a + 1, b - 1, s)
  BY <1>7, PartText
<1>9. ASSUME NEW i \in a + 2 .. b - 1 PROVE c[i] = "1"
  <2>1. i - a - 1 \in 1 .. b - 1 - (a + 1) /\ i - a - 1 \in 1 .. b - a - 2
        /\ a + 1 + (i - a - 1) = i
    BY <1>1
  <2>2. s[i - a - 1] = c[a + 1 + (i - a - 1)]
    BY <1>8, <2>1 DEF Reads
  <2> QED BY <1>3, <2>1, <2>2
<1>10. a + 3 <= b
  BY <1>1, <1>2
<1> QED BY <1>7, <1>9, <1>10 DEF IsIntAt

LEMMA StrAt ==
    ASSUME NEW c \in Seq(Characters), NEW a, NEW b, IsStr(c, a, b)
    PROVE  IsStrAt(c, a, b)
<1>1. a \in Nat /\ b \in Nat /\ b - a \in Nat /\ Stretch(c, a, b)
      /\ Part(c, a, b) \in String(b - a)
  BY DEF Stretch, IsStr
<1> DEFINE n == b - a
<1>2. n \in Nat /\ Part(c, a, b) \in String(n)
  BY <1>1
<1>3. n >= 2 /\ \E d \in Digits : \E s : Part(c, a, b) = <<d, ":">> \o s
                                         /\ Digit[d] = n - 2 /\ IsText(n - 2, s)
  <2> HIDE DEF n
  <2> QED BY <1>2, StringText
<1>4. PICK d \in Digits : \E s : Part(c, a, b) = <<d, ":">> \o s
                                   /\ Digit[d] = n - 2 /\ IsText(n - 2, s)
  BY <1>3
<1>5. PICK s : Part(c, a, b) = <<d, ":">> \o s /\ Digit[d] = n - 2 /\ IsText(n - 2, s)
  BY <1>4
<1>6. IsText(2, <<d, ":">>)
  BY DEF IsText, Characters, Marks
<1>7. n - 2 \in Nat
  BY <1>2, <1>3
<1>8. Meet(c, a, a + 2, b, <<d, ":">>, s)
  BY <1>1, <1>5, <1>6, <1>7, Cut
<1>9. Reads(c, a, a + 2, <<d, ":">>)
  BY <1>8, PartText DEF Meet
<1>10. 1 \in 1 .. a + 2 - a /\ 2 \in 1 .. a + 2 - a
  BY <1>1
<1>11. <<d, ":">>[1] = c[a + 1] /\ <<d, ":">>[2] = c[a + 2]
  BY <1>1, <1>9 DEF Reads
<1>12. c[a + 1] = d /\ c[a + 2] = ":"
  BY <1>11
<1>13. Digit[d] = n - 2 /\ n >= 2
  BY <1>3, <1>5
<1>14. a + 2 <= b /\ b = a + 2 + Digit[d]
  BY <1>1, <1>13
<1> QED BY <1>12, <1>14 DEF IsStrAt

IsValAt(c, a, b) ==
    \/ IsIntAt(c, a, b) \/ IsStr(c, a, b) \/ IsListAt(c, a, b) \/ IsDictAt(c, a, b)

\* The readers of B code tell what begins by its first character, and where it
\* ends by its first characters or its last: this is so for every value.
THEOREM ValAt ==
    ASSUME NEW c \in Seq(Characters), NEW a, NEW b, IsVal(c, a, b)
    PROVE  IsValAt(c, a, b)
<1> DEFINE n == b - a
           x == Part(c, a, b)
<1>1. a \in Nat /\ b \in Nat /\ n \in 0 .. MaxLength /\ n \in Nat /\ Stretch(c, a, b)
      /\ x \in Grammar[n].value
  BY DEF Stretch, IsVal
<1>2. IsValue(Grammar, n, x)
  <2> HIDE DEF n, x
  <2>1. x \in ValuesOf(Grammar, n)
    BY <1>1, GrammarParts
  <2> QED BY <1>1, <2>1, InValues
<1>3. ASSUME n >= 2, NEW s, NEW f \in {"l", "d"}, x = <<f>> \o s \o <<"e">>,
             s \in Grammar[n - 2].values_ \/ s \in Grammar[n - 2].pairs
      PROVE  Between(c, a, b, f, "e", s) /\ (b - 1) - (a + 1) = n - 2
  <2>1. n - 2 \in 0 .. MaxLength /\ n - 2 \in Nat /\ (b - 1) - (a + 1) = n - 2
    BY <1>1, <1>3, MaxLengthAssumption
  <2>2. Sized(n - 2)
    BY <2>1, GrammarSized
  <2>3. IsText(n - 2, s)
    BY <1>3, <2>2 DEF Sized, Texts
  <2>4. f \in Characters /\ "e" \in Characters
    BY DEF Characters, Marks
  <2>5. Between(c, a, b, f, "e", s)
    BY <1>1, <1>3, <2>1, <2>3, <2>4, CutInside
  <2> QED BY <2>1, <2>5
<1>4. CASE x \in Integer(n)
  BY <1>1, <1>4, IntAt DEF IsValAt
<1>5. CASE x \in String(n)
  <2>1. IsStr(c, a, b)
    BY <1>1, <1>5 DEF IsStr
  <2> QED BY <2>1 DEF IsValAt
<1>6. CASE n >= 2 /\ \E s \in Grammar[n - 2].values_ : x = <<"l">> \o s \o <<"e">>
  <2>1. PICK s \in Grammar[n - 2].values_ : x = <<"l">> \o s \o <<"e">>
    BY <1>6
  <2>2. Between(c, a, b, "l", "e", s) /\ (b - 1) - (a + 1) = n - 2
    BY <1>3, <1>6, <2>1
  <2>3. IsListAt(c, a, b)
    BY <2>2 DEF Between, IsListAt, AreVals
  <2> QED BY <2>3 DEF IsValAt
<1>7. CASE n >= 2 /\ \E s \in Grammar[n - 2].pairs : x = <<"d">> \o s \o <<"e">>
  <2>1. PICK s \in Grammar[n - 2].pairs : x = <<"d">> \o s \o <<"e">>
    BY <1>7
  <2>2. Between(c, a, b, "d", "e", s) /\ (b - 1) - (a + 1) = n - 2
    BY <1>3, <1>7, <2>1
  <2>3. IsDictAt(c, a, b)
    BY <2>2 DEF Between, IsDictAt, ArePairs
  <2> QED BY <2>3 DEF IsValAt
<1> HIDE DEF n, x
<1> QED BY <1>2, <1>4, <1>5, <1>6, <1>7, Zenon DEF IsValue

LEMMA ValIsLong ==
    ASSUME NEW c \in Seq(Characters), NEW a, NEW b, IsVal(c, a, b)
    PROVE  a + 2 <= b
<1>1. IsValAt(c, a, b) /\ a \in Nat /\ b \in Nat
  BY ValAt DEF IsVal, Stretch
<1>2. IsStr(c, a, b) => IsStrAt(c, a, b)
  BY StrAt
<1> QED BY <1>1, <1>2 DEF IsValAt, IsIntAt, IsStrAt, IsListAt, IsDictAt

LEMMA NoVals ==
    ASSUME NEW c \in Seq(Characters), NEW a \in Nat, a <= Len(c)
    PROVE  AreVals(c, a, a)
<1>1. Stretch(c, a, a) /\ a - a = 0 /\ Len(c) \in Nat
  BY MaxLengthAssumption DEF Stretch
<1>2. Part(c, a, a) = <<>>
  BY <1>1, SubSeqEmpty DEF Part
<1>3. <<>> \in Grammar[0].values_
  <2>1. 0 \in 0 .. MaxLength
    BY MaxLengthAssumption
  <2>2. IsSequence(Grammar, 0, <<>>)
    BY DEF IsSequence
  <2>3. <<>> \in SequencesOf(Grammar, 0)
    BY <2>2, InSequences
  <2> QED BY <2>1, <2>3, GrammarParts
<1> QED BY <1>1, <1>2, <1>3 DEF AreVals

\* A sequence of values is empty, or begins with a value and goes on with the
\* rest; one of pairs begins with a key and its value.
BeginsWithValue(c, a, b) == \E m \in Nat : IsVal(c, a, m) /\ AreVals(c, m, b)
BeginsWithPair(c, a, b) ==
    \E m1 \in Nat : \E m2 \in Nat : IsStr(c, a, m1) /\ IsVal(c, m1, m2) /\ ArePairs(c, m2, b)

LEMMA ValuesBegin ==
    ASSUME NEW c \in Seq(Characters), NEW a, NEW b, AreVals(c, a, b), a < b
    PROVE  BeginsWithValue(c, a, b)
<1> DEFINE n == b - a
           x == Part(c, a, b)
<1>1. a \in Nat /\ b \in Nat /\ n \in 0 .. MaxLength /\ n \in Nat /\ n # 0 /\ Stretch(c, a, b)
      /\ x \in Grammar[n].values_
  BY DEF Stretch, AreVals
<1>2. IsSequence(Grammar, n, x)
  <2> HIDE DEF n, x
  <2>1. x \in SequencesOf(Grammar, n)
    BY <1>1, GrammarParts
  <2> QED BY <1>1, <2>1, InSequences
<1>3. CASE x \in ValuesOf(Grammar, n)
  <2>1. x \in Grammar[n].value
    <3> HIDE DEF n, x
    <3> QED BY <1>1, <1>3, GrammarParts
  <2>2. IsVal(c, a, b)
    BY <1>1, <2>1 DEF IsVal
  <2>3. AreVals(c, b, b)
    BY <1>1, NoVals DEF Stretch
  <2> QED BY <1>1, <2>2, <2>3 DEF BeginsWithValue
<1>4. CASE Splits(Grammar, n, x)
  <2>1. PICK k \in 1 .. n - 1 : \E v \in Grammar[k].value : \E s \in Grammar[n - k].values_ :
                                   x = v \o s
    BY <1>4 DEF Splits
  <2>2. PICK v \in Grammar[k].value : \E s \in Grammar[n - k].values_ : x = v \o s
    BY <2>1
  <2>3. PICK s \in Grammar[n - k].values_ : x = v \o s
    BY <2>2
  <2>4. k \in 0 .. MaxLength /\ n - k \in 0 .. MaxLength /\ k \in Nat /\ n - k \in Nat
    BY <1>1, MaxLengthAssumption
  <2>5. IsText(k, v) /\ IsText(n - k, s)
    BY <2>4, GrammarSized DEF Sized, Texts
  <2>6. Meet(c, a, a + k, b, v, s)
    BY <1>1, <2>3, <2>4, <2>5, Cut
  <2>7. a + k \in Nat /\ (a + k) - a = k /\ b - (a + k) = n - k
    BY <1>1
  <2>8. IsVal(c, a, a + k) /\ AreVals(c, a + k, b)
    BY <2>2, <2>3, <2>6, <2>7 DEF Meet, IsVal, AreVals
  <2> QED BY <2>7, <2>8 DEF BeginsWithValue
<1> QED BY <1>1, <1>2, <1>3, <1>4 DEF IsSequence

LEMMA PairsBegin ==
    ASSUME NEW c \in Seq(Characters), NEW a, NEW b, ArePairs(c, a, b), a < b
    PROVE  BeginsWithPair(c, a, b)
<1> DEFINE n == b - a
           x == Part(c, a, b)
<1>1. a \in Nat /\ b \in Nat /\ n \in 0 .. MaxLength /\ n \in Nat /\ n # 0 /\ Stretch(c, a, b)
      /\ x \in Grammar[n].pairs
  BY DEF Stretch, ArePairs
<1>2. IsPairs(Grammar, n, x)
  <2> HIDE DEF n, x
  <2>1. x \in PairsOf(Grammar, n)
    BY <1>1, GrammarParts
  <2> QED BY <1>1, <2>1, InPairs
<1>3. SplitsPair(Grammar, n, x)
  BY <1>1, <1>2 DEF IsPairs
<1>4. PICK j \in 1 .. n : \E p \in PairOf(Grammar, j) : \E s \in Grammar[n - j].pairs : x = p \o s
  BY <1>3 DEF SplitsPair
<1>5. PICK p \in PairOf(Grammar, j) : \E s \in Grammar[n - j].pairs : x = p \o s
  BY <1>4
<1>6. PICK s \in Grammar[n - j].pairs : x = p \o s
  BY <1>5
<1>7. j \in Nat /\ j <= n /\ n - j \in 0 .. MaxLength /\ n - j \in Nat
      /\ \A i \in 0 .. j : i \in 0 .. MaxLength
  BY <1>1, MaxLengthAssumption
<1>8. IsPair(Grammar, j, p)
  BY <1>7, InPair
<1>9. IsText(j, p) /\ IsText(n - j, s)
  <2>1. \A i \in 0 .. j - 1 : Sized(i)
    BY <1>7, GrammarSized
  <2> QED BY <1>7, <1>8, <2>1, PairText, GrammarSized DEF Sized, Texts
<1>10. Meet(c, a, a + j, b, p, s)
  BY <1>1, <1>6, <1>7, <1>9, Cut
<1>11. PICK l \in 1 .. j : \E k \in String(l) : \E v \in Grammar[j - l].value : p = k \o v
  BY <1>8 DEF IsPair
<1>12. PICK k \in String(l) : \E v \in Grammar[j - l].value : p = k \o v
  BY <1>11
<1>13. PICK v \in Grammar[j - l].value : p = k \o v
  BY <1>12
<1>14. l \in Nat /\ j - l \in Nat /\ j - l \in 0 .. MaxLength
  BY <1>7
<1>15. IsText(l, k) /\ IsText(j - l, v)
  BY <1>14, StringText, GrammarSized DEF Sized, Texts
<1>16. Stretch(c, a, a + j) /\ Part(c, a, a + j) = p /\ Stretch(c, a + j, b)
       /\ Part(c, a + j, b) = s
  BY <1>10 DEF Meet
<1>17. Meet(c, a, a + l, a + j, k, v)
  BY <1>13, <1>14, <1>15, <1>16, Cut
<1>18. a + l \in Nat /\ a + j \in Nat /\ (a + l) - a = l /\ (a + j) - (a + l) = j - l
       /\ b - (a + j) = n - j
  BY <1>1, <1>7
<1>19. IsStr(c, a, a + l) /\ IsVal(c, a + l, a + j)
  BY <1>17, <1>18 DEF Meet, IsStr, IsVal
<1>20. ArePairs(c, a + j, b)
  BY <1>16, <1>18 DEF ArePairs
<1> QED BY <1>18, <1>19, <1>20 DEF BeginsWithPair

-----------------------------------------------------------------------------
(***************************************************************************)
(* Values in a row, and the pairs of a dictionary as such.                 *)
(***************************************************************************)
LEMMA StrIsVal ==
    ASSUME NEW c \in Seq(Characters), NEW a, NEW b, IsStr(c, a, b)
    PROVE  IsVal(c, a, b)
<1> DEFINE n == b - a
           x == Part(c, a, b)
<1>1. n \in 0 .. MaxLength /\ n \in Nat /\ Stretch(c, a, b) /\ x \in String(n)
  BY DEF IsStr, Stretch
<1>2. x \in Grammar[n].value
  <2> HIDE DEF n, x
  <2>1. IsValue(Grammar, n, x)
    BY <1>1 DEF IsValue
  <2>2. x \in ValuesOf(Grammar, n)
    BY <1>1, <2>1, InValues
  <2> QED BY <1>1, <2>2, GrammarParts
<1> QED BY <1>1, <1>2 DEF IsVal

\* Two parts of a text that meet, together.
LEMMA PartsMeet ==
    ASSUME NEW c \in Seq(Characters), NEW a, NEW m, NEW b, Stretch(c, a, b),
           Stretch(c, a, m), Stretch(c, m, b)
    PROVE  Part(c, a, b) = Part(c, a, m) \o Part(c, m, b)
<1> DEFINE s == Part(c, a, m)
           t == Part(c, m, b)
           x == Part(c, a, b)
<1>1. a \in Nat /\ m \in Nat /\ b \in Nat /\ a <= m /\ m <= b
  BY DEF Stretch
<1>2. Reads(c, a, m, s) /\ Reads(c, m, b, t) /\ Reads(c, a, b, x)
  BY PartText
<1> HIDE DEF s, t, x
<1>3. /\ s \in Seq(Characters) /\ Len(s) = m - a
      /\ t \in Seq(Characters) /\ Len(t) = b - m
      /\ x \in Seq(Characters) /\ Len(x) = b - a
  BY ONLY <1>2 DEF Reads, IsText
<1>4. s \o t \in Seq(Characters) /\ Len(s \o t) = b - a
  <2>1. s \o t \in Seq(Characters) /\ Len(s \o t) = Len(s) + Len(t)
    BY ONLY <1>3, ConcatProperties
  <2> QED BY ONLY <1>1, <1>3, <2>1
<1>5. ASSUME NEW i \in 1 .. b - a PROVE x[i] = (s \o t)[i]
  <2>1. x[i] = c[a + i]
    BY ONLY <1>2 DEF Reads
  <2>2. CASE i <= m - a
    <3>1. i \in 1 .. m - a /\ (s \o t)[i] = s[i]
      BY ONLY <1>1, <1>3, <2>2, ConcatProperties
    <3>2. s[i] = c[a + i]
      BY ONLY <1>2, <3>1 DEF Reads
    <3> QED BY <2>1, <3>1, <3>2
  <2>3. CASE ~(i <= m - a)
    <3> DEFINE j == i - (m - a)
    <3>1. j \in 1 .. b - m /\ m + j = a + i
      BY ONLY <1>1, <2>3
    <3>2. (s \o t)[i] = t[j]
      BY ONLY <1>1, <1>3, <2>3, ConcatProperties
    <3> HIDE DEF j
    <3>3. t[j] = c[m + j]
      BY ONLY <1>2, <3>1 DEF Reads
    <3> QED BY <2>1, <3>1, <3>2, <3>3
  <2> QED BY <2>2, <2>3
<1>6. x = s \o t
  BY ONLY <1>3, <1>4, <1>5, SeqEqual
<1> QED BY <1>6 DEF s, t, x

\* A value before a sequence of values makes a longer one.
LEMMA ValuesGrow ==
    ASSUME NEW c \in Seq(Characters), NEW a, NEW m, NEW b,
           IsVal(c, a, m), AreVals(c, m, b), b - a <= MaxLength
    PROVE  AreVals(c, a, b)
<1> DEFINE n == b - a
           k == m - a
           x == Part(c, a, b)
           v == Part(c, a, m)
           s == Part(c, m, b)
<1>1. a \in Nat /\ m \in Nat /\ b \in Nat /\ a < m /\ m <= b /\ b <= Len(c)
      /\ Stretch(c, a, m) /\ Stretch(c, m, b)
  BY ValIsLong DEF IsVal, AreVals, Stretch
<1>2. Stretch(c, a, b)
  BY <1>1 DEF Stretch
<1>3. v \in Grammar[k].value /\ s \in Grammar[b - m].values_
  BY DEF IsVal, AreVals
<1>4. n \in 0 .. MaxLength /\ n \in Nat /\ n # 0 /\ b - m = n - k
  BY ONLY <1>1, b - a <= MaxLength, MaxLengthAssumption
<1>5. IsSequence(Grammar, n, x)
  <2>1. CASE m = b
    <3>1. x = v /\ k = n
      BY <2>1
    <3> HIDE DEF n, k, x, v
    <3>2. x \in ValuesOf(Grammar, n)
      BY <1>3, <1>4, <3>1, GrammarParts
    <3> QED BY <1>4, <3>2 DEF IsSequence
  <2>2. CASE m # b
    <3>1. x = v \o s
      BY <1>1, <1>2, PartsMeet
    <3>2. k \in 1 .. n - 1
      BY <1>1, <2>2
    <3> HIDE DEF n, k, x, v, s
    <3>3. Splits(Grammar, n, x)
      BY <1>3, <1>4, <3>1, <3>2 DEF Splits
    <3> QED BY <1>4, <3>3 DEF IsSequence
  <2> QED BY <2>1, <2>2
<1>6. x \in Grammar[n].values_
  <2> HIDE DEF n, x
  <2>1. x \in SequencesOf(Grammar, n)
    BY <1>4, <1>5, InSequences
  <2> QED BY <1>4, <2>1, GrammarParts
<1> QED BY <1>2, <1>6 DEF AreVals

\* The keys and values of a dictionary are values one after the other.
LEMMA PairsAreValues ==
    ASSUME NEW c \in Seq(Characters), NEW a, NEW b, ArePairs(c, a, b)
    PROVE  AreVals(c, a, b)
<1> DEFINE Are(n) == \A x, y \in Nat : y - x = n /\ ArePairs(c, x, y) => AreVals(c, x, y)
           S == {n \in Nat : Are(n)}
<1>1. ASSUME NEW n \in Nat, \A m \in 0 .. n - 1 : m \in S PROVE n \in S
  <2> SUFFICES ASSUME NEW x \in Nat, NEW y \in Nat, y - x = n, ArePairs(c, x, y)
               PROVE  AreVals(c, x, y)
    OBVIOUS
  <2>1. x <= y /\ y <= Len(c) /\ y - x <= MaxLength /\ Stretch(c, x, y)
    BY DEF ArePairs, Stretch
  <2>2. CASE x = y
    BY <2>1, <2>2, NoVals
  <2>3. CASE x # y
    <3>1. PICK m1 \in Nat : \E m2 \in Nat : IsStr(c, x, m1) /\ IsVal(c, m1, m2) /\ ArePairs(c, m2, y)
      BY <2>1, <2>3, PairsBegin DEF BeginsWithPair
    <3>2. PICK m2 \in Nat : IsStr(c, x, m1) /\ IsVal(c, m1, m2) /\ ArePairs(c, m2, y)
      BY <3>1
    <3>3. IsVal(c, x, m1)
      BY <3>2, StrIsVal
    <3>4. x + 2 <= m1 /\ m1 + 2 <= m2
      BY <3>2, <3>3, ValIsLong
    <3>5. m2 <= y
      BY <3>2 DEF ArePairs, Stretch
    <3>6. y - m2 \in 0 .. n - 1
      BY ONLY <3>4, <3>5, y - x = n
    <3>7. AreVals(c, m2, y)
      <4>1. Are(y - m2)
        BY <1>1, <3>6
      <4> QED BY <3>2, <4>1
    <3>8. y - m1 <= MaxLength
      BY ONLY <2>1, <3>4, MaxLengthAssumption
    <3>9. AreVals(c, m1, y)
      BY <3>2, <3>7, <3>8, ValuesGrow
    <3> QED BY <2>1, <3>3, <3>9, ValuesGrow
  <2> QED BY <2>2, <2>3
<1>2. S = Nat
  <2>1. S \in SUBSET Nat
    OBVIOUS
  <2> HIDE DEF S
  <2> QED BY ONLY <1>1, <2>1, NatFromSmaller
<1>3. a \in Nat /\ b \in Nat /\ b - a \in Nat
  BY DEF ArePairs, Stretch
<1>4. Are(b - a)
  BY <1>2, <1>3
<1> QED BY <1>3, <1>4

-----------------------------------------------------------------------------
(***************************************************************************)
(* Numbers that wrap.                                                      *)
(***************************************************************************)
LEMMA Division ==
    ASSUME NEW a \in Int, NEW L \in Nat \ {0}
    PROVE  a = L * (a \div L) + (a % L) /\ a \div L \in Int /\ a % L \in 0 .. L - 1
OBVIOUS

LEMMA Remainder ==
    ASSUME NEW L \in Nat \ {0}, NEW q \in Int, NEW r \in 0 .. L - 1
    PROVE  (L * q + r) % L = r
OBVIOUS

=============================================================================
