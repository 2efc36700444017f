--------------------------- MODULE MetafileProofs --------------------------
(***************************************************************************)
(* Proofs about Metafile.  For contents of any length: what get_info_hash  *)
(* hashes is one value, from its first character to its last.  For every   *)
(* metafile: the search for a key finds it, main hashes the value of info, *)
(* and reads the trackers and the files that the metafile names.           *)
(***************************************************************************)
EXTENDS Metafile, BencodeProofs

-----------------------------------------------------------------------------
(***************************************************************************)
(* Open values.  The scan counts them, and e has the places of their ends, *)
(* the innermost last; p is where the scan is, n behind the outermost one. *)
(* Between p and the innermost end, and between each end and the next, are *)
(* only whole values.                                                      *)
(***************************************************************************)
From(p, d, e, k) == IF k = d THEN p ELSE e[k + 1] + 1

IsEnd(c, q) == q < Len(c) /\ c[q + 1] = "e"

Nest(c, p, d, n, e) ==
    /\ e[1] + 1 = n
    /\ \A k \in 1 .. d : AreVals(c, From(p, d, e, k), e[k]) /\ IsEnd(c, e[k])

Nested(c, p, d, n) == d \in Nat \ {0} /\ \E e \in [1 .. d -> Nat] : Nest(c, p, d, n, e)

\* A list or a dictionary from p to before m.
Opens(c, p, m) ==
    p + 2 <= m /\ c[p + 1] \in {"l", "d"} /\ IsEnd(c, m - 1) /\ AreVals(c, p + 1, m - 1)

\* What the scan has before it.
Ahead(c, p, q) ==
    \E m \in Nat : AreVals(c, m, q) /\ (IsIntAt(c, p, m) \/ IsStrAt(c, p, m) \/ Opens(c, p, m))

LEMMA ValOpens ==
    ASSUME NEW c \in Seq(Characters), NEW p, NEW m, IsVal(c, p, m)
    PROVE  IsIntAt(c, p, m) \/ IsStrAt(c, p, m) \/ Opens(c, p, m)
<1>1. IsValAt(c, p, m) /\ p \in Nat /\ m \in Nat /\ m <= Len(c) /\ p + 2 <= m
  BY ValAt, ValIsLong DEF IsVal, Stretch
<1>2. IsStr(c, p, m) => IsStrAt(c, p, m)
  BY StrAt
<1>3. ASSUME NEW ch \in {"l", "d"}, c[p + 1] = ch, c[m] = "e", AreVals(c, p + 1, m - 1)
      PROVE  Opens(c, p, m)
  <2>1. m - 1 < Len(c) /\ c[m - 1 + 1] = "e"
    BY <1>1, <1>3
  <2> QED BY <1>1, <1>3, <2>1 DEF Opens, IsEnd
<1>4. IsListAt(c, p, m) => Opens(c, p, m)
  BY <1>3 DEF IsListAt
<1>5. IsDictAt(c, p, m) => Opens(c, p, m)
  BY <1>3, PairsAreValues DEF IsDictAt
<1> QED BY <1>1, <1>2, <1>4, <1>5 DEF IsValAt

LEMMA AheadIs ==
    ASSUME NEW c \in Seq(Characters), NEW p, NEW q, AreVals(c, p, q), IsEnd(c, q)
    PROVE  /\ p \in Nat /\ q \in Nat /\ p <= q /\ q < Len(c)
           /\ IF p = q THEN c[p + 1] = "e" ELSE Ahead(c, p, q)
<1>1. p \in Nat /\ q \in Nat /\ p <= q /\ q < Len(c)
  BY DEF AreVals, Stretch, IsEnd
<1>2. CASE p = q
  BY <1>1, <1>2 DEF IsEnd
<1>3. CASE p # q
  <2>1. PICK m \in Nat : IsVal(c, p, m) /\ AreVals(c, m, q)
    BY <1>1, <1>3, ValuesBegin DEF BeginsWithValue
  <2> QED BY <1>1, <1>3, <2>1, ValOpens DEF Ahead
<1> QED BY <1>1, <1>2, <1>3

\* The scan goes on behind a value.
LEMMA NestMoves ==
    ASSUME NEW c, NEW p, NEW d \in Nat \ {0}, NEW n, NEW e \in [1 .. d -> Nat],
           Nest(c, p, d, n, e), NEW m, AreVals(c, m, e[d])
    PROVE  Nested(c, m, d, n)
<1>1. ASSUME NEW k \in 1 .. d PROVE AreVals(c, From(m, d, e, k), e[k])
  BY DEF Nest, From
<1>2. Nest(c, m, d, n, e)
  BY <1>1 DEF Nest
<1> QED BY <1>2 DEF Nested

\* It goes into a list or dictionary.
LEMMA NestOpens ==
    ASSUME NEW c, NEW p \in Nat, NEW d \in Nat \ {0}, NEW n, NEW e \in [1 .. d -> Nat],
           Nest(c, p, d, n, e), NEW m \in Nat, AreVals(c, m, e[d]), Opens(c, p, m)
    PROVE  Nested(c, p + 1, d + 1, n)
<1> DEFINE g == [k \in 1 .. d + 1 |-> IF k = d + 1 THEN m - 1 ELSE e[k]]
<1>1. m - 1 \in Nat
  BY DEF Opens
<1>2. /\ g \in [1 .. d + 1 -> Nat] /\ g[d + 1] = m - 1
      /\ \A k \in 1 .. d : g[k] = e[k]
  BY <1>1
<1> HIDE DEF g
<1>3. g[1] + 1 = n
  BY <1>2 DEF Nest
<1>4. ASSUME NEW k \in 1 .. d + 1
      PROVE  AreVals(c, From(p + 1, d + 1, g, k), g[k]) /\ IsEnd(c, g[k])
  <2>1. CASE k = d + 1
    BY <1>2, <2>1 DEF From, Opens
  <2>2. CASE k = d
    <3>1. From(p + 1, d + 1, g, k) = m
      BY <1>2, <2>2 DEF From
    <3>2. g[k] = e[d] /\ IsEnd(c, e[d])
      BY <1>2, <2>2 DEF Nest
    <3> QED BY <3>1, <3>2
  <2>3. CASE k < d
    <3>1. k \in 1 .. d /\ k + 1 \in 1 .. d /\ k # d /\ k # d + 1
      BY <2>3
    <3>2. From(p + 1, d + 1, g, k) = From(p, d, e, k) /\ g[k] = e[k]
      BY <1>2, <3>1 DEF From
    <3> QED BY <3>1, <3>2 DEF Nest
  <2> QED BY <2>1, <2>2, <2>3
<1>5. Nest(c, p + 1, d + 1, n, g)
  BY <1>3, <1>4 DEF Nest
<1>6. d + 1 \in Nat \ {0}
  OBVIOUS
<1> QED BY <1>2, <1>5, <1>6 DEF Nested

\* It leaves the innermost one, which is not the outermost.
LEMMA NestCloses ==
    ASSUME NEW c, NEW d \in Nat \ {0}, NEW n, NEW e \in [1 .. d -> Nat],
           Nest(c, e[d], d, n, e), d # 1
    PROVE  Nested(c, e[d] + 1, d - 1, n)
<1> DEFINE g == [k \in 1 .. d - 1 |-> e[k]]
<1>1. /\ d - 1 \in Nat \ {0} /\ d - 1 + 1 = d /\ 1 \in 1 .. d - 1
      /\ g \in [1 .. d - 1 -> Nat] /\ \A k \in 1 .. d - 1 : g[k] = e[k]
  OBVIOUS
<1> HIDE DEF g
<1>2. ASSUME NEW k \in 1 .. d - 1
      PROVE  AreVals(c, From(e[d] + 1, d - 1, g, k), g[k]) /\ IsEnd(c, g[k])
  <2>1. k \in 1 .. d /\ k # d /\ (k # d - 1 => k + 1 \in 1 .. d - 1)
    OBVIOUS
  <2>2. From(e[d] + 1, d - 1, g, k) = From(e[d], d, e, k)
    BY <1>1, <2>1 DEF From
  <2> QED BY <1>1, <2>1, <2>2 DEF Nest
<1>3. g[1] + 1 = n
  BY <1>1 DEF Nest
<1>4. Nest(c, e[d] + 1, d - 1, n, g)
  BY <1>2, <1>3 DEF Nest
<1> QED BY <1>1, <1>4 DEF Nested

-----------------------------------------------------------------------------
(***************************************************************************)
(* What the functions of the scan find.                                    *)
(***************************************************************************)
LEMMA HashAt ==
    ASSUME content \in Seq(Characters), NEW c \in Nat
    PROVE  /\ Len(content) \in Nat /\ Hash!filesize = Len(content) + 1
           /\ c < Len(content) => Hash!At(c) = content[c + 1] /\ Hash!At(c) \in Characters
<1>1. c < Len(content) => c + 1 \in 1 .. Len(content)
  OBVIOUS
<1>2. c < Len(content) => content[c + 1] \in Characters
  BY <1>1, ElementOfSeq
<1> QED BY <1>2 DEF Hash!At, Hash!filesize

\* The end of an integer.
LEMMA IntIsSkipped ==
    ASSUME content \in Seq(Characters), NEW p \in Nat, NEW m \in Nat, m <= Len(content),
           IsIntAt(content, p, m)
    PROVE  Hash!SkipTo("e", p + 1) = m - 1
<1> DEFINE IsFirst(x) == /\ x = Hash!filesize \/ Hash!At(x) = "e"
                         /\ \A q \in p + 1 .. x - 1 : Hash!At(q) # "e"
<1>1. Len(content) \in Nat /\ Hash!filesize = Len(content) + 1
  BY HashAt
<1>2. p + 3 <= m /\ content[m] = "e" /\ \A q \in p + 2 .. m - 1 : content[q] = "1"
  BY DEF IsIntAt
<1>3. Hash!At(m - 1) = "e"
  <2>1. m - 1 \in Nat /\ m - 1 < Len(content) /\ m - 1 + 1 = m
    BY <1>1, <1>2
  <2> QED BY <1>2, <2>1, HashAt
<1>4. ASSUME NEW q \in p + 1 .. m - 2 PROVE Hash!At(q) = "1"
  <2>1. q \in Nat /\ q < Len(content) /\ q + 1 \in p + 2 .. m - 1
    BY <1>1, <1>2
  <2> QED BY <1>2, <2>1, HashAt
<1>5. m - 1 \in p + 1 .. Hash!filesize /\ m - 1 - 1 = m - 2
  BY <1>1, <1>2
<1>6. IsFirst(m - 1)
  BY <1>3, <1>4, <1>5
<1>7. ASSUME NEW x \in p + 1 .. Hash!filesize, IsFirst(x) PROVE x = m - 1
  <2>1. ~(x < m - 1)
    <3> SUFFICES ASSUME x < m - 1 PROVE FALSE
      OBVIOUS
    <3>1. x \in p + 1 .. m - 2 /\ x # Hash!filesize
      BY <1>1
    <3> QED BY <1>4, <1>7, <3>1
  <2>2. ~(m - 1 < x)
    <3> SUFFICES ASSUME m - 1 < x PROVE FALSE
      OBVIOUS
    <3>1. m - 1 \in p + 1 .. x - 1
      BY <1>1, <1>2
    <3> QED BY <1>3, <1>7, <3>1
  <2> QED BY <1>1, <2>1, <2>2
<1>8. Hash!SkipTo("e", p + 1) = CHOOSE x \in p + 1 .. Hash!filesize : IsFirst(x)
  BY DEF Hash!SkipTo
<1> HIDE DEF IsFirst
<1> QED BY <1>5, <1>6, <1>7, <1>8

\* The end of the digits of a string's length, and the length.
LEMMA DigitIsSkipped ==
    ASSUME content \in Seq(Characters), NEW p \in Nat, p + 1 < Len(content),
           content[p + 1] \in Digits, content[p + 2] = ":"
    PROVE  Hash!SkipWhile(Digits, p) = p + 1
<1> DEFINE IsFirst(x) == /\ x = Hash!filesize \/ Hash!At(x) \notin Digits
                         /\ \A q \in p .. x - 1 : Hash!At(q) \in Digits
<1>1. Len(content) \in Nat /\ Hash!filesize = Len(content) + 1
  BY HashAt
<1>2. Hash!At(p) \in Digits
  BY <1>1, HashAt
<1>3. Hash!At(p + 1) \notin Digits
  <2>1. p + 1 \in Nat /\ p + 1 + 1 = p + 2
    OBVIOUS
  <2>2. Hash!At(p + 1) = ":"
    BY <2>1, HashAt
  <2> QED BY <2>2, DigitsAssumption DEF AllDigits
<1>4. p + 1 \in p .. Hash!filesize /\ p .. p + 1 - 1 = {p}
  BY <1>1
<1>5. IsFirst(p + 1)
  BY <1>2, <1>3, <1>4
<1>6. ASSUME NEW x \in p .. Hash!filesize, IsFirst(x) PROVE x = p + 1
  <2>1. x # p
    BY <1>1, <1>2, <1>6
  <2>2. ~(p + 1 < x)
    <3> SUFFICES ASSUME p + 1 < x PROVE FALSE
      OBVIOUS
    <3>1. p + 1 \in p .. x - 1
      BY <1>1
    <3> QED BY <1>3, <1>6, <3>1
  <2> QED BY <1>1, <2>1, <2>2
<1>7. Hash!SkipWhile(Digits, p) = CHOOSE x \in p .. Hash!filesize : IsFirst(x)
  BY DEF Hash!SkipWhile
<1> HIDE DEF IsFirst
<1> QED BY <1>4, <1>5, <1>6, <1>7

\* The format is the one that InfoHash reads.
LEMMA SameFormat ==
    Hash!Characters = Characters /\ Hash!Digit = Digit /\ Hash!Values = Values
<1>1. Hash!Characters = Characters
  BY DEF Hash!Characters, Hash!Marks, Characters, Marks
<1>2. Hash!Digit = Digit
  BY DEF Hash!Digit, Digit, Hash!AllDigits, AllDigits, Hash!Marks, Marks
<1>3. ASSUME NEW n PROVE Hash!String(n) = String(n) /\ Hash!Integer(n) = Integer(n)
  BY <1>1, <1>2 DEF Hash!String, String, Hash!Integer, Integer
<1>4. ASSUME NEW g, NEW n PROVE Hash!ValuesOf(g, n) = ValuesOf(g, n)
  BY <1>3 DEF Hash!ValuesOf, ValuesOf
<1>5. ASSUME NEW g, NEW n PROVE Hash!SequencesOf(g, n) = SequencesOf(g, n)
  BY <1>1, <1>2 DEF Hash!SequencesOf, SequencesOf, Hash!ValuesOf, ValuesOf, Hash!String, String,
                    Hash!Integer, Integer
<1>6. ASSUME NEW g, NEW n PROVE Hash!PairOf(g, n) = PairOf(g, n)
  BY <1>1, <1>2 DEF Hash!PairOf, PairOf, Hash!String, String
<1>7. ASSUME NEW g, NEW n PROVE Hash!PairsOf(g, n) = PairsOf(g, n)
  BY <1>1, <1>2 DEF Hash!PairsOf, PairsOf, Hash!PairOf, PairOf, Hash!String, String
<1>8. Hash!Grammar = Grammar
  BY <1>4, <1>5, <1>7 DEF Hash!Grammar, Grammar
<1> QED BY <1>1, <1>2, <1>8 DEF Hash!Values, Values

\* The number that one character is.
LEMMA NumberOfDigit ==
    ASSUME content \in Seq(Characters), NEW p \in Nat, p < Len(content)
    PROVE  Hash!Number(p, p + 1) = Digit[content[p + 1]]
<1> DEFINE s == SubSeq(content, p + 1, p + 1)
           iter[t \in SUBSET DOMAIN s] ==
               IF t = {} THEN 0
               ELSE LET x == Max(t) IN iter[t \ {x}] * 10 + Hash!Digit[s[x]]
           IsFold(f) == f = [t \in SUBSET DOMAIN s |->
               IF t = {} THEN 0 ELSE LET x == Max(t) IN f[t \ {x}] * 10 + Hash!Digit[s[x]]]
           one == [t \in SUBSET {1} |-> IF t = {} THEN 0 ELSE Hash!Digit[s[1]]]
<1>1. Hash!Number(p, p + 1) = iter[DOMAIN s]
  BY DEF Hash!Number, FoldLeft, MapThenFoldSet, Hash!FoldLeft, Hash!MapThenFoldSet, Max, Hash!Max
<1>2. iter = CHOOSE f : IsFold(f)
  OBVIOUS
<1> HIDE DEF iter
<1>3. DOMAIN s = {1} /\ s[1] = content[p + 1] /\ content[p + 1] \in Characters
  <2>1. Len(content) \in Nat /\ p + 1 \in 1 .. Len(content)
    OBVIOUS
  <2>2. Len(s) = 1 /\ s \in Seq(Characters)
    BY <2>1, SubSeqProperties
  <2>3. s[1] = content[p + 1] /\ content[p + 1] \in Characters
    BY <2>1, SubSeqProperties, ElementOfSeq
  <2>4. DOMAIN s = 1 .. Len(s) /\ 1 .. 1 = {1}
    BY <2>2
  <2> QED BY <2>2, <2>3, <2>4
<1>4. Max({1}) = 1
  BY DEF Max
<1>5. Hash!Digit[content[p + 1]] \in Nat
  BY <1>3, SameFormat, DigitsAssumption DEF Digit, Characters, Marks, AllDigits
<1> HIDE DEF s
<1>6. SUBSET {1} = {{}, {1}} /\ {1} # {} /\ {1} \ {1} = {}
  OBVIOUS
<1>7. IsFold(one)
  <2>1. ASSUME NEW t \in SUBSET {1}
        PROVE  one[t] = IF t = {} THEN 0 ELSE one[t \ {Max(t)}] * 10 + Hash!Digit[s[Max(t)]]
    <3>1. CASE t = {}
      BY <3>1
    <3>2. CASE t = {1}
      <4>1. one[{}] = 0 /\ one[{1}] = Hash!Digit[s[1]]
        BY <1>6
      <4>2. 0 * 10 + Hash!Digit[s[1]] = Hash!Digit[s[1]]
        BY <1>3, <1>5
      <4>3. Max(t) = 1 /\ t \ {Max(t)} = {} /\ t # {}
        BY <1>4, <1>6, <3>2
      <4> HIDE DEF one
      <4> QED BY <3>2, <4>1, <4>2, <4>3
    <3> QED BY <1>6, <3>1, <3>2
  <2>2. one = [t \in SUBSET {1} |->
                 IF t = {} THEN 0 ELSE one[t \ {Max(t)}] * 10 + Hash!Digit[s[Max(t)]]]
    BY <2>1
  <2> HIDE DEF one
  <2> QED BY <1>3, <2>2
<1>8. IsFold(iter)
  <2> HIDE DEF IsFold, one
  <2> QED BY <1>2, <1>7
<1>9. iter[{1}] = Hash!Digit[s[1]]
  <2>1. iter[{}] = 0
    BY <1>3, <1>6, <1>8
  <2>2. iter[{1}] = iter[{}] * 10 + Hash!Digit[s[1]]
    BY <1>3, <1>4, <1>6, <1>8
  <2> HIDE DEF IsFold
  <2> QED BY <1>3, <1>5, <2>1, <2>2
<1> QED BY <1>1, <1>3, <1>9, SameFormat

-----------------------------------------------------------------------------
(***************************************************************************)
(* A turn of the loop, when a value begins at begin: what is at i, and     *)
(* that the scan is at the same value's parts behind it.                   *)
(***************************************************************************)
Moves(c, p, d, n) ==
    /\ p \in Nat /\ p < Len(c) /\ d \in Nat
    /\ \/ c[p + 1] = "e" /\ d # 0 /\ IF d = 1 THEN p + 1 = n ELSE Nested(c, p + 1, d - 1, n)
       \/ c[p + 1] = "i" /\ \E m \in Nat : m <= Len(c) /\ IsIntAt(c, p, m) /\ Nested(c, m, d, n)
       \/ c[p + 1] \in Digits /\ \E m \in Nat : IsStrAt(c, p, m) /\ Nested(c, m, d, n)
       \/ c[p + 1] \in {"l", "d"} /\ Nested(c, p + 1, d + 1, n)

LEMMA NestedMoves ==
    ASSUME NEW c \in Seq(Characters), NEW p, NEW d, NEW n, Nested(c, p, d, n)
    PROVE  Moves(c, p, d, n)
<1>1. PICK e \in [1 .. d -> Nat] : Nest(c, p, d, n, e)
  BY DEF Nested
<1>2. d \in Nat \ {0} /\ d \in 1 .. d
  BY DEF Nested
<1>3. AreVals(c, p, e[d]) /\ IsEnd(c, e[d])
  BY <1>1, <1>2 DEF Nest, From
<1>4. /\ p \in Nat /\ e[d] \in Nat /\ p <= e[d] /\ e[d] < Len(c) /\ p < Len(c)
      /\ IF p = e[d] THEN c[p + 1] = "e" ELSE Ahead(c, p, e[d])
  BY <1>3, AheadIs
<1>5. CASE p = e[d]
  <2>1. CASE d = 1
    <3>1. p + 1 = n
      BY <1>1, <1>5, <2>1 DEF Nest
    <3> QED BY <1>2, <1>4, <1>5, <2>1, <3>1 DEF Moves
  <2>2. CASE d # 1
    <3>1. Nested(c, p + 1, d - 1, n)
      BY <1>1, <1>2, <1>5, <2>2, NestCloses
    <3> QED BY <1>2, <1>4, <1>5, <2>2, <3>1 DEF Moves
  <2> QED BY <2>1, <2>2
<1>6. CASE p # e[d]
  <2>1. PICK m \in Nat : AreVals(c, m, e[d])
                         /\ (IsIntAt(c, p, m) \/ IsStrAt(c, p, m) \/ Opens(c, p, m))
    BY <1>4, <1>6 DEF Ahead
  <2>2. Nested(c, m, d, n) /\ m <= Len(c)
    <3>1. m <= Len(c)
      BY <1>4, <2>1 DEF AreVals, Stretch
    <3> QED BY <1>1, <1>2, <2>1, <3>1, NestMoves
  <2>3. CASE IsIntAt(c, p, m)
    BY <1>2, <1>4, <2>2, <2>3 DEF Moves, IsIntAt
  <2>4. CASE IsStrAt(c, p, m)
    BY <1>2, <1>4, <2>2, <2>4 DEF Moves, IsStrAt
  <2>5. CASE Opens(c, p, m)
    <3>1. Nested(c, p + 1, d + 1, n)
      BY <1>1, <1>2, <1>4, <2>1, <2>5, NestOpens
    <3> QED BY <1>2, <1>4, <2>5, <3>1 DEF Moves, Opens
  <2> QED BY <2>1, <2>3, <2>4, <2>5
<1> QED BY <1>5, <1>6

\* A list or a dictionary from b to before n, and how far the scan is in it.
Begins(c, b, n) == IsVal(c, b, n) /\ c[b + 1] \in {"d", "l"}

Goes(c, b, q, p, d, h, n) ==
    \/ q = "scan" /\ d = 0 /\ p = b
    \/ q = "scan" /\ Nested(c, p, d, n)
    \/ q = "hashed" /\ h = SubSeq(c, b + 1, n)

LEMMA BeginMoves ==
    ASSUME NEW c \in Seq(Characters), NEW b, NEW n, Begins(c, b, n)
    PROVE  Moves(c, b, 0, n)
<1>1. b \in Nat /\ n \in Nat /\ n <= Len(c) /\ b + 2 <= n /\ IsVal(c, b, n)
  BY ValIsLong DEF Begins, IsVal, Stretch
<1>2. Opens(c, b, n)
  <2>1. c[b + 1] # "i" /\ c[b + 1] \notin Digits
    BY DigitsAssumption DEF Begins, AllDigits
  <2> QED BY <1>1, <2>1, ValOpens DEF IsIntAt, IsStrAt
<1> DEFINE e == [k \in 1 .. 1 |-> n - 1]
<1>3. e \in [1 .. 1 -> Nat] /\ e[1] = n - 1 /\ e[1] + 1 = n
  BY <1>1
<1> HIDE DEF e
<1>4. Nest(c, b + 1, 1, n, e)
  BY <1>2, <1>3 DEF Nest, From, Opens
<1>5. Nested(c, b + 1, 1, n)
  BY <1>3, <1>4 DEF Nested
<1>6. b < Len(c) /\ 0 + 1 = 1
  BY <1>1
<1> QED BY <1>1, <1>5, <1>6 DEF Moves, Begins

LEMMA ScanMoves ==
    ASSUME NEW c \in Seq(Characters), NEW b, NEW p, NEW d, NEW h, NEW n,
           Begins(c, b, n), Goes(c, b, "scan", p, d, h, n)
    PROVE  Moves(c, p, d, n)
BY BeginMoves, NestedMoves DEF Goes

\* The turn of each action; n is the end of the value.
Turn(n) ==
    /\ content \in Seq(Characters) /\ begin \in Nat
    /\ pc = "scan" /\ Moves(content, i, push_pop, n)

TurnGoes(n) ==
    /\ content' = content /\ begin' = begin
    /\ Goes(content, begin, pc', i', push_pop', info_hash', n)

LEMMA TurnAt ==
    ASSUME NEW n, Turn(n)
    PROVE  /\ Len(content) \in Nat /\ i \in Nat /\ i < Len(content) /\ Hash!filesize = Len(content) + 1
           /\ Hash!At(i) = content[i + 1] /\ content[i + 1] \in Digits \cup {"d", "l", "i", "e"}
BY HashAt DEF Turn, Moves

LEMMA OpenGoes ==
    ASSUME NEW n, Turn(n), Hash!Open
    PROVE  TurnGoes(n)
<1>1. content[i + 1] \in {"d", "l"} /\ content[i + 1] \notin Digits \cup {"i", "e"}
  BY TurnAt, DigitsAssumption DEF Hash!Open, AllDigits
<1>2. Nested(content, i + 1, push_pop + 1, n)
  BY <1>1 DEF Turn, Moves
<1> QED BY <1>2 DEF Turn, TurnGoes, Goes, Hash!Open

LEMMA SkipIntegerGoes ==
    ASSUME NEW n, Turn(n), Hash!SkipInteger
    PROVE  TurnGoes(n)
<1>1. content[i + 1] = "i" /\ content[i + 1] \notin Digits \cup {"d", "l", "e"}
  BY TurnAt, DigitsAssumption DEF Hash!SkipInteger, AllDigits
<1>2. PICK m \in Nat : m <= Len(content) /\ IsIntAt(content, i, m) /\ Nested(content, m, push_pop, n)
  BY <1>1 DEF Turn, Moves
<1>3. Hash!SkipTo("e", i + 1) = m - 1
  BY <1>2, TurnAt, IntIsSkipped DEF Turn
<1>4. m - 1 # Hash!filesize /\ m - 1 + 1 = m
  BY <1>2, TurnAt
<1>5. i' = m /\ pc' = pc
  BY <1>3, <1>4 DEF Hash!SkipInteger
<1> QED BY <1>2, <1>5 DEF Turn, TurnGoes, Goes, Hash!SkipInteger

LEMMA SkipStringGoes ==
    ASSUME NEW n, Turn(n), Hash!SkipString
    PROVE  TurnGoes(n)
<1>1. content[i + 1] \in Digits /\ content[i + 1] \notin {"d", "l", "i", "e"}
  BY TurnAt, SameFormat, DigitsAssumption DEF Hash!SkipString, AllDigits
<1>2. PICK m \in Nat : IsStrAt(content, i, m) /\ Nested(content, m, push_pop, n)
  BY <1>1 DEF Turn, Moves
<1>3. content[i + 2] = ":" /\ m = i + 2 + Digit[content[i + 1]]
  BY <1>2 DEF IsStrAt
<1>4. i + 1 < Len(content)
  <2>1. m < Len(content) /\ i + 2 <= m
    BY <1>2, NestedMoves DEF Turn, Moves, IsStrAt
  <2> QED BY <2>1, TurnAt
<1>5. Hash!SkipWhile(Digits, i) = i + 1
  BY <1>1, <1>3, <1>4, TurnAt, DigitIsSkipped DEF Turn
<1>6. Hash!Number(i, i + 1) = Digit[content[i + 1]]
  BY TurnAt, NumberOfDigit DEF Turn
<1>7. i' = i + 1 + 1 + Hash!Number(i, i + 1)
  BY <1>5, SameFormat DEF Hash!SkipString, Hash!StringEnd
<1>8. Digit[content[i + 1]] \in Nat
  BY <1>1, DigitsAssumption DEF Digit, AllDigits, Characters, Marks
<1>9. i' = m
  BY <1>3, <1>6, <1>7, <1>8, TurnAt
<1> QED BY <1>2, <1>9 DEF Turn, TurnGoes, Goes, Hash!SkipString

LEMMA CloseGoes ==
    ASSUME NEW n, Turn(n), Hash!Close
    PROVE  TurnGoes(n)
<1>1. content[i + 1] = "e" /\ content[i + 1] \notin Digits \cup {"d", "l", "i"}
  BY TurnAt, DigitsAssumption DEF Hash!Close, AllDigits
<1>2. /\ push_pop \in Nat /\ push_pop # 0
      /\ IF push_pop = 1 THEN i + 1 = n ELSE Nested(content, i + 1, push_pop - 1, n)
  BY <1>1 DEF Turn, Moves
<1>3. CASE push_pop = 1
  BY <1>2, <1>3 DEF Turn, TurnGoes, Goes, Hash!Close, Hash!Closed
<1>4. CASE push_pop # 1
  BY <1>2, <1>4 DEF Turn, TurnGoes, Goes, Hash!Close, Hash!Closed
<1> QED BY <1>3, <1>4

LEMMA ScanGoes ==
    ASSUME NEW n, Turn(n), Hash!Next
    PROVE  TurnGoes(n)
<1>1. ~Hash!OtherCharacter /\ ~Hash!RunOut /\ ~Hash!Ended
  BY TurnAt, SameFormat DEF Turn, Hash!OtherCharacter, Hash!RunOut, Hash!Ended
<1> QED BY <1>1, OpenGoes, SkipIntegerGoes, SkipStringGoes, CloseGoes DEF Hash!Next

-----------------------------------------------------------------------------
(***************************************************************************)
(* The inductive invariant, and what is hashed.                            *)
(***************************************************************************)
HashGoes(n) ==
    Begins(content, begin, n) /\ Goes(content, begin, pc, i, push_pop, info_hash, n)

HashInv ==
    caller = "hash" =>
        /\ content \in Seq(Characters) /\ begin \in Nat
        /\ Hash!WellFormed => \E n : HashGoes(n)

\* The value that WellFormed speaks of is one of the grammar's.
LEMMA ValueBegins ==
    ASSUME content \in Seq(Characters), begin \in Nat, Hash!WellFormed
    PROVE  \E n : Begins(content, begin, n)
<1>1. PICK n \in begin + 1 .. Len(content) : SubSeq(content, begin + 1, n) \in Values
  BY SameFormat DEF Hash!WellFormed
<1>2. PICK l \in 1 .. MaxLength : SubSeq(content, begin + 1, n) \in Grammar[l].value
  BY <1>1 DEF Values
<1>3. /\ Len(content) \in Nat /\ n \in Nat /\ begin < n /\ n <= Len(content)
      /\ l \in 0 .. MaxLength /\ n - (begin + 1) + 1 = n - begin
  BY <1>1, MaxLengthAssumption
<1>4. Len(SubSeq(content, begin + 1, n)) = n - begin
  BY <1>1, <1>3, SubSeqProperties
<1>5. l = n - begin
  BY <1>2, <1>3, <1>4, GrammarSized DEF Sized, Texts, IsText
<1>6. IsVal(content, begin, n)
  BY <1>2, <1>3, <1>5, MaxLengthAssumption DEF IsVal, Stretch, Part
<1>7. content[begin + 1] \in {"d", "l"}
  BY <1>3, HashAt DEF Hash!WellFormed
<1> QED BY <1>6, <1>7 DEF Begins

LEMMA HashBegins == Init => HashInv
<1> SUFFICES ASSUME Init, caller = "hash" PROVE HashInv
  BY DEF HashInv
<1>1. content \in Seq(Characters) /\ pc = "scan" /\ begin = 0 /\ i = 0 /\ push_pop = 0
  BY ContentsAssumption DEF Init, Hash!Init
<1>2. ASSUME NEW n, Begins(content, begin, n) PROVE HashGoes(n)
  BY <1>1, <1>2 DEF HashGoes, Goes
<1> QED BY <1>1, <1>2, ValueBegins DEF HashInv

LEMMA HashGoesOn == HashInv /\ [Next]_vars => HashInv'
<1> SUFFICES ASSUME HashInv, [Next]_vars, caller' = "hash" PROVE HashInv'
  BY DEF HashInv
<1>1. caller = "hash" /\ (UNCHANGED hashVars \/ ScanStep)
  BY DEF Next, vars, progVars, Call, NoTracker, MainGoesOn, ScanStep, Ended
<1>2. CASE UNCHANGED hashVars
  BY <1>1, <1>2 DEF hashVars, HashInv, HashGoes, Hash!WellFormed, Hash!At
<1>3. CASE ScanStep
  <2>1. content \in Seq(Characters) /\ begin \in Nat /\ pc = "scan" /\ Hash!Next
    BY <1>1, <1>3 DEF HashInv, ScanStep
  <2>2. content' = content /\ begin' = begin
    BY <2>1 DEF Hash!Next, Hash!Open, Hash!SkipInteger, Hash!SkipString, Hash!Close,
                Hash!OtherCharacter, Hash!RunOut, Hash!Ended, Hash!vars
  <2>3. ASSUME Hash!WellFormed PROVE \E n : HashGoes(n)'
    <3>1. PICK n : HashGoes(n)
      BY <1>1, <2>3 DEF HashInv
    <3>2. Moves(content, i, push_pop, n)
      BY <2>1, <3>1, ScanMoves DEF HashGoes
    <3>3. TurnGoes(n)
      BY <2>1, <3>2, ScanGoes DEF Turn
    <3> QED BY <3>1, <3>3 DEF HashGoes, TurnGoes
  <2>4. Hash!WellFormed' <=> Hash!WellFormed
    BY <2>2 DEF Hash!WellFormed, Hash!At
  <2> QED BY <2>1, <2>2, <2>3, <2>4 DEF HashInv
<1> QED BY <1>1, <1>2, <1>3

\* Of any content that begins with a list or a dictionary of B code, what
\* get_info_hash hashes is that value, all of it and nothing behind it.
THEOREM ValueIsHashed == Spec => []HashedIsOneValue
<1>1. HashInv => HashedIsOneValue
  <2> SUFFICES ASSUME HashInv, caller = "hash", pc = "hashed", Hash!WellFormed
               PROVE  info_hash \in Hash!Values
    BY DEF HashedIsOneValue, Hash!HashedIsOneValue
  <2>1. PICK n : HashGoes(n)
    BY DEF HashInv
  <2>2. IsVal(content, begin, n) /\ info_hash = SubSeq(content, begin + 1, n)
    BY <2>1 DEF HashGoes, Begins, Goes
  <2>3. begin + 2 <= n
    BY <2>2, ValIsLong DEF HashInv
  <2>4. n - begin \in 1 .. MaxLength
    BY <2>2, <2>3 DEF IsVal, Stretch
  <2>5. info_hash \in Values
    BY <2>2, <2>4 DEF Values, IsVal, Part
  <2> QED BY <2>5, SameFormat
<1>2. Init => HashInv
  BY HashBegins
<1>3. HashInv /\ [Next]_vars => HashInv'
  BY HashGoesOn
<1> QED BY <1>1, <1>2, <1>3, PTL DEF Spec

\* And it never takes such a content for a wrong one: the scan ends in no
\* other way.
NeverRefused == caller = "hash" /\ Hash!WellFormed => pc \in {"scan", "hashed"}

THEOREM ValueIsNotRefused == Spec => []NeverRefused
<1>1. HashInv => NeverRefused
  BY DEF HashInv, HashGoes, Goes, NeverRefused
<1>2. Init => HashInv
  BY HashBegins
<1>3. HashInv /\ [Next]_vars => HashInv'
  BY HashGoesOn
<1> QED BY <1>1, <1>2, <1>3, PTL DEF Spec

-----------------------------------------------------------------------------
(***************************************************************************)
(* FoldLeft over a sequence of n elements: h[k] is what the k-th element   *)
(* makes of the result of those before it, and b the result of none.       *)
(***************************************************************************)
IsMax(t, m) == m \in t /\ \A y \in t : m >= y

LEMMA MaxIs ==
    ASSUME NEW n \in Nat, NEW t \in SUBSET (1 .. n), NEW m, IsMax(t, m)
    PROVE  Max(t) = m
<1>1. \A x \in t : x \in Nat
  OBVIOUS
<1>2. ASSUME NEW x \in t, \A y \in t : x >= y PROVE x = m
  <2>1. x >= m /\ m >= x /\ m \in Nat
    BY <1>1, <1>2 DEF IsMax
  <2> QED BY <1>1, <2>1
<1> QED BY <1>2 DEF Max, IsMax

LEMMA MaxExists ==
    ASSUME NEW n \in Nat
    PROVE  \A t \in SUBSET (1 .. n) : t # {} => \E m : IsMax(t, m)
<1> DEFINE S == {k \in Nat : \A t \in SUBSET (1 .. k) : t # {} => \E m : IsMax(t, m)}
<1>1. 0 \in S
  <2>1. 1 .. 0 = {}
    OBVIOUS
  <2> QED BY <2>1
<1>2. ASSUME NEW k \in S PROVE k + 1 \in S
  <2>1. ASSUME NEW t \in SUBSET (1 .. k + 1), t # {} PROVE \E m : IsMax(t, m)
    <3>1. CASE k + 1 \in t
      BY <3>1 DEF IsMax
    <3>2. CASE k + 1 \notin t
      <4>1. t \in SUBSET (1 .. k)
        BY <3>2
      <4> QED BY <2>1, <4>1
    <3> QED BY <3>1, <3>2
  <2> QED BY <2>1
<1>3. S \in SUBSET Nat
  OBVIOUS
<1> HIDE DEF S
<1>4. n \in S
  BY <1>1, <1>2, <1>3, NatFromBefore
<1> QED BY <1>4 DEF S

\* The function that the fold is computed by.
FoldStep(f, h, b, t) == IF t = {} THEN b ELSE h[Max(t)][f[t \ {Max(t)}]]
Folding(f, n, h, b) == f = [t \in SUBSET (1 .. n) |-> FoldStep(f, h, b, t)]

LEMMA FoldExists ==
    ASSUME NEW T, NEW b \in T, NEW n \in Nat, NEW h, \A k \in 1 .. n : h[k] \in [T -> T]
    PROVE  \E f \in [SUBSET (1 .. n) -> T] : Folding(f, n, h, b)
<1> DEFINE Typed(k) == k <= n => \E f \in [SUBSET (1 .. k) -> T] : Folding(f, k, h, b)
           S == {k \in Nat : Typed(k)}
<1>1. 0 \in S
  <2>1. 1 .. 0 = {} /\ SUBSET (1 .. 0) = {{}}
    OBVIOUS
  <2> DEFINE f == [t \in SUBSET (1 .. 0) |-> b]
  <2>2. f \in [SUBSET (1 .. 0) -> T]
    OBVIOUS
  <2>3. Folding(f, 0, h, b)
    BY <2>1 DEF Folding, FoldStep
  <2> QED BY <2>2, <2>3
<1>2. ASSUME NEW k \in S PROVE k + 1 \in S
  <2>1. ASSUME k + 1 <= n PROVE \E f \in [SUBSET (1 .. k + 1) -> T] : Folding(f, k + 1, h, b)
    <3>0. Typed(k)
      OBVIOUS
    <3>1. PICK g \in [SUBSET (1 .. k) -> T] : Folding(g, k, h, b)
      <4>1. k <= n
        BY <2>1
      <4> QED BY ONLY <3>0, <4>1
    <3> DEFINE f == [t \in SUBSET (1 .. k + 1) |-> IF k + 1 \in t THEN h[k + 1][g[t \ {k + 1}]] ELSE g[t]]
    <3>2. h[k + 1] \in [T -> T]
      BY <2>1
    <3>3. \A t \in SUBSET (1 .. k + 1) : t \ {k + 1} \in SUBSET (1 .. k) /\ (k + 1 \notin t => t \in SUBSET (1 .. k))
      OBVIOUS
    <3>4. f \in [SUBSET (1 .. k + 1) -> T]
      BY <3>2, <3>3
    <3>5. \A t \in SUBSET (1 .. k) : t \in SUBSET (1 .. k + 1) /\ k + 1 \notin t /\ f[t] = g[t]
      OBVIOUS
    <3>6. ASSUME NEW t \in SUBSET (1 .. k + 1) PROVE f[t] = FoldStep(f, h, b, t)
      <4>1. CASE k + 1 \in t
        <5>1. Max(t) = k + 1
          <6>1. IsMax(t, k + 1)
            BY <4>1 DEF IsMax
          <6> QED BY <6>1, MaxIs
        <5>2. f[t] = h[k + 1][g[t \ {k + 1}]]
          BY <4>1
        <5>3. f[t \ {k + 1}] = g[t \ {k + 1}]
          BY <3>3, <3>5
        <5> HIDE DEF f
        <5> QED BY <4>1, <5>1, <5>2, <5>3 DEF FoldStep
      <4>2. CASE k + 1 \notin t
        <5>1. t \in SUBSET (1 .. k)
          BY <3>3, <4>2
        <5>2. f[t] = g[t] /\ g[t] = FoldStep(g, h, b, t)
          BY <3>1, <3>5, <5>1 DEF Folding
        <5>3. CASE t = {}
          BY <5>2, <5>3 DEF FoldStep
        <5>4. CASE t # {}
          <6>1. f[t \ {Max(t)}] = g[t \ {Max(t)}]
            BY <3>5, <5>1
          <6> HIDE DEF f
          <6> QED BY <5>2, <5>4, <6>1 DEF FoldStep
        <5> QED BY <5>3, <5>4
      <4> QED BY <4>1, <4>2
    <3> HIDE DEF f
    <3>7. f = [t \in SUBSET (1 .. k + 1) |-> f[t]]
      BY <3>4
    <3>8. Folding(f, k + 1, h, b)
      BY <3>6, <3>7 DEF Folding
    <3> QED BY <3>4, <3>8
  <2> HIDE DEF Typed
  <2>2. Typed(k + 1)
    BY <2>1 DEF Typed
  <2> QED BY <2>2
<1>3. S \in SUBSET Nat
  OBVIOUS
<1> HIDE DEF S
<1>4. n \in S
  BY <1>1, <1>2, <1>3, NatFromBefore
<1>5. Typed(n)
  <2> HIDE DEF Typed
  <2> QED BY <1>4 DEF S
<1>6. n <= n
  OBVIOUS
<1> QED BY ONLY <1>5, <1>6

\* The first k elements.
LEMMA FirstElements ==
    ASSUME NEW n \in Nat, NEW k \in 1 .. n
    PROVE  /\ 1 .. k \in SUBSET (1 .. n) /\ 1 .. k # {} /\ Max(1 .. k) = k
           /\ (1 .. k) \ {k} = 1 .. k - 1 /\ 1 .. k - 1 \in SUBSET (1 .. n)
<1>1. 1 .. k \in SUBSET (1 .. n) /\ 1 .. k # {} /\ (1 .. k) \ {k} = 1 .. k - 1
  OBVIOUS
<1>2. IsMax(1 .. k, k)
  BY DEF IsMax
<1> QED BY <1>1, <1>2, MaxIs

-----------------------------------------------------------------------------
(***************************************************************************)
(* FlattenSeq: the lists that a metafile is written from.                  *)
(***************************************************************************)
\* f holds the first pieces of s together, for each number of them.
Joins(s, f) == f = [j \in 1 .. Len(s) |-> IF j = 1 THEN s[j] ELSE f[j - 1] \o s[j]]

\* With one piece more it holds one more.
Joined(s, x, f) ==
    [j \in 1 .. Len(s) + 1 |->
        IF j <= Len(s) THEN f[j] ELSE IF Len(s) = 0 THEN x ELSE f[Len(s)] \o x]

LEMMA JoinsExtends ==
    ASSUME NEW T, NEW s \in Seq(T), NEW x \in T, NEW f, Joins(s, f)
    PROVE  Joins(Append(s, x), Joined(s, x, f))
<1>0. PICK n, t, g : n = Len(s) /\ t = Append(s, x) /\ g = Joined(s, x, f)
  OBVIOUS
<1>1. n \in Nat /\ Len(t) = n + 1 /\ t[n + 1] = x /\ \A j \in 1 .. n : t[j] = s[j]
  BY <1>0
<1>2. \A j \in 1 .. n : f[j] = IF j = 1 THEN s[j] ELSE f[j - 1] \o s[j]
  BY <1>0 DEF Joins
<1>3. /\ g = [j \in 1 .. n + 1 |-> g[j]] /\ \A j \in 1 .. n : g[j] = f[j]
      /\ g[n + 1] = IF n = 0 THEN x ELSE f[n] \o x
  BY <1>0, <1>1 DEF Joined
<1>4. ASSUME NEW j \in 1 .. n + 1 PROVE g[j] = IF j = 1 THEN t[j] ELSE g[j - 1] \o t[j]
  <2>1. CASE j \in 1 .. n
    <3>1. j # 1 => j - 1 \in 1 .. n
      BY <1>1, <2>1
    <3> QED BY <1>1, <1>2, <1>3, <2>1, <3>1
  <2>2. CASE j = n + 1
    <3>1. (j = 1 <=> n = 0) /\ j - 1 = n /\ (n # 0 => n \in 1 .. n)
      BY <1>1, <2>2
    <3> QED BY <1>1, <1>3, <2>2, <3>1
  <2> QED BY <1>1, <2>1, <2>2
<1>5. g = [j \in 1 .. n + 1 |-> IF j = 1 THEN t[j] ELSE g[j - 1] \o t[j]]
  BY <1>3, <1>4
<1> QED BY <1>0, <1>1, <1>5 DEF Joins

\* There is such a function, and only one.
LEMMA JoinsExists ==
    ASSUME NEW T, NEW s \in Seq(T)
    PROVE  \E f : Joins(s, f)
<1> DEFINE S == {n \in Nat : \A t \in Seq(T) : Len(t) = n => \E f : Joins(t, f)}
<1>1. 0 \in S
  <2>1. ASSUME NEW t \in Seq(T), Len(t) = 0 PROVE Joins(t, <<>>)
    BY <2>1 DEF Joins
  <2> QED BY <2>1
<1>2. ASSUME NEW n \in S PROVE n + 1 \in S
  <2>1. ASSUME NEW t \in Seq(T), Len(t) = n + 1 PROVE \E f : Joins(t, f)
    <3>1. PICK u \in Seq(T), x \in T : t = Append(u, x) /\ Len(u) = n
      <4>1. /\ SubSeq(t, 1, n) \in Seq(T) /\ t[n + 1] \in T /\ Len(SubSeq(t, 1, n)) = n
            /\ t = Append(SubSeq(t, 1, n), t[n + 1])
        BY <2>1
      <4> QED BY <4>1
    <3>2. PICK f : Joins(u, f)
      BY <3>1
    <3> QED BY <3>1, <3>2, JoinsExtends
  <2> QED BY <2>1
<1>3. S \in SUBSET Nat
  OBVIOUS
<1> HIDE DEF S
<1>4. S = Nat
  BY <1>1, <1>2, <1>3, NatFromBefore
<1>5. Len(s) \in S
  BY <1>4
<1> QED BY <1>5 DEF S

LEMMA JoinsIsOne ==
    ASSUME NEW T, NEW s \in Seq(T), Len(s) # 0, NEW f, NEW g, Joins(s, f), Joins(s, g)
    PROVE  f[Len(s)] = g[Len(s)]
<1> DEFINE S == {n \in Nat : n + 1 <= Len(s) => f[n + 1] = g[n + 1]}
<1>0. Len(s) \in Nat
  OBVIOUS
<1>1. 0 \in S
  <2>1. 1 <= Len(s) => 1 \in 1 .. Len(s)
    BY <1>0
  <2>2. 1 <= Len(s) => f[1] = s[1] /\ g[1] = s[1]
    BY <2>1 DEF Joins
  <2> QED BY <2>2
<1>2. ASSUME NEW n \in S PROVE n + 1 \in S
  <2>1. ASSUME (n + 1) + 1 <= Len(s) PROVE f[(n + 1) + 1] = g[(n + 1) + 1]
    <3>1. PICK j : j = (n + 1) + 1
      OBVIOUS
    <3>2. j \in 1 .. Len(s) /\ j # 1 /\ j - 1 = n + 1 /\ f[n + 1] = g[n + 1]
      BY <1>0, <2>1, <3>1
    <3>3. f[j] = f[j - 1] \o s[j] /\ g[j] = g[j - 1] \o s[j]
      BY <3>2 DEF Joins
    <3> QED BY <3>1, <3>2, <3>3
  <2> QED BY <2>1
<1>3. S \in SUBSET Nat
  OBVIOUS
<1> HIDE DEF S
<1>4. S = Nat
  BY <1>1, <1>2, <1>3, NatFromBefore
<1>5. Len(s) - 1 \in S /\ (Len(s) - 1) + 1 = Len(s)
  BY <1>0, <1>4
<1> QED BY <1>0, <1>5 DEF S

LEMMA FlattenIs ==
    ASSUME NEW T, NEW s \in Seq(T), NEW f, Joins(s, f)
    PROVE  FlattenSeq(s) = IF Len(s) = 0 THEN <<>> ELSE f[Len(s)]
<1>1. CASE Len(s) = 0
  BY <1>1 DEF FlattenSeq
<1>2. CASE Len(s) # 0
  <2> DEFINE flatten[j \in 1 .. Len(s)] == IF j = 1 THEN s[j] ELSE flatten[j - 1] \o s[j]
  <2>1. FlattenSeq(s) = flatten[Len(s)]
    BY <1>2 DEF FlattenSeq
  <2>2. flatten = CHOOSE g : Joins(s, g)
    BY DEF Joins
  <2> HIDE DEF flatten
  <2>3. Joins(s, flatten)
    BY <2>2
  <2> QED BY <1>2, <2>1, <2>3, JoinsIsOne
<1> QED BY <1>1, <1>2

\* FlattenSeq of no piece, and of one piece more.
LEMMA FlattenEmpty == FlattenSeq(<<>>) = <<>>
  BY DEF FlattenSeq

LEMMA FlattenOneMore ==
    ASSUME NEW T, NEW s \in Seq(Seq(T)), NEW x \in Seq(T)
    PROVE  FlattenSeq(Append(s, x)) = IF Len(s) = 0 THEN x ELSE FlattenSeq(s) \o x
<1>1. PICK f : Joins(s, f)
  BY JoinsExists
<1>2. PICK t, g : t \in Seq(Seq(T)) /\ t = Append(s, x) /\ g = Joined(s, x, f)
  <2>1. Append(s, x) \in Seq(Seq(T))
    OBVIOUS
  <2> QED BY <2>1
<1>3. Joins(t, g)
  BY <1>1, <1>2, JoinsExtends
<1>4. Len(t) = Len(s) + 1 /\ Len(s) \in Nat
  BY <1>2
<1>5. FlattenSeq(t) = g[Len(s) + 1]
  <2>1. FlattenSeq(t) = IF Len(t) = 0 THEN <<>> ELSE g[Len(t)]
    BY ONLY <1>2, <1>3, FlattenIs
  <2> QED BY <1>4, <2>1
<1>6. FlattenSeq(s) = IF Len(s) = 0 THEN <<>> ELSE f[Len(s)]
  BY <1>1, FlattenIs
<1>7. g[Len(s) + 1] = IF Len(s) = 0 THEN x ELSE f[Len(s)] \o x
  BY <1>2, <1>4 DEF Joined
<1> QED BY <1>2, <1>5, <1>6, <1>7

LEMMA FlattenTyped ==
    ASSUME NEW T, NEW s \in Seq(Seq(T))
    PROVE  FlattenSeq(s) \in Seq(T)
<1> DEFINE S == {n \in Nat : \A t \in Seq(Seq(T)) : Len(t) = n => FlattenSeq(t) \in Seq(T)}
<1>1. 0 \in S
  <2>1. ASSUME NEW t \in Seq(Seq(T)), Len(t) = 0 PROVE FlattenSeq(t) \in Seq(T)
    <3>1. t = <<>>
      BY <2>1
    <3>2. FlattenSeq(t) = <<>>
      BY <3>1, FlattenEmpty
    <3> QED BY <3>2
  <2> QED BY <2>1
<1>2. ASSUME NEW n \in S PROVE n + 1 \in S
  <2>1. ASSUME NEW t \in Seq(Seq(T)), Len(t) = n + 1 PROVE FlattenSeq(t) \in Seq(T)
    <3>1. PICK u \in Seq(Seq(T)), x \in Seq(T) : t = Append(u, x) /\ Len(u) = n
      <4>1. /\ SubSeq(t, 1, n) \in Seq(Seq(T)) /\ t[n + 1] \in Seq(T) /\ Len(SubSeq(t, 1, n)) = n
            /\ t = Append(SubSeq(t, 1, n), t[n + 1])
        BY <2>1
      <4> QED BY <4>1
    <3>2. FlattenSeq(u) \in Seq(T)
      BY <3>1
    <3>3. FlattenSeq(t) = IF Len(u) = 0 THEN x ELSE FlattenSeq(u) \o x
      BY <3>1, FlattenOneMore
    <3> QED BY <3>1, <3>2, <3>3
  <2> QED BY <2>1
<1>3. S \in SUBSET Nat
  OBVIOUS
<1> HIDE DEF S
<1>4. S = Nat
  BY <1>1, <1>2, <1>3, NatFromBefore
<1>5. Len(s) \in S
  BY <1>4
<1> QED BY <1>5 DEF S

LEMMA FlattenAppend ==
    ASSUME NEW T, NEW s \in Seq(Seq(T)), NEW x \in Seq(T)
    PROVE  FlattenSeq(Append(s, x)) = FlattenSeq(s) \o x
<1>1. CASE Len(s) = 0
  <2>1. s = <<>> /\ <<>> \o x = x
    BY <1>1
  <2> QED BY <1>1, <2>1, FlattenEmpty, FlattenOneMore
<1>2. CASE Len(s) # 0
  BY <1>2, FlattenOneMore
<1> QED BY <1>1, <1>2

\* t holds s behind its first n elements.
Has(t, n, s) == n \in Nat /\ n + Len(s) <= Len(t) /\ \A k \in 1 .. Len(s) : t[n + k] = s[k]

LEMMA HasBoth ==
    ASSUME NEW T, NEW a \in Seq(T), NEW b \in Seq(T)
    PROVE  a \o b \in Seq(T) /\ Len(a \o b) = Len(a) + Len(b) /\ Has(a \o b, 0, a) /\ Has(a \o b, Len(a), b)
<1>1. /\ a \o b \in Seq(T) /\ Len(a \o b) = Len(a) + Len(b) /\ Len(a) \in Nat /\ Len(b) \in Nat
      /\ \A k \in 1 .. Len(a) : (a \o b)[k] = a[k]
      /\ \A k \in 1 .. Len(b) : (a \o b)[Len(a) + k] = b[k]
  OBVIOUS
<1>2. PICK t, n, m : t = a \o b /\ n = Len(a) /\ m = Len(b)
  OBVIOUS
<1>3. Has(t, 0, a)
  <2>1. \A k \in 1 .. n : 0 + k = k
    BY <1>1, <1>2
  <2>2. 0 + n <= Len(t)
    BY <1>1, <1>2
  <2> QED BY <1>1, <1>2, <2>1, <2>2 DEF Has
<1>4. Has(t, n, b)
  BY <1>1, <1>2 DEF Has
<1> QED BY <1>1, <1>2, <1>3, <1>4

LEMMA HasInside ==
    ASSUME NEW T, NEW t \in Seq(T), NEW s \in Seq(T), NEW r \in Seq(T), NEW n, NEW m, Has(t, n, s), Has(s, m, r)
    PROVE  Has(t, n + m, r)
<1>1. Len(t) \in Nat /\ Len(s) \in Nat /\ Len(r) \in Nat /\ n \in Nat /\ m \in Nat
  BY DEF Has
<1>2. PICK a, b, c : a = Len(t) /\ b = Len(s) /\ c = Len(r)
  OBVIOUS
<1>3. /\ n + b <= a /\ m + c <= b
      /\ \A k \in 1 .. b : t[n + k] = s[k]
      /\ \A k \in 1 .. c : s[m + k] = r[k]
  BY <1>2 DEF Has
<1>4. n + m \in Nat /\ n + m + c <= a
  BY <1>1, <1>2, <1>3
<1>5. ASSUME NEW k \in 1 .. c PROVE t[n + m + k] = r[k]
  <2>1. m + k \in 1 .. b /\ n + m + k = n + (m + k)
    BY <1>1, <1>2, <1>3
  <2> QED BY <1>3, <2>1
<1> QED BY <1>2, <1>4, <1>5 DEF Has

LEMMA HasBothInside ==
    ASSUME NEW T, NEW t \in Seq(T), NEW n, NEW a \in Seq(T), NEW b \in Seq(T), Has(t, n, a \o b)
    PROVE  Has(t, n, a) /\ Has(t, n + Len(a), b)
<1>1. a \o b \in Seq(T) /\ Has(a \o b, 0, a) /\ Has(a \o b, Len(a), b)
  BY HasBoth
<1>2. Has(t, n + 0, a) /\ Has(t, n + Len(a), b)
  BY <1>1, HasInside
<1>3. n + 0 = n
  BY DEF Has
<1> QED BY <1>2, <1>3

-----------------------------------------------------------------------------
(***************************************************************************)
(* The symbols of a metafile, and the lengths of its parts.                *)
(***************************************************************************)
Words   == {"announce", "announce-list", "comment", "info", "files", "length", "name",
            "path", "piece length", "piece_length", "pieces"}
Symbols == STRING \cup Characters \cup Words

\* The texts of the values, keys among them.
SomeTexts == {s \in Seq(Symbols) : Len(s) \in Lengths}

LEMMA DecimalIs ==
    ASSUME NEW n \in Lengths
    PROVE  /\ n \in Nat /\ n >= 1
           /\ Decimal(n) \in Seq(Digits) /\ Decimal(n) # <<>>
           /\ Len(Decimal(n)) \in Nat /\ Len(Decimal(n)) >= 1
           /\ Decimal(n)[1] \in Digits /\ Said(Decimal(n)) = n
<1>1. PICK d : d = Decimal(n)
  OBVIOUS
<1>2. n \in Nat /\ n >= 1 /\ d \in Seq(Digits) /\ d # <<>> /\ Said(Decimal(n)) = n
  BY <1>1, DecimalsAssumption
<1>3. Len(d) \in Nat /\ Len(d) >= 1 /\ d[1] \in Digits
  BY ONLY <1>2, ElementOfSeq
<1> QED BY <1>1, <1>2, <1>3

LEMMA SymbolsAre ==
    /\ Digits \subseteq Symbols /\ Characters \subseteq Symbols /\ Words \subseteq Symbols
    /\ \A s \in FileTexts : s \in SomeTexts
BY DEF Symbols, Characters, Marks, FileTexts, SomeTexts

LEMMA KeyIsText == \A k \in Words : <<k>> \in SomeTexts /\ Key(k) = Text(<<k>>)
<1>1. 1 \in Lengths
  BY DecimalsAssumption
<1> QED BY <1>1, SymbolsAre DEF SomeTexts, Key

\* A text with its length.
LEMMA TextIs ==
    ASSUME NEW T, NEW s \in Seq(T), Len(s) \in Lengths, Digits \cup {":"} \subseteq T
    PROVE  /\ Text(s) \in Seq(T)
           /\ Len(Text(s)) = Len(Decimal(Len(s))) + 1 + Len(s)
           /\ Has(Text(s), 0, Decimal(Len(s))) /\ Has(Text(s), Len(Decimal(Len(s))), <<":">>)
           /\ Has(Text(s), Len(Decimal(Len(s))) + 1, s)
<1>1. PICK d, c : d = Decimal(Len(s)) /\ c = <<":">>
  OBVIOUS
<1>2. d \in Seq(T) /\ c \in Seq(T) /\ Len(c) = 1 /\ Len(d) \in Nat
  <2>1. d \in Seq(Digits)
    BY <1>1, DecimalIs
  <2> QED BY <1>1, <2>1
<1>3. /\ d \o c \in Seq(T) /\ Len(d \o c) = Len(d) + 1
      /\ Has(d \o c, 0, d) /\ Has(d \o c, Len(d), c)
  BY <1>2, HasBoth
<1>4. PICK e : e = d \o c
  OBVIOUS
<1>5. e \in Seq(T) /\ Text(s) = e \o s
  BY <1>1, <1>3, <1>4 DEF Text
<1>6. e \o s \in Seq(T) /\ Len(e \o s) = Len(e) + Len(s) /\ Has(e \o s, 0, e) /\ Has(e \o s, Len(e), s)
  BY <1>5, HasBoth
<1>7. Has(e \o s, 0 + 0, d) /\ Has(e \o s, 0 + Len(d), c)
  BY <1>2, <1>3, <1>4, <1>5, <1>6, HasInside
<1>8. 0 + 0 = 0 /\ 0 + Len(d) = Len(d) /\ Len(e) = Len(d) + 1
  BY <1>2, <1>3, <1>4
<1> QED BY <1>1, <1>5, <1>6, <1>7, <1>8

\* An integer.
LEMMA IntIs ==
    ASSUME NEW n \in Lengths
    PROVE  /\ Int_(n) \in Seq(Characters)
           /\ Len(Int_(n)) = 1 + Len(Decimal(n)) + 1
           /\ Has(Int_(n), 0, <<"i">>) /\ Has(Int_(n), 1, Decimal(n))
           /\ Has(Int_(n), 1 + Len(Decimal(n)), <<"e">>)
<1>1. PICK b, d, c : b = <<"i">> /\ d = Decimal(n) /\ c = <<"e">>
  OBVIOUS
<1>2. /\ b \in Seq(Characters) /\ d \in Seq(Characters) /\ c \in Seq(Characters)
      /\ Len(b) = 1 /\ Len(c) = 1 /\ Len(d) \in Nat
  <2>1. d \in Seq(Digits) /\ Digits \subseteq Characters
    BY <1>1, DecimalIs DEF Characters, Marks
  <2>2. {"i", "e"} \subseteq Characters
    BY DEF Characters, Marks
  <2> QED BY <1>1, <2>1, <2>2
<1>3. /\ b \o d \in Seq(Characters) /\ Len(b \o d) = Len(b) + Len(d)
      /\ Has(b \o d, 0, b) /\ Has(b \o d, Len(b), d)
  BY <1>2, HasBoth
<1>4. PICK e : e = b \o d
  OBVIOUS
<1>5. e \in Seq(Characters) /\ Int_(n) = e \o c
  BY <1>1, <1>3, <1>4 DEF Int_
<1>6. /\ e \o c \in Seq(Characters) /\ Len(e \o c) = Len(e) + Len(c)
      /\ Has(e \o c, 0, e) /\ Has(e \o c, Len(e), c)
  BY <1>2, <1>5, HasBoth
<1>7. Has(e \o c, 0 + 0, b) /\ Has(e \o c, 0 + Len(b), d)
  BY <1>2, <1>3, <1>4, <1>5, <1>6, HasInside
<1>8. 0 + 0 = 0 /\ 0 + Len(b) = 1 /\ Len(e) = 1 + Len(d)
  BY <1>2, <1>3, <1>4
<1> QED BY <1>1, <1>2, <1>5, <1>6, <1>7, <1>8


-----------------------------------------------------------------------------
(***************************************************************************)
(* What the functions of the scan read in content of any symbols.          *)
(***************************************************************************)
\* The numbers that the first digits of s are, behind b.
Counted(s, b, r) == r[0] = b /\ \A k \in 1 .. Len(s) : r[k] = r[k - 1] * 10 + Digit[s[k]]
HashNumber(s) == Hash!FoldLeft(LAMBDA n, c : n * 10 + Hash!Digit[c], 0, s)

Count(s) == [k \in 1 .. Len(s) |-> [n \in Nat |-> n * 10 + Digit[s[k]]]]

LEMMA DigitIsNat == \A c \in Characters : Digit[c] \in Nat
BY DigitsAssumption DEF Digit, AllDigits, Characters, Marks

LEMMA NumberIsCounted ==
    ASSUME NEW s \in Seq(Digits)
    PROVE  \E r : Counted(s, 0, r) /\ HashNumber(s) = r[Len(s)]
<1> DEFINE N == Len(s)
           iter[t \in SUBSET DOMAIN s] ==
               IF t = {} THEN 0 ELSE LET x == Hash!Max(t) IN iter[t \ {x}] * 10 + Hash!Digit[s[x]]
           IsFold(f) == f = [t \in SUBSET (1 .. N) |->
               IF t = {} THEN 0 ELSE f[t \ {Max(t)}] * 10 + Digit[s[Max(t)]]]
           r == [k \in 0 .. N |-> iter[1 .. k]]
<1>1. N \in Nat /\ DOMAIN s = 1 .. N
  OBVIOUS
<1>2. HashNumber(s) = iter[1 .. N]
  BY <1>1 DEF HashNumber, Hash!FoldLeft, Hash!MapThenFoldSet, Hash!Max
<1>3. iter = CHOOSE f : IsFold(f)
  BY <1>1, SameFormat DEF Hash!Max, Max
<1> HIDE DEF iter
<1>4. \A k \in 1 .. N : Digit[s[k]] \in Nat
  BY DigitIsNat, ElementOfSeq DEF Characters, Marks
<1>5. \E f : IsFold(f)
  <2>1. \A k \in 1 .. N : Count(s)[k] \in [Nat -> Nat]
    BY <1>4 DEF Count
  <2>2. PICK f \in [SUBSET (1 .. N) -> Nat] : Folding(f, N, Count(s), 0)
    BY <1>1, <2>1, FoldExists
  <2>3. ASSUME NEW t \in SUBSET (1 .. N), t # {}
        PROVE  Count(s)[Max(t)][f[t \ {Max(t)}]] = f[t \ {Max(t)}] * 10 + Digit[s[Max(t)]]
    <3>1. PICK m : IsMax(t, m)
      BY <1>1, <2>3, MaxExists
    <3>2. Max(t) = m /\ m \in 1 .. N
      BY <1>1, <3>1, MaxIs DEF IsMax
    <3>3. f[t \ {m}] \in Nat
      OBVIOUS
    <3> QED BY <3>2, <3>3 DEF Count
  <2>4. IsFold(f)
    BY <2>2, <2>3 DEF Folding, FoldStep
  <2> QED BY <2>4
<1>6. IsFold(iter)
  <2> HIDE DEF IsFold
  <2> QED BY <1>3, <1>5
<1>7. r[0] = 0
  <2>1. 1 .. 0 = {} /\ {} \in SUBSET (1 .. N) /\ 0 \in 0 .. N
    BY <1>1
  <2>2. iter[{}] = 0
    BY <1>6, <2>1
  <2> QED BY <2>1, <2>2
<1>8. ASSUME NEW k \in 1 .. N PROVE r[k] = r[k - 1] * 10 + Digit[s[k]]
  <2>1. /\ 1 .. k \in SUBSET (1 .. N) /\ 1 .. k # {} /\ Max(1 .. k) = k
        /\ (1 .. k) \ {k} = 1 .. k - 1
    BY <1>1, FirstElements
  <2>2. iter[1 .. k] = iter[1 .. k - 1] * 10 + Digit[s[k]]
    BY <1>6, <2>1
  <2>3. k \in 0 .. N /\ k - 1 \in 0 .. N
    BY <1>1
  <2> QED BY <2>2, <2>3
<1>9. r[N] = iter[1 .. N]
  BY <1>1
<1> HIDE DEF r
<1> QED BY <1>2, <1>7, <1>8, <1>9 DEF Counted

\* The number that a length is written as is the length.
LEMMA DecimalIsRead ==
    ASSUME NEW n \in Lengths
    PROVE  HashNumber(Decimal(n)) = n
<1>1. PICK d : d = Decimal(n)
  OBVIOUS
<1>2. d \in Seq(Digits) /\ Said(d) = n
  BY <1>1, DecimalIs
<1>3. HashNumber(d) = Said(d)
  BY SameFormat DEF HashNumber, Said, Hash!FoldLeft, FoldLeft, Hash!MapThenFoldSet, MapThenFoldSet, Hash!Max, Max
<1> QED BY <1>1, <1>2, <1>3

\* It is read from where it is written.
LEMMA PartIsRead ==
    ASSUME NEW T, NEW c \in Seq(T), NEW s \in Seq(T), NEW p, Has(c, p, s)
    PROVE  SubSeq(c, p + 1, p + Len(s)) = s
<1>1. PICK L : L = Len(s)
  OBVIOUS
<1>2. p \in Nat /\ L \in Nat /\ Len(c) \in Nat /\ p + L <= Len(c) /\ \A k \in 1 .. L : c[p + k] = s[k]
  BY <1>1 DEF Has
<1>3. PICK t : t = SubSeq(c, p + 1, p + L)
  OBVIOUS
<1>4. t \in Seq(T) /\ Len(t) = L /\ \A k \in 1 .. L : t[k] = c[p + k]
  <2>1. PICK a, b : a = p + 1 /\ b = p + L
    OBVIOUS
  <2>2. a \in Int /\ b \in Int /\ b - a + 1 = L /\ (a <= b <=> L >= 1)
    BY <1>2, <2>1
  <2>3. \A k \in a .. b : c[k] \in T
    BY ONLY <1>2, <2>1, c \in Seq(T)
  <2>4. /\ SubSeq(c, a, b) \in Seq(T) /\ Len(SubSeq(c, a, b)) = IF a <= b THEN b - a + 1 ELSE 0
        /\ \A k \in 1 .. b - a + 1 : SubSeq(c, a, b)[k] = c[a + k - 1]
    BY ONLY <2>2, <2>3, SubSeqProperties
  <2>5. t = SubSeq(c, a, b)
    BY <1>3, <2>1
  <2>6. \A k \in 1 .. L : t[k] = c[a + k - 1]
    BY <2>2, <2>4, <2>5
  <2>7. \A k \in 1 .. L : a + k - 1 = p + k
    BY <1>2, <2>1
  <2>8. t \in Seq(T) /\ Len(t) = L
    BY <1>2, <2>2, <2>4, <2>5
  <2> QED BY <2>6, <2>7, <2>8
<1>5. t = s
  BY <1>1, <1>2, <1>4
<1> QED BY <1>1, <1>3, <1>5

LEMMA NumberAt ==
    ASSUME content \in Seq(Symbols), NEW n \in Lengths, NEW p, Has(content, p, Decimal(n))
    PROVE  Hash!Number(p, p + Len(Decimal(n))) = n
<1>1. PICK s : s = Decimal(n)
  OBVIOUS
<1>2. s \in Seq(Symbols)
  BY <1>1, DecimalIs, SymbolsAre
<1>3. SubSeq(content, p + 1, p + Len(s)) = s
  BY <1>1, <1>2, PartIsRead
<1>4. Hash!Number(p, p + Len(s)) = HashNumber(SubSeq(content, p + 1, p + Len(s)))
  BY DEF Hash!Number, HashNumber
<1> QED BY <1>1, <1>3, <1>4, DecimalIsRead

LEMMA SymbolAt ==
    ASSUME content \in Seq(Symbols), NEW c \in Nat
    PROVE  /\ Len(content) \in Nat /\ Hash!filesize = Len(content) + 1
           /\ c < Len(content) => Hash!At(c) = content[c + 1] /\ Hash!At(c) \in Symbols
<1>1. c < Len(content) => c + 1 \in 1 .. Len(content)
  OBVIOUS
<1>2. c < Len(content) => content[c + 1] \in Symbols
  BY <1>1, ElementOfSeq
<1> QED BY <1>2 DEF Hash!At, Hash!filesize

LEMMA SkipWhileIs ==
    ASSUME content \in Seq(Symbols), NEW S, NEW p \in Nat, NEW e \in Nat, p <= e, e < Len(content),
           \A q \in p .. e - 1 : content[q + 1] \in S, content[e + 1] \notin S
    PROVE  Hash!SkipWhile(S, p) = e
<1> DEFINE IsFirst(x) == /\ x = Hash!filesize \/ Hash!At(x) \notin S
                         /\ \A q \in p .. x - 1 : Hash!At(q) \in S
<1>1. Len(content) \in Nat /\ Hash!filesize = Len(content) + 1
  BY SymbolAt
<1>2. \A q \in p .. e - 1 : Hash!At(q) \in S
  BY <1>1, SymbolAt
<1>3. Hash!At(e) \notin S
  BY SymbolAt
<1>4. e \in p .. Hash!filesize
  BY <1>1
<1>5. IsFirst(e)
  BY <1>2, <1>3
<1>6. ASSUME NEW x \in p .. Hash!filesize, IsFirst(x) PROVE x = e
  <2>1. ~(x < e)
    <3> SUFFICES ASSUME x < e PROVE FALSE
      OBVIOUS
    <3>1. x \in p .. e - 1 /\ x # Hash!filesize
      BY <1>1
    <3> QED BY <1>2, <1>6, <3>1
  <2>2. ~(e < x)
    <3> SUFFICES ASSUME e < x PROVE FALSE
      OBVIOUS
    <3>1. e \in p .. x - 1
      BY <1>1
    <3> QED BY <1>3, <1>6, <3>1
  <2> QED BY <1>1, <2>1, <2>2
<1>7. Hash!SkipWhile(S, p) = CHOOSE x \in p .. Hash!filesize : IsFirst(x)
  BY DEF Hash!SkipWhile
<1> HIDE DEF IsFirst
<1> QED BY <1>4, <1>5, <1>6, <1>7

LEMMA SkipToIs ==
    ASSUME content \in Seq(Symbols), NEW ch, NEW p \in Nat, NEW e \in Nat, p <= e, e < Len(content),
           \A q \in p .. e - 1 : content[q + 1] # ch, content[e + 1] = ch
    PROVE  Hash!SkipTo(ch, p) = e
<1> DEFINE IsFirst(x) == /\ x = Hash!filesize \/ Hash!At(x) = ch
                         /\ \A q \in p .. x - 1 : Hash!At(q) # ch
<1>1. Len(content) \in Nat /\ Hash!filesize = Len(content) + 1
  BY SymbolAt
<1>2. \A q \in p .. e - 1 : Hash!At(q) # ch
  BY <1>1, SymbolAt
<1>3. Hash!At(e) = ch
  BY SymbolAt
<1>4. e \in p .. Hash!filesize
  BY <1>1
<1>5. IsFirst(e)
  BY <1>2, <1>3
<1>6. ASSUME NEW x \in p .. Hash!filesize, IsFirst(x) PROVE x = e
  <2>1. ~(x < e)
    <3> SUFFICES ASSUME x < e PROVE FALSE
      OBVIOUS
    <3>1. x \in p .. e - 1 /\ x # Hash!filesize
      BY <1>1
    <3> QED BY <1>2, <1>6, <3>1
  <2>2. ~(e < x)
    <3> SUFFICES ASSUME e < x PROVE FALSE
      OBVIOUS
    <3>1. e \in p .. x - 1
      BY <1>1
    <3> QED BY <1>3, <1>6, <3>1
  <2> QED BY <1>1, <2>1, <2>2
<1>7. Hash!SkipTo(ch, p) = CHOOSE x \in p .. Hash!filesize : IsFirst(x)
  BY DEF Hash!SkipTo
<1> HIDE DEF IsFirst
<1> QED BY <1>4, <1>5, <1>6, <1>7

\* The digits of a length: what follows them is no digit, and no end.
LEMMA DigitsAt ==
    ASSUME content \in Seq(Symbols), NEW n \in Lengths, NEW p, Has(content, p, Decimal(n)),
           NEW ch, ch \notin Digits, Has(content, p + Len(Decimal(n)), <<ch>>)
    PROVE  /\ p \in Nat /\ p + Len(Decimal(n)) < Len(content)
           /\ Hash!SkipWhile(Digits, p) = p + Len(Decimal(n)) /\ Hash!SkipTo(ch, p) = p + Len(Decimal(n))
           /\ Hash!At(p) \in Digits /\ Hash!At(p + Len(Decimal(n))) = ch
<1>1. PICK L, s : s = Decimal(n) /\ L = Len(s)
  OBVIOUS
<1>2. s \in Seq(Digits) /\ L \in Nat /\ L >= 1 /\ p \in Nat /\ p + L \in Nat /\ Len(content) \in Nat
  <2>1. p \in Nat /\ Len(content) \in Nat
    BY DEF Has
  <2>2. s \in Seq(Digits) /\ L \in Nat /\ L >= 1
    BY <1>1, DecimalIs
  <2> QED BY <2>1, <2>2
<1>3. \A k \in 1 .. L : content[p + k] \in Digits
  <2>1. \A k \in 1 .. L : content[p + k] = s[k] /\ s[k] \in Digits
    BY <1>1, <1>2, ElementOfSeq DEF Has
  <2> QED BY <2>1
<1>4. p + L < Len(content) /\ content[p + L + 1] = ch
  <2>1. Len(<<ch>>) = 1 /\ <<ch>>[1] = ch /\ 1 \in 1 .. 1
    OBVIOUS
  <2>2. p + L + 1 <= Len(content) /\ content[p + L + 1] = ch
    BY <1>1, <2>1 DEF Has
  <2> QED BY <1>2, <2>2
<1>5. ASSUME NEW q \in p .. p + L - 1 PROVE content[q + 1] \in Digits /\ content[q + 1] # ch
  <2>1. q + 1 - p \in 1 .. L /\ p + (q + 1 - p) = q + 1
    BY <1>2
  <2>2. content[q + 1] \in Digits
    BY <1>3, <2>1
  <2> QED BY <2>2
<1>6. p <= p + L /\ p \in p .. p + L - 1
  BY <1>2
<1>7. Hash!SkipWhile(Digits, p) = p + L
  BY <1>2, <1>4, <1>5, <1>6, SkipWhileIs
<1>8. Hash!SkipTo(ch, p) = p + L
  BY <1>2, <1>4, <1>5, <1>6, SkipToIs
<1>9. Hash!At(p) \in Digits /\ Hash!At(p + L) = ch
  <2>1. p < Len(content) /\ Hash!At(p) = content[p + 1]
    BY <1>2, <1>4, SymbolAt
  <2>2. content[p + 1] \in Digits
    BY <1>5, <1>6
  <2>3. Hash!At(p + L) = content[p + L + 1]
    BY <1>2, <1>4, SymbolAt
  <2> QED BY <1>4, <2>1, <2>2, <2>3
<1> QED BY <1>1, <1>2, <1>4, <1>7, <1>8, <1>9

\* A text with its length, and an integer, in the content.
LEMMA TextIsRead ==
    ASSUME content \in Seq(Symbols), NEW s \in SomeTexts, NEW p, Has(content, p, Text(s))
    PROVE  /\ p \in Nat /\ p < Len(content) /\ Hash!At(p) \in Digits
           /\ Hash!SkipWhile(Digits, p) = p + Len(Decimal(Len(s)))
           /\ Hash!At(p + Len(Decimal(Len(s)))) = ":"
           /\ Hash!Number(p, p + Len(Decimal(Len(s)))) = Len(s)
           /\ p + Len(Text(s)) = p + Len(Decimal(Len(s))) + 1 + Len(s)
           /\ Has(content, p + Len(Decimal(Len(s))) + 1, s)
<1>1. PICK d, L : d = Decimal(Len(s)) /\ L = Len(d)
  OBVIOUS
<1>2. s \in Seq(Symbols) /\ Len(s) \in Lengths /\ Digits \cup {":"} \subseteq Symbols
  BY SymbolsAre DEF SomeTexts, Characters, Marks
<1>3. /\ d \in Seq(Symbols) /\ <<":">> \in Seq(Symbols) /\ L \in Nat /\ Len(s) \in Nat
  <2>1. d \in Seq(Digits) /\ L \in Nat /\ L >= 1
    BY <1>1, <1>2, DecimalIs
  <2> QED BY <1>2, <2>1
<1>4. /\ Text(s) \in Seq(Symbols) /\ Len(Text(s)) = L + 1 + Len(s)
      /\ Has(Text(s), 0, d) /\ Has(Text(s), L, <<":">>) /\ Has(Text(s), L + 1, s)
  BY <1>1, <1>2, TextIs
<1>5. /\ Has(content, p + 0, d) /\ Has(content, p + L, <<":">>) /\ Has(content, p + (L + 1), s)
  BY <1>2, <1>3, <1>4, HasInside
<1>6. p \in Nat /\ p + 0 = p /\ p + (L + 1) = p + L + 1 /\ p + (L + 1 + Len(s)) = p + L + 1 + Len(s)
  BY <1>3 DEF Has
<1>7. ":" \notin Digits
  BY DigitsAssumption DEF AllDigits
<1>8. /\ p + L < Len(content) /\ Hash!SkipWhile(Digits, p) = p + L
      /\ Hash!At(p) \in Digits /\ Hash!At(p + L) = ":"
  BY <1>1, <1>2, <1>5, <1>6, <1>7, DigitsAt
<1>9. Hash!Number(p, p + L) = Len(s)
  BY <1>1, <1>2, <1>5, <1>6, NumberAt
<1>10. p < Len(content)
  <2>1. Len(content) \in Nat
    OBVIOUS
  <2> QED BY <1>3, <1>6, <1>8, <2>1
<1> QED BY <1>1, <1>4, <1>5, <1>6, <1>8, <1>9, <1>10

LEMMA IntIsRead ==
    ASSUME content \in Seq(Symbols), NEW n \in Lengths, NEW p, Has(content, p, Int_(n))
    PROVE  /\ p \in Nat /\ p < Len(content) /\ Hash!At(p) = "i"
           /\ Hash!SkipTo("e", p + 1) = p + 1 + Len(Decimal(n))
           /\ Hash!Number(p + 1, p + 1 + Len(Decimal(n))) = n
           /\ p + 1 + Len(Decimal(n)) < Len(content)
           /\ p + Len(Int_(n)) = p + 1 + Len(Decimal(n)) + 1
<1>1. PICK d, L : d = Decimal(n) /\ L = Len(d)
  OBVIOUS
<1>2. Characters \subseteq Symbols /\ "i" \in Symbols /\ "e" \in Symbols
  BY SymbolsAre DEF Characters, Marks
<1>3. d \in Seq(Symbols) /\ <<"i">> \in Seq(Symbols) /\ <<"e">> \in Seq(Symbols) /\ L \in Nat
  <2>1. d \in Seq(Digits) /\ L \in Nat /\ L >= 1 /\ Digits \subseteq Symbols
    BY <1>1, DecimalIs, SymbolsAre
  <2> QED BY <1>2, <2>1
<1>4. /\ Int_(n) \in Seq(Symbols) /\ Len(Int_(n)) = 1 + L + 1
      /\ Has(Int_(n), 0, <<"i">>) /\ Has(Int_(n), 1, d) /\ Has(Int_(n), 1 + L, <<"e">>)
  <2>1. Int_(n) \in Seq(Characters)
    BY IntIs
  <2>2. Int_(n) \in Seq(Symbols)
    BY <1>2, <2>1
  <2> QED BY <1>1, <2>2, IntIs
<1>5. Has(content, p + 0, <<"i">>) /\ Has(content, p + 1, d) /\ Has(content, p + (1 + L), <<"e">>)
  BY <1>3, <1>4, HasInside
<1>6. p \in Nat /\ p + 0 = p /\ p + (1 + L) = p + 1 + L /\ p + (1 + L + 1) = p + 1 + L + 1 /\ Len(content) \in Nat
  BY <1>3 DEF Has
<1>7. "e" \notin Digits
  BY DigitsAssumption DEF AllDigits
<1>8. p + 1 + L < Len(content) /\ Hash!SkipTo("e", p + 1) = p + 1 + L
  BY <1>1, <1>5, <1>6, <1>7, DigitsAt
<1>9. Hash!Number(p + 1, p + 1 + L) = n
  BY <1>1, <1>5, NumberAt
<1>10. p < Len(content)
  BY <1>3, <1>6, <1>8
<1>11. Hash!At(p) = "i"
  <2>1. Len(<<"i">>) = 1 /\ <<"i">>[1] = "i" /\ 1 \in 1 .. 1
    OBVIOUS
  <2>2. content[p + 1] = "i"
    BY <1>5, <1>6, <2>1 DEF Has
  <2> QED BY <1>6, <1>10, <2>2, SymbolAt
<1> QED BY <1>1, <1>4, <1>6, <1>8, <1>9, <1>10, <1>11

-----------------------------------------------------------------------------
(***************************************************************************)
(* The way of the scan through what a metafile has.  S has the positions   *)
(* on it, each with the count there, and leads to the end n of the value;  *)
(* from each the turn of the loop goes on to another.                      *)
(***************************************************************************)
Way(c, p, d, S, n) ==
    \/ Has(c, p, <<"e">>) /\ d # 0 /\ IF d = 1 THEN p + 1 = n ELSE <<p + 1, d - 1>> \in S
    \/ \E k \in Lengths : Has(c, p, Int_(k)) /\ <<p + Len(Int_(k)), d>> \in S
    \/ \E s \in SomeTexts : Has(c, p, Text(s)) /\ <<p + Len(Text(s)), d>> \in S
    \/ (Has(c, p, <<"l">>) \/ Has(c, p, <<"d">>)) /\ <<p + 1, d + 1>> \in S

Leads(c, S, n) == S \in SUBSET (Nat \X Nat) /\ \A p, d \in Nat : <<p, d>> \in S => Way(c, p, d, S, n)
Ends(c, p, d, n) == p \in Nat /\ d \in Nat /\ \E S : Leads(c, S, n) /\ <<p, d>> \in S

\* One turn of it.
Turns(c, p, d, n) ==
    \/ Has(c, p, <<"e">>) /\ d # 0 /\ IF d = 1 THEN p + 1 = n ELSE Ends(c, p + 1, d - 1, n)
    \/ \E k \in Lengths : Has(c, p, Int_(k)) /\ Ends(c, p + Len(Int_(k)), d, n)
    \/ \E s \in SomeTexts : Has(c, p, Text(s)) /\ Ends(c, p + Len(Text(s)), d, n)
    \/ (Has(c, p, <<"l">>) \/ Has(c, p, <<"d">>)) /\ Ends(c, p + 1, d + 1, n)

LEMMA OnTheWay ==
    ASSUME NEW c, NEW S, NEW n, Leads(c, S, n), NEW p, NEW d, <<p, d>> \in S
    PROVE  Ends(c, p, d, n)
<1>1. p \in Nat /\ d \in Nat
  BY DEF Leads
<1> QED BY <1>1 DEF Ends

LEMMA EndsTurns ==
    ASSUME NEW c, NEW p, NEW d, NEW n, Ends(c, p, d, n)
    PROVE  p \in Nat /\ d \in Nat /\ Turns(c, p, d, n)
<1>1. PICK S : Leads(c, S, n) /\ <<p, d>> \in S
  BY DEF Ends
<1>2. p \in Nat /\ d \in Nat
  BY DEF Ends
<1>3. Way(c, p, d, S, n)
  BY <1>1, <1>2 DEF Leads
<1>4. \A q, e : <<q, e>> \in S => Ends(c, q, e, n)
  BY <1>1, OnTheWay
<1> QED BY <1>2, <1>3, <1>4 DEF Way, Turns

\* A position before one on the way is on one too.
LEMMA WayGrows ==
    ASSUME NEW c, NEW p, NEW d, NEW S, NEW R, S \subseteq R, NEW n, Way(c, p, d, S, n)
    PROVE  Way(c, p, d, R, n)
BY DEF Way

LEMMA WayBegins ==
    ASSUME NEW c, NEW p \in Nat, NEW d \in Nat, NEW S, NEW n, Leads(c, S, n), Way(c, p, d, S, n)
    PROVE  Ends(c, p, d, n)
<1>1. PICK R : R = S \cup {<<p, d>>}
  OBVIOUS
<1>2. S \subseteq R /\ <<p, d>> \in R /\ R \in SUBSET (Nat \X Nat)
  BY <1>1 DEF Leads
<1>3. ASSUME NEW q \in Nat, NEW e \in Nat, <<q, e>> \in R PROVE Way(c, q, e, R, n)
  <2>1. CASE <<q, e>> \in S
    <3>1. Way(c, q, e, S, n)
      BY <2>1 DEF Leads
    <3> QED BY <1>2, <3>1, WayGrows
  <2>2. CASE <<q, e>> = <<p, d>>
    <3>1. q = p /\ e = d
      BY <2>2
    <3> QED BY <1>2, <3>1, WayGrows
  <2> QED BY <1>1, <1>3, <2>1, <2>2
<1>4. Leads(c, R, n)
  BY <1>2, <1>3 DEF Leads
<1> QED BY <1>2, <1>4 DEF Ends

LEMMA EndIsNear ==
    ASSUME NEW c, NEW p \in Nat, Has(c, p, <<"e">>)
    PROVE  Ends(c, p, 1, p + 1)
<1>1. Leads(c, {}, p + 1)
  BY DEF Leads
<1>2. Way(c, p, 1, {}, p + 1)
  BY DEF Way
<1> QED BY <1>1, <1>2, WayBegins

LEMMA EndCloses ==
    ASSUME NEW c, NEW p \in Nat, NEW d \in Nat \ {0}, NEW n, Has(c, p, <<"e">>), Ends(c, p + 1, d, n)
    PROVE  Ends(c, p, d + 1, n)
<1>1. PICK S : Leads(c, S, n) /\ <<p + 1, d>> \in S
  BY DEF Ends
<1>2. d + 1 # 0 /\ d + 1 # 1 /\ (d + 1) - 1 = d /\ d + 1 \in Nat
  OBVIOUS
<1>3. Way(c, p, d + 1, S, n)
  BY <1>1, <1>2 DEF Way
<1> QED BY <1>1, <1>2, <1>3, WayBegins

LEMMA EndOpens ==
    ASSUME NEW c, NEW p \in Nat, NEW d \in Nat, NEW n, Has(c, p, <<"l">>) \/ Has(c, p, <<"d">>),
           Ends(c, p + 1, d + 1, n)
    PROVE  Ends(c, p, d, n)
<1>1. PICK S : Leads(c, S, n) /\ <<p + 1, d + 1>> \in S
  BY DEF Ends
<1>2. Way(c, p, d, S, n)
  BY <1>1 DEF Way
<1> QED BY <1>1, <1>2, WayBegins

LEMMA EndBehindInt ==
    ASSUME NEW c, NEW p \in Nat, NEW d \in Nat, NEW n, NEW k \in Lengths, Has(c, p, Int_(k)),
           Ends(c, p + Len(Int_(k)), d, n)
    PROVE  Ends(c, p, d, n)
<1>1. PICK S : Leads(c, S, n) /\ <<p + Len(Int_(k)), d>> \in S
  BY DEF Ends
<1>2. Way(c, p, d, S, n)
  BY <1>1 DEF Way
<1> QED BY <1>1, <1>2, WayBegins

LEMMA EndBehindText ==
    ASSUME NEW c, NEW p \in Nat, NEW d \in Nat, NEW n, NEW s \in SomeTexts, Has(c, p, Text(s)),
           Ends(c, p + Len(Text(s)), d, n)
    PROVE  Ends(c, p, d, n)
<1>1. PICK S : Leads(c, S, n) /\ <<p + Len(Text(s)), d>> \in S
  BY DEF Ends
<1>2. Way(c, p, d, S, n)
  BY <1>1 DEF Way
<1> QED BY <1>1, <1>2, WayBegins

-----------------------------------------------------------------------------
(***************************************************************************)
(* Parts of a metafile: the scan goes through s, and opens k values more   *)
(* than it closes, wherever s is.                                          *)
(***************************************************************************)
LiftsIn(c, s, k) ==
    \A p \in Nat, d \in Nat : \A n :
        Has(c, p, s) /\ d + k # 0 /\ Ends(c, p + Len(s), d + k, n) => Ends(c, p, d, n)
Lifts(s, k) == s \in Seq(Symbols) /\ k \in Nat /\ \A c \in Seq(Symbols) : LiftsIn(c, s, k)

LEMMA TextLifts == ASSUME NEW s \in SomeTexts PROVE Lifts(Text(s), 0)
<1>1. Text(s) \in Seq(Symbols)
  BY SymbolsAre, TextIs DEF SomeTexts, Characters, Marks
<1>2. ASSUME NEW c \in Seq(Symbols), NEW p \in Nat, NEW d \in Nat, NEW n,
             Has(c, p, Text(s)), Ends(c, p + Len(Text(s)), d + 0, n)
      PROVE  Ends(c, p, d, n)
  <2>1. d + 0 = d
    OBVIOUS
  <2> QED BY <1>2, <2>1, EndBehindText
<1> QED BY <1>1, <1>2 DEF Lifts, LiftsIn

LEMMA IntLifts == ASSUME NEW m \in Lengths PROVE Lifts(Int_(m), 0)
<1>1. Int_(m) \in Seq(Symbols)
  <2>1. Int_(m) \in Seq(Characters) /\ Characters \subseteq Symbols
    BY SymbolsAre, IntIs
  <2> QED BY <2>1
<1>2. ASSUME NEW c \in Seq(Symbols), NEW p \in Nat, NEW d \in Nat, NEW n,
             Has(c, p, Int_(m)), Ends(c, p + Len(Int_(m)), d + 0, n)
      PROVE  Ends(c, p, d, n)
  <2>1. d + 0 = d
    OBVIOUS
  <2> QED BY <1>2, <2>1, EndBehindInt
<1> QED BY <1>1, <1>2 DEF Lifts, LiftsIn

LEMMA KeyLifts == ASSUME NEW k \in Words PROVE Lifts(Key(k), 0)
BY KeyIsText, TextLifts

LEMMA OpenLifts == ASSUME NEW ch \in {"l", "d"} PROVE Lifts(<<ch>>, 1)
<1>1. <<ch>> \in Seq(Symbols) /\ Len(<<ch>>) = 1
  BY SymbolsAre DEF Characters, Marks
<1>2. ASSUME NEW c \in Seq(Symbols), NEW p \in Nat, NEW d \in Nat, NEW n,
             Has(c, p, <<ch>>), Ends(c, p + Len(<<ch>>), d + 1, n)
      PROVE  Ends(c, p, d, n)
  <2>1. Ends(c, p + 1, d + 1, n) /\ (Has(c, p, <<"l">>) \/ Has(c, p, <<"d">>))
    BY <1>1, <1>2
  <2> QED BY <2>1, EndOpens
<1> QED BY <1>1, <1>2 DEF Lifts, LiftsIn

LEMMA BothLift ==
    ASSUME NEW a, NEW b, NEW j, NEW k, Lifts(a, j), Lifts(b, k), j # 0 \/ k = 0
    PROVE  Lifts(a \o b, j + k)
<1>1. a \in Seq(Symbols) /\ b \in Seq(Symbols) /\ j \in Nat /\ k \in Nat /\ j + k \in Nat
  BY DEF Lifts
<1>2. a \o b \in Seq(Symbols) /\ Len(a \o b) = Len(a) + Len(b) /\ Len(a) \in Nat /\ Len(b) \in Nat
  BY <1>1, HasBoth
<1>3. ASSUME NEW c \in Seq(Symbols), NEW p \in Nat, NEW d \in Nat, NEW n,
             Has(c, p, a \o b), d + (j + k) # 0, Ends(c, p + Len(a \o b), d + (j + k), n)
      PROVE  Ends(c, p, d, n)
  <2>1. Has(c, p, a) /\ Has(c, p + Len(a), b)
    BY <1>1, <1>3, HasBothInside
  <2>2. PICK x, y : x = p + Len(a) /\ y = d + j
    OBVIOUS
  <2>3. x \in Nat /\ y \in Nat /\ y # 0 /\ y + k # 0 /\ x + Len(b) = p + Len(a \o b) /\ y + k = d + (j + k)
    BY <1>1, <1>2, <1>3, <2>2
  <2>4. LiftsIn(c, a, j) /\ LiftsIn(c, b, k)
    BY DEF Lifts
  <2>5. Ends(c, x, y, n)
    <3>1. Has(c, x, b) /\ Ends(c, x + Len(b), y + k, n)
      BY <1>3, <2>1, <2>2, <2>3
    <3> QED BY <2>3, <2>4, <3>1 DEF LiftsIn
  <2> QED BY <2>1, <2>2, <2>3, <2>4, <2>5 DEF LiftsIn
<1> QED BY <1>1, <1>2, <1>3 DEF Lifts, LiftsIn

LEMMA CloseLifts ==
    ASSUME NEW a, NEW k \in Nat, Lifts(a, k + 1)
    PROVE  Lifts(a \o <<"e">>, k)
<1>1. PICK b : b = <<"e">>
  OBVIOUS
<1>2. a \in Seq(Symbols) /\ b \in Seq(Symbols) /\ Len(b) = 1
  <2>1. "e" \in Symbols
    BY SymbolsAre DEF Characters, Marks
  <2> QED BY <1>1, <2>1 DEF Lifts
<1>3. a \o b \in Seq(Symbols) /\ Len(a \o b) = Len(a) + Len(b) /\ Len(a) \in Nat
  <2>1. a \in Seq(Symbols) /\ b \in Seq(Symbols)
    BY <1>2
  <2> QED BY ONLY <2>1, HasBoth
<1>4. ASSUME NEW c \in Seq(Symbols), NEW p \in Nat, NEW d \in Nat, NEW n,
             Has(c, p, a \o b), d + k # 0, Ends(c, p + Len(a \o b), d + k, n)
      PROVE  Ends(c, p, d, n)
  <2>1. Has(c, p, a) /\ Has(c, p + Len(a), b)
    BY <1>2, <1>4, HasBothInside
  <2>2. PICK x, y : x = p + Len(a) /\ y = d + k
    OBVIOUS
  <2>3. x \in Nat /\ y \in Nat \ {0} /\ x + 1 = p + Len(a \o b) /\ y + 1 = d + (k + 1) /\ d + (k + 1) # 0
    BY <1>2, <1>3, <1>4, <2>2
  <2>4. Ends(c, x, y + 1, n)
    BY <1>1, <1>4, <2>1, <2>2, <2>3, EndCloses
  <2>5. LiftsIn(c, a, k + 1)
    BY DEF Lifts
  <2>6. Ends(c, p + Len(a), d + (k + 1), n)
    BY <2>2, <2>3, <2>4
  <2> QED BY <2>1, <2>3, <2>5, <2>6 DEF LiftsIn
<1> QED BY <1>1, <1>3, <1>4 DEF Lifts, LiftsIn

AllLift(s) == \A k \in 1 .. Len(s) : Lifts(s[k], 0)

LEMMA FlattenLifts ==
    ASSUME NEW s \in Seq(Seq(Symbols)), AllLift(s)
    PROVE  Lifts(FlattenSeq(s), 0)
<1> DEFINE S == {n \in Nat : \A t \in Seq(Seq(Symbols)) :
                     Len(t) = n /\ AllLift(t) => Lifts(FlattenSeq(t), 0)}
<1>1. 0 \in S
  <2>1. ASSUME NEW t \in Seq(Seq(Symbols)), Len(t) = 0 PROVE Lifts(FlattenSeq(t), 0)
    <3>1. t = <<>>
      BY <2>1
    <3>2. FlattenSeq(t) = <<>>
      BY <3>1, FlattenEmpty
    <3>3. ASSUME NEW c, NEW p \in Nat, NEW d \in Nat, NEW n, Ends(c, p + Len(<<>>), d + 0, n)
          PROVE  Ends(c, p, d, n)
      <4>1. p + Len(<<>>) = p /\ d + 0 = d
        OBVIOUS
      <4> QED BY <3>3, <4>1
    <3>4. Lifts(<<>>, 0)
      BY <3>3 DEF Lifts, LiftsIn
    <3> QED BY <3>2, <3>4
  <2> QED BY <2>1
<1>2. ASSUME NEW n \in S PROVE n + 1 \in S
  <2>1. ASSUME NEW t \in Seq(Seq(Symbols)), Len(t) = n + 1, AllLift(t)
        PROVE  Lifts(FlattenSeq(t), 0)
    <3>1. PICK u \in Seq(Seq(Symbols)), x \in Seq(Symbols) :
              t = Append(u, x) /\ Len(u) = n /\ x = t[n + 1] /\ \A k \in 1 .. n : u[k] = t[k]
      <4>1. /\ SubSeq(t, 1, n) \in Seq(Seq(Symbols)) /\ t[n + 1] \in Seq(Symbols)
            /\ Len(SubSeq(t, 1, n)) = n /\ t = Append(SubSeq(t, 1, n), t[n + 1])
            /\ \A k \in 1 .. n : SubSeq(t, 1, n)[k] = t[k]
        BY <2>1
      <4> QED BY <4>1
    <3>2. AllLift(u)
      <4>1. \A k \in 1 .. n : k \in 1 .. Len(t)
        BY <2>1
      <4> QED BY <2>1, <3>1, <4>1 DEF AllLift
    <3>3. Lifts(FlattenSeq(u), 0)
      BY <3>1, <3>2
    <3>4. Lifts(x, 0)
      <4>1. n + 1 \in 1 .. Len(t)
        BY <2>1
      <4> QED BY <2>1, <3>1, <4>1 DEF AllLift
    <3>5. FlattenSeq(t) = FlattenSeq(u) \o x
      BY <3>1, FlattenAppend
    <3>6. PICK y : y = FlattenSeq(u) \o x
      OBVIOUS
    <3>7. Lifts(y, 0 + 0)
      BY <3>3, <3>4, <3>6, BothLift
    <3>8. 0 + 0 = 0
      OBVIOUS
    <3>9. FlattenSeq(t) = y /\ Lifts(y, 0)
      BY ONLY <3>5, <3>6, <3>7, <3>8
    <3> QED BY ONLY <3>9
  <2> QED BY <2>1
<1>3. S \in SUBSET Nat
  OBVIOUS
<1> HIDE DEF S
<1>4. S = Nat
  BY <1>1, <1>2, <1>3, NatFromBefore
<1>5. Len(s) \in S
  BY <1>4
<1> QED BY <1>5 DEF S

\* A key before what opens a value.
LEMMA KeyBeforeLifts ==
    ASSUME NEW k \in Words, NEW b, NEW j, Lifts(b, j)
    PROVE  Lifts(Key(k) \o b, j)
<1>1. PICK a, t : a = Key(k) /\ t = <<k>>
  OBVIOUS
<1>2. a = Text(t) /\ t \in SomeTexts /\ a \in Seq(Symbols) /\ b \in Seq(Symbols) /\ j \in Nat
  BY <1>1, KeyIsText, KeyLifts DEF Lifts
<1>3. a \o b \in Seq(Symbols) /\ Len(a \o b) = Len(a) + Len(b) /\ Len(a) \in Nat /\ Len(b) \in Nat
  BY <1>2, HasBoth
<1>4. ASSUME NEW c \in Seq(Symbols), NEW p \in Nat, NEW d \in Nat, NEW n,
             Has(c, p, a \o b), d + j # 0, Ends(c, p + Len(a \o b), d + j, n)
      PROVE  Ends(c, p, d, n)
  <2>1. Has(c, p, a) /\ Has(c, p + Len(a), b)
    BY <1>2, <1>4, HasBothInside
  <2>2. PICK x : x = p + Len(a)
    OBVIOUS
  <2>3. x \in Nat /\ x + Len(b) = p + Len(a \o b)
    BY <1>3, <2>2
  <2>4. LiftsIn(c, b, j)
    BY DEF Lifts
  <2>5. Ends(c, x, d, n)
    <3>1. Has(c, x, b) /\ Ends(c, x + Len(b), d + j, n)
      BY <1>4, <2>1, <2>2, <2>3
    <3> QED BY <1>4, <2>3, <2>4, <3>1 DEF LiftsIn
  <2> QED BY <1>2, <2>1, <2>2, <2>5, EndBehindText
<1> QED BY <1>1, <1>2, <1>3, <1>4 DEF Lifts, LiftsIn

\* A file of a metafile, and the value of info but for its end.
TheFiles == [length : Lengths, path : Seq(FileTexts)]

LEMMA PathLifts ==
    ASSUME NEW s \in Seq(FileTexts)
    PROVE  Lifts(Each(s, Text), 0)
<1>1. PICK t : t = [k \in DOMAIN s |-> Text(s[k])]
  OBVIOUS
<1>2. /\ Len(t) = Len(s) /\ DOMAIN s = 1 .. Len(s)
      /\ \A k \in 1 .. Len(s) : t[k] = Text(s[k]) /\ s[k] \in SomeTexts
  BY <1>1, SymbolsAre
<1>3. \A k \in 1 .. Len(s) : Lifts(t[k], 0)
  BY <1>2, TextLifts
<1>4. t \in Seq(Seq(Symbols))
  <2>1. \A k \in 1 .. Len(s) : t[k] \in Seq(Symbols)
    BY <1>3 DEF Lifts
  <2> QED BY <1>1, <1>2, <2>1
<1>5. AllLift(t)
  BY <1>2, <1>3 DEF AllLift
<1>6. Each(s, Text) = FlattenSeq(t)
  BY <1>1 DEF Each
<1> QED BY <1>4, <1>5, <1>6, FlattenLifts

\* What a list has in it.
LEMMA ListLifts ==
    ASSUME NEW a, Lifts(a, 1), NEW b, Lifts(b, 0)
    PROVE  Lifts(a \o <<"l">> \o b \o <<"e">>, 1)
<1>1. PICK x : x = a \o <<"l">>
  OBVIOUS
<1>2. Lifts(x, 1 + 1)
  BY <1>1, OpenLifts, BothLift
<1>3. PICK y : y = x \o b
  OBVIOUS
<1>4. Lifts(y, (1 + 1) + 0)
  <2>1. 1 + 1 # 0
    OBVIOUS
  <2> QED BY <1>2, <1>3, <2>1, BothLift
<1>5. (1 + 1) + 0 = 1 + 1
  OBVIOUS
<1>6. Lifts(y \o <<"e">>, 1)
  BY <1>4, <1>5, CloseLifts
<1> QED BY <1>1, <1>3, <1>6

\* One more part of a value that is open.
LEMMA MoreLifts ==
    ASSUME NEW a, Lifts(a, 1), NEW b, Lifts(b, 0)
    PROVE  Lifts(a \o b, 1)
<1>1. 1 # 0 /\ 1 + 0 = 1
  OBVIOUS
<1>2. Lifts(a \o b, 1 + 0)
  BY <1>1, BothLift
<1> QED BY <1>1, <1>2

\* A key with its text, or its number, more.
LEMMA MoreText ==
    ASSUME NEW a, Lifts(a, 1), NEW k \in Words, NEW s \in SomeTexts
    PROVE  Lifts(a \o Key(k) \o Text(s), 1)
<1>1. PICK x : x = a \o Key(k)
  OBVIOUS
<1>2. Lifts(x, 1)
  BY <1>1, KeyLifts, MoreLifts
<1>3. Lifts(x \o Text(s), 1)
  BY <1>2, TextLifts, MoreLifts
<1> QED BY <1>1, <1>3

LEMMA MoreInt ==
    ASSUME NEW a, Lifts(a, 1), NEW k \in Words, NEW m \in Lengths
    PROVE  Lifts(a \o Key(k) \o Int_(m), 1)
<1>1. PICK x : x = a \o Key(k)
  OBVIOUS
<1>2. Lifts(x, 1)
  BY <1>1, KeyLifts, MoreLifts
<1>3. Lifts(x \o Int_(m), 1)
  BY <1>2, IntLifts, MoreLifts
<1> QED BY <1>1, <1>3

LEMMA MoreList ==
    ASSUME NEW a, Lifts(a, 1), NEW k \in Words, NEW b, Lifts(b, 0)
    PROVE  Lifts(a \o Key(k) \o <<"l">> \o b \o <<"e">>, 1)
<1>1. PICK x : x = a \o Key(k)
  OBVIOUS
<1>2. Lifts(x, 1)
  BY <1>1, KeyLifts, MoreLifts
<1>3. Lifts(x \o <<"l">> \o b \o <<"e">>, 1)
  BY <1>2, ListLifts
<1> QED BY <1>1, <1>3

LEMMA FileLifts ==
    ASSUME NEW f \in TheFiles
    PROVE  Lifts(File(f), 0)
<1>1. f.length \in Lengths /\ f.path \in Seq(FileTexts) /\ "length" \in Words /\ "path" \in Words
  BY DEF TheFiles, Words
<1>2. PICK a, b, c, e : a = <<"d">> /\ b = a \o Key("length") \o Int_(f.length) /\ c = Each(f.path, Text)
                        /\ e = b \o Key("path") \o <<"l">> \o c \o <<"e">>
  OBVIOUS
<1>3. Lifts(a, 1)
  BY <1>2, OpenLifts
<1>4. Lifts(b, 1)
  BY <1>1, <1>2, <1>3, MoreInt
<1>5. Lifts(c, 0)
  BY <1>1, <1>2, PathLifts
<1>6. Lifts(e, 0 + 1)
  <2>1. 0 + 1 = 1
    OBVIOUS
  <2> QED BY <1>1, <1>2, <1>4, <1>5, <2>1, MoreList
<1>7. Lifts(e \o <<"e">>, 0)
  BY <1>6, CloseLifts
<1> QED BY <1>2, <1>7 DEF File

LEMMA FilesLift ==
    ASSUME NEW s \in Seq(TheFiles)
    PROVE  Lifts(Each(s, File), 0)
<1>1. PICK t : t = [k \in DOMAIN s |-> File(s[k])]
  OBVIOUS
<1>2. /\ Len(t) = Len(s) /\ DOMAIN s = 1 .. Len(s)
      /\ \A k \in 1 .. Len(s) : t[k] = File(s[k]) /\ s[k] \in TheFiles
  BY <1>1
<1>3. \A k \in 1 .. Len(s) : Lifts(t[k], 0)
  BY <1>2, FileLifts
<1>4. t \in Seq(Seq(Symbols))
  <2>1. \A k \in 1 .. Len(s) : t[k] \in Seq(Symbols)
    BY <1>3 DEF Lifts
  <2> QED BY <1>1, <1>2, <2>1
<1>5. AllLift(t)
  BY <1>2, <1>3 DEF AllLift
<1>6. Each(s, File) = FlattenSeq(t)
  BY <1>1 DEF Each
<1> QED BY <1>4, <1>5, <1>6, FlattenLifts

LengthOrFiles(m) ==
    IF m.files = <<>> THEN Key("length") \o Int_(m.length)
    ELSE Key("files") \o <<"l">> \o Each(m.files, File) \o <<"e">>

LEMMA LengthOrFilesLifts ==
    ASSUME NEW m \in AllMetafiles
    PROVE  Lifts(LengthOrFiles(m), 0)
<1>1. m.files \in Seq(TheFiles) /\ m.length \in Lengths /\ "length" \in Words /\ "files" \in Words
  BY DEF AllMetafiles, TheFiles, Words
<1>2. Lifts(Key("length") \o Int_(m.length), 0)
  <2>1. Lifts(Key("length"), 0) /\ Lifts(Int_(m.length), 0) /\ 0 + 0 = 0
    BY <1>1, KeyLifts, IntLifts
  <2>2. Lifts(Key("length") \o Int_(m.length), 0 + 0)
    BY <2>1, BothLift
  <2> QED BY <2>1, <2>2
<1>3. Lifts(Key("files") \o <<"l">> \o Each(m.files, File) \o <<"e">>, 0)
  <2>1. Lifts(Each(m.files, File), 0) /\ 1 + 0 = 1 /\ 0 + 1 = 1 /\ 1 # 0
    BY <1>1, FilesLift
  <2>2. PICK x, y, z : x = Key("files") \o <<"l">> /\ y = Each(m.files, File) /\ z = x \o y
    OBVIOUS
  <2>3. Lifts(x, 1)
    BY <1>1, <2>2, KeyBeforeLifts, OpenLifts
  <2>4. Lifts(z, 1 + 0)
    BY <2>1, <2>2, <2>3, BothLift
  <2>5. Lifts(z \o <<"e">>, 0)
    BY <2>1, <2>4, CloseLifts
  <2> QED BY <2>2, <2>5
<1> QED BY <1>2, <1>3 DEF LengthOrFiles

InfoBody(m) ==
    <<"d">> \o LengthOrFiles(m)
        \o Key("name") \o Text(m.name)
        \o Key("piece length") \o Int_(m.piece_length)
        \o Key("pieces") \o Text(m.pieces)

LEMMA InfoLifts ==
    ASSUME NEW m \in AllMetafiles
    PROVE  Lifts(InfoBody(m), 1) /\ Info(m) = InfoBody(m) \o <<"e">>
<1>1. /\ m.name \in SomeTexts /\ m.pieces \in SomeTexts /\ m.piece_length \in Lengths
      /\ "name" \in Words /\ "piece length" \in Words /\ "pieces" \in Words
  BY SymbolsAre DEF AllMetafiles, Words
<1>2. PICK a, b, c : /\ a = <<"d">> \o LengthOrFiles(m)
                     /\ b = a \o Key("name") \o Text(m.name)
                     /\ c = b \o Key("piece length") \o Int_(m.piece_length)
  OBVIOUS
<1>3. Lifts(a, 1)
  BY <1>2, OpenLifts, LengthOrFilesLifts, MoreLifts
<1>4. Lifts(b, 1)
  BY <1>1, <1>2, <1>3, MoreText
<1>5. Lifts(c, 1)
  BY <1>1, <1>2, <1>4, MoreInt
<1>6. Lifts(c \o Key("pieces") \o Text(m.pieces), 1)
  BY <1>1, <1>5, MoreText
<1> QED BY <1>2, <1>6 DEF InfoBody, Info, LengthOrFiles

\* The scan of the value of info ends behind it.
LEMMA InfoEnds ==
    ASSUME NEW m \in AllMetafiles, NEW c \in Seq(Symbols), NEW p, Has(c, p, Info(m))
    PROVE  Info(m) \in Seq(Symbols) /\ Ends(c, p, 0, p + Len(Info(m)))
<1>1. PICK a, b : a = InfoBody(m) /\ b = <<"e">>
  OBVIOUS
<1>2. Lifts(a, 1) /\ Info(m) = a \o b /\ a \in Seq(Symbols)
  BY <1>1, InfoLifts DEF Lifts
<1>3. b \in Seq(Symbols) /\ Len(b) = 1
  BY <1>1, SymbolsAre DEF Characters, Marks
<1>4. a \o b \in Seq(Symbols) /\ Len(a \o b) = Len(a) + Len(b) /\ Len(a) \in Nat
  <2>1. a \in Seq(Symbols) /\ b \in Seq(Symbols)
    BY <1>2, <1>3
  <2> QED BY ONLY <2>1, HasBoth
<1>5. Has(c, p, a) /\ Has(c, p + Len(a), b)
  BY <1>2, <1>3, HasBothInside
<1>6. p \in Nat /\ p + Len(a) \in Nat /\ (p + Len(a)) + 1 = p + Len(Info(m)) /\ 0 + 1 = 1 /\ 1 # 0
  BY <1>2, <1>3, <1>4, <1>5 DEF Has
<1>7. Ends(c, p + Len(a), 0 + 1, p + Len(Info(m)))
  BY <1>1, <1>5, <1>6, EndIsNear
<1>8. LiftsIn(c, a, 1)
  BY <1>2 DEF Lifts
<1> QED BY <1>2, <1>4, <1>5, <1>6, <1>7, <1>8 DEF LiftsIn

-----------------------------------------------------------------------------
(***************************************************************************)
(* find_keyword: the first place of a key in the content.                  *)
(***************************************************************************)
LEMMA KeyIs ==
    ASSUME NEW k \in Words
    PROVE  /\ Key(k) \in Seq(Symbols) /\ Len(Key(k)) = 3
           /\ Key(k)[1] = "1" /\ Key(k)[2] = ":" /\ Key(k)[3] = k
<1>1. PICK s : s = <<k>>
  OBVIOUS
<1>2. /\ s \in Seq(Symbols) /\ Len(s) = 1 /\ s[1] = k /\ 1 \in Lengths /\ Digits \cup {":"} \subseteq Symbols
      /\ Key(k) = Text(s)
  BY <1>1, SymbolsAre, KeyIsText, DecimalsAssumption DEF Characters, Marks
<1>3. /\ Text(s) \in Seq(Symbols) /\ Len(Text(s)) = Len(Decimal(1)) + 1 + 1
      /\ Has(Text(s), 0, Decimal(1)) /\ Has(Text(s), Len(Decimal(1)), <<":">>)
      /\ Has(Text(s), Len(Decimal(1)) + 1, s)
  BY <1>2, TextIs
<1>4. Decimal(1) = <<"1">> /\ Len(Decimal(1)) = 1 /\ Decimal(1)[1] = "1" /\ Len(<<":">>) = 1 /\ <<":">>[1] = ":"
  BY DecimalsAssumption
<1>5. 1 \in 1 .. 1 /\ 0 + 1 = 1 /\ 1 + 1 = 2 /\ 1 + 1 + 1 = 3
  OBVIOUS
<1>6. Text(s)[0 + 1] = "1" /\ Text(s)[1 + 1] = ":" /\ Text(s)[1 + 1 + 1] = k
  BY <1>2, <1>3, <1>4, <1>5 DEF Has
<1> QED BY <1>2, <1>3, <1>4, <1>5, <1>6

\* A key in the content, and that it can be only where its third symbol is.
LEMMA KeyAtIs ==
    ASSUME content \in Seq(Symbols), NEW k \in Words, NEW c \in Nat
    PROVE  /\ Has(content, c, Key(k)) => KeyAt(k, c) /\ content[c + 1] = "1" /\ content[c + 2] = ":"
           /\ KeyAt(k, c) => c + 2 < Len(content) /\ content[c + 3] = k
<1>1. Len(content) \in Nat
  OBVIOUS
<1>2. /\ Len(Key(k)) = 3 /\ Key(k)[1] = "1" /\ Key(k)[2] = ":" /\ Key(k)[3] = k
      /\ 1 .. 3 = {1, 2, 3} /\ c + 1 - 1 = c /\ c + 2 - 1 = c + 1 /\ c + 3 - 1 = c + 2
      /\ (c + 1) + 1 = c + 2 /\ (c + 2) + 1 = c + 3
  BY KeyIs
<1>3. ASSUME Has(content, c, Key(k)) PROVE KeyAt(k, c) /\ content[c + 1] = "1" /\ content[c + 2] = ":"
  <2>1. c + 3 <= Len(content) /\ content[c + 1] = "1" /\ content[c + 2] = ":" /\ content[c + 3] = k
    BY <1>2, <1>3 DEF Has
  <2>2. At(c) = content[c + 1] /\ At(c + 1) = content[(c + 1) + 1] /\ At(c + 2) = content[(c + 2) + 1]
    BY <1>1, <2>1, SymbolAt DEF At
  <2> QED BY <1>2, <2>1, <2>2 DEF KeyAt
<1>4. ASSUME KeyAt(k, c) PROVE c + 2 < Len(content) /\ content[c + 3] = k
  <2>1. At(c + 2) = k
    BY <1>2, <1>4 DEF KeyAt
  <2>2. k # Hash!NUL
    BY DEF Words, Hash!NUL
  <2> QED BY <1>1, <1>2, <2>1, <2>2 DEF At, Hash!At
<1> QED BY <1>3, <1>4

LEMMA KeyIsFound ==
    ASSUME content \in Seq(Symbols), loaded, NEW k \in Words, NEW c \in Nat, Has(content, c, Key(k)),
           \A x \in 1 .. c : content[x] # k
    PROVE  find_keyword(k) = c /\ Found(k) /\ After(k) = c + 3
<1>1. /\ Len(content) \in Nat /\ filesize = Len(content) + 1 /\ filesize # 0
      /\ c \in 0 .. filesize - 3 /\ Len(Key(k)) = 3
  <2>1. Len(content) \in Nat /\ filesize = Len(content) + 1 /\ Len(Key(k)) = 3
    BY SymbolAt, KeyIs DEF filesize
  <2>2. c + 3 <= Len(content)
    BY <2>1 DEF Has
  <2> QED BY <2>1, <2>2
<1>2. KeyAt(k, c) /\ content[c + 1] = "1" /\ content[c + 2] = ":"
  BY KeyAtIs
<1>3. ASSUME NEW d \in 0 .. filesize - 3, KeyAt(k, d) PROVE c <= d
  <2>1. SUFFICES ASSUME d < c PROVE FALSE
    BY <1>1
  <2>2. d + 2 < Len(content) /\ content[d + 3] = k /\ d \in Nat
    BY <1>1, <1>3, KeyAtIs
  <2>3. CASE d + 3 \in 1 .. c
    BY <2>2, <2>3
  <2>4. CASE d + 3 = c + 1 \/ d + 3 = c + 2
    <3>1. k # "1" /\ k # ":"
      BY DEF Words
    <3> QED BY <1>2, <2>2, <2>4, <3>1
  <2> QED BY <1>1, <2>1, <2>2, <2>3, <2>4
<1> DEFINE found == {x \in 0 .. filesize - 3 : KeyAt(k, x)}
<1>4. c \in found /\ \A d \in found : c <= d /\ d \in Int
  BY <1>1, <1>2, <1>3
<1>5. find_keyword(k) = IF found = {} THEN NotFound ELSE CHOOSE x \in found : \A d \in found : x <= d
  BY <1>1 DEF find_keyword
<1> HIDE DEF found
<1>6. \A y \in found : (\A d \in found : y <= d) => y = c
  <2>1. c \in Int
    OBVIOUS
  <2> QED BY <1>4, <2>1
<1>7. find_keyword(k) = c
  <2>1. c \in found /\ (\A d \in found : c <= d) /\ found # {}
    BY <1>4
  <2> QED BY ONLY <1>5, <1>6, <2>1, Zenon
<1> QED BY <1>1, <1>7 DEF Found, After

LEMMA KeyIsMissed ==
    ASSUME content \in Seq(Symbols), loaded, NEW k \in Words, \A x \in 1 .. Len(content) : content[x] # k
    PROVE  find_keyword(k) = NotFound /\ ~Found(k)
<1>1. Len(content) \in Nat /\ filesize = Len(content) + 1 /\ filesize # 0
  BY SymbolAt DEF filesize
<1>2. ASSUME NEW d \in 0 .. filesize - 3, KeyAt(k, d) PROVE FALSE
  <2>1. d + 2 < Len(content) /\ content[d + 3] = k /\ d \in Nat
    BY <1>1, <1>2, KeyAtIs
  <2>2. d + 3 \in 1 .. Len(content)
    BY <1>1, <2>1
  <2> QED BY <2>1, <2>2
<1>3. {x \in 0 .. filesize - 3 : KeyAt(k, x)} = {}
  BY <1>2
<1>4. find_keyword(k) = NotFound
  BY <1>1, <1>3 DEF find_keyword
<1> QED BY <1>4 DEF Found, NotFound

-----------------------------------------------------------------------------
(***************************************************************************)
(* What a metafile is made of: symbols, and before a keyword others.       *)
(***************************************************************************)
Bare(t) == Symbols \ {t}

TextsIn(T) == {s \in Seq(T) : Len(s) \in Lengths}

LEMMA BareIs ==
    ASSUME NEW t \in Words
    PROVE  /\ Characters \subseteq Bare(t) /\ Bare(t) \subseteq Symbols /\ Words \ {t} \subseteq Bare(t)
           /\ \A s \in FileTexts : t \notin ToSet(s) => s \in TextsIn(Bare(t))
<1>1. Characters \subseteq Bare(t) /\ Bare(t) \subseteq Symbols /\ Words \ {t} \subseteq Bare(t)
  BY SymbolsAre, DigitsAssumption DEF Bare, Characters, Marks, AllDigits, Words
<1>2. ASSUME NEW s \in FileTexts, t \notin ToSet(s) PROVE s \in TextsIn(Bare(t))
  <2>1. s \in Seq(STRING) /\ Len(s) \in Lengths
    BY DEF FileTexts
  <2>2. \A k \in 1 .. Len(s) : s[k] \in STRING /\ s[k] # t
    BY <1>2, <2>1 DEF ToSet
  <2>3. \A k \in 1 .. Len(s) : s[k] \in Bare(t)
    BY <2>2 DEF Bare, Symbols
  <2>4. s \in Seq(Bare(t))
    BY <2>1, <2>3
  <2> QED BY <2>1, <2>4 DEF TextsIn
<1> QED BY <1>1, <1>2

LEMMA PartsIn ==
    ASSUME NEW T, Characters \subseteq T
    PROVE  /\ \A k \in Words \cap T : Key(k) \in Seq(T)
           /\ \A n \in Lengths : Int_(n) \in Seq(T)
           /\ \A s \in TextsIn(T) : Text(s) \in Seq(T)
           /\ <<"d">> \in Seq(T) /\ <<"l">> \in Seq(T) /\ <<"e">> \in Seq(T)
<1>1. Digits \cup {":"} \subseteq T /\ "d" \in T /\ "l" \in T /\ "e" \in T
  BY DEF Characters, Marks
<1>2. ASSUME NEW s \in TextsIn(T) PROVE Text(s) \in Seq(T)
  BY <1>1, TextIs DEF TextsIn
<1>3. ASSUME NEW k \in Words \cap T PROVE Key(k) \in Seq(T)
  <2>1. PICK s : s = <<k>>
    OBVIOUS
  <2>2. s \in TextsIn(T) /\ Key(k) = Text(s)
    BY <2>1, KeyIsText, DecimalsAssumption DEF TextsIn
  <2> QED BY <1>2, <2>2
<1>4. ASSUME NEW n \in Lengths PROVE Int_(n) \in Seq(T)
  <2>1. Int_(n) \in Seq(Characters)
    BY IntIs
  <2> QED BY <2>1
<1> QED BY <1>1, <1>2, <1>3, <1>4

LEMMA IsSeqOf ==
    ASSUME NEW S, NEW T, NEW s \in Seq(S), \A k \in 1 .. Len(s) : s[k] \in T
    PROVE  s \in Seq(T)
OBVIOUS

LEMMA MappedIn ==
    ASSUME NEW S, NEW T, NEW s \in Seq(S), NEW r, r = [k \in DOMAIN s |-> r[k]],
           \A k \in 1 .. Len(s) : r[k] \in T
    PROVE  r \in Seq(T) /\ Len(r) = Len(s)
<1>1. DOMAIN s = 1 .. Len(s) /\ Len(s) \in Nat
  OBVIOUS
<1> QED BY <1>1

\* The parts of a list, one after the other.
LEMMA EachTextIn ==
    ASSUME NEW T, Characters \subseteq T, NEW s \in Seq(TextsIn(T))
    PROVE  Each(s, Text) \in Seq(T)
<1>1. PICK r : r = [k \in DOMAIN s |-> Text(s[k])]
  OBVIOUS
<1>2. \A k \in 1 .. Len(s) : Text(s[k]) \in Seq(T)
  BY PartsIn
<1>3. r \in Seq(Seq(T))
  BY <1>1, <1>2
<1> QED BY <1>1, <1>3, FlattenTyped DEF Each

LEMMA TierIn ==
    ASSUME NEW T, Characters \subseteq T, NEW s \in Seq(TextsIn(T))
    PROVE  Tier(s) \in Seq(T)
<1>1. PICK e : e = Each(s, Text)
  OBVIOUS
<1>2. e \in Seq(T) /\ <<"l">> \in Seq(T) /\ <<"e">> \in Seq(T)
  BY <1>1, EachTextIn, PartsIn
<1>3. <<"l">> \o e \o <<"e">> \in Seq(T)
  BY ONLY <1>2
<1> QED BY <1>1, <1>3 DEF Tier

LEMMA EachTierIn ==
    ASSUME NEW T, Characters \subseteq T, NEW s \in Seq(Seq(TextsIn(T)))
    PROVE  Each(s, Tier) \in Seq(T)
<1>1. PICK r : r = [k \in DOMAIN s |-> Tier(s[k])]
  OBVIOUS
<1>2. \A k \in 1 .. Len(s) : Tier(s[k]) \in Seq(T)
  BY TierIn
<1>3. r \in Seq(Seq(T))
  <2>1. \A k \in 1 .. Len(s) : r[k] \in Seq(T)
    BY <1>1, <1>2
  <2>2. r = [k \in DOMAIN s |-> r[k]]
    BY <1>1
  <2> QED BY ONLY s \in Seq(Seq(TextsIn(T))), <2>1, <2>2, MappedIn
<1> QED BY <1>1, <1>3, FlattenTyped DEF Each

\* Before announce-list, before comment and before info.
BeforeTiers(m) == <<"d">> \o Key("announce") \o Text(m.announce)
TiersPart(m) ==
    IF m.tiers = <<>> THEN <<>>
    ELSE Key("announce-list") \o <<"l">> \o Each(m.tiers, Tier) \o <<"e">>
BeforeInfo(m) == BeforeTiers(m) \o TiersPart(m) \o Key("comment") \o Text(m.comment)

LEMMA BeforeInfoIn ==
    ASSUME NEW T, Characters \subseteq T, NEW m, m.announce \in TextsIn(T), "announce" \in T
    PROVE  /\ BeforeTiers(m) \in Seq(T)
           /\ m.tiers \in Seq(Seq(TextsIn(T))) /\ (m.tiers # <<>> => "announce-list" \in T) =>
                /\ TiersPart(m) \in Seq(T)
                /\ m.comment \in TextsIn(T) /\ "comment" \in T => BeforeInfo(m) \in Seq(T)
<1>1. "announce" \in Words /\ "announce-list" \in Words /\ "comment" \in Words
  BY DEF Words
<1>2. BeforeTiers(m) \in Seq(T)
  <2>1. <<"d">> \in Seq(T) /\ Key("announce") \in Seq(T) /\ Text(m.announce) \in Seq(T)
    BY <1>1, PartsIn
  <2>2. <<"d">> \o Key("announce") \o Text(m.announce) \in Seq(T)
    BY ONLY <2>1
  <2> QED BY <2>2 DEF BeforeTiers
<1>3. ASSUME m.tiers \in Seq(Seq(TextsIn(T))), m.tiers # <<>> => "announce-list" \in T
      PROVE  TiersPart(m) \in Seq(T)
  <2>1. CASE m.tiers = <<>>
    BY <2>1 DEF TiersPart
  <2>2. CASE m.tiers # <<>>
    <3>1. PICK k, e : k = Key("announce-list") /\ e = Each(m.tiers, Tier)
      OBVIOUS
    <3>2. k \in Seq(T) /\ <<"l">> \in Seq(T) /\ e \in Seq(T) /\ <<"e">> \in Seq(T)
      BY <1>1, <1>3, <2>2, <3>1, PartsIn, EachTierIn
    <3>3. k \o <<"l">> \o e \o <<"e">> \in Seq(T)
      BY ONLY <3>2
    <3> QED BY <2>2, <3>1, <3>3 DEF TiersPart
  <2> QED BY <2>1, <2>2
<1>4. ASSUME TiersPart(m) \in Seq(T), m.comment \in TextsIn(T), "comment" \in T
      PROVE  BeforeInfo(m) \in Seq(T)
  <2>1. PICK a, b, c, d : a = BeforeTiers(m) /\ b = TiersPart(m) /\ c = Key("comment") /\ d = Text(m.comment)
    OBVIOUS
  <2>2. a \in Seq(T) /\ b \in Seq(T) /\ c \in Seq(T) /\ d \in Seq(T)
    BY <1>1, <1>2, <1>4, <2>1, PartsIn
  <2>3. a \o b \o c \o d \in Seq(T)
    BY ONLY <2>2
  <2> QED BY <2>1, <2>3 DEF BeforeInfo
<1> QED BY <1>2, <1>3, <1>4

\* Where the value of info is.
LEMMA ContentHas ==
    ASSUME NEW m \in AllMetafiles
    PROVE  /\ Content(m) \in Seq(Symbols)
           /\ BeforeInfo(m) \in Seq(Symbols) /\ Info(m) \in Seq(Symbols)
           /\ Has(Content(m), 0, BeforeInfo(m))
           /\ Has(Content(m), Len(BeforeInfo(m)), Key("info"))
           /\ Has(Content(m), Len(BeforeInfo(m)) + 3, Info(m))
<1>1. PICK a, k, b, e : a = BeforeInfo(m) /\ k = Key("info") /\ b = Info(m) /\ e = <<"e">>
  OBVIOUS
<1>2. Content(m) = a \o k \o b \o e
  BY <1>1 DEF Content, BeforeInfo, BeforeTiers, TiersPart
<1>3. a \in Seq(Symbols)
  <2>1. TextsIn(Symbols) = SomeTexts
    BY DEF TextsIn, SomeTexts
  <2>2. /\ m.announce \in TextsIn(Symbols) /\ m.comment \in TextsIn(Symbols)
        /\ m.tiers \in Seq(Seq(TextsIn(Symbols)))
    <3>1. m.announce \in FileTexts /\ m.comment \in FileTexts /\ m.tiers \in Seq(Seq(FileTexts))
      BY DEF AllMetafiles
    <3> QED BY <2>1, <3>1, SymbolsAre
  <2>3. "announce" \in Symbols /\ "announce-list" \in Symbols /\ "comment" \in Symbols /\ Characters \subseteq Symbols
    BY SymbolsAre DEF Words
  <2> QED BY <1>1, <2>2, <2>3, BeforeInfoIn
<1>4. b \in Seq(Symbols) /\ k \in Seq(Symbols) /\ e \in Seq(Symbols) /\ Len(k) = 3
  <2>1. Lifts(InfoBody(m), 1) /\ Info(m) = InfoBody(m) \o <<"e">>
    BY InfoLifts
  <2>2. PICK x : x = InfoBody(m)
    OBVIOUS
  <2>3. x \in Seq(Symbols) /\ e \in Seq(Symbols) /\ b = x \o e
    BY <1>1, <2>1, <2>2, SymbolsAre DEF Lifts, Characters, Marks
  <2>4. x \o e \in Seq(Symbols)
    BY ONLY <2>3
  <2>5. "info" \in Words
    BY DEF Words
  <2> QED BY <1>1, <2>3, <2>4, <2>5, KeyIs
<1>5. /\ a \o k \in Seq(Symbols) /\ Len(a \o k) = Len(a) + Len(k) /\ Has(a \o k, 0, a) /\ Has(a \o k, Len(a), k)
  BY <1>3, <1>4, HasBoth
<1>6. PICK x : x = a \o k
  OBVIOUS
<1>7. /\ x \o b \in Seq(Symbols) /\ Has(x \o b, 0, x) /\ Has(x \o b, Len(x), b)
  BY <1>4, <1>5, <1>6, HasBoth
<1>8. PICK y : y = x \o b
  OBVIOUS
<1>9. y \o e \in Seq(Symbols) /\ Has(y \o e, 0, y)
  BY <1>4, <1>7, <1>8, HasBoth
<1>10. PICK z : z = y \o e
  OBVIOUS
<1>11. x \in Seq(Symbols) /\ y \in Seq(Symbols) /\ z \in Seq(Symbols) /\ Content(m) = z /\ Len(x) = Len(a) + 3
  BY <1>2, <1>4, <1>5, <1>6, <1>7, <1>8, <1>9, <1>10
<1>12. Has(z, 0 + Len(x), b) /\ Has(z, 0 + 0, x)
  BY <1>4, <1>7, <1>8, <1>9, <1>10, <1>11, HasInside
<1>13. 0 + 0 = 0 /\ 0 + Len(a) = Len(a) /\ 0 + Len(x) = Len(a) + 3
  BY <1>3, <1>11
<1>14. Has(z, 0 + 0, a) /\ Has(z, 0 + Len(a), k)
  BY <1>3, <1>4, <1>5, <1>6, <1>11, <1>12, <1>13, HasInside
<1> QED BY <1>1, <1>3, <1>4, <1>11, <1>12, <1>13, <1>14

\* No text is a keyword.
LEMMA TextsAreBare ==
    ASSUME metafile \in AllMetafiles, KeysAreKeys, NEW t \in Keywords
    PROVE  /\ t \in Words
           /\ metafile.announce \in TextsIn(Bare(t)) /\ metafile.comment \in TextsIn(Bare(t))
           /\ metafile.name \in TextsIn(Bare(t)) /\ metafile.pieces \in TextsIn(Bare(t))
           /\ metafile.tiers \in Seq(Seq(TextsIn(Bare(t))))
<1>1. t \in Words
  BY DEF Words, Keywords
<1>2. ASSUME NEW s \in FileTexts, s \in TextsOf(metafile) PROVE s \in TextsIn(Bare(t))
  <2>1. t \notin ToSet(s)
    BY <1>2 DEF KeysAreKeys
  <2> QED BY <1>1, <2>1, BareIs
<1>3. /\ metafile.announce \in FileTexts /\ metafile.comment \in FileTexts /\ metafile.name \in FileTexts
      /\ metafile.pieces \in FileTexts /\ metafile.tiers \in Seq(Seq(FileTexts))
  BY DEF AllMetafiles
<1>4. \A k \in 1 .. Len(metafile.tiers) : \A j \in 1 .. Len(metafile.tiers[k]) :
          metafile.tiers[k][j] \in FileTexts /\ metafile.tiers[k][j] \in TextsOf(metafile)
  <2>1. PICK s : s = metafile.tiers
    OBVIOUS
  <2>2. ASSUME NEW k \in 1 .. Len(s), NEW j \in 1 .. Len(s[k])
        PROVE  s[k][j] \in FileTexts /\ s[k][j] \in ToSet(s[k]) /\ k \in DOMAIN s
    BY <1>3, <2>1 DEF ToSet
  <2> QED BY <2>1, <2>2 DEF TextsOf
<1>5. metafile.tiers \in Seq(Seq(TextsIn(Bare(t))))
  <2>1. PICK s : s = metafile.tiers
    OBVIOUS
  <2>2. s \in Seq(Seq(FileTexts)) /\ \A k \in 1 .. Len(s) : \A j \in 1 .. Len(s[k]) : s[k][j] \in TextsIn(Bare(t))
    BY <1>2, <1>3, <1>4, <2>1
  <2>3. ASSUME NEW k \in 1 .. Len(s) PROVE s[k] \in Seq(TextsIn(Bare(t)))
    BY <2>2
  <2> QED BY ONLY <2>1, <2>2, <2>3, IsSeqOf
<1> QED BY <1>1, <1>2, <1>3, <1>5 DEF TextsOf

-----------------------------------------------------------------------------
(***************************************************************************)
(* A turn of the loop on the way to n.                                     *)
(***************************************************************************)
OnWay(n) == content \in Seq(Symbols) /\ pc = "scan" /\ Ends(content, i, push_pop, n)

OnWayOrHashed(n) ==
    /\ content' = content /\ begin' = begin
    /\ \/ pc' = "scan" /\ Ends(content, i', push_pop', n)
       \/ pc' = "hashed" /\ info_hash' = SubSeq(content, begin + 1, n)

LEMMA OneIsAt ==
    ASSUME content \in Seq(Symbols), NEW p, NEW ch, Has(content, p, <<ch>>)
    PROVE  p \in Nat /\ p < Len(content) /\ Hash!At(p) = ch
<1>1. Len(<<ch>>) = 1 /\ <<ch>>[1] = ch /\ 1 \in 1 .. 1
  OBVIOUS
<1>2. p \in Nat /\ p + 1 <= Len(content) /\ content[p + 1] = ch
  BY <1>1 DEF Has
<1>3. Len(content) \in Nat
  OBVIOUS
<1> QED BY <1>2, <1>3, SymbolAt

\* Which action takes the turn.
LEMMA TurnIs ==
    ASSUME content \in Seq(Symbols), pc = "scan", i \in Nat, i < Len(content), Hash!Next
    PROVE  /\ Hash!At(i) = "e" => Hash!Close
           /\ Hash!At(i) = "i" => Hash!SkipInteger
           /\ Hash!At(i) \in Digits => Hash!SkipString
           /\ Hash!At(i) \in {"l", "d"} => Hash!Open
<1>1. Len(content) \in Nat /\ i < Hash!filesize
  BY SymbolAt
<1>2. ~Hash!RunOut /\ ~Hash!Ended
  BY <1>1, SymbolAt DEF Hash!RunOut, Hash!Ended
<1>3. PICK x : x = Hash!At(i)
  OBVIOUS
<1>4. Hash!Open => x \in {"d", "l"}
  BY <1>3 DEF Hash!Open
<1>5. Hash!SkipInteger => x = "i"
  BY <1>3 DEF Hash!SkipInteger
<1>6. Hash!SkipString => x \in Digits
  BY <1>3 DEF Hash!SkipString
<1>7. Hash!Close => x = "e"
  BY <1>3 DEF Hash!Close
<1>8. Hash!OtherCharacter => x \notin Digits \cup {"d", "l", "i", "e"}
  BY <1>3 DEF Hash!OtherCharacter
<1>9. Hash!Open \/ Hash!SkipInteger \/ Hash!SkipString \/ Hash!Close \/ Hash!OtherCharacter
  BY <1>2 DEF Hash!Next
<1>10. "d" \notin Digits /\ "l" \notin Digits /\ "i" \notin Digits /\ "e" \notin Digits
  BY DigitsAssumption DEF AllDigits
<1>11. x = "e" => Hash!Close
  BY ONLY <1>4, <1>5, <1>6, <1>8, <1>9, <1>10
<1>12. x = "i" => Hash!SkipInteger
  BY ONLY <1>4, <1>6, <1>7, <1>8, <1>9, <1>10
<1>13. x \in Digits => Hash!SkipString
  BY ONLY <1>4, <1>5, <1>7, <1>8, <1>9, <1>10
<1>14. x \in {"l", "d"} => Hash!Open
  BY ONLY <1>5, <1>6, <1>7, <1>8, <1>9, <1>10
<1> QED BY <1>3, <1>11, <1>12, <1>13, <1>14

LEMMA WayGoesOn ==
    ASSUME NEW n, OnWay(n), Hash!Next
    PROVE  OnWayOrHashed(n)
<1>1. content \in Seq(Symbols) /\ pc = "scan" /\ i \in Nat /\ push_pop \in Nat /\ Turns(content, i, push_pop, n)
  BY EndsTurns DEF OnWay
<1>2. CASE Has(content, i, <<"e">>) /\ push_pop # 0
           /\ IF push_pop = 1 THEN i + 1 = n ELSE Ends(content, i + 1, push_pop - 1, n)
  <2>1. Hash!Close
    BY <1>1, <1>2, OneIsAt, TurnIs
  <2>2. CASE push_pop = 1
    BY <1>1, <1>2, <2>1, <2>2 DEF OnWayOrHashed, Hash!Close, Hash!Closed
  <2>3. CASE push_pop # 1
    BY <1>1, <1>2, <2>1, <2>3 DEF OnWayOrHashed, Hash!Close, Hash!Closed
  <2> QED BY <2>2, <2>3
<1>3. ASSUME NEW k \in Lengths, Has(content, i, Int_(k)), Ends(content, i + Len(Int_(k)), push_pop, n)
      PROVE  OnWayOrHashed(n)
  <2>1. PICK L : L = Len(Decimal(k))
    OBVIOUS
  <2>2. L \in Nat
    BY <2>1, DecimalIs
  <2>3. /\ i < Len(content) /\ Hash!At(i) = "i" /\ Hash!SkipTo("e", i + 1) = i + 1 + L
        /\ i + 1 + L < Len(content) /\ i + Len(Int_(k)) = i + 1 + L + 1
    BY <1>1, <1>3, <2>1, IntIsRead
  <2>4. i + 1 + L # Hash!filesize
    BY <1>1, <2>2, <2>3, SymbolAt
  <2>5. Hash!SkipInteger
    BY <1>1, <2>3, TurnIs
  <2>6. i' = i + Len(Int_(k)) /\ pc' = pc /\ content' = content /\ begin' = begin /\ push_pop' = push_pop
    BY <2>3, <2>4, <2>5 DEF Hash!SkipInteger
  <2> QED BY <1>1, <1>3, <2>6 DEF OnWayOrHashed
<1>4. ASSUME NEW s \in SomeTexts, Has(content, i, Text(s)), Ends(content, i + Len(Text(s)), push_pop, n)
      PROVE  OnWayOrHashed(n)
  <2>1. PICK L : L = Len(Decimal(Len(s)))
    OBVIOUS
  <2>2. /\ i < Len(content) /\ Hash!At(i) \in Digits /\ Hash!SkipWhile(Digits, i) = i + L
        /\ Hash!Number(i, i + L) = Len(s) /\ i + Len(Text(s)) = i + L + 1 + Len(s)
    BY <1>1, <1>4, <2>1, TextIsRead
  <2>3. Hash!SkipString
    BY <1>1, <2>2, TurnIs
  <2>4. i' = i + Len(Text(s)) /\ pc' = pc /\ content' = content /\ begin' = begin /\ push_pop' = push_pop
    BY <2>2, <2>3, SameFormat DEF Hash!SkipString, Hash!StringEnd
  <2> QED BY <1>1, <1>4, <2>4 DEF OnWayOrHashed
<1>5. CASE (Has(content, i, <<"l">>) \/ Has(content, i, <<"d">>)) /\ Ends(content, i + 1, push_pop + 1, n)
  <2>1. Hash!Open
    BY <1>1, <1>5, OneIsAt, TurnIs
  <2> QED BY <1>1, <1>5, <2>1 DEF OnWayOrHashed, Hash!Open
<1> QED BY <1>1, <1>2, <1>3, <1>4, <1>5 DEF Turns

-----------------------------------------------------------------------------
(***************************************************************************)
(* The hash of a metafile.                                                 *)
(***************************************************************************)
\* main has the content of its file until it reads the length.
MainInv ==
    caller = "main" =>
        /\ calls \in 0 .. 5
        /\ calls = 0 => ~loaded
        /\ loaded /\ calls < 5 => content = Content(metafile)
        /\ pc = "scan" => loaded /\ calls = 3

\* The scan is on the way to the end of the value of info.
ScanInv ==
    pc = "scan" /\ KeysAreKeys /\ content = Content(metafile) =>
        /\ begin = Len(BeforeInfo(metafile)) + 3
        /\ Ends(content, i, push_pop, begin + Len(Info(metafile)))

InfoInv == caller # "hash" => metafile \in AllMetafiles /\ MainInv /\ ScanInv

LEMMA InfoBegins == Init => InfoInv
BY MetafilesAssumption DEF Init, InfoInv, MainInv, ScanInv

\* Where get_info_hash begins.
LEMMA InfoIsFound ==
    ASSUME metafile \in AllMetafiles, KeysAreKeys, content = Content(metafile), Found("info")
    PROVE  /\ After("info") = Len(BeforeInfo(metafile)) + 3
           /\ Ends(content, After("info"), 0, After("info") + Len(Info(metafile)))
<1>1. "info" \in Keywords /\ "info" \in Words
  BY DEF Keywords, Words
<1>2. PICK b, T : b = BeforeInfo(metafile) /\ T = Bare("info")
  OBVIOUS
<1>3. b \in Seq(T)
  <2>1. /\ Characters \subseteq T /\ Words \ {"info"} \subseteq T
        /\ metafile.announce \in TextsIn(T) /\ metafile.comment \in TextsIn(T)
        /\ metafile.tiers \in Seq(Seq(TextsIn(T)))
    BY <1>1, <1>2, BareIs, TextsAreBare
  <2>2. "announce" \in T /\ "announce-list" \in T /\ "comment" \in T
    BY <2>1 DEF Words
  <2> QED BY <1>2, <2>1, <2>2, BeforeInfoIn
<1>4. /\ content \in Seq(Symbols) /\ Has(content, 0, b) /\ Has(content, Len(b), Key("info"))
      /\ Has(content, Len(b) + 3, Info(metafile))
  BY <1>2, ContentHas
<1>5. Len(b) \in Nat /\ \A x \in 1 .. Len(b) : content[x] # "info"
  <2>1. Len(b) \in Nat /\ \A x \in 1 .. Len(b) : b[x] # "info"
    BY <1>2, <1>3 DEF Bare
  <2>2. \A x \in 1 .. Len(b) : content[0 + x] = b[x] /\ 0 + x = x
    BY <1>4, <2>1 DEF Has
  <2> QED BY <2>1, <2>2
<1>6. loaded
  BY DEF Found, find_keyword, filesize, NoFile
<1>7. After("info") = Len(b) + 3
  BY <1>1, <1>4, <1>5, <1>6, KeyIsFound
<1>8. Ends(content, Len(b) + 3, 0, Len(b) + 3 + Len(Info(metafile)))
  BY <1>4, InfoEnds
<1> QED BY <1>2, <1>7, <1>8

\* What the functions leave alone.
HashStill == UNCHANGED <<content, pc, begin, i, push_pop, loaded>>

LEMMA FunctionsKeep ==
    ASSUME Next
    PROVE  /\ metafile' = metafile /\ caller' = caller
           /\ \/ ScanStep
              \/ Call("get_info_hash") /\ get_info_hash
              \/ Call("read_metafile") /\ read_metafile
              \/ Call("get_file_length") /\ UNCHANGED <<pc, loaded>>
              \/ (\E f : Call(f)) /\ HashStill
              \/ pc # "scan" /\ HashStill /\ UNCHANGED calls
<1> USE DEF hashVars, HashStill
<1>1. CASE Call("read_metafile") /\ read_metafile
  BY <1>1 DEF Call, read_metafile
<1>2. CASE Call("get_file_length") /\ HasTracker /\ get_file_length
  BY <1>2 DEF Call, get_file_length
<1>3. CASE Call("get_info_hash") /\ get_info_hash
  BY <1>3 DEF Call, get_info_hash
<1>4. CASE ScanStep
  BY <1>4 DEF ScanStep, progVars
<1>5. CASE NoTracker
  BY <1>5 DEF NoTracker, Call
<1>6. CASE MainGoesOn
  BY <1>6 DEF MainGoesOn
<1>7. CASE Ended
  BY <1>7 DEF Ended, vars, progVars
<1>8. ASSUME NEW f, Call(f), HashStill, metafile' = metafile
      PROVE  metafile' = metafile /\ caller' = caller /\ (\E g : Call(g)) /\ HashStill
  BY <1>8 DEF Call
<1>9. CASE Call("read_announce_list") /\ read_announce_list
  BY <1>8, <1>9 DEF read_announce_list
<1>10. CASE Call("add_an_announce") /\ \E url \in Urls : add_an_announce(url)
  BY <1>8, <1>10 DEF add_an_announce
<1>11. CASE Call("is_muti_files") /\ is_muti_files
  BY <1>8, <1>11 DEF is_muti_files
<1>12. CASE Call("get_piece_length") /\ get_piece_length
  BY <1>8, <1>12 DEF get_piece_length
<1>13. CASE Call("get_pieces") /\ get_pieces
  BY <1>8, <1>13 DEF get_pieces
<1>14. CASE Call("get_file_name") /\ get_file_name
  BY <1>8, <1>14 DEF get_file_name
<1>15. CASE Call("get_files_length_path") /\ get_files_length_path
  BY <1>8, <1>15 DEF get_files_length_path
<1>16. CASE Call("get_peer_id") /\ get_peer_id
  BY <1>8, <1>16 DEF get_peer_id
<1>17. CASE Call("release") /\ release_memory_in_parse_metafile
  BY <1>8, <1>17 DEF release_memory_in_parse_metafile
<1> QED BY <1>1, <1>2, <1>3, <1>4, <1>5, <1>6, <1>7, <1>9, <1>10, <1>11, <1>12, <1>13, <1>14, <1>15,
           <1>16, <1>17 DEF Next

LEMMA CallIs ==
    ASSUME NEW f, Call(f)
    PROVE  /\ pc # "scan" /\ calls' = calls + 1 /\ caller' = caller
           /\ caller = "main" => calls < 5 /\ MainOrder[calls + 1] = f
BY DEF Call, MainOrder

LEMMA OrderIs ==
    ASSUME NEW c \in 0 .. 4
    PROVE  /\ MainOrder[c + 1] = "read_metafile" => c = 0
           /\ MainOrder[c + 1] = "get_info_hash" => c = 2
           /\ MainOrder[c + 1] = "get_file_length" => c = 4
<1>1. c = 0 \/ c = 1 \/ c = 2 \/ c = 3 \/ c = 4
  OBVIOUS
<1> QED BY <1>1 DEF MainOrder

LEMMA MainStays ==
    ASSUME InfoInv, Next, caller = "main"
    PROVE  MainInv'
<1>1. /\ metafile' = metafile /\ caller' = "main" /\ calls \in 0 .. 5 /\ (calls = 0 => ~loaded)
      /\ loaded /\ calls < 5 => content = Content(metafile)
      /\ pc = "scan" => loaded /\ calls = 3
  BY FunctionsKeep DEF InfoInv, MainInv
<1>2. ASSUME NEW f, Call(f) PROVE calls \in 0 .. 4 /\ calls' \in 1 .. 5 /\ MainOrder[calls + 1] = f /\ pc # "scan"
  BY <1>1, <1>2, CallIs
<1>3. CASE ScanStep
  <2>1. UNCHANGED <<calls, loaded, content>> /\ pc = "scan"
    BY <1>3 DEF ScanStep, progVars, Hash!Next, Hash!Open, Hash!SkipInteger, Hash!SkipString, Hash!Close,
                Hash!OtherCharacter, Hash!RunOut, Hash!Ended, Hash!vars
  <2> QED BY <1>1, <2>1 DEF MainInv
<1>4. CASE Call("get_info_hash") /\ get_info_hash
  <2>1. calls = 2 /\ calls' = 3
    BY <1>2, <1>4, CallIs, OrderIs
  <2>2. UNCHANGED <<loaded, content>> /\ (pc' = "scan" => loaded)
    BY <1>4 DEF get_info_hash, Found, find_keyword, filesize, NoFile
  <2> QED BY <1>1, <2>1, <2>2 DEF MainInv
<1>5. CASE Call("read_metafile") /\ read_metafile
  <2>1. calls = 0 /\ calls' = 1 /\ pc # "scan"
    BY <1>2, <1>5, CallIs, OrderIs
  <2>2. pc' = pc /\ (content' = Content(metafile) \/ UNCHANGED <<content, loaded>>)
    BY <1>5 DEF read_metafile
  <2> QED BY <1>1, <2>1, <2>2 DEF MainInv
<1>6. CASE Call("get_file_length") /\ UNCHANGED <<pc, loaded>>
  <2>1. calls = 4 /\ calls' = 5 /\ pc # "scan"
    BY <1>2, <1>6, CallIs, OrderIs
  <2> QED BY <1>1, <1>6, <2>1 DEF MainInv
<1>7. ASSUME NEW f, Call(f), HashStill PROVE MainInv'
  <2>1. calls \in 0 .. 4 /\ calls' \in 1 .. 5 /\ pc # "scan" /\ (calls' < 5 => calls < 5)
    BY <1>2, <1>7
  <2> QED BY <1>1, <1>7, <2>1 DEF MainInv, HashStill
<1>8. CASE pc # "scan" /\ HashStill /\ UNCHANGED calls
  BY <1>1, <1>8 DEF MainInv, HashStill
<1> QED BY <1>3, <1>4, <1>5, <1>6, <1>7, <1>8, FunctionsKeep

LEMMA KeysStay == ASSUME metafile' = metafile PROVE KeysAreKeys' <=> KeysAreKeys
BY DEF KeysAreKeys

LEMMA ScanInvGoesOn ==
    ASSUME InfoInv, Next, caller # "hash"
    PROVE  ScanInv'
<1>1. metafile' = metafile /\ metafile \in AllMetafiles /\ ScanInv
  BY FunctionsKeep DEF InfoInv
<1>2. SUFFICES ASSUME pc' = "scan", KeysAreKeys, content' = Content(metafile)
               PROVE  /\ begin' = Len(BeforeInfo(metafile)) + 3
                      /\ Ends(content', i', push_pop', begin' + Len(Info(metafile)))
  BY <1>1, KeysStay DEF ScanInv
<1>3. CASE ScanStep
  <2>1. pc = "scan" /\ Hash!Next /\ content' = content
    BY <1>3 DEF ScanStep, Hash!Next, Hash!Open, Hash!SkipInteger, Hash!SkipString, Hash!Close,
                Hash!OtherCharacter, Hash!RunOut, Hash!Ended, Hash!vars
  <2>2. PICK n : n = begin + Len(Info(metafile))
    OBVIOUS
  <2>3. content \in Seq(Symbols) /\ begin = Len(BeforeInfo(metafile)) + 3 /\ Ends(content, i, push_pop, n)
    BY <1>1, <1>2, <2>1, <2>2, ContentHas DEF ScanInv
  <2>4. OnWayOrHashed(n)
    BY <2>1, <2>3, WayGoesOn DEF OnWay
  <2> QED BY <1>2, <2>2, <2>3, <2>4 DEF OnWayOrHashed
<1>4. CASE Call("get_info_hash") /\ get_info_hash
  <2>1. Found("info") /\ begin' = After("info") /\ i' = After("info") /\ push_pop' = 0 /\ content' = content
    BY <1>2, <1>4, CallIs DEF get_info_hash
  <2> QED BY <1>1, <1>2, <2>1, InfoIsFound
<1>5. CASE ~ScanStep /\ ~(Call("get_info_hash") /\ get_info_hash)
  <2>1. pc' # "scan"
    <3>1. ASSUME NEW f, Call(f), pc' = pc PROVE pc' # "scan"
      BY <3>1, CallIs
    <3>2. read_metafile => pc' = pc
      BY DEF read_metafile
    <3> QED BY <1>5, <3>1, <3>2, FunctionsKeep DEF HashStill
  <2> QED BY <1>2, <2>1
<1> QED BY <1>3, <1>4, <1>5

LEMMA InfoGoesOn == InfoInv /\ [Next]_vars => InfoInv'
<1> SUFFICES ASSUME InfoInv, [Next]_vars, caller' # "hash" PROVE (metafile \in AllMetafiles /\ MainInv /\ ScanInv)'
  BY DEF InfoInv
<1>1. CASE UNCHANGED vars
  BY <1>1 DEF vars, hashVars, progVars, InfoInv, MainInv, ScanInv, KeysAreKeys
<1>2. CASE Next
  <2>1. caller # "hash" /\ metafile' = metafile /\ caller' = caller
    BY <1>2, FunctionsKeep
  <2>2. metafile' \in AllMetafiles
    BY <2>1 DEF InfoInv
  <2>3. ScanInv'
    BY <1>2, <2>1, ScanInvGoesOn
  <2>4. MainInv'
    BY <1>2, <2>1, MainStays DEF MainInv
  <2> QED BY <2>2, <2>3, <2>4
<1> QED BY <1>1, <1>2

\* Of every metafile in which no text is a keyword, what main hashes is the
\* value of info, all of it; so is what any calls hash while the content is the
\* file's.
THEOREM InfoIsHashedWhole == Spec => HashIsOfInfo
<1>1. InfoInv /\ [Next]_vars =>
        [(/\ caller # "hash" /\ pc' = "hashed" /\ pc = "scan" /\ KeysAreKeys
          /\ (caller = "main" \/ content = Content(metafile)))
              => info_hash' = Info(metafile)]_vars
  <2> SUFFICES ASSUME InfoInv, Next, caller # "hash", pc' = "hashed", pc = "scan", KeysAreKeys,
                      caller = "main" \/ content = Content(metafile)
               PROVE  info_hash' = Info(metafile)
    OBVIOUS
  <2>1. content = Content(metafile) /\ metafile \in AllMetafiles
    BY DEF InfoInv, MainInv
  <2>2. PICK n : n = begin + Len(Info(metafile))
    OBVIOUS
  <2>3. content \in Seq(Symbols) /\ begin = Len(BeforeInfo(metafile)) + 3 /\ Ends(content, i, push_pop, n)
    BY <2>1, <2>2, ContentHas DEF ScanInv, InfoInv
  <2>4. ScanStep
    <3>1. ~\E f : Call(f)
      BY CallIs
    <3> QED BY <3>1, FunctionsKeep
  <2>5. OnWayOrHashed(n)
    BY <2>3, <2>4, WayGoesOn DEF OnWay, ScanStep
  <2>6. info_hash' = SubSeq(content, begin + 1, n)
    BY <2>5 DEF OnWayOrHashed
  <2>7. Has(content, begin, Info(metafile)) /\ Info(metafile) \in Seq(Symbols)
    BY <2>1, <2>3, ContentHas
  <2> QED BY <2>2, <2>3, <2>6, <2>7, PartIsRead
<1>2. Init => InfoInv
  BY InfoBegins
<1>3. InfoInv /\ [Next]_vars => InfoInv'
  BY InfoGoesOn
<1> QED BY <1>1, <1>2, <1>3, PTL DEF Spec, HashIsOfInfo

-----------------------------------------------------------------------------
(***************************************************************************)
(* What the functions read in any content: positions and numbers.          *)
(***************************************************************************)
LEMMA FirstExists ==
    ASSUME NEW a \in Nat, NEW b \in Nat, NEW S \in SUBSET (a .. b), S # {}
    PROVE  \E x \in S : \A q \in a .. x - 1 : q \notin S
<1> DEFINE T == {n \in Nat : n \in S => \E x \in S : \A q \in a .. x - 1 : q \notin S}
<1>1. ASSUME NEW n \in Nat, \A m \in 0 .. n - 1 : m \in T PROVE n \in T
  <2>1. CASE \A q \in a .. n - 1 : q \notin S
    BY <2>1
  <2>2. CASE \E q \in a .. n - 1 : q \in S
    <3>1. PICK q \in a .. n - 1 : q \in S
      BY <2>2
    <3>2. q \in 0 .. n - 1
      OBVIOUS
    <3>3. q \in T
      BY <1>1, <3>2
    <3> QED BY <3>1, <3>3
  <2> QED BY <2>1, <2>2
<1>2. T \in SUBSET Nat
  OBVIOUS
<1> HIDE DEF T
<1>3. T = Nat
  BY <1>1, <1>2, NatFromSmaller
<1>4. PICK n \in a .. b : n \in S
  OBVIOUS
<1>5. n \in T
  BY <1>3
<1> QED BY <1>4, <1>5 DEF T

LEMMA SkipWhileIn ==
    ASSUME content \in Seq(Symbols), NEW S, NEW p \in Nat, p <= Hash!filesize
    PROVE  /\ Hash!SkipWhile(S, p) \in p .. Hash!filesize
           /\ \A q \in p .. Hash!SkipWhile(S, p) - 1 : Hash!At(q) \in S
<1> DEFINE n == Hash!filesize
           F == {x \in p .. n : x = n \/ Hash!At(x) \notin S}
           Is(x) == (x = n \/ Hash!At(x) \notin S) /\ \A q \in p .. x - 1 : Hash!At(q) \in S
<1>1. n \in Nat
  BY SymbolAt
<1>2. PICK x \in F : \A q \in p .. x - 1 : q \notin F
  <2>1. F \in SUBSET (p .. n) /\ n \in F
    BY <1>1
  <2> HIDE DEF F, n
  <2> QED BY <1>1, <2>1, FirstExists
<1>3. x \in p .. n /\ Is(x)
  <2>1. \A q \in p .. x - 1 : q \in p .. n
    BY <1>1
  <2> QED BY <1>2, <2>1
<1>4. Hash!SkipWhile(S, p) = CHOOSE y \in p .. n : Is(y)
  BY DEF Hash!SkipWhile
<1>5. Hash!SkipWhile(S, p) \in p .. n /\ Is(Hash!SkipWhile(S, p))
  <2> HIDE DEF Is, n
  <2> QED BY <1>3, <1>4
<1> QED BY <1>5

LEMMA SkipToIn ==
    ASSUME content \in Seq(Symbols), NEW ch, NEW p \in Nat, p <= Hash!filesize
    PROVE  Hash!SkipTo(ch, p) \in p .. Hash!filesize
<1> DEFINE n == Hash!filesize
           F == {x \in p .. n : x = n \/ Hash!At(x) = ch}
           Is(x) == (x = n \/ Hash!At(x) = ch) /\ \A q \in p .. x - 1 : Hash!At(q) # ch
<1>1. n \in Nat
  BY SymbolAt
<1>2. PICK x \in F : \A q \in p .. x - 1 : q \notin F
  <2>1. F \in SUBSET (p .. n) /\ n \in F
    BY <1>1
  <2> HIDE DEF F, n
  <2> QED BY <1>1, <2>1, FirstExists
<1>3. x \in p .. n /\ Is(x)
  <2>1. \A q \in p .. x - 1 : q \in p .. n
    BY <1>1
  <2> QED BY <1>2, <2>1
<1>4. Hash!SkipTo(ch, p) = CHOOSE y \in p .. n : Is(y)
  BY DEF Hash!SkipTo
<1>5. Hash!SkipTo(ch, p) \in p .. n /\ Is(Hash!SkipTo(ch, p))
  <2> HIDE DEF Is, n
  <2> QED BY <1>3, <1>4
<1> QED BY <1>5

\* Where a key was found, there is room behind it for one symbol.
LEMMA AfterIs ==
    ASSUME content \in Seq(Symbols), NEW k \in Words, Found(k)
    PROVE  /\ loaded /\ filesize = Hash!filesize
           /\ After(k) \in Nat /\ After(k) >= 3 /\ After(k) < Hash!filesize
<1> DEFINE found == {c \in 0 .. filesize - 3 : KeyAt(k, c)}
<1>1. loaded /\ filesize = Hash!filesize /\ filesize \in Nat /\ filesize # 0
  <2>1. filesize # 0
    BY DEF Found, find_keyword, NoFile
  <2> QED BY <2>1, SymbolAt DEF filesize
<1>2. find_keyword(k) = IF found = {} THEN NotFound ELSE CHOOSE c \in found : \A d \in found : c <= d
  BY <1>1 DEF find_keyword
<1>3. found # {}
  BY <1>2 DEF Found, NotFound
<1>4. \E c \in found : \A d \in found : c <= d
  <2>1. filesize - 3 \in Nat /\ found \in SUBSET (0 .. filesize - 3)
    BY <1>1, <1>3
  <2>2. 0 \in Nat
    OBVIOUS
  <2> HIDE DEF found
  <2>3. PICK x \in found : \A q \in 0 .. x - 1 : q \notin found
    BY <1>3, <2>1, <2>2, FirstExists
  <2>4. \A d \in found : x <= d
    BY <2>1, <2>3
  <2> QED BY <2>4
<1>5. find_keyword(k) \in found
  <2> HIDE DEF found
  <2> QED BY <1>2, <1>3, <1>4
<1>6. PICK c : c = find_keyword(k)
  OBVIOUS
<1>7. c \in Nat /\ c + 2 < Len(content) /\ Len(content) \in Nat /\ Hash!filesize = Len(content) + 1
  BY <1>1, <1>5, <1>6, KeyAtIs, SymbolAt
<1>8. After(k) = c + 3
  BY <1>6, KeyIs DEF After
<1>9. c + 3 \in Nat /\ c + 3 >= 3 /\ c + 3 < Hash!filesize
  BY ONLY <1>7
<1> QED BY <1>1, <1>8, <1>9

\* What a number of steps keeps.
LEMMA StepsKeep ==
    ASSUME NEW T, NEW n \in Nat, NEW r, r[0] \in T, \A k \in 1 .. n : r[k - 1] \in T => r[k] \in T
    PROVE  \A k \in 0 .. n : r[k] \in T
<1> DEFINE S == {k \in Nat : k <= n => r[k] \in T}
<1>1. 0 \in S
  OBVIOUS
<1>2. ASSUME NEW k \in S PROVE k + 1 \in S
  <2>1. k + 1 <= n => k <= n /\ k + 1 \in 1 .. n /\ (k + 1) - 1 = k
    OBVIOUS
  <2> QED BY <2>1
<1>3. S \in SUBSET Nat
  OBVIOUS
<1> HIDE DEF S
<1>4. S = Nat
  BY <1>1, <1>2, <1>3, NatFromBefore
<1> QED BY <1>4 DEF S

-----------------------------------------------------------------------------
(***************************************************************************)
(* The numbers that NumberFrom, SingleLength and TotalLength make.         *)
(***************************************************************************)
LEMMA WrappedIs ==
    /\ \A n \in Int : ULong(n) \in Int /\ Long(n) \in Int
    /\ \A n \in Nat : n < LongLimit => ULong(n) = n /\ Long(n) = n
<1>1. PICK M : M = 2 * LongLimit
  OBVIOUS
<1>2. M \in Nat \ {0} /\ LongLimit \in Nat
  BY <1>1, LongLimitAssumption
<1>3. \A n \in Int : n % M \in 0 .. M - 1
  BY <1>2, Division
<1>4. ASSUME NEW r \in 0 .. M - 1 PROVE r % M = r
  <2>1. M * 0 + r = r
    BY <1>2
  <2> QED BY <1>2, <2>1, Remainder
<1>5. ASSUME NEW n \in Int PROVE ULong(n) \in Int /\ Long(n) \in Int
  <2>1. n % M \in Int /\ (n + LongLimit) % M \in Int
    BY <1>2, <1>3
  <2> QED BY <1>1, <1>2, <2>1 DEF ULong, Long
<1>6. ASSUME NEW n \in Nat, n < LongLimit PROVE ULong(n) = n /\ Long(n) = n
  <2>1. n \in 0 .. M - 1 /\ n + LongLimit \in 0 .. M - 1
    BY <1>1, <1>2, <1>6
  <2>2. n % M = n /\ (n + LongLimit) % M = n + LongLimit
    BY <1>4, <2>1
  <2> QED BY <1>1, <1>2, <2>2 DEF ULong, Long
<1> QED BY <1>5, <1>6

LEMMA ValueIsInt == \A x : Value(x) \in Int
BY DigitIsNat DEF Value

\* r[k] is b with the first k values behind it.
MadeOf(s, b, r) == r[0] = b /\ \A k \in 1 .. Len(s) : r[k] = r[k - 1] * 10 + s[k]

LEMMA NumberIsMade ==
    ASSUME NEW s \in Seq(Int), NEW b \in Int
    PROVE  \E r : MadeOf(s, b, r) /\ Behind(b, s) = r[Len(s)]
<1> DEFINE N == Len(s)
           iter[t \in SUBSET DOMAIN s] ==
               IF t = {} THEN b ELSE LET x == Max(t) IN iter[t \ {x}] * 10 + s[x]
           IsFold(f) == f = [t \in SUBSET (1 .. N) |->
               IF t = {} THEN b ELSE f[t \ {Max(t)}] * 10 + s[Max(t)]]
           h == [k \in 1 .. N |-> [n \in Int |-> n * 10 + s[k]]]
           r == [k \in 0 .. N |-> iter[1 .. k]]
<1>1. N \in Nat /\ DOMAIN s = 1 .. N
  OBVIOUS
<1>2. Behind(b, s) = iter[1 .. N]
  BY <1>1 DEF Behind, FoldLeft, MapThenFoldSet
<1>3. iter = CHOOSE f : IsFold(f)
  BY <1>1
<1> HIDE DEF iter
<1>4. \A k \in 1 .. N : s[k] \in Int
  BY ElementOfSeq
<1>5. \E f : IsFold(f)
  <2>1. \A k \in 1 .. N : h[k] \in [Int -> Int]
    BY <1>4
  <2>2. PICK f \in [SUBSET (1 .. N) -> Int] : Folding(f, N, h, b)
    <3> HIDE DEF h
    <3> QED BY <1>1, <2>1, FoldExists
  <2>3. ASSUME NEW t \in SUBSET (1 .. N), t # {}
        PROVE  h[Max(t)][f[t \ {Max(t)}]] = f[t \ {Max(t)}] * 10 + s[Max(t)]
    <3>1. PICK m : IsMax(t, m)
      BY <1>1, <2>3, MaxExists
    <3>2. Max(t) = m /\ m \in 1 .. N
      BY <1>1, <3>1, MaxIs DEF IsMax
    <3>3. f[t \ {m}] \in Int
      OBVIOUS
    <3> QED BY <3>2, <3>3
  <2> HIDE DEF h
  <2>4. IsFold(f)
    BY <2>2, <2>3 DEF Folding, FoldStep
  <2> QED BY <2>4
<1>6. IsFold(iter)
  <2> HIDE DEF IsFold
  <2> QED BY <1>3, <1>5
<1>7. r[0] = b
  <2>1. 1 .. 0 = {} /\ {} \in SUBSET (1 .. N) /\ 0 \in 0 .. N
    BY <1>1
  <2>2. iter[{}] = b
    BY <1>6, <2>1
  <2> QED BY <2>1, <2>2
<1>8. ASSUME NEW k \in 1 .. N PROVE r[k] = r[k - 1] * 10 + s[k]
  <2>1. /\ 1 .. k \in SUBSET (1 .. N) /\ 1 .. k # {} /\ Max(1 .. k) = k
        /\ (1 .. k) \ {k} = 1 .. k - 1
    BY <1>1, FirstElements
  <2>2. iter[1 .. k] = iter[1 .. k - 1] * 10 + s[k]
    BY <1>6, <2>1
  <2>3. k \in 0 .. N /\ k - 1 \in 0 .. N
    BY <1>1
  <2> QED BY <2>2, <2>3
<1>9. r[N] = iter[1 .. N]
  BY <1>1
<1> HIDE DEF r
<1> QED BY <1>2, <1>7, <1>8, <1>9 DEF MadeOf

LEMMA BehindIsInt ==
    ASSUME NEW s \in Seq(Int), NEW b \in Int
    PROVE  Behind(b, s) \in Int
<1>1. PICK r : MadeOf(s, b, r) /\ Behind(b, s) = r[Len(s)]
  BY NumberIsMade
<1>2. Len(s) \in Nat /\ \A k \in 1 .. Len(s) : s[k] \in Int
  BY ElementOfSeq
<1>3. \A k \in 1 .. Len(s) : r[k - 1] \in Int => r[k] \in Int
  BY <1>1, <1>2 DEF MadeOf
<1>4. \A k \in 0 .. Len(s) : r[k] \in Int
  BY <1>1, <1>2, <1>3, StepsKeep DEF MadeOf
<1> QED BY <1>1, <1>2, <1>4

LEMMA NumberFromIsInt ==
    ASSUME NEW n \in Int, NEW a \in Nat, NEW b \in Nat, a <= b
    PROVE  NumberFrom(n, a, b) \in Int
<1>1. PICK s : s = [k \in 1 .. b - a |-> Value(At(a + k - 1))]
  OBVIOUS
<1>2. b - a \in Nat /\ \A k \in 1 .. b - a : Value(At(a + k - 1)) \in Int
  BY ValueIsInt
<1>3. s \in Seq(Int)
  BY <1>1, <1>2
<1> QED BY <1>1, <1>3, BehindIsInt DEF NumberFrom

\* The number that an integer in the content says.
LEMMA LengthIsRead ==
    ASSUME content \in Seq(Symbols), NEW n \in Lengths, NEW p, Has(content, p, Int_(n))
    PROVE  NumberFrom(0, p + 1, Hash!SkipTo("e", p + 1)) = n
<1>1. PICK d, L : d = Decimal(n) /\ L = Len(d)
  OBVIOUS
<1>2. /\ d \in Seq(Digits) /\ L \in Nat /\ L >= 1 /\ n \in Nat /\ p \in Nat
      /\ Hash!SkipTo("e", p + 1) = p + 1 + L /\ p + 1 + L < Len(content) /\ Len(content) \in Nat
  <2>1. n \in Nat
    BY DecimalIs
  <2>2. d \in Seq(Digits) /\ L \in Nat /\ L >= 1
    BY <1>1, DecimalIs
  <2>3. /\ p \in Nat /\ Len(content) \in Nat
        /\ Hash!SkipTo("e", p + 1) = p + 1 + L /\ p + 1 + L < Len(content)
    BY <1>1, IntIsRead
  <2> QED BY ONLY <2>1, <2>2, <2>3
<1>3. \A k \in 1 .. L : content[p + 1 + k] = d[k]
  <2>1. /\ d \in Seq(Symbols) /\ <<"i">> \in Seq(Symbols) /\ <<"e">> \in Seq(Symbols) /\ Int_(n) \in Seq(Symbols)
    <3>1. Int_(n) \in Seq(Characters) /\ Digits \subseteq Symbols /\ Characters \subseteq Symbols
      BY IntIs, SymbolsAre
    <3>2. "i" \in Symbols /\ "e" \in Symbols
      BY <3>1 DEF Characters, Marks
    <3> QED BY <1>2, <3>1, <3>2
  <2>2. Has(Int_(n), 1, d)
    BY <1>1, IntIs
  <2>3. Has(content, p + 1, d)
    BY <2>1, <2>2, HasInside
  <2> QED BY <1>1, <2>3 DEF Has
<1>4. \A k \in 1 .. L : Value(At(p + 1 + k - 1)) = Digit[d[k]] /\ d[k] \in Digits /\ Digit[d[k]] \in Nat
  <2>1. ASSUME NEW k \in 1 .. L PROVE At(p + 1 + k - 1) = d[k]
    <3>1. p + 1 + k - 1 \in Nat /\ p + 1 + k - 1 < Len(content) /\ (p + 1 + k - 1) + 1 = p + 1 + k
      BY <1>2
    <3>2. Hash!At(p + 1 + k - 1) = content[(p + 1 + k - 1) + 1]
      BY <3>1, SymbolAt
    <3> QED BY <1>3, <3>1, <3>2 DEF At
  <2>2. ASSUME NEW k \in 1 .. L PROVE d[k] \in Digits /\ d[k] \in Characters
    BY <1>1, <1>2, ElementOfSeq DEF Characters, Marks
  <2> QED BY <2>1, <2>2, DigitIsNat DEF Value
<1>5. PICK s : s = [k \in 1 .. (p + 1 + L) - (p + 1) |-> Value(At(p + 1 + k - 1))]
  OBVIOUS
<1>6. (p + 1 + L) - (p + 1) = L /\ L \in Nat
  BY <1>2
<1>7. Len(s) = L /\ s \in Seq(Int) /\ \A k \in 1 .. L : s[k] = Digit[d[k]]
  <2>1. \A k \in 1 .. L : s[k] = Digit[d[k]] /\ s[k] \in Int
    BY <1>4, <1>5, <1>6
  <2>2. s = [k \in 1 .. L |-> s[k]]
    BY <1>5, <1>6
  <2> QED BY ONLY <1>6, <2>1, <2>2
<1>8. PICK r : MadeOf(s, 0, r) /\ Behind(0, s) = r[L]
  BY <1>7, NumberIsMade
<1>9. PICK q : Counted(d, 0, q) /\ HashNumber(d) = q[L]
  BY <1>1, <1>2, NumberIsCounted
<1>10. HashNumber(d) = n
  BY <1>1, DecimalIsRead
<1>11. r[L] = q[L]
  <2> DEFINE Same == {k \in Nat : k <= L => r[k] = q[k]}
  <2>1. 0 \in Same
    BY <1>8, <1>9 DEF MadeOf, Counted
  <2>2. ASSUME NEW k \in Same PROVE k + 1 \in Same
    <3>1. k + 1 <= L => k <= L /\ k + 1 \in 1 .. L /\ (k + 1) - 1 = k
      BY <1>2
    <3>2. k + 1 <= L => r[k + 1] = r[k] * 10 + s[k + 1] /\ s[k + 1] = Digit[d[k + 1]]
      BY <1>7, <1>8, <3>1 DEF MadeOf
    <3>3. k + 1 <= L => q[k + 1] = q[k] * 10 + Digit[d[k + 1]]
      BY <1>1, <1>9, <3>1 DEF Counted
    <3> QED BY <3>1, <3>2, <3>3
  <2>3. Same \in SUBSET Nat
    OBVIOUS
  <2> HIDE DEF Same
  <2>4. Same = Nat
    BY <2>1, <2>2, <2>3, NatFromBefore
  <2> QED BY <1>2, <2>4 DEF Same
<1> QED BY <1>2, <1>5, <1>8, <1>9, <1>10, <1>11 DEF NumberFrom

\* The files that can be read, and their lengths one after the other.
AnyFile == [length : Int, path : Seq(Symbols \cup {Hash!NUL})]

Totals(s, r) == r[0] = 0 /\ \A k \in 1 .. Len(s) : r[k] = r[k - 1] + s[k].length

Measured(s) == \A k \in 1 .. Len(s) : s[k].length \in Int

LEMMA TotalIs ==
    ASSUME NEW T, NEW s \in Seq(T), Measured(s)
    PROVE  \E r : Totals(s, r) /\ TotalLength(s) = r[Len(s)]
<1> DEFINE N == Len(s)
           iter[t \in SUBSET DOMAIN s] ==
               IF t = {} THEN 0 ELSE LET x == Max(t) IN iter[t \ {x}] + s[x].length
           IsFold(f) == f = [t \in SUBSET (1 .. N) |->
               IF t = {} THEN 0 ELSE f[t \ {Max(t)}] + s[Max(t)].length]
           h == [k \in 1 .. N |-> [n \in Int |-> n + s[k].length]]
           r == [k \in 0 .. N |-> iter[1 .. k]]
<1>1. N \in Nat /\ DOMAIN s = 1 .. N
  OBVIOUS
<1>2. TotalLength(s) = iter[1 .. N]
  BY <1>1 DEF TotalLength, FoldLeft, MapThenFoldSet
<1>3. iter = CHOOSE f : IsFold(f)
  BY <1>1
<1> HIDE DEF iter
<1>4. \A k \in 1 .. N : s[k].length \in Int
  BY DEF Measured
<1>5. \E f : IsFold(f)
  <2>1. \A k \in 1 .. N : h[k] \in [Int -> Int]
    BY <1>4
  <2>2. PICK f \in [SUBSET (1 .. N) -> Int] : Folding(f, N, h, 0)
    <3>1. 0 \in Int
      OBVIOUS
    <3> HIDE DEF h
    <3> QED BY <1>1, <2>1, <3>1, FoldExists
  <2>3. ASSUME NEW t \in SUBSET (1 .. N), t # {}
        PROVE  h[Max(t)][f[t \ {Max(t)}]] = f[t \ {Max(t)}] + s[Max(t)].length
    <3>1. PICK m : IsMax(t, m)
      BY <1>1, <2>3, MaxExists
    <3>2. Max(t) = m /\ m \in 1 .. N
      BY <1>1, <3>1, MaxIs DEF IsMax
    <3>3. f[t \ {m}] \in Int
      OBVIOUS
    <3> QED BY <3>2, <3>3
  <2> HIDE DEF h
  <2>4. IsFold(f)
    BY <2>2, <2>3 DEF Folding, FoldStep
  <2> QED BY <2>4
<1>6. IsFold(iter)
  <2> HIDE DEF IsFold
  <2> QED BY <1>3, <1>5
<1>7. r[0] = 0
  <2>1. 1 .. 0 = {} /\ {} \in SUBSET (1 .. N) /\ 0 \in 0 .. N
    BY <1>1
  <2>2. iter[{}] = 0
    BY <1>6, <2>1
  <2> QED BY <2>1, <2>2
<1>8. ASSUME NEW k \in 1 .. N PROVE r[k] = r[k - 1] + s[k].length
  <2>1. /\ 1 .. k \in SUBSET (1 .. N) /\ 1 .. k # {} /\ Max(1 .. k) = k
        /\ (1 .. k) \ {k} = 1 .. k - 1
    BY <1>1, FirstElements
  <2>2. iter[1 .. k] = iter[1 .. k - 1] + s[k].length
    BY <1>6, <2>1
  <2>3. k \in 0 .. N /\ k - 1 \in 0 .. N
    BY <1>1
  <2> QED BY <2>2, <2>3
<1>9. r[N] = iter[1 .. N]
  BY <1>1
<1> HIDE DEF r
<1> QED BY <1>2, <1>7, <1>8, <1>9 DEF Totals

LEMMA TotalIsInt ==
    ASSUME NEW T, NEW s \in Seq(T), Measured(s)
    PROVE  TotalLength(s) \in Int
<1>1. PICK r : Totals(s, r) /\ TotalLength(s) = r[Len(s)]
  BY TotalIs
<1>2. Len(s) \in Nat
  OBVIOUS
<1>3. \A k \in 1 .. Len(s) : r[k - 1] \in Int => r[k] \in Int
  BY <1>1 DEF Totals, Measured
<1>4. \A k \in 0 .. Len(s) : r[k] \in Int
  <2>1. r[0] \in Int
    BY <1>1 DEF Totals
  <2> QED BY <1>2, <1>3, <2>1, StepsKeep
<1> QED BY <1>1, <1>2, <1>4

LEMMA TotalIsNat ==
    ASSUME NEW T, NEW s \in Seq(T), \A k \in 1 .. Len(s) : s[k].length \in Nat
    PROVE  TotalLength(s) \in Nat
<1>1. Measured(s)
  BY DEF Measured
<1>2. PICK r : Totals(s, r) /\ TotalLength(s) = r[Len(s)]
  BY <1>1, TotalIs
<1>3. Len(s) \in Nat
  OBVIOUS
<1>4. \A k \in 1 .. Len(s) : r[k - 1] \in Nat => r[k] \in Nat
  BY <1>2 DEF Totals
<1>5. \A k \in 0 .. Len(s) : r[k] \in Nat
  <2>1. r[0] \in Nat
    BY <1>2 DEF Totals
  <2> QED BY <1>3, <1>4, <2>1, StepsKeep
<1> QED BY <1>2, <1>3, <1>5

\* It depends on the lengths alone.
LEMMA TotalsAgree ==
    ASSUME NEW S, NEW T, NEW s \in Seq(S), NEW t \in Seq(T), Measured(s), Measured(t),
           Len(s) = Len(t), \A k \in 1 .. Len(s) : s[k].length = t[k].length
    PROVE  TotalLength(s) = TotalLength(t)
<1>1. PICK r : Totals(s, r) /\ TotalLength(s) = r[Len(s)]
  BY TotalIs
<1>2. PICK q : Totals(t, q) /\ TotalLength(t) = q[Len(t)]
  BY TotalIs
<1>3. Len(s) \in Nat
  OBVIOUS
<1> DEFINE Same == {k \in Nat : k <= Len(s) => r[k] = q[k]}
<1>4. 0 \in Same
  BY <1>1, <1>2 DEF Totals
<1>5. ASSUME NEW k \in Same PROVE k + 1 \in Same
  <2>1. k + 1 <= Len(s) => k <= Len(s) /\ k + 1 \in 1 .. Len(s) /\ (k + 1) - 1 = k
    BY <1>3
  <2>2. k + 1 <= Len(s) => r[k + 1] = r[k] + s[k + 1].length /\ q[k + 1] = q[k] + t[k + 1].length
    BY <1>1, <1>2, <2>1 DEF Totals
  <2> QED BY <2>1, <2>2
<1>6. Same \in SUBSET Nat
  OBVIOUS
<1> HIDE DEF Same
<1>7. Same = Nat
  BY <1>4, <1>5, <1>6, NatFromBefore
<1>8. r[Len(s)] = q[Len(s)]
  BY <1>3, <1>7 DEF Same
<1> QED BY <1>1, <1>2, <1>8

-----------------------------------------------------------------------------
(***************************************************************************)
(* Texts in any content, and the lists that are read from it.              *)
(***************************************************************************)
LEMMA HashNumberIsNat == ASSUME NEW s \in Seq(Digits) PROVE HashNumber(s) \in Nat
<1>1. PICK r : Counted(s, 0, r) /\ HashNumber(s) = r[Len(s)]
  BY NumberIsCounted
<1>2. Len(s) \in Nat /\ \A k \in 1 .. Len(s) : Digit[s[k]] \in Nat
  BY DigitIsNat, ElementOfSeq DEF Characters, Marks
<1>3. r[0] \in Nat /\ \A k \in 1 .. Len(s) : r[k - 1] \in Nat => r[k] \in Nat
  BY <1>1, <1>2 DEF Counted
<1>4. \A k \in 0 .. Len(s) : r[k] \in Nat
  BY <1>2, <1>3, StepsKeep
<1> QED BY <1>1, <1>2, <1>4

Read == Symbols \cup {Hash!NUL}

LEMMA AtIsRead ==
    ASSUME content \in Seq(Symbols), NEW c \in Nat
    PROVE  At(c) \in Read
BY SymbolAt DEF At, Hash!At, Read

LEMMA TextIn ==
    ASSUME content \in Seq(Symbols), NEW c \in Nat, c <= Hash!filesize
    PROVE  /\ DigitsEnd(c) \in Nat /\ DigitsEnd(c) >= c
           /\ TextEnd(c) \in Nat /\ TextEnd(c) > c
           /\ TextAt(c) \in Seq(Read)
<1>1. PICK e : e = DigitsEnd(c)
  OBVIOUS
<1>2. Len(content) \in Nat /\ Hash!filesize = Len(content) + 1
  BY SymbolAt
<1>3. e \in c .. Hash!filesize /\ \A q \in c .. e - 1 : Hash!At(q) \in Digits
  BY <1>1, SkipWhileIn DEF DigitsEnd
<1>4. PICK s : s = SubSeq(content, c + 1, e)
  OBVIOUS
<1>5. s \in Seq(Digits)
  <2>1. ASSUME NEW k \in c + 1 .. e PROVE content[k] \in Digits
    <3>1. k - 1 \in c .. e - 1 /\ k - 1 \in Nat /\ (k - 1) + 1 = k
      BY <1>2, <1>3
    <3>2. Hash!At(k - 1) \in Digits
      BY <1>3, <3>1
    <3>3. Hash!At(k - 1) = content[(k - 1) + 1]
      BY <3>1, <3>2, DigitsAssumption DEF Hash!At, Hash!NUL, AllDigits
    <3> QED BY <3>1, <3>2, <3>3
  <2>2. c + 1 \in Int /\ e \in Int
    BY <1>2, <1>3
  <2> QED BY <1>4, <2>1, <2>2, SubSeqProperties
<1>6. Number(c, e) = HashNumber(s)
  BY <1>4 DEF Number, Hash!Number, HashNumber
<1>7. PICK n : n = Number(c, e)
  OBVIOUS
<1>8. n \in Nat
  BY <1>5, <1>6, <1>7, HashNumberIsNat
<1>9. e \in Nat /\ e >= c /\ e + 1 + n \in Nat /\ e + 1 + n > c
  BY <1>2, <1>3, <1>8
<1>10. TextAt(c) \in Seq(Read)
  <2>1. TextAt(c) = [k \in 1 .. n |-> At(e + 1 + k - 1)]
    BY <1>1, <1>7 DEF TextAt, CharsFrom
  <2>2. \A k \in 1 .. n : At(e + 1 + k - 1) \in Read
    <3>1. \A k \in 1 .. n : e + 1 + k - 1 \in Nat
      BY <1>8, <1>9
    <3> QED BY <3>1, AtIsRead
  <2> QED BY <1>8, <2>1, <2>2
<1> QED BY <1>1, <1>7, <1>9, <1>10 DEF TextEnd

LEMMA FromBehind ==
    ASSUME NEW S \in SUBSET Nat, NEW M \in Nat, \A c \in Nat : c >= M => c \in S,
           \A c \in Nat : (\A d \in Nat : d > c => d \in S) => c \in S
    PROVE  S = Nat
<1> DEFINE T == {n \in Nat : \A c \in Nat : c + n >= M => c \in S}
<1>1. ASSUME NEW n \in Nat, \A m \in 0 .. n - 1 : m \in T PROVE n \in T
  <2>1. ASSUME NEW c \in Nat, c + n >= M PROVE c \in S
    <3>1. CASE n = 0
      BY <2>1, <3>1
    <3>2. CASE n # 0
      <4>1. n - 1 \in T
        BY <1>1, <3>2
      <4>2. \A d \in Nat : d > c => d + (n - 1) >= M
        BY <2>1
      <4>3. \A d \in Nat : d > c => d \in S
        BY <4>1, <4>2
      <4> QED BY <4>3
    <3> QED BY <3>1, <3>2
  <2> QED BY <2>1
<1>2. T \in SUBSET Nat
  OBVIOUS
<1> HIDE DEF T
<1>3. M \in T
  BY <1>1, <1>2, NatFromSmaller
<1>4. \A c \in Nat : c + M >= M
  OBVIOUS
<1> QED BY <1>3, <1>4 DEF T

\* Tiers, one tier at a time.
TierNext(c) == TextEnd(TierUrl(c)) + 1
TierUrls(c) == IF At(DigitsEnd(TierUrl(c)) + 1) = "http" THEN <<TextAt(TierUrl(c))>> ELSE <<>>

TiersStep(f, c) ==
    IF At(c) = "e" THEN [urls |-> <<>>, code |-> 0]
    ELSE IF c >= filesize \/ At(DigitsEnd(TierUrl(c))) # ":" THEN [urls |-> <<>>, code |-> -1]
    ELSE IF TierNext(c) > filesize THEN [urls |-> TierUrls(c), code |-> -1]
    ELSE [f[TierNext(c)] EXCEPT !.urls = TierUrls(c) \o @]

TiersFor(f, m) == f = [c \in Nat |-> IF c + m >= filesize THEN TiersStep(f, c) ELSE <<>>]

LEMMA TierGoesOn ==
    ASSUME content \in Seq(Symbols), NEW c \in Nat, c < filesize
    PROVE  TierNext(c) \in Nat /\ TierNext(c) > c
<1>1. filesize = Hash!filesize /\ Hash!filesize \in Nat /\ c + 1 \in Nat /\ c + 1 <= Hash!filesize
  <2>1. Hash!filesize \in Nat
    BY SymbolAt
  <2> QED BY <2>1 DEF filesize
<1>2. TextEnd(c + 1) \in Nat /\ TextEnd(c + 1) > c + 1
  BY <1>1, TextIn
<1> QED BY <1>2 DEF TierNext, TierUrl

LEMMA TiersExist == ASSUME content \in Seq(Symbols) PROVE \A m \in Nat : \E f : TiersFor(f, m)
<1> DEFINE S == {m \in Nat : \E f : TiersFor(f, m)}
<1>1. filesize \in Nat
  BY SymbolAt DEF filesize
<1>2. 0 \in S
  <2> DEFINE f == [c \in Nat |-> IF c >= filesize THEN IF At(c) = "e" THEN [urls |-> <<>>, code |-> 0]
                                                       ELSE [urls |-> <<>>, code |-> -1]
                                 ELSE <<>>]
  <2>1. ASSUME NEW c \in Nat PROVE f[c] = IF c + 0 >= filesize THEN TiersStep(f, c) ELSE <<>>
    <3>1. c + 0 = c
      OBVIOUS
    <3>2. f[c] = IF c >= filesize THEN IF At(c) = "e" THEN [urls |-> <<>>, code |-> 0]
                                        ELSE [urls |-> <<>>, code |-> -1]
                 ELSE <<>>
      OBVIOUS
    <3> HIDE DEF f
    <3> QED BY <3>1, <3>2 DEF TiersStep
  <2>2. f = [c \in Nat |-> f[c]]
    OBVIOUS
  <2> HIDE DEF f
  <2>3. f = [c \in Nat |-> IF c + 0 >= filesize THEN TiersStep(f, c) ELSE <<>>]
    BY <2>1, <2>2
  <2> QED BY <2>3 DEF TiersFor
<1>3. ASSUME NEW m \in S PROVE m + 1 \in S
  <2>1. PICK g : TiersFor(g, m)
    OBVIOUS
  <2> DEFINE f == [c \in Nat |-> IF c + (m + 1) >= filesize THEN TiersStep(g, c) ELSE <<>>]
  <2>2. \A c \in Nat : g[c] = IF c + m >= filesize THEN TiersStep(g, c) ELSE <<>>
    BY <2>1 DEF TiersFor
  <2>3. \A c \in Nat : f[c] = IF c + (m + 1) >= filesize THEN TiersStep(g, c) ELSE <<>>
    OBVIOUS
  <2>4. \A c \in Nat : c + m >= filesize => f[c] = g[c]
    BY <1>1, <2>2, <2>3
  <2>5. ASSUME NEW c \in Nat, c + (m + 1) >= filesize PROVE TiersStep(f, c) = TiersStep(g, c)
    <3>1. CASE c < filesize
      <4>1. TierNext(c) \in Nat /\ TierNext(c) + m >= filesize
        BY <1>1, <2>5, <3>1, TierGoesOn
      <4>2. f[TierNext(c)] = g[TierNext(c)]
        BY <2>4, <4>1
      <4> HIDE DEF f
      <4> QED BY <4>2 DEF TiersStep
    <3>2. CASE ~(c < filesize)
      <4>1. c >= filesize
        BY <1>1, <3>2
      <4> HIDE DEF f
      <4> QED BY <4>1 DEF TiersStep
    <3> QED BY <3>1, <3>2
  <2>6. f = [c \in Nat |-> f[c]]
    OBVIOUS
  <2> HIDE DEF f
  <2>7. f = [c \in Nat |-> IF c + (m + 1) >= filesize THEN TiersStep(f, c) ELSE <<>>]
    BY <2>3, <2>5, <2>6
  <2>8. TiersFor(f, m + 1)
    BY <2>7 DEF TiersFor
  <2> QED BY <2>8
<1>4. S \in SUBSET Nat
  OBVIOUS
<1> HIDE DEF S
<1>5. S = Nat
  BY <1>2, <1>3, <1>4, NatFromBefore
<1> QED BY <1>5 DEF S

LEMMA TiersAre == ASSUME content \in Seq(Symbols) PROVE \A c \in Nat : Tiers[c] = TiersStep(Tiers, c)
<1> DEFINE IsTiers(f) == f = [c \in Nat |-> TiersStep(f, c)]
<1>1. filesize \in Nat
  BY SymbolAt DEF filesize
<1>2. PICK f : TiersFor(f, filesize)
  BY <1>1, TiersExist
<1>3. \A c \in Nat : c + filesize >= filesize
  BY <1>1
<1>4. IsTiers(f)
  BY <1>2, <1>3 DEF TiersFor
<1>5. Tiers = CHOOSE g : IsTiers(g)
  BY Zenon DEF Tiers, TiersStep, TierNext, TierUrls
<1>6. IsTiers(Tiers)
  <2> HIDE DEF IsTiers
  <2> QED BY <1>4, <1>5
<1> QED BY <1>6

\* FileList, one file at a time.
NumberAfter(c) == c + 1 + Len(Key("length")) + 1
PathFrom(c) ==
    IF KeyAt("length", c + 1) THEN Hash!SkipTo("e", NumberAfter(c)) + 1 ELSE c + 1
TextOfPath(c) == PathFrom(c) + Len(Key("path")) + 1
LengthAt(c) ==
    IF KeyAt("length", c + 1)
    THEN ULong(NumberFrom(FirstLen, NumberAfter(c), Hash!SkipTo("e", NumberAfter(c))))
    ELSE Unassigned
FileAt(c) ==
    [length |-> IF Len(TextAt(TextOfPath(c))) > PathSize THEN Spoiled ELSE LengthAt(c),
     path |-> TextAt(TextOfPath(c))]
FileNext(c) == TextEnd(TextOfPath(c)) + 2

FilesStep(f, c) ==
    IF At(c) = "e" \/ ~KeyAt("path", PathFrom(c)) THEN <<>> ELSE <<FileAt(c)>> \o f[FileNext(c)]

FilesFor(f, m) == f = [c \in Nat |-> IF c + m >= Hash!filesize THEN FilesStep(f, c) ELSE <<>>]

LEMMA LengthGoesOn ==
    ASSUME content \in Seq(Symbols), NEW c \in Nat, KeyAt("length", c + 1)
    PROVE  /\ NumberAfter(c) \in Nat /\ NumberAfter(c) > c
           /\ Hash!SkipTo("e", NumberAfter(c)) \in NumberAfter(c) .. Hash!filesize
<1>1. Len(content) \in Nat /\ Hash!filesize = Len(content) + 1
  BY SymbolAt
<1>2. (c + 1) + 2 < Len(content) /\ NumberAfter(c) = c + 1 + 3 + 1
  <2>1. "length" \in Words /\ c + 1 \in Nat
    BY DEF Words
  <2>2. Len(Key("length")) = 3
    BY <2>1, KeyIs
  <2> QED BY <2>1, <2>2, KeyAtIs DEF NumberAfter
<1>3. NumberAfter(c) \in Nat /\ NumberAfter(c) > c /\ NumberAfter(c) <= Hash!filesize
  BY ONLY <1>1, <1>2, c \in Nat
<1> QED BY <1>3, SkipToIn

LEMMA FileGoesOn ==
    ASSUME content \in Seq(Symbols), NEW c \in Nat, KeyAt("path", PathFrom(c))
    PROVE  /\ c < Hash!filesize /\ FileNext(c) \in Nat /\ FileNext(c) > c
           /\ FileAt(c) \in AnyFile
<1>1. Len(content) \in Nat /\ Hash!filesize = Len(content) + 1
  BY SymbolAt
<1>2. PICK p : p = PathFrom(c)
  OBVIOUS
<1>3. p \in Nat /\ p > c
  <2>1. CASE KeyAt("length", c + 1)
    <3>1. PICK e : e = Hash!SkipTo("e", NumberAfter(c))
      OBVIOUS
    <3>2. e \in Nat /\ e > c
      BY <1>1, <2>1, <3>1, LengthGoesOn
    <3>3. p = e + 1
      BY <1>2, <2>1, <3>1 DEF PathFrom
    <3> QED BY <3>2, <3>3
  <2>2. CASE ~KeyAt("length", c + 1)
    BY <1>2, <2>2 DEF PathFrom
  <2> QED BY <2>1, <2>2
<1>4. p + 2 < Len(content) /\ TextOfPath(c) = p + 3 + 1
  <2>1. "path" \in Words
    BY DEF Words
  <2> QED BY <1>2, <1>3, <2>1, KeyAtIs, KeyIs DEF TextOfPath
<1>5. TextOfPath(c) \in Nat /\ TextOfPath(c) <= Hash!filesize /\ TextOfPath(c) > c
  BY ONLY <1>1, <1>3, <1>4, c \in Nat
<1>6. TextEnd(TextOfPath(c)) \in Nat /\ TextEnd(TextOfPath(c)) > TextOfPath(c) /\ TextAt(TextOfPath(c)) \in Seq(Read)
  BY <1>5, TextIn
<1>7. FileAt(c).length \in Int
  <2>1. CASE KeyAt("length", c + 1)
    <3>1. PICK a, e : a = NumberAfter(c) /\ e = Hash!SkipTo("e", NumberAfter(c))
      OBVIOUS
    <3>2. a \in Nat /\ e \in Nat /\ a <= e
      BY <1>1, <2>1, <3>1, LengthGoesOn
    <3>3. NumberFrom(FirstLen, a, e) \in Int
      BY <3>2, NumberFromIsInt DEF FirstLen
    <3>4. LengthAt(c) = ULong(NumberFrom(FirstLen, a, e))
      BY <2>1, <3>1 DEF LengthAt
    <3>5. LengthAt(c) \in Int
      BY <3>3, <3>4, WrappedIs
    <3> QED BY <3>5 DEF FileAt, Spoiled
  <2>2. CASE ~KeyAt("length", c + 1)
    BY <2>2 DEF FileAt, LengthAt, Unassigned, Spoiled
  <2> QED BY <2>1, <2>2
<1>8. FileAt(c) \in AnyFile
  <2>1. FileAt(c) = [length |-> FileAt(c).length, path |-> TextAt(TextOfPath(c))]
    BY DEF FileAt
  <2> QED BY <1>6, <1>7, <2>1 DEF AnyFile, Read
<1>9. FileNext(c) \in Nat /\ FileNext(c) > c
  BY <1>5, <1>6 DEF FileNext
<1>10. c < Hash!filesize
  BY ONLY <1>1, <1>5, c \in Nat
<1> QED BY <1>8, <1>9, <1>10

LEMMA FilesExist == ASSUME content \in Seq(Symbols) PROVE \A m \in Nat : \E f : FilesFor(f, m)
<1> DEFINE S == {m \in Nat : \E f : FilesFor(f, m)}
<1>1. Hash!filesize \in Nat
  BY SymbolAt
<1>2. 0 \in S
  <2> DEFINE f == [c \in Nat |-> <<>>]
  <2>1. ASSUME NEW c \in Nat PROVE f[c] = IF c + 0 >= Hash!filesize THEN FilesStep(f, c) ELSE <<>>
    <3>1. c + 0 >= Hash!filesize => ~KeyAt("path", PathFrom(c))
      BY <1>1, FileGoesOn
    <3>2. f[c] = <<>>
      OBVIOUS
    <3> HIDE DEF f
    <3> QED BY <3>1, <3>2 DEF FilesStep
  <2>2. f = [c \in Nat |-> f[c]]
    OBVIOUS
  <2> HIDE DEF f
  <2>3. f = [c \in Nat |-> IF c + 0 >= Hash!filesize THEN FilesStep(f, c) ELSE <<>>]
    BY <2>1, <2>2
  <2> QED BY <2>3 DEF FilesFor
<1>3. ASSUME NEW m \in S PROVE m + 1 \in S
  <2>1. PICK g : FilesFor(g, m)
    OBVIOUS
  <2> DEFINE f == [c \in Nat |-> IF c + (m + 1) >= Hash!filesize THEN FilesStep(g, c) ELSE <<>>]
  <2>2. \A c \in Nat : g[c] = IF c + m >= Hash!filesize THEN FilesStep(g, c) ELSE <<>>
    BY <2>1 DEF FilesFor
  <2>3. \A c \in Nat : f[c] = IF c + (m + 1) >= Hash!filesize THEN FilesStep(g, c) ELSE <<>>
    OBVIOUS
  <2>4. \A c \in Nat : c + m >= Hash!filesize => f[c] = g[c]
    BY <1>1, <2>2, <2>3
  <2>5. ASSUME NEW c \in Nat, c + (m + 1) >= Hash!filesize PROVE FilesStep(f, c) = FilesStep(g, c)
    <3>1. CASE KeyAt("path", PathFrom(c))
      <4>1. FileNext(c) \in Nat /\ FileNext(c) + m >= Hash!filesize
        BY <1>1, <2>5, <3>1, FileGoesOn
      <4>2. f[FileNext(c)] = g[FileNext(c)]
        BY <2>4, <4>1
      <4> HIDE DEF f
      <4> QED BY <4>2 DEF FilesStep
    <3>2. CASE ~KeyAt("path", PathFrom(c))
      <4> HIDE DEF f
      <4> QED BY <3>2 DEF FilesStep
    <3> QED BY <3>1, <3>2
  <2>6. f = [c \in Nat |-> f[c]]
    OBVIOUS
  <2> HIDE DEF f
  <2>7. f = [c \in Nat |-> IF c + (m + 1) >= Hash!filesize THEN FilesStep(f, c) ELSE <<>>]
    BY <2>3, <2>5, <2>6
  <2>8. FilesFor(f, m + 1)
    BY <2>7 DEF FilesFor
  <2> QED BY <2>8
<1>4. S \in SUBSET Nat
  OBVIOUS
<1> HIDE DEF S
<1>5. S = Nat
  BY <1>2, <1>3, <1>4, NatFromBefore
<1> QED BY <1>5 DEF S

LEMMA FilesAre == ASSUME content \in Seq(Symbols) PROVE \A c \in Nat : FileList[c] = FilesStep(FileList, c)
<1> DEFINE IsFiles(f) == f = [c \in Nat |-> FilesStep(f, c)]
<1>1. Hash!filesize \in Nat
  BY SymbolAt
<1>2. PICK f : FilesFor(f, Hash!filesize)
  BY <1>1, FilesExist
<1>3. \A c \in Nat : c + Hash!filesize >= Hash!filesize
  BY <1>1
<1>4. IsFiles(f)
  BY <1>2, <1>3 DEF FilesFor
<1>5. FileList = CHOOSE g : IsFiles(g)
  BY Zenon DEF FileList, FilesStep, FileNext, FileAt, LengthAt, TextOfPath, PathFrom, NumberAfter
<1>6. IsFiles(FileList)
  <2> HIDE DEF IsFiles
  <2> QED BY <1>4, <1>5
<1> QED BY <1>6

LEMMA FilesGoOn ==
    ASSUME content \in Seq(Symbols), NEW c \in Nat
    PROVE  /\ At(c) = "e" \/ ~KeyAt("path", PathFrom(c)) => FileList[c] = <<>>
           /\ ~(At(c) = "e" \/ ~KeyAt("path", PathFrom(c))) => FileList[c] = <<FileAt(c)>> \o FileList[FileNext(c)]
<1>1. FileList[c] = FilesStep(FileList, c)
  BY FilesAre
<1>2. PICK f : f = FileList
  OBVIOUS
<1>3. f[c] = FilesStep(f, c)
  BY ONLY <1>1, <1>2, Zenon
<1>4. /\ At(c) = "e" \/ ~KeyAt("path", PathFrom(c)) => f[c] = <<>>
      /\ ~(At(c) = "e" \/ ~KeyAt("path", PathFrom(c))) => f[c] = <<FileAt(c)>> \o f[FileNext(c)]
  BY ONLY <1>3 DEF FilesStep
<1> QED BY <1>2, <1>4

LEMMA FilesAreRead == ASSUME content \in Seq(Symbols) PROVE \A c \in Nat : FileList[c] \in Seq(AnyFile)
<1> DEFINE S == {c \in Nat : FileList[c] \in Seq(AnyFile)}
<1>0. <<>> \in Seq(AnyFile)
  OBVIOUS
<1>1. Hash!filesize \in Nat
  BY SymbolAt
<1>2. ASSUME NEW c \in Nat, c >= Hash!filesize PROVE c \in S
  <2>1. ~KeyAt("path", PathFrom(c))
    BY <1>1, <1>2, FileGoesOn
  <2>2. FileList[c] = <<>>
    BY <2>1, FilesGoOn
  <2> QED BY <1>0, <2>2
<1>3. ASSUME NEW c \in Nat, \A d \in Nat : d > c => d \in S PROVE c \in S
  <2>1. CASE At(c) = "e" \/ ~KeyAt("path", PathFrom(c))
    <3>1. FileList[c] = <<>>
      BY <2>1, FilesGoOn
    <3> QED BY <1>0, <3>1
  <2>2. CASE ~(At(c) = "e" \/ ~KeyAt("path", PathFrom(c)))
    <3>1. FileNext(c) \in Nat /\ FileNext(c) > c /\ FileAt(c) \in AnyFile
      BY <2>2, FileGoesOn
    <3>2. PICK rest, file : rest = FileList[FileNext(c)] /\ file = FileAt(c)
      OBVIOUS
    <3>3. rest \in Seq(AnyFile) /\ file \in AnyFile
      BY <1>3, <3>1, <3>2
    <3>4. <<file>> \o rest \in Seq(AnyFile)
      BY ONLY <3>3
    <3>5. FileList[c] = <<file>> \o rest
      BY <2>2, <3>2, FilesGoOn
    <3> QED BY <3>4, <3>5
  <2> QED BY <2>1, <2>2
<1>4. S \in SUBSET Nat
  OBVIOUS
<1> HIDE DEF S
<1>5. S = Nat
  BY <1>1, <1>2, <1>3, <1>4, FromBehind
<1> QED BY <1>5 DEF S

-----------------------------------------------------------------------------
(***************************************************************************)
(* The lists of the metafile, piece by piece: F[k] holds the first k       *)
(* pieces of G.                                                            *)
(***************************************************************************)
Grows(G, F) == F[0] = <<>> /\ \A k \in 1 .. Len(G) : F[k] = F[k - 1] \o G[k]

Flat(G, F, T) ==
    Grows(G, F) /\ FlattenSeq(G) = F[Len(G)] /\ \A k \in 0 .. Len(G) : F[k] \in Seq(T)

LEMMA FlatGrows ==
    ASSUME NEW T, NEW G \in Seq(Seq(T))
    PROVE  \E F : Grows(G, F) /\ FlattenSeq(G) = F[Len(G)] /\ \A k \in 0 .. Len(G) : F[k] \in Seq(T)
<1>1. PICK f : Joins(G, f)
  BY JoinsExists
<1>2. Len(G) \in Nat /\ \A k \in 1 .. Len(G) : G[k] \in Seq(T)
  BY ElementOfSeq
<1>3. PICK F : F = [k \in 0 .. Len(G) |-> IF k = 0 THEN <<>> ELSE f[k]]
  OBVIOUS
<1>4. F[0] = <<>>
  BY <1>2, <1>3
<1>5. ASSUME NEW k \in 1 .. Len(G) PROVE F[k] = F[k - 1] \o G[k]
  <2>1. f[k] = IF k = 1 THEN G[k] ELSE f[k - 1] \o G[k]
    BY <1>1 DEF Joins
  <2>2. k \in 0 .. Len(G) /\ k - 1 \in 0 .. Len(G) /\ k # 0 /\ (k = 1 => k - 1 = 0) /\ (k # 1 => k - 1 # 0)
    BY <1>2
  <2>3. F[k] = f[k] /\ F[k - 1] = IF k = 1 THEN <<>> ELSE f[k - 1]
    BY <1>3, <2>2
  <2>4. <<>> \o G[k] = G[k]
    <3>1. PICK x : x = G[k]
      OBVIOUS
    <3>2. x \in Seq(T)
      BY <1>2, <3>1
    <3>3. <<>> \o x = x
      BY ONLY <3>2
    <3> QED BY <3>1, <3>3
  <2> QED BY <2>1, <2>3, <2>4
<1>6. FlattenSeq(G) = F[Len(G)]
  <2>1. FlattenSeq(G) = IF Len(G) = 0 THEN <<>> ELSE f[Len(G)]
    BY <1>1, FlattenIs
  <2>2. Len(G) \in 0 .. Len(G)
    BY <1>2
  <2> QED BY <1>3, <2>1, <2>2
<1>7. \A k \in 0 .. Len(G) : F[k] \in Seq(T)
  <2>1. F[0] \in Seq(T)
    BY <1>4
  <2>2. ASSUME NEW k \in 1 .. Len(G), F[k - 1] \in Seq(T) PROVE F[k] \in Seq(T)
    <3>1. PICK a, b : a = F[k - 1] /\ b = G[k]
      OBVIOUS
    <3>2. a \in Seq(T) /\ b \in Seq(T)
      BY <1>2, <2>2, <3>1
    <3>3. a \o b \in Seq(T)
      BY ONLY <3>2
    <3> QED BY <1>5, <3>1, <3>3
  <2>3. \A k \in 1 .. Len(G) : F[k - 1] \in Seq(T) => F[k] \in Seq(T)
    BY <2>2
  <2> QED BY ONLY <1>2, <2>1, <2>3, StepsKeep
<1> QED BY <1>4, <1>5, <1>6, <1>7 DEF Grows

LEMMA FlatHas ==
    ASSUME NEW T, NEW G \in Seq(Seq(T)), NEW F, Flat(G, F, T)
    PROVE  \A k \in 1 .. Len(G) : /\ Has(FlattenSeq(G), Len(F[k - 1]), G[k])
                                  /\ Len(F[k]) = Len(F[k - 1]) + Len(G[k])
<1> USE DEF Flat
<1>1. Len(G) \in Nat /\ \A k \in 1 .. Len(G) : G[k] \in Seq(T)
  BY ElementOfSeq
<1>2. ASSUME NEW k \in 1 .. Len(G)
      PROVE  /\ F[k - 1] \in Seq(T) /\ F[k] \in Seq(T) /\ Len(F[k]) = Len(F[k - 1]) + Len(G[k])
             /\ Has(F[k], 0, F[k - 1]) /\ Has(F[k], Len(F[k - 1]), G[k])
  <2>1. PICK a, b : a = F[k - 1] /\ b = G[k]
    OBVIOUS
  <2>2. k - 1 \in 0 .. Len(G) /\ k \in 0 .. Len(G)
    BY <1>1
  <2>3. a \in Seq(T) /\ b \in Seq(T) /\ F[k] = a \o b /\ F[k] \in Seq(T)
    BY <1>1, <2>1, <2>2 DEF Grows
  <2>4. Len(a \o b) = Len(a) + Len(b) /\ Has(a \o b, 0, a) /\ Has(a \o b, Len(a), b)
    BY ONLY <2>3, HasBoth
  <2> QED BY <2>1, <2>3, <2>4
<1> DEFINE S == {j \in Nat : j <= Len(G) => \A k \in 1 .. j : Has(F[j], Len(F[k - 1]), G[k])}
<1>3. 0 \in S
  OBVIOUS
<1>4. ASSUME NEW j \in S PROVE j + 1 \in S
  <2>1. ASSUME j + 1 <= Len(G), NEW k \in 1 .. j + 1 PROVE Has(F[j + 1], Len(F[k - 1]), G[k])
    <3>1. j + 1 \in 1 .. Len(G) /\ (j + 1) - 1 = j /\ k \in 1 .. Len(G) /\ j <= Len(G)
      BY <1>1, <2>1
    <3>2. CASE k = j + 1
      BY <1>2, <3>1, <3>2
    <3>3. CASE k # j + 1
      <4>1. k \in 1 .. j
        BY <3>3
      <4>2. Has(F[j], Len(F[k - 1]), G[k])
        BY <3>1, <4>1
      <4>3. /\ F[j + 1] \in Seq(T) /\ F[j] \in Seq(T) /\ Has(F[j + 1], 0, F[j]) /\ G[k] \in Seq(T)
            /\ F[k - 1] \in Seq(T)
        BY <1>1, <1>2, <3>1
      <4>4. Has(F[j + 1], 0 + Len(F[k - 1]), G[k])
        BY ONLY <4>2, <4>3, HasInside
      <4>5. 0 + Len(F[k - 1]) = Len(F[k - 1])
        <5>1. PICK a : a = F[k - 1]
          OBVIOUS
        <5>2. a \in Seq(T)
          BY <4>3, <5>1
        <5>3. 0 + Len(a) = Len(a)
          BY ONLY <5>2
        <5> QED BY <5>1, <5>3
      <4> QED BY <4>4, <4>5
    <3> QED BY <3>2, <3>3
  <2> QED BY <2>1
<1>5. S \in SUBSET Nat
  OBVIOUS
<1> HIDE DEF S
<1>6. S = Nat
  BY <1>3, <1>4, <1>5, NatFromBefore
<1>7. \A k \in 1 .. Len(G) : Has(F[Len(G)], Len(F[k - 1]), G[k])
  <2>1. Len(G) <= Len(G)
    BY <1>1
  <2> QED BY <1>1, <1>6, <2>1 DEF S
<1> QED BY <1>2, <1>7

\* All of it.
Built(G, F, T) ==
    /\ Grows(G, F) /\ FlattenSeq(G) = F[Len(G)]
    /\ \A k \in 0 .. Len(G) : F[k] \in Seq(T)
    /\ \A k \in 1 .. Len(G) : /\ Has(FlattenSeq(G), Len(F[k - 1]), G[k])
                              /\ Len(F[k]) = Len(F[k - 1]) + Len(G[k])

LEMMA FlatBuilt == ASSUME NEW T, NEW G \in Seq(Seq(T)) PROVE \E F : Built(G, F, T)
<1>1. PICK F : Flat(G, F, T)
  BY FlatGrows DEF Flat
<1>2. \A k \in 1 .. Len(G) : /\ Has(FlattenSeq(G), Len(F[k - 1]), G[k])
                            /\ Len(F[k]) = Len(F[k - 1]) + Len(G[k])
  BY <1>1, FlatHas
<1> QED BY <1>1, <1>2 DEF Built, Flat

\* What Tiers gives from any place on.
AnyTiers == [urls : Seq(Seq(Read)), code : {0, -1}]

LEMMA TierUrlsAre ==
    ASSUME content \in Seq(Symbols), NEW c \in Nat, c < filesize
    PROVE  TierUrls(c) \in Seq(Seq(Read))
<1>1. filesize = Hash!filesize /\ Hash!filesize \in Nat /\ c + 1 \in Nat /\ c + 1 <= Hash!filesize
  <2>1. Hash!filesize \in Nat
    BY SymbolAt
  <2> QED BY <2>1 DEF filesize
<1>2. PICK t : t = TextAt(c + 1)
  OBVIOUS
<1>3. t \in Seq(Read)
  BY <1>1, <1>2, TextIn
<1>4. <<t>> \in Seq(Seq(Read)) /\ <<>> \in Seq(Seq(Read))
  BY ONLY <1>3
<1> QED BY <1>2, <1>4 DEF TierUrls, TierUrl

LEMMA TiersStepIs ==
    ASSUME content \in Seq(Symbols), NEW c \in Nat, NEW f,
           c < filesize => f[TierNext(c)] \in AnyTiers
    PROVE  /\ TiersStep(f, c) \in AnyTiers
           /\ At(c) = "e" => TiersStep(f, c).urls = <<>>
           /\ At(c) # "e" /\ At(DigitsEnd(TierUrl(c))) = ":" /\ c < filesize /\ TierNext(c) <= filesize =>
                TiersStep(f, c).urls = TierUrls(c) \o f[TierNext(c)].urls
<1>1. filesize \in Nat
  BY SymbolAt DEF filesize
<1>2. <<>> \in Seq(Seq(Read))
  OBVIOUS
<1>3. CASE At(c) = "e"
  <2>1. TiersStep(f, c) = [urls |-> <<>>, code |-> 0]
    BY <1>3 DEF TiersStep
  <2> QED BY <1>2, <1>3, <2>1 DEF AnyTiers
<1>4. CASE At(c) # "e" /\ (c >= filesize \/ At(DigitsEnd(TierUrl(c))) # ":")
  <2>1. TiersStep(f, c) = [urls |-> <<>>, code |-> -1]
    BY <1>4 DEF TiersStep
  <2>2. ~(At(DigitsEnd(TierUrl(c))) = ":" /\ c < filesize)
    BY <1>1, <1>4
  <2> QED BY <1>2, <1>4, <2>1, <2>2 DEF AnyTiers
<1>5. CASE At(c) # "e" /\ c < filesize /\ At(DigitsEnd(TierUrl(c))) = ":"
  <2>0. ~(c >= filesize)
    BY <1>1, <1>5
  <2>1. TierUrls(c) \in Seq(Seq(Read)) /\ TierNext(c) \in Nat
    BY <1>5, TierUrlsAre, TierGoesOn
  <2>2. CASE TierNext(c) > filesize
    <3>1. TiersStep(f, c) = [urls |-> TierUrls(c), code |-> -1]
      BY <1>5, <2>0, <2>2 DEF TiersStep
    <3>2. ~(TierNext(c) <= filesize)
      BY <1>1, <2>1, <2>2
    <3> QED BY <1>5, <2>1, <3>1, <3>2 DEF AnyTiers
  <2>3. CASE ~(TierNext(c) > filesize)
    <3>1. PICK r, u : r = f[TierNext(c)] /\ u = TierUrls(c)
      OBVIOUS
    <3>2. TiersStep(f, c) = [r EXCEPT !.urls = u \o @]
      BY <1>5, <2>0, <2>3, <3>1 DEF TiersStep
    <3>3. r \in AnyTiers /\ u \in Seq(Seq(Read))
      BY <1>5, <2>1, <3>1
    <3>4. r = [urls |-> r.urls, code |-> r.code] /\ r.urls \in Seq(Seq(Read)) /\ r.code \in {0, -1}
      BY ONLY <3>3 DEF AnyTiers
    <3>5. PICK x : x = r.urls
      OBVIOUS
    <3>6. u \o x \in Seq(Seq(Read))
      BY ONLY <3>3, <3>4, <3>5
    <3>7. [r EXCEPT !.urls = u \o @] = [urls |-> u \o x, code |-> r.code]
      <4>1. PICK w, y : w = u \o x /\ y = r.code
        OBVIOUS
      <4>2. u \o r.urls = w
        BY ONLY <3>5, <4>1
      <4>3. r = [urls |-> x, code |-> y]
        BY ONLY <3>4, <3>5, <4>1
      <4>4. [r EXCEPT !.urls = w] = [urls |-> w, code |-> y]
        BY ONLY <4>3
      <4>5. [r EXCEPT !.urls = u \o @] = [r EXCEPT !.urls = w]
        BY ONLY <4>2
      <4> QED BY ONLY <4>1, <4>4, <4>5
    <3>8. [urls |-> u \o x, code |-> r.code] \in AnyTiers
      BY ONLY <3>4, <3>6 DEF AnyTiers
    <3>9. TiersStep(f, c).urls = u \o x
      BY ONLY <3>2, <3>7
    <3> QED BY <1>5, <3>1, <3>2, <3>5, <3>7, <3>8, <3>9
  <2> QED BY <2>2, <2>3
<1> QED BY <1>1, <1>3, <1>4, <1>5

LEMMA TiersAreAny == ASSUME content \in Seq(Symbols) PROVE \A c \in Nat : Tiers[c] \in AnyTiers
<1> DEFINE S == {c \in Nat : Tiers[c] \in AnyTiers}
<1>1. filesize \in Nat
  BY SymbolAt DEF filesize
<1>2. ASSUME NEW c \in Nat, c < filesize => Tiers[TierNext(c)] \in AnyTiers PROVE Tiers[c] \in AnyTiers
  <2>1. PICK f : f = Tiers
    OBVIOUS
  <2>2. Tiers[c] = TiersStep(f, c)
    BY <2>1, TiersAre
  <2>3. c < filesize => f[TierNext(c)] \in AnyTiers
    BY <1>2, <2>1
  <2>4. TiersStep(f, c) \in AnyTiers
    BY <2>3, TiersStepIs
  <2> QED BY ONLY <2>2, <2>4, Zenon
<1>3. ASSUME NEW c \in Nat, c >= filesize PROVE c \in S
  BY <1>1, <1>2, <1>3
<1>4. ASSUME NEW c \in Nat, \A d \in Nat : d > c => d \in S PROVE c \in S
  <2>1. c < filesize => Tiers[TierNext(c)] \in AnyTiers
    BY <1>4, TierGoesOn
  <2> QED BY <1>2, <2>1
<1>5. S \in SUBSET Nat
  OBVIOUS
<1> HIDE DEF S
<1>6. S = Nat
  BY <1>1, <1>3, <1>4, <1>5, FromBehind
<1> QED BY <1>6 DEF S

LEMMA TiersGoOn ==
    ASSUME content \in Seq(Symbols), NEW c \in Nat
    PROVE  /\ At(c) = "e" => Tiers[c].urls = <<>>
           /\ At(c) # "e" /\ At(DigitsEnd(TierUrl(c))) = ":" /\ c < filesize /\ TierNext(c) <= filesize =>
                Tiers[c].urls = TierUrls(c) \o Tiers[TierNext(c)].urls
           /\ Tiers[c].urls \in Seq(Seq(Read))
<1>1. PICK f : f = Tiers
  OBVIOUS
<1>2. PICK t : t = TiersStep(f, c)
  OBVIOUS
<1>3. Tiers[c] = t
  BY <1>1, <1>2, TiersAre
<1>4. c < filesize => f[TierNext(c)] \in AnyTiers
  BY <1>1, TierGoesOn, TiersAreAny
<1>5. /\ t \in AnyTiers
      /\ At(c) = "e" => t.urls = <<>>
      /\ At(c) # "e" /\ At(DigitsEnd(TierUrl(c))) = ":" /\ c < filesize /\ TierNext(c) <= filesize =>
                t.urls = TierUrls(c) \o f[TierNext(c)].urls
  BY <1>2, <1>4, TiersStepIs
<1>6. t.urls \in Seq(Seq(Read))
  BY ONLY <1>5 DEF AnyTiers
<1> QED BY ONLY <1>1, <1>3, <1>5, <1>6, Zenon

-----------------------------------------------------------------------------
(***************************************************************************)
(* What is read from a metafile: a text, a tier, the tiers.                *)
(***************************************************************************)
LEMMA TextIsTaken ==
    ASSUME content \in Seq(Symbols), NEW s \in SomeTexts, NEW p, Has(content, p, Text(s))
    PROVE  /\ p \in Nat /\ At(DigitsEnd(p)) = ":" /\ At(DigitsEnd(p) + 1) = s[1]
           /\ TextAt(p) = s /\ TextEnd(p) = p + Len(Text(s)) /\ TextEnd(p) <= Len(content)
           /\ Text(s) \in Seq(Symbols)
<1>1. PICK L, n : L = Len(Decimal(Len(s))) /\ n = Len(s)
  OBVIOUS
<1>2. s \in Seq(Symbols) /\ n \in Nat /\ n >= 1 /\ n \in Lengths /\ L \in Nat /\ Len(content) \in Nat
  <2>1. s \in Seq(Symbols) /\ n \in Lengths
    BY <1>1 DEF SomeTexts
  <2>2. n \in Nat /\ n >= 1
    BY <2>1, DecimalIs
  <2>3. L \in Nat /\ L >= 1
    BY <1>1, <2>1, DecimalIs
  <2> QED BY <2>1, <2>2, <2>3
<1>3. /\ p \in Nat /\ Hash!SkipWhile(Digits, p) = p + L /\ Hash!At(p + L) = ":"
      /\ Hash!Number(p, p + L) = n /\ p + Len(Text(s)) = p + L + 1 + n
      /\ Has(content, p + L + 1, s)
  BY <1>1, TextIsRead
<1>4. p + L + 1 + n <= Len(content) /\ \A k \in 1 .. n : content[p + L + 1 + k] = s[k]
  BY <1>1, <1>3 DEF Has
<1>5. \A k \in 1 .. n : At(p + L + 1 + k - 1) = s[k]
  <2>1. ASSUME NEW k \in 1 .. n PROVE At(p + L + 1 + k - 1) = s[k]
    <3>1. p + L + 1 + k - 1 \in Nat /\ p + L + 1 + k - 1 < Len(content) /\ (p + L + 1 + k - 1) + 1 = p + L + 1 + k
      BY <1>2, <1>3, <1>4
    <3>2. Hash!At(p + L + 1 + k - 1) = content[(p + L + 1 + k - 1) + 1]
      BY <3>1, SymbolAt
    <3> QED BY <1>4, <3>1, <3>2 DEF At
  <2> QED BY <2>1
<1>6. At(p + L + 1) = s[1]
  <2>1. 1 \in 1 .. n /\ p + L + 1 + 1 - 1 = p + L + 1
    BY <1>2, <1>3
  <2> QED BY <1>5, <2>1
<1>7. TextAt(p) = s
  <2>1. TextAt(p) = [k \in 1 .. n |-> At(p + L + 1 + k - 1)]
    BY <1>3 DEF TextAt, DigitsEnd, Number, CharsFrom
  <2>2. s = [k \in 1 .. n |-> s[k]]
    BY ONLY <1>1, <1>2
  <2> QED BY <1>5, <2>1, <2>2
<1>8. Text(s) \in Seq(Symbols)
  <2>1. Digits \cup {":"} \subseteq Symbols
    BY SymbolsAre DEF Characters, Marks
  <2> QED BY <1>1, <1>2, <2>1, TextIs
<1>9. TextEnd(p) = p + L + 1 + n /\ DigitsEnd(p) = p + L
  BY <1>3 DEF TextEnd, DigitsEnd, Number
<1> QED BY <1>3, <1>4, <1>6, <1>7, <1>8, <1>9 DEF At

LEMMA EachOfOne == ASSUME NEW u \in SomeTexts PROVE Each(<<u>>, Text) = Text(u)
<1>1. PICK t : t = Text(u)
  OBVIOUS
<1>2. t \in Seq(Symbols)
  <2>1. Digits \cup {":"} \subseteq Symbols
    BY SymbolsAre DEF Characters, Marks
  <2> QED BY <1>1, <2>1, TextIs DEF SomeTexts
<1>3. PICK r : r = [k \in DOMAIN <<u>> |-> Text(<<u>>[k])]
  OBVIOUS
<1>4. r = Append(<<>>, t)
  <2>1. r = <<t>>
    BY <1>1, <1>3
  <2> QED BY <2>1
<1>5. FlattenSeq(Append(<<>>, t)) = FlattenSeq(<<>>) \o t
  <2>1. <<>> \in Seq(Seq(Symbols))
    OBVIOUS
  <2> QED BY <1>2, <2>1, FlattenAppend
<1>6. <<>> \o t = t
  BY ONLY <1>2
<1> QED BY <1>1, <1>3, <1>4, <1>5, <1>6, FlattenEmpty DEF Each

LEMMA TierIsRead ==
    ASSUME content \in Seq(Symbols), NEW u \in SomeTexts, NEW c, Has(content, c, Tier(<<u>>))
    PROVE  /\ c \in Nat /\ c < Len(content) /\ At(c) = "l"
           /\ At(DigitsEnd(TierUrl(c))) = ":"
           /\ TierUrls(c) = IF u[1] = "http" THEN <<u>> ELSE <<>>
           /\ TierNext(c) = c + Len(Tier(<<u>>)) /\ TierNext(c) <= Len(content)
<1>1. PICK t, l, e : t = Text(u) /\ l = <<"l">> /\ e = <<"e">>
  OBVIOUS
<1>2. t \in Seq(Symbols) /\ l \in Seq(Symbols) /\ e \in Seq(Symbols) /\ Len(l) = 1 /\ Len(e) = 1
  <2>1. Digits \cup {":", "l", "e"} \subseteq Symbols
    BY SymbolsAre DEF Characters, Marks
  <2>2. t \in Seq(Symbols)
    BY <1>1, <2>1, TextIs DEF SomeTexts
  <2> QED BY <1>1, <2>1, <2>2
<1>3. Tier(<<u>>) = l \o t \o e
  BY <1>1, EachOfOne DEF Tier
<1>4. PICK x : x = l \o t
  OBVIOUS
<1>5. x \in Seq(Symbols) /\ Len(x) = Len(l) + Len(t)
  BY <1>2, <1>4, HasBoth
<1>6. Has(content, c, x) /\ Len(x \o e) = Len(x) + Len(e)
  BY <1>2, <1>3, <1>4, <1>5, HasBoth, HasBothInside
<1>7. Has(content, c, l) /\ Has(content, c + Len(l), t)
  BY <1>2, <1>4, <1>6, HasBothInside
<1>8. c \in Nat /\ c < Len(content) /\ Hash!At(c) = "l"
  BY <1>1, <1>7, OneIsAt
<1>9. Len(t) \in Nat /\ Len(Tier(<<u>>)) = 1 + Len(t) + 1 /\ Len(content) \in Nat
  <2>1. Len(t) \in Nat
    BY ONLY <1>2
  <2> QED BY <1>2, <1>3, <1>4, <1>5, <1>6, <2>1
<1>10. /\ At(DigitsEnd(c + 1)) = ":" /\ At(DigitsEnd(c + 1) + 1) = u[1]
       /\ TextAt(c + 1) = u /\ TextEnd(c + 1) = c + 1 + Len(t)
  <2>1. Has(content, c + 1, Text(u))
    BY <1>1, <1>2, <1>7
  <2> QED BY <1>1, <2>1, TextIsTaken
<1>11. TierNext(c) = c + Len(Tier(<<u>>)) /\ c + Len(Tier(<<u>>)) <= Len(content)
  <2>1. c + Len(Tier(<<u>>)) <= Len(content)
    BY DEF Has
  <2>2. TierNext(c) = c + 1 + Len(t) + 1
    BY <1>10 DEF TierNext, TierUrl
  <2> QED BY ONLY <1>8, <1>9, <2>1, <2>2
<1> QED BY <1>8, <1>10, <1>11 DEF TierUrl, TierUrls, At

LEMMA MadeSeq ==
    ASSUME NEW T, NEW n \in Nat, NEW r, r = [k \in 1 .. n |-> r[k]], \A k \in 1 .. n : r[k] \in T
    PROVE  r \in Seq(T) /\ Len(r) = n
OBVIOUS

LEMMA ThreeParts ==
    ASSUME NEW T, NEW a \in Seq(T), NEW b \in Seq(T), NEW x \in Seq(T)
    PROVE  a \o (b \o x) = (a \o b) \o x
OBVIOUS

LEMMA OneElement ==
    ASSUME NEW T, NEW t \in Seq(T), Len(t) = 1
    PROVE  t = <<t[1]>> /\ t[1] \in T
OBVIOUS

LEMMA TiersAreTaken ==
    ASSUME content \in Seq(Symbols), loaded, NEW s \in Seq(Seq(SomeTexts)),
           \A k \in 1 .. Len(s) : Len(s[k]) = 1,
           NEW p, Has(content, p, Each(s, Tier)), Has(content, p + Len(Each(s, Tier)), <<"e">>)
    PROVE  Tiers[p].urls =
               FlattenSeq([k \in DOMAIN s |-> IF s[k][1][1] = "http" THEN s[k] ELSE <<>>])
<1>1. PICK n, G, A : /\ n = Len(s) /\ G = [k \in DOMAIN s |-> Tier(s[k])]
                     /\ A = [k \in DOMAIN s |-> IF s[k][1][1] = "http" THEN s[k] ELSE <<>>]
  OBVIOUS
<1>2. /\ n \in Nat /\ DOMAIN s = 1 .. n /\ p \in Nat /\ filesize = Len(content) + 1 /\ Len(content) \in Nat
  BY <1>1, SymbolAt DEF filesize, Has
<1>3. ASSUME NEW k \in 1 .. n
      PROVE  /\ s[k] = <<s[k][1]>> /\ s[k][1] \in SomeTexts
             /\ Tier(s[k]) \in Seq(Symbols) /\ A[k] \in Seq(Seq(Read))
             /\ A[k] = IF s[k][1][1] = "http" THEN <<s[k][1]>> ELSE <<>>
  <2>1. PICK t : t = s[k]
    OBVIOUS
  <2>2. t \in Seq(SomeTexts) /\ Len(t) = 1
    BY <1>1, <2>1
  <2>3. t = <<t[1]>> /\ t[1] \in SomeTexts
    BY ONLY <2>2, OneElement
  <2>4. Tier(t) \in Seq(Symbols)
    <3>1. SomeTexts = TextsIn(Symbols)
      BY DEF SomeTexts, TextsIn
    <3> QED BY <2>2, <3>1, TierIn, SymbolsAre
  <2>5. t \in Seq(Seq(Read)) /\ <<>> \in Seq(Seq(Read))
    <3>1. SomeTexts \subseteq Seq(Read)
      BY DEF SomeTexts, Read
    <3> QED BY ONLY <2>2, <3>1
  <2>6. A[k] = IF t[1][1] = "http" THEN t ELSE <<>>
    BY <1>1, <1>2, <2>1
  <2> QED BY <2>1, <2>3, <2>4, <2>5, <2>6
<1>4. /\ G \in Seq(Seq(Symbols)) /\ Len(G) = n /\ Each(s, Tier) = FlattenSeq(G)
      /\ A \in Seq(Seq(Seq(Read))) /\ Len(A) = n
  <2>1. G = [k \in 1 .. n |-> G[k]]
    BY <1>1, <1>2
  <2>2. \A k \in 1 .. n : G[k] \in Seq(Symbols)
    BY <1>1, <1>2, <1>3
  <2>3. G \in Seq(Seq(Symbols)) /\ Len(G) = n
    BY ONLY <1>2, <2>1, <2>2, MadeSeq
  <2>4. A = [k \in 1 .. n |-> A[k]]
    BY <1>1, <1>2
  <2>5. \A k \in 1 .. n : A[k] \in Seq(Seq(Read))
    BY <1>3
  <2>6. A \in Seq(Seq(Seq(Read))) /\ Len(A) = n
    BY ONLY <1>2, <2>4, <2>5, MadeSeq
  <2> QED BY <1>1, <2>3, <2>6 DEF Each
<1>0. PICK F : Built(G, F, Symbols)
  BY <1>4, FlatBuilt
<1>5. /\ Grows(G, F) /\ FlattenSeq(G) = F[n] /\ \A k \in 0 .. n : F[k] \in Seq(Symbols)
  BY <1>0, <1>4 DEF Built
<1>6. PICK H : /\ Grows(A, H) /\ FlattenSeq(A) = H[n] /\ \A k \in 0 .. n : H[k] \in Seq(Seq(Read))
  BY <1>4, FlatGrows
<1>7. \A k \in 1 .. n : Has(FlattenSeq(G), Len(F[k - 1]), G[k]) /\ Len(F[k]) = Len(F[k - 1]) + Len(G[k])
  BY <1>0, <1>4 DEF Built
<1>8. \A k \in 0 .. n : Len(F[k]) \in Nat /\ p + Len(F[k]) \in Nat
  BY <1>2, <1>5
<1>9. PICK r : r = [k \in 0 .. n |-> H[k] \o Tiers[p + Len(F[k])].urls]
  OBVIOUS
<1>10. r[0] = Tiers[p].urls
  <2>1. Len(F[0]) = 0 /\ p + 0 = p /\ H[0] = <<>>
    BY <1>2, <1>5, <1>6 DEF Grows
  <2>2. PICK x : x = Tiers[p].urls
    OBVIOUS
  <2>3. x \in Seq(Seq(Read))
    BY <1>2, <2>2, TiersGoOn
  <2>4. <<>> \o x = x
    BY ONLY <2>3
  <2>5. 0 \in 0 .. n
    BY <1>2
  <2> QED BY <1>9, <2>1, <2>2, <2>4, <2>5
<1>11. ASSUME NEW k \in 1 .. n PROVE r[k] = r[k - 1]
  <2>1. k - 1 \in 0 .. n /\ k \in 0 .. n
    BY <1>2
  <2>2. PICK c, d, u : c = p + Len(F[k - 1]) /\ d = p + Len(F[k]) /\ u = s[k][1]
    OBVIOUS
  <2>3. G[k] = Tier(<<u>>) /\ u \in SomeTexts /\ A[k] = IF u[1] = "http" THEN <<u>> ELSE <<>>
    BY <1>1, <1>2, <1>3, <2>2
  <2>4. Has(content, c, Tier(<<u>>)) /\ d = c + Len(Tier(<<u>>)) /\ c \in Nat /\ d \in Nat
    <3>1. PICK g : g = G[k]
      OBVIOUS
    <3>2. PICK a : a = FlattenSeq(G)
      OBVIOUS
    <3>3. /\ Has(content, p, a) /\ Has(a, Len(F[k - 1]), g) /\ g \in Seq(Symbols) /\ a \in Seq(Symbols)
      <4>1. n \in 0 .. n
        BY <1>2
      <4> QED BY <1>3, <1>4, <1>5, <1>7, <3>1, <3>2, <4>1, <1>1, <1>2
    <3>4. Has(content, p + Len(F[k - 1]), g)
      BY <3>3, HasInside
    <3>5. Len(F[k]) = Len(F[k - 1]) + Len(g) /\ Len(g) \in Nat
      <4>1. Len(F[k]) = Len(F[k - 1]) + Len(G[k])
        BY <1>7
      <4>2. Len(g) \in Nat
        BY ONLY <3>3
      <4> QED BY <3>1, <4>1, <4>2
    <3>6. d = c + Len(g)
      BY <1>2, <1>8, <2>1, <2>2, <3>5
    <3> QED BY <1>8, <2>1, <2>2, <2>3, <3>1, <3>4, <3>6
  <2>5. Tiers[c].urls = A[k] \o Tiers[d].urls
    <3>1. /\ c < Len(content) /\ At(c) # "e" /\ At(DigitsEnd(TierUrl(c))) = ":"
          /\ TierUrls(c) = A[k] /\ TierNext(c) = d /\ d <= Len(content)
      BY <2>3, <2>4, TierIsRead
    <3>2. c < filesize /\ d <= filesize
      BY <1>2, <2>4, <3>1
    <3> QED BY <2>4, <3>1, <3>2, TiersGoOn
  <2>6. PICK a, b, x : a = H[k - 1] /\ b = A[k] /\ x = Tiers[d].urls
    OBVIOUS
  <2>7. a \in Seq(Seq(Read)) /\ b \in Seq(Seq(Read)) /\ x \in Seq(Seq(Read))
    <3>1. a \in Seq(Seq(Read)) /\ b \in Seq(Seq(Read))
      BY <1>3, <1>6, <2>1, <2>6
    <3>2. x \in Seq(Seq(Read))
      BY <2>4, <2>6, TiersGoOn
    <3> QED BY <3>1, <3>2
  <2>8. a \o (b \o x) = (a \o b) \o x
    <3>1. PICK T : T = Seq(Read)
      OBVIOUS
    <3>2. a \in Seq(T) /\ b \in Seq(T) /\ x \in Seq(T)
      BY ONLY <2>7, <3>1, Zenon
    <3> QED BY ONLY <3>2, ThreeParts
  <2>9. H[k] = a \o b
    BY <1>4, <1>6, <2>6 DEF Grows
  <2>10. r[k - 1] = a \o (b \o x) /\ r[k] = (a \o b) \o x
    BY <1>9, <2>1, <2>2, <2>5, <2>6, <2>9
  <2> QED BY <2>8, <2>10
<1>12. r[n] = r[0]
  <2>1. PICK v, T : v = r[0] /\ T = {v}
    OBVIOUS
  <2>2. r[0] \in T /\ \A k \in 1 .. n : r[k - 1] \in T => r[k] \in T
    BY <1>11, <2>1
  <2>3. \A k \in 0 .. n : r[k] \in T
    BY ONLY <1>2, <2>2, StepsKeep
  <2>4. r[n] \in T
    BY <1>2, <2>3
  <2> QED BY <2>1, <2>4
<1>13. r[n] = H[n]
  <2>1. Hash!At(p + Len(F[n])) = "e"
    BY <1>4, <1>5, OneIsAt
  <2>2. Tiers[p + Len(F[n])].urls = <<>>
    <3>1. n \in 0 .. n
      BY <1>2
    <3> QED BY <1>8, <2>1, <3>1, TiersGoOn DEF At
  <2>3. PICK h : h = H[n]
    OBVIOUS
  <2>4. n \in 0 .. n
    BY <1>2
  <2>5. h \in Seq(Seq(Read))
    BY <1>6, <2>3, <2>4
  <2>6. h \o <<>> = h
    BY ONLY <2>5
  <2> QED BY <1>9, <2>2, <2>3, <2>4, <2>6
<1> QED BY <1>1, <1>6, <1>10, <1>12, <1>13

LEMMA HasFour ==
    ASSUME NEW T, NEW t \in Seq(T), NEW n,
           NEW a \in Seq(T), NEW b \in Seq(T), NEW c \in Seq(T), NEW d \in Seq(T),
           Has(t, n, a \o b \o c \o d)
    PROVE  /\ Has(t, n, a) /\ Has(t, n + Len(a), b)
           /\ Has(t, n + Len(a) + Len(b), c) /\ Has(t, n + Len(a) + Len(b) + Len(c), d)
           /\ Len(a \o b \o c \o d) = Len(a) + Len(b) + Len(c) + Len(d)
           /\ a \o b \o c \o d \in Seq(T)
<1>1. PICK x, y : x = a \o b /\ y = x \o c
  OBVIOUS
<1>2. x \in Seq(T) /\ Len(x) = Len(a) + Len(b)
  BY <1>1, HasBoth
<1>3. y \in Seq(T) /\ Len(y) = Len(x) + Len(c)
  BY <1>1, <1>2, HasBoth
<1>4. y \o d \in Seq(T) /\ Len(y \o d) = Len(y) + Len(d) /\ Has(t, n, y \o d)
  BY <1>1, <1>3, HasBoth
<1>5. Has(t, n, y) /\ Has(t, n + Len(y), d)
  BY <1>3, <1>4, HasBothInside
<1>6. Has(t, n, x) /\ Has(t, n + Len(x), c)
  BY <1>1, <1>2, <1>5, HasBothInside
<1>7. Has(t, n, a) /\ Has(t, n + Len(a), b)
  BY <1>1, <1>6, HasBothInside
<1>8. n \in Nat /\ Len(a) \in Nat /\ Len(b) \in Nat /\ Len(c) \in Nat /\ Len(d) \in Nat
  <2>1. Len(a) \in Nat /\ Len(b) \in Nat /\ Len(c) \in Nat /\ Len(d) \in Nat
    OBVIOUS
  <2> QED BY <1>5, <2>1 DEF Has
<1>9. n + Len(x) = n + Len(a) + Len(b) /\ n + Len(y) = n + Len(a) + Len(b) + Len(c)
  BY ONLY <1>2, <1>3, <1>8
<1>10. Len(y \o d) = Len(a) + Len(b) + Len(c) + Len(d)
  BY ONLY <1>2, <1>3, <1>4
<1> QED BY <1>1, <1>4, <1>5, <1>6, <1>7, <1>9, <1>10

\* The files of a metafile, its value of info, all of it.
FilesIn(T) == [length : Lengths, path : Seq(TextsIn(T))]

LEMMA FileIn ==
    ASSUME NEW T, Characters \subseteq T, "length" \in T, "path" \in T, NEW f \in FilesIn(T)
    PROVE  File(f) \in Seq(T)
<1>1. PICK a, b, c, e : a = Key("length") /\ b = Int_(f.length) /\ c = Key("path") /\ e = Each(f.path, Text)
  OBVIOUS
<1>2. f.length \in Lengths /\ f.path \in Seq(TextsIn(T)) /\ "length" \in Words /\ "path" \in Words
  BY DEF FilesIn, Words
<1>3. /\ a \in Seq(T) /\ b \in Seq(T) /\ c \in Seq(T) /\ e \in Seq(T)
      /\ <<"d">> \in Seq(T) /\ <<"l">> \in Seq(T) /\ <<"e">> \in Seq(T)
  BY <1>1, <1>2, PartsIn, EachTextIn
<1>4. <<"d">> \o a \o b \o c \o <<"l">> \o e \o <<"e">> \o <<"e">> \in Seq(T)
  BY ONLY <1>3
<1> QED BY <1>1, <1>4 DEF File

LEMMA EachFileIn ==
    ASSUME NEW T, Characters \subseteq T, "length" \in T, "path" \in T, NEW s \in Seq(FilesIn(T))
    PROVE  Each(s, File) \in Seq(T)
<1>1. PICK r : r = [k \in DOMAIN s |-> File(s[k])]
  OBVIOUS
<1>2. \A k \in 1 .. Len(s) : File(s[k]) \in Seq(T)
  BY FileIn
<1>3. r \in Seq(Seq(T))
  <2>1. \A k \in 1 .. Len(s) : r[k] \in Seq(T)
    BY <1>1, <1>2
  <2>2. r = [k \in DOMAIN s |-> r[k]]
    BY <1>1
  <2> QED BY ONLY s \in Seq(FilesIn(T)), <2>1, <2>2, MappedIn
<1> QED BY <1>1, <1>3, FlattenTyped DEF Each

LEMMA InfoIn ==
    ASSUME NEW T, Characters \subseteq T, NEW m, m.length \in Lengths, m.piece_length \in Lengths,
           m.name \in TextsIn(T), m.pieces \in TextsIn(T), m.files \in Seq(FilesIn(T)),
           {"length", "files", "path", "name", "piece length", "pieces"} \subseteq T
    PROVE  Info(m) \in Seq(T)
<1>1. {"length", "files", "path", "name", "piece length", "pieces"} \subseteq Words
  BY DEF Words
<1>2. PICK a, b, c, d, e, f, g :
          /\ a = LengthOrFiles(m) /\ b = Key("name") /\ c = Text(m.name) /\ d = Key("piece length")
          /\ e = Int_(m.piece_length) /\ f = Key("pieces") /\ g = Text(m.pieces)
  OBVIOUS
<1>3. /\ b \in Seq(T) /\ c \in Seq(T) /\ d \in Seq(T) /\ e \in Seq(T) /\ f \in Seq(T) /\ g \in Seq(T)
      /\ <<"d">> \in Seq(T) /\ <<"l">> \in Seq(T) /\ <<"e">> \in Seq(T)
  BY <1>1, <1>2, PartsIn
<1>4. a \in Seq(T)
  <2>1. CASE m.files = <<>>
    <3>1. PICK x, y : x = Key("length") /\ y = Int_(m.length)
      OBVIOUS
    <3>2. x \in Seq(T) /\ y \in Seq(T)
      BY <1>1, <3>1, PartsIn
    <3>3. x \o y \in Seq(T)
      BY ONLY <3>2
    <3> QED BY <1>2, <2>1, <3>1, <3>3 DEF LengthOrFiles
  <2>2. CASE m.files # <<>>
    <3>1. PICK x, y : x = Key("files") /\ y = Each(m.files, File)
      OBVIOUS
    <3>2. x \in Seq(T) /\ y \in Seq(T)
      BY <1>1, <3>1, PartsIn, EachFileIn
    <3>3. x \o <<"l">> \o y \o <<"e">> \in Seq(T)
      BY ONLY <1>3, <3>2
    <3> QED BY <1>2, <2>2, <3>1, <3>3 DEF LengthOrFiles
  <2> QED BY <2>1, <2>2
<1>5. <<"d">> \o a \o b \o c \o d \o e \o f \o g \o <<"e">> \in Seq(T)
  BY ONLY <1>3, <1>4
<1> QED BY <1>2, <1>5 DEF Info, LengthOrFiles

LEMMA FileTextIn ==
    ASSUME NEW m, NEW k \in DOMAIN m.files, NEW x \in ToSet(m.files[k].path)
    PROVE  x \in TextsOf(m)
BY DEF TextsOf

LEMMA FilesAreBare ==
    ASSUME metafile \in AllMetafiles, KeysAreKeys, NEW t \in Keywords
    PROVE  metafile.files \in Seq(FilesIn(Bare(t)))
<1>1. t \in Words
  BY DEF Words, Keywords
<1>2. PICK s : s = metafile.files
  OBVIOUS
<1>3. s \in Seq(TheFiles)
  BY <1>2 DEF AllMetafiles, TheFiles
<1>4. ASSUME NEW k \in 1 .. Len(s) PROVE s[k] \in FilesIn(Bare(t))
  <2>1. PICK f, p : f = s[k] /\ p = f.path
    OBVIOUS
  <2>2. f \in TheFiles
    BY <1>3, <2>1
  <2>3. f = [length |-> f.length, path |-> p] /\ f.length \in Lengths /\ p \in Seq(FileTexts)
    BY <2>1, <2>2 DEF TheFiles
  <2>4. k \in DOMAIN s
    BY <1>3
  <2>5. ASSUME NEW j \in 1 .. Len(p) PROVE p[j] \in TextsIn(Bare(t))
    <3>1. p[j] \in FileTexts /\ p[j] \in ToSet(p)
      BY <2>3 DEF ToSet
    <3>2. p[j] \in TextsOf(metafile)
      <4>1. p[j] \in ToSet(metafile.files[k].path) /\ k \in DOMAIN metafile.files
        BY <1>2, <2>1, <2>4, <3>1
      <4> QED BY ONLY <4>1, FileTextIn
    <3>3. t \notin ToSet(p[j])
      BY <3>2 DEF KeysAreKeys
    <3> QED BY <1>1, <3>1, <3>3, BareIs
  <2>6. p \in Seq(TextsIn(Bare(t)))
    BY ONLY <2>3, <2>5, IsSeqOf
  <2> QED BY <2>1, <2>3, <2>6 DEF FilesIn
<1>5. s \in Seq(FilesIn(Bare(t)))
  BY ONLY <1>3, <1>4, IsSeqOf
<1> QED BY <1>2, <1>5

-----------------------------------------------------------------------------
(***************************************************************************)
(* Where the trackers of a metafile are, and what main reads of them.      *)
(***************************************************************************)
LEMMA BeforeInfoHas ==
    ASSUME NEW m \in AllMetafiles
    PROVE  /\ BeforeTiers(m) \in Seq(Symbols) /\ TiersPart(m) \in Seq(Symbols)
           /\ Has(Content(m), 0, BeforeTiers(m)) /\ Has(Content(m), Len(BeforeTiers(m)), TiersPart(m))
           /\ m.tiers \in Seq(Seq(SomeTexts)) /\ m.announce \in SomeTexts
<1>1. PICK a, b, c, d, t :
          /\ a = BeforeTiers(m) /\ b = TiersPart(m) /\ c = Key("comment") /\ d = Text(m.comment)
          /\ t = Content(m)
  OBVIOUS
<1>2. TextsIn(Symbols) = SomeTexts
  BY DEF TextsIn, SomeTexts
<1>3. m.announce \in SomeTexts /\ m.comment \in SomeTexts /\ m.tiers \in Seq(Seq(SomeTexts))
  <2>1. m.announce \in FileTexts /\ m.comment \in FileTexts /\ m.tiers \in Seq(Seq(FileTexts))
    BY DEF AllMetafiles
  <2> QED BY <2>1, SymbolsAre
<1>4. /\ "announce" \in Symbols /\ "announce-list" \in Symbols /\ "comment" \in Words \cap Symbols
      /\ Characters \subseteq Symbols
  BY SymbolsAre DEF Words
<1>5. a \in Seq(Symbols) /\ b \in Seq(Symbols)
  BY <1>1, <1>2, <1>3, <1>4, BeforeInfoIn
<1>6. c \in Seq(Symbols) /\ d \in Seq(Symbols)
  BY <1>1, <1>2, <1>3, <1>4, PartsIn
<1>7. t \in Seq(Symbols) /\ Has(t, 0, a \o b \o c \o d)
  BY <1>1, ContentHas DEF BeforeInfo
<1>8. Has(t, 0, a) /\ Has(t, 0 + Len(a), b)
  BY <1>5, <1>6, <1>7, HasFour
<1>9. 0 + Len(a) = Len(a)
  BY ONLY <1>5
<1> QED BY <1>1, <1>3, <1>5, <1>8, <1>9

\* What a sequence of others than t has no t of, t' begins with it.
LEMMA BeginsBare ==
    ASSUME NEW t, NEW c, NEW b \in Seq(Bare(t)), Has(c, 0, b)
    PROVE  Len(b) \in Nat /\ \A x \in 1 .. Len(b) : c[x] # t
<1>1. Len(b) \in Nat /\ \A x \in 1 .. Len(b) : b[x] # t
  BY DEF Bare
<1>2. \A x \in 1 .. Len(b) : c[0 + x] = b[x] /\ 0 + x = x
  BY <1>1 DEF Has
<1> QED BY <1>1, <1>2

LEMMA TiersAreFound ==
    ASSUME metafile \in AllMetafiles, KeysAreKeys, loaded, content = Content(metafile),
           OneUrlEach, metafile.tiers # <<>>
    PROVE  Found("announce-list") /\ Tiers[After("announce-list") + 1].urls = AnnouncedUrls
<1>1. PICK s, a, k, e, p, T :
          /\ s = metafile.tiers /\ a = BeforeTiers(metafile) /\ k = Key("announce-list")
          /\ e = Each(s, Tier) /\ p = Len(a) /\ T = Bare("announce-list")
  OBVIOUS
<1>2. "announce-list" \in Words /\ "announce-list" \in Keywords
  BY DEF Words, Keywords
<1>3. a \in Seq(T)
  <2>1. /\ Characters \subseteq T /\ Words \ {"announce-list"} \subseteq T
        /\ metafile.announce \in TextsIn(T)
    BY <1>1, <1>2, BareIs, TextsAreBare
  <2>2. "announce" \in T
    BY <2>1 DEF Words
  <2> QED BY <1>1, <2>1, <2>2, BeforeInfoIn
<1>4. /\ content \in Seq(Symbols) /\ Has(content, 0, a) /\ Has(content, p, TiersPart(metafile))
      /\ s \in Seq(Seq(SomeTexts))
  BY <1>1, BeforeInfoHas, ContentHas
<1>5. k \in Seq(Symbols) /\ Len(k) = 3 /\ e \in Seq(Symbols) /\ <<"l">> \in Seq(Symbols) /\ <<"e">> \in Seq(Symbols)
  <2>1. TextsIn(Symbols) = SomeTexts
    BY DEF TextsIn, SomeTexts
  <2>2. e \in Seq(Symbols)
    BY <1>1, <1>4, <2>1, SymbolsAre, EachTierIn
  <2>3. <<"l">> \in Seq(Symbols) /\ <<"e">> \in Seq(Symbols)
    BY SymbolsAre, PartsIn
  <2> QED BY <1>1, <1>2, <2>2, <2>3, KeyIs
<1>6. PICK l, z : l = <<"l">> /\ z = <<"e">>
  OBVIOUS
<1>7. Len(l) = 1 /\ l \in Seq(Symbols) /\ z \in Seq(Symbols)
  BY <1>5, <1>6
<1>8. Has(content, p, k \o l \o e \o z)
  BY <1>1, <1>4, <1>6 DEF TiersPart
<1>9. Has(content, p, k) /\ Has(content, p + Len(k) + Len(l), e) /\ Has(content, p + Len(k) + Len(l) + Len(e), z)
  <2>1. /\ content \in Seq(Symbols) /\ k \in Seq(Symbols) /\ l \in Seq(Symbols) /\ e \in Seq(Symbols)
        /\ z \in Seq(Symbols)
    BY <1>4, <1>5, <1>7
  <2> QED BY ONLY <1>8, <2>1, HasFour
<1>10. p \in Nat /\ \A x \in 1 .. p : content[x] # "announce-list"
  BY <1>1, <1>3, <1>4, BeginsBare
<1>11. Found("announce-list") /\ After("announce-list") = p + 3
  BY <1>1, <1>2, <1>4, <1>9, <1>10, KeyIsFound
<1>12. PICK q : q = p + 3 + 1
  OBVIOUS
<1>13. p + Len(k) + Len(l) = q
  BY <1>5, <1>7, <1>12
<1>14. Has(content, q, e) /\ Has(content, q + Len(e), <<"e">>)
  BY <1>6, <1>9, <1>13
<1>15. \A j \in 1 .. Len(s) : Len(s[j]) = 1
  <2>1. DOMAIN s = 1 .. Len(s)
    BY <1>4
  <2> QED BY <1>1, <2>1 DEF OneUrlEach
<1>16. Tiers[q].urls = FlattenSeq([j \in DOMAIN s |-> IF s[j][1][1] = "http" THEN s[j] ELSE <<>>])
  BY <1>1, <1>4, <1>14, <1>15, TiersAreTaken
<1>17. AnnouncedUrls = FlattenSeq([j \in DOMAIN s |-> IF s[j][1][1] = "http" THEN s[j] ELSE <<>>])
  BY <1>1 DEF AnnouncedUrls
<1> QED BY <1>11, <1>12, <1>16, <1>17

LEMMA AnnounceIsFound ==
    ASSUME metafile \in AllMetafiles, KeysAreKeys, loaded, content = Content(metafile),
           metafile.tiers = <<>>
    PROVE  /\ find_keyword("announce-list") = NotFound /\ ~Found("announce-list")
           /\ Found("announce") /\ TextAt(After("announce")) = metafile.announce
<1>1. /\ "announce-list" \in Words /\ "announce-list" \in Keywords
      /\ "announce" \in Words /\ "announce" \in Keywords /\ "info" \in Words
  BY DEF Words, Keywords
<1>2. PICK T : T = Bare("announce-list")
  OBVIOUS
<1>3. content \in Seq(T)
  <2>1. PICK a, k, b, e : a = BeforeInfo(metafile) /\ k = Key("info") /\ b = Info(metafile) /\ e = <<"e">>
    OBVIOUS
  <2>2. content = a \o k \o b \o e
    BY <2>1 DEF Content, BeforeInfo, BeforeTiers, TiersPart
  <2>3. /\ Characters \subseteq T /\ Words \ {"announce-list"} \subseteq T
        /\ metafile.announce \in TextsIn(T) /\ metafile.comment \in TextsIn(T)
        /\ metafile.name \in TextsIn(T) /\ metafile.pieces \in TextsIn(T)
        /\ metafile.tiers \in Seq(Seq(TextsIn(T))) /\ metafile.files \in Seq(FilesIn(T))
    BY <1>1, <1>2, BareIs, TextsAreBare, FilesAreBare
  <2>4. /\ "announce" \in T /\ "comment" \in T /\ "info" \in T
        /\ {"length", "files", "path", "name", "piece length", "pieces"} \subseteq T
    BY <2>3 DEF Words
  <2>5. metafile.length \in Lengths /\ metafile.piece_length \in Lengths
    BY DEF AllMetafiles
  <2>6. a \in Seq(T)
    BY <2>1, <2>3, <2>4, BeforeInfoIn
  <2>7. b \in Seq(T)
    BY <2>1, <2>3, <2>4, <2>5, InfoIn
  <2>8. k \in Seq(T) /\ e \in Seq(T)
    BY <1>1, <2>1, <2>3, <2>4, PartsIn
  <2>9. a \o k \o b \o e \in Seq(T)
    BY ONLY <2>6, <2>7, <2>8
  <2> QED BY <2>2, <2>9
<1>4. content \in Seq(Symbols)
  BY ContentHas
<1>5. find_keyword("announce-list") = NotFound /\ ~Found("announce-list")
  <2>1. \A x \in 1 .. Len(content) : content[x] # "announce-list"
    BY <1>2, <1>3 DEF Bare
  <2> QED BY <1>1, <1>4, <2>1, KeyIsMissed
<1>6. PICK d, k, t, u : d = <<"d">> /\ k = Key("announce") /\ t = Text(u) /\ u = metafile.announce
  OBVIOUS
<1>7. /\ d \in Seq(Symbols) /\ Len(d) = 1 /\ k \in Seq(Symbols) /\ Len(k) = 3 /\ t \in Seq(Symbols)
      /\ u \in SomeTexts
  <2>1. u \in SomeTexts /\ TextsIn(Symbols) = SomeTexts
    BY <1>6, BeforeInfoHas DEF TextsIn, SomeTexts
  <2>2. d \in Seq(Symbols) /\ t \in Seq(Symbols)
    BY <1>6, <2>1, SymbolsAre, PartsIn
  <2> QED BY <1>1, <1>6, <2>1, <2>2, KeyIs
<1>8. PICK x : x = d \o k
  OBVIOUS
<1>9. Has(content, 0, x \o t)
  BY <1>6, <1>8, BeforeInfoHas DEF BeforeTiers
<1>10. x \in Seq(Symbols) /\ Len(x) = Len(d) + Len(k)
  BY <1>7, <1>8, HasBoth
<1>11. Has(content, 0, x) /\ Has(content, 0 + Len(x), t)
  BY <1>4, <1>7, <1>9, <1>10, HasBothInside
<1>12. Has(content, 0, d) /\ Has(content, 0 + Len(d), k)
  BY <1>4, <1>7, <1>8, <1>11, HasBothInside
<1>13. Has(content, 1, Key("announce")) /\ Has(content, 4, Text(u))
  <2>1. 0 + Len(d) = 1 /\ 0 + Len(x) = 4
    BY <1>7, <1>10
  <2> QED BY <1>6, <1>11, <1>12, <2>1
<1>14. \A y \in 1 .. 1 : content[y] # "announce"
  <2>1. content[0 + 1] = "d"
    <3>1. d[1] = "d" /\ 1 \in 1 .. 1
      BY <1>6
    <3> QED BY <1>7, <1>12, <3>1 DEF Has
  <2> QED BY <2>1
<1>15. Found("announce") /\ After("announce") = 4
  <2>1. 1 \in Nat /\ 1 + 3 = 4
    OBVIOUS
  <2> QED BY <1>1, <1>4, <1>13, <1>14, <2>1, KeyIsFound
<1>16. TextAt(4) = u
  BY <1>4, <1>7, <1>13, TextIsTaken
<1> QED BY <1>5, <1>6, <1>15, <1>16

-----------------------------------------------------------------------------
(***************************************************************************)
(* Where the files of a metafile are, and what is read of them.            *)
(***************************************************************************)
LEMMA FileParts ==
    ASSUME content \in Seq(Symbols), NEW f \in TheFiles, NEW u \in SomeTexts, f.path = <<u>>,
           NEW c, Has(content, c, File(f))
    PROVE  /\ c \in Nat /\ Has(content, c, <<"d">>) /\ Has(content, c + 1, Key("length"))
           /\ Has(content, c + 4, Int_(f.length))
           /\ Has(content, c + 4 + Len(Int_(f.length)), Key("path"))
           /\ Has(content, c + 4 + Len(Int_(f.length)) + 4, Text(u))
           /\ Len(File(f)) = 4 + Len(Int_(f.length)) + 4 + Len(Text(u)) + 2
           /\ Len(Int_(f.length)) \in Nat /\ Len(Text(u)) \in Nat
<1>1. PICK d, a, b, k, l, t, e : /\ d = <<"d">> /\ a = Key("length") /\ b = Int_(f.length)
                                /\ k = Key("path") /\ l = <<"l">> /\ t = Text(u) /\ e = <<"e">>
  OBVIOUS
<1>2. /\ d \in Seq(Symbols) /\ a \in Seq(Symbols) /\ b \in Seq(Symbols) /\ k \in Seq(Symbols)
      /\ l \in Seq(Symbols) /\ t \in Seq(Symbols) /\ e \in Seq(Symbols)
  <2>1. "length" \in Words \cap Symbols /\ "path" \in Words \cap Symbols /\ f.length \in Lengths
    BY SymbolsAre DEF Words, TheFiles
  <2>2. TextsIn(Symbols) = SomeTexts
    BY DEF TextsIn, SomeTexts
  <2> QED BY <1>1, <2>1, <2>2, SymbolsAre, PartsIn
<1>3. Len(d) = 1 /\ Len(a) = 3 /\ Len(k) = 3 /\ Len(l) = 1 /\ Len(e) = 1
  <2>1. "length" \in Words /\ "path" \in Words
    BY DEF Words
  <2> QED BY <1>1, <2>1, KeyIs
<1>4. PICK x, y : x = d \o a \o b \o k /\ y = x \o l \o t \o e
  OBVIOUS
<1>5. File(f) = y \o e
  BY <1>1, <1>4, EachOfOne DEF File
<1>6. x \in Seq(Symbols) /\ y \in Seq(Symbols)
  BY ONLY <1>2, <1>4
<1>7. Has(content, c, y) /\ Len(y \o e) = Len(y) + Len(e)
  BY <1>2, <1>5, <1>6, HasBoth, HasBothInside
<1>8. /\ Has(content, c, x) /\ Has(content, c + Len(x) + Len(l), t)
      /\ Len(y) = Len(x) + Len(l) + Len(t) + Len(e)
  <2>1. content \in Seq(Symbols) /\ Has(content, c, x \o l \o t \o e)
    BY <1>4, <1>7
  <2>2. x \in Seq(Symbols) /\ l \in Seq(Symbols) /\ t \in Seq(Symbols) /\ e \in Seq(Symbols)
    BY <1>2, <1>6
  <2>3. /\ Has(content, c, x) /\ Has(content, c + Len(x) + Len(l), t)
        /\ Len(x \o l \o t \o e) = Len(x) + Len(l) + Len(t) + Len(e)
    BY ONLY <2>1, <2>2, HasFour
  <2> QED BY <1>4, <2>3
<1>9. /\ Has(content, c, d) /\ Has(content, c + Len(d), a)
      /\ Has(content, c + Len(d) + Len(a), b) /\ Has(content, c + Len(d) + Len(a) + Len(b), k)
      /\ Len(x) = Len(d) + Len(a) + Len(b) + Len(k)
  <2>1. content \in Seq(Symbols) /\ Has(content, c, d \o a \o b \o k)
    BY <1>4, <1>8
  <2> QED BY ONLY <1>2, <1>4, <2>1, HasFour
<1>10. c \in Nat /\ Len(b) \in Nat /\ Len(t) \in Nat
  <2>1. Len(b) \in Nat /\ Len(t) \in Nat
    BY ONLY <1>2
  <2> QED BY <1>9, <2>1 DEF Has
<1>11. /\ c + Len(d) = c + 1 /\ c + Len(d) + Len(a) = c + 4 /\ c + Len(d) + Len(a) + Len(b) = c + 4 + Len(b)
       /\ c + Len(x) + Len(l) = c + 4 + Len(b) + 4
       /\ Len(y) + Len(e) = 4 + Len(b) + 4 + Len(t) + 2
  BY ONLY <1>3, <1>8, <1>9, <1>10
<1> QED BY <1>1, <1>5, <1>7, <1>8, <1>9, <1>10, <1>11

LEMMA FileIsRead ==
    ASSUME content \in Seq(Symbols), NEW f \in TheFiles, NEW u \in SomeTexts, f.path = <<u>>,
           Len(u) <= PathSize, f.length < LongLimit, NEW c, Has(content, c, File(f))
    PROVE  /\ c \in Nat /\ At(c) # "e" /\ KeyAt("path", PathFrom(c))
           /\ FileAt(c) = [length |-> f.length, path |-> u]
           /\ FileNext(c) = c + Len(File(f))
<1>1. PICK li, lt, L : li = Len(Int_(f.length)) /\ lt = Len(Text(u)) /\ L = Len(Decimal(f.length))
  OBVIOUS
<1>2. /\ c \in Nat /\ Has(content, c, <<"d">>) /\ Has(content, c + 1, Key("length"))
      /\ Has(content, c + 4, Int_(f.length)) /\ Has(content, c + 4 + li, Key("path"))
      /\ Has(content, c + 4 + li + 4, Text(u))
      /\ Len(File(f)) = 4 + li + 4 + lt + 2 /\ li \in Nat /\ lt \in Nat
  BY <1>1, FileParts
<1>3. "length" \in Words /\ "path" \in Words /\ f.length \in Lengths
  BY DEF Words, TheFiles
<1>4. At(c) # "e"
  BY <1>2, OneIsAt DEF At
<1>5. KeyAt("length", c + 1)
  <2>1. c + 1 \in Nat
    BY <1>2
  <2> QED BY <1>2, <1>3, <2>1, KeyAtIs
<1>6. NumberAfter(c) = c + 4 + 1
  <2>1. Len(Key("length")) = 3
    BY <1>3, KeyIs
  <2>2. c + 1 + 3 + 1 = c + 4 + 1
    BY <1>2
  <2> QED BY ONLY <2>1, <2>2 DEF NumberAfter
<1>7. /\ Hash!SkipTo("e", c + 4 + 1) = c + 4 + 1 + L /\ c + 4 + li = c + 4 + 1 + L + 1
      /\ NumberFrom(0, c + 4 + 1, Hash!SkipTo("e", c + 4 + 1)) = f.length
  BY <1>1, <1>2, <1>3, IntIsRead, LengthIsRead
<1>8. PathFrom(c) = c + 4 + li
  BY <1>5, <1>6, <1>7 DEF PathFrom
<1>9. KeyAt("path", PathFrom(c))
  <2>1. c + 4 + li \in Nat
    BY <1>2
  <2> QED BY <1>2, <1>3, <1>8, <2>1, KeyAtIs
<1>10. TextOfPath(c) = c + 4 + li + 4
  <2>1. Len(Key("path")) = 3
    BY <1>3, KeyIs
  <2>2. c + 4 + li + 3 + 1 = c + 4 + li + 4
    BY <1>2
  <2> QED BY ONLY <1>8, <2>1, <2>2 DEF TextOfPath
<1>11. TextAt(TextOfPath(c)) = u /\ TextEnd(TextOfPath(c)) = c + 4 + li + 4 + lt
  BY <1>1, <1>2, <1>10, TextIsTaken
<1>12. FileAt(c) = [length |-> f.length, path |-> u]
  <2>1. LengthAt(c) = ULong(f.length)
    BY <1>5, <1>6, <1>7 DEF LengthAt, FirstLen
  <2>2. ULong(f.length) = f.length
    BY <1>3, DecimalIs, WrappedIs
  <2>3. ~(Len(u) > PathSize)
    BY SizesAssumption DEF SomeTexts
  <2> QED BY <1>11, <2>1, <2>2, <2>3 DEF FileAt
<1>13. FileNext(c) = c + Len(File(f))
  BY <1>2, <1>11 DEF FileNext
<1> QED BY <1>2, <1>4, <1>9, <1>12, <1>13

\* A file with a path of one part that fits path, and a length that fits.
Fits(f) == Len(f.path) = 1 /\ Len(f.path[1]) <= PathSize /\ f.length < LongLimit

\* What is read of the files of s.
ReadOf(s) == [k \in 1 .. Len(s) |-> [length |-> s[k].length, path |-> s[k].path[1]]]

LEMMA OneMore ==
    ASSUME NEW T, NEW x, NEW n \in Nat, \A k \in 1 .. n + 1 : x[k] \in T
    PROVE  /\ [k \in 1 .. n + 1 |-> x[k]] = [k \in 1 .. n |-> x[k]] \o <<x[n + 1]>>
           /\ [k \in 1 .. n |-> x[k]] \in Seq(T) /\ x[n + 1] \in T
<1>1. PICK a, b : a = [k \in 1 .. n |-> x[k]] /\ b = [k \in 1 .. n + 1 |-> x[k]]
  OBVIOUS
<1>2. a \in Seq(T) /\ b \in Seq(T) /\ Len(a) = n /\ Len(b) = n + 1 /\ x[n + 1] \in T
  BY <1>1
<1>3. \A k \in 1 .. n : a[k] = x[k]
  BY <1>1
<1>4. \A k \in 1 .. n + 1 : b[k] = x[k]
  BY <1>1
<1>5. PICK y : y = x[n + 1]
  OBVIOUS
<1>6. a \o <<y>> = b
  BY ONLY <1>2, <1>3, <1>4, <1>5
<1> QED BY <1>1, <1>2, <1>5, <1>6

LEMMA FilesAreTaken ==
    ASSUME content \in Seq(Symbols), NEW s \in Seq(TheFiles),
           \A k \in 1 .. Len(s) : Fits(s[k]),
           NEW p, Has(content, p, Each(s, File)), Has(content, p + Len(Each(s, File)), <<"e">>)
    PROVE  FileList[p] = ReadOf(s)
<1>1. PICK n, G, x : /\ n = Len(s) /\ G = [k \in DOMAIN s |-> File(s[k])]
                     /\ x = [k \in 1 .. n |-> [length |-> s[k].length, path |-> s[k].path[1]]]
  OBVIOUS
<1>2. n \in Nat /\ DOMAIN s = 1 .. n /\ p \in Nat /\ Len(content) \in Nat
  BY <1>1 DEF Has
<1>3. ASSUME NEW k \in 1 .. n
      PROVE  /\ s[k] \in TheFiles /\ s[k].path = <<s[k].path[1]>> /\ s[k].path[1] \in SomeTexts
             /\ Len(s[k].path[1]) <= PathSize /\ s[k].length < LongLimit
             /\ G[k] = File(s[k]) /\ G[k] \in Seq(Symbols)
             /\ x[k] \in AnyFile /\ x[k] = [length |-> s[k].length, path |-> s[k].path[1]]
  <2>1. PICK f, t : f = s[k] /\ t = f.path
    OBVIOUS
  <2>2. f \in TheFiles /\ Len(t) = 1 /\ Len(t[1]) <= PathSize /\ f.length < LongLimit
    BY <1>1, <2>1 DEF Fits
  <2>3. t \in Seq(FileTexts) /\ f.length \in Lengths
    BY <2>1, <2>2 DEF TheFiles
  <2>4. t = <<t[1]>> /\ t[1] \in FileTexts
    BY ONLY <2>2, <2>3, OneElement
  <2>5. t[1] \in SomeTexts
    BY <2>4, SymbolsAre
  <2>6. G[k] = File(f)
    BY <1>1, <1>2, <2>1
  <2>7. File(f) \in Seq(Symbols)
    <3>1. TextsIn(Symbols) = SomeTexts
      BY DEF TextsIn, SomeTexts
    <3>2. t \in Seq(TextsIn(Symbols))
      <4>1. \A j \in 1 .. Len(t) : t[j] \in TextsIn(Symbols)
        BY <2>3, <3>1, SymbolsAre
      <4> QED BY ONLY <2>3, <4>1, IsSeqOf
    <3>3. f = [length |-> f.length, path |-> t]
      BY <2>1, <2>2 DEF TheFiles
    <3>4. f \in FilesIn(Symbols)
      BY <2>3, <3>2, <3>3 DEF FilesIn
    <3>5. "length" \in Symbols /\ "path" \in Symbols
      BY SymbolsAre DEF Words
    <3> QED BY <3>4, <3>5, SymbolsAre, FileIn
  <2>8. x[k] = [length |-> f.length, path |-> t[1]]
    BY <1>1, <2>1
  <2>9. x[k] \in AnyFile
    <3>1. t[1] \in Seq(Symbols)
      BY <2>5 DEF SomeTexts
    <3>2. t[1] \in Seq(Symbols \cup {Hash!NUL})
      BY <3>1
    <3>3. f.length \in Int
      BY <2>3, DecimalIs
    <3> QED BY <2>8, <3>2, <3>3 DEF AnyFile
  <2> QED BY <2>1, <2>2, <2>4, <2>5, <2>6, <2>7, <2>8, <2>9
<1>4. G \in Seq(Seq(Symbols)) /\ Len(G) = n /\ Each(s, File) = FlattenSeq(G)
  <2>1. G = [k \in 1 .. n |-> G[k]]
    BY <1>1, <1>2
  <2>2. \A k \in 1 .. n : G[k] \in Seq(Symbols)
    BY <1>3
  <2>3. G \in Seq(Seq(Symbols)) /\ Len(G) = n
    BY ONLY <1>2, <2>1, <2>2, MadeSeq
  <2> QED BY <1>1, <2>3 DEF Each
<1>5. PICK F : Built(G, F, Symbols)
  BY <1>4, FlatBuilt
<1>6. /\ F[0] = <<>> /\ FlattenSeq(G) = F[n] /\ \A k \in 0 .. n : F[k] \in Seq(Symbols)
      /\ \A k \in 1 .. n : Has(FlattenSeq(G), Len(F[k - 1]), G[k]) /\ Len(F[k]) = Len(F[k - 1]) + Len(G[k])
  BY <1>4, <1>5 DEF Built, Grows
<1>7. \A k \in 0 .. n : Len(F[k]) \in Nat /\ p + Len(F[k]) \in Nat
  BY <1>2, <1>6
<1>8. PICK X : X = [k \in 0 .. n |-> [j \in 1 .. k |-> x[j]]]
  OBVIOUS
<1>9. PICK r : r = [k \in 0 .. n |-> X[k] \o FileList[p + Len(F[k])]]
  OBVIOUS
<1>10. r[0] = FileList[p]
  <2>1. Len(F[0]) = 0 /\ p + 0 = p /\ 0 \in 0 .. n
    BY <1>2, <1>6
  <2>2. X[0] = <<>>
    BY <1>8, <2>1
  <2>3. PICK y : y = FileList[p]
    OBVIOUS
  <2>4. y \in Seq(AnyFile)
    BY <1>2, <2>3, FilesAreRead
  <2>5. <<>> \o y = y
    BY ONLY <2>4
  <2> QED BY <1>9, <2>1, <2>2, <2>3, <2>5
<1>11. ASSUME NEW k \in 1 .. n PROVE r[k] = r[k - 1]
  <2>1. k - 1 \in 0 .. n /\ k \in 0 .. n /\ k - 1 \in Nat /\ (k - 1) + 1 = k
    BY <1>2
  <2>2. PICK c, d, f, u : c = p + Len(F[k - 1]) /\ d = p + Len(F[k]) /\ f = s[k] /\ u = f.path[1]
    OBVIOUS
  <2>3. /\ G[k] = File(f) /\ f \in TheFiles /\ f.path = <<u>> /\ u \in SomeTexts
        /\ Len(u) <= PathSize /\ f.length < LongLimit /\ x[k] = [length |-> f.length, path |-> u]
    BY <1>3, <2>2
  <2>4. Has(content, c, File(f)) /\ d = c + Len(File(f)) /\ c \in Nat /\ d \in Nat
    <3>1. PICK g, a : g = G[k] /\ a = FlattenSeq(G)
      OBVIOUS
    <3>2. Has(content, p, a) /\ Has(a, Len(F[k - 1]), g) /\ g \in Seq(Symbols) /\ a \in Seq(Symbols)
      <4>1. n \in 0 .. n
        BY <1>2
      <4> QED BY <1>3, <1>4, <1>6, <3>1, <4>1
    <3>3. Has(content, p + Len(F[k - 1]), g)
      BY <3>2, HasInside
    <3>4. Len(F[k]) = Len(F[k - 1]) + Len(g)
      BY <1>6, <3>1
    <3>5. Len(g) \in Nat
      BY ONLY <3>2
    <3>6. d = c + Len(g)
      BY <1>2, <1>7, <2>1, <2>2, <3>4, <3>5
    <3> QED BY <1>7, <2>1, <2>2, <2>3, <3>1, <3>3, <3>6
  <2>5. FileList[c] = <<x[k]>> \o FileList[d]
    <3>1. At(c) # "e" /\ KeyAt("path", PathFrom(c)) /\ FileAt(c) = x[k] /\ FileNext(c) = d
      BY <2>3, <2>4, FileIsRead
    <3>2. FileList[c] = <<FileAt(c)>> \o FileList[FileNext(c)]
      BY <2>4, <3>1, FilesGoOn
    <3> QED BY ONLY <3>1, <3>2, Zenon
  <2>6. PICK a, b, y : a = X[k - 1] /\ b = <<x[k]>> /\ y = FileList[d]
    OBVIOUS
  <2>7. a = [j \in 1 .. k - 1 |-> x[j]] /\ X[k] = [j \in 1 .. k |-> x[j]]
    BY <1>8, <2>1, <2>6
  <2>8. X[k] = a \o b /\ a \in Seq(AnyFile) /\ x[k] \in AnyFile
    <3>1. PICK m : m = k - 1
      OBVIOUS
    <3>2. m \in Nat /\ m + 1 = k /\ \A j \in 1 .. m + 1 : j \in 1 .. n
      BY <1>2, <2>1, <3>1
    <3>3. \A j \in 1 .. m + 1 : x[j] \in AnyFile
      BY <1>3, <3>2
    <3>4. /\ [j \in 1 .. m + 1 |-> x[j]] = [j \in 1 .. m |-> x[j]] \o <<x[m + 1]>>
          /\ [j \in 1 .. m |-> x[j]] \in Seq(AnyFile) /\ x[m + 1] \in AnyFile
      BY ONLY <3>2, <3>3, OneMore
    <3> QED BY <2>6, <2>7, <3>1, <3>2, <3>4
  <2>9. b \in Seq(AnyFile) /\ y \in Seq(AnyFile)
    <3>1. b \in Seq(AnyFile)
      BY ONLY <2>6, <2>8
    <3> QED BY <2>4, <2>6, <3>1, FilesAreRead
  <2>10. a \o (b \o y) = (a \o b) \o y
    BY ONLY <2>8, <2>9, ThreeParts
  <2>11. r[k - 1] = a \o (b \o y) /\ r[k] = (a \o b) \o y
    BY <1>9, <2>1, <2>2, <2>5, <2>6, <2>8
  <2> QED BY <2>10, <2>11
<1>12. r[n] = r[0]
  <2>1. PICK v, T : v = r[0] /\ T = {v}
    OBVIOUS
  <2>2. r[0] \in T /\ \A k \in 1 .. n : r[k - 1] \in T => r[k] \in T
    BY <1>11, <2>1
  <2>3. \A k \in 0 .. n : r[k] \in T
    BY ONLY <1>2, <2>2, StepsKeep
  <2>4. r[n] \in T
    BY <1>2, <2>3
  <2> QED BY <2>1, <2>4
<1>13. r[n] = X[n]
  <2>1. n \in 0 .. n
    BY <1>2
  <2>2. At(p + Len(F[n])) = "e"
    BY <1>4, <1>6, OneIsAt DEF At
  <2>3. FileList[p + Len(F[n])] = <<>>
    BY <1>7, <2>1, <2>2, FilesGoOn
  <2>4. PICK h : h = X[n]
    OBVIOUS
  <2>5. h \in Seq(AnyFile)
    <3>1. h = [j \in 1 .. n |-> x[j]]
      BY <1>8, <2>1, <2>4
    <3>2. \A j \in 1 .. n : x[j] \in AnyFile
      BY <1>3
    <3> QED BY ONLY <1>2, <3>1, <3>2
  <2>6. h \o <<>> = h
    BY ONLY <2>5
  <2> QED BY <1>9, <2>1, <2>3, <2>4, <2>6
<1>14. X[n] = ReadOf(s)
  <2>1. n \in 0 .. n
    BY <1>2
  <2> QED BY <1>1, <1>8, <2>1 DEF ReadOf
<1> QED BY <1>10, <1>12, <1>13, <1>14

-----------------------------------------------------------------------------
(***************************************************************************)
(* The types, whatever the content and the order of the calls.             *)
(***************************************************************************)
ScanTyped ==
    /\ content \in Seq(Symbols)
    /\ pc \in {"idle", "scan", "hashed", "failed", "overrun"}
    /\ begin \in Nat /\ i \in Nat /\ begin <= i /\ push_pop \in Int
    /\ pc = "hashed" => info_hash # <<>>
    /\ caller = "hash" => (pc = "hashed" <=> info_hash # <<>>)

DataTyped == file_length \in Int /\ piece_length \in Int /\ muti_file \in {0, 1}

ListsTyped == files \in Seq(AnyFile) /\ wild \in BOOLEAN

ProgTyped ==
    /\ state \in {"runs", "done", "crashed", "released"}
    /\ calls \in Nat /\ loaded \in BOOLEAN
    /\ caller # "hash" => metafile \in AllMetafiles

Typed == ScanTyped /\ DataTyped /\ ListsTyped /\ ProgTyped

LEMMA TypedBegins == Init => Typed
<1> SUFFICES ASSUME Init PROVE Typed
  OBVIOUS
<1>1. content \in Seq(Symbols)
  <2>1. CASE caller = "hash"
    <3>1. content \in Seq(Characters)
      BY <2>1, ContentsAssumption DEF Init, Hash!Init
    <3>2. Characters \subseteq Symbols
      BY SymbolsAre
    <3> QED BY ONLY <3>1, <3>2
  <2>2. CASE caller # "hash"
    <3>1. content = <<>>
      BY <2>2 DEF Init
    <3> QED BY <3>1
  <2> QED BY <2>1, <2>2
<1>2. ScanTyped
  BY <1>1 DEF Init, Hash!Init, ScanTyped
<1>3. DataTyped
  BY DEF Init, DataTyped
<1>4. ListsTyped
  <2>1. <<>> \in Seq(AnyFile)
    OBVIOUS
  <2> QED BY <2>1 DEF Init, ListsTyped
<1>5. ProgTyped
  BY MetafilesAssumption DEF Init, ProgTyped
<1> QED BY <1>2, <1>3, <1>4, <1>5 DEF Typed

LEMMA ScanStaysTyped ==
    ASSUME Typed, ScanStep
    PROVE  Typed'
<1>1. /\ content \in Seq(Symbols) /\ begin \in Nat /\ i \in Nat /\ begin <= i /\ push_pop \in Int
      /\ pc = "scan" /\ (caller = "hash" => info_hash = <<>>) /\ Hash!Next
  BY DEF Typed, ScanTyped, ScanStep
<1>2. UNCHANGED <<caller, calls, metafile, loaded, state, files, wild, file_length, muti_file, piece_length>>
  BY DEF ScanStep, progVars, listVars, dataVars
<1>3. content' = content /\ begin' = begin
  BY <1>1 DEF Hash!Next, Hash!Open, Hash!SkipInteger, Hash!SkipString, Hash!Close,
              Hash!OtherCharacter, Hash!RunOut, Hash!Ended, Hash!vars
<1>4. Len(content) \in Nat /\ Hash!filesize = Len(content) + 1
  BY <1>1, SymbolAt
<1>5. CASE Hash!Open
  <2>1. i' = i + 1 /\ push_pop' = push_pop + 1 /\ pc' = pc /\ info_hash' = info_hash
    BY <1>5 DEF Hash!Open
  <2>2. i' \in Nat /\ begin' <= i' /\ push_pop' \in Int
    BY <1>1, <1>3, <2>1
  <2> QED BY <1>1, <1>2, <1>3, <2>1, <2>2 DEF Typed, ScanTyped, DataTyped, ListsTyped, ProgTyped
<1>6. CASE Hash!SkipInteger
  <2>1. /\ push_pop' = push_pop /\ info_hash' = info_hash /\ i < Hash!filesize
        /\ \/ pc' = "failed" /\ i' = i
           \/ pc' = pc /\ i' = Hash!SkipTo("e", i + 1) + 1
    BY <1>6 DEF Hash!SkipInteger, Hash!Scanning
  <2>2. Hash!SkipTo("e", i + 1) \in i + 1 .. Hash!filesize
    BY <1>1, <1>4, <2>1, SkipToIn
  <2>3. i' \in Nat /\ begin' <= i'
    BY <1>1, <1>3, <1>4, <2>1, <2>2
  <2> QED BY <1>1, <1>2, <1>3, <2>1, <2>3 DEF Typed, ScanTyped, DataTyped, ListsTyped, ProgTyped
<1>7. CASE Hash!SkipString
  <2>1. /\ push_pop' = push_pop /\ info_hash' = info_hash /\ pc' = pc /\ i < Hash!filesize
        /\ i' = TextEnd(i)
    BY <1>7, DigitsAssumption DEF Hash!SkipString, Hash!Scanning, Hash!StringEnd, TextEnd, DigitsEnd, Number, AllDigits
  <2>2. TextEnd(i) \in Nat /\ TextEnd(i) > i
    BY <1>1, <1>4, <2>1, TextIn
  <2>3. i' \in Nat /\ begin' <= i'
    BY <1>1, <1>3, <2>1, <2>2
  <2> QED BY <1>1, <1>2, <1>3, <2>1, <2>3 DEF Typed, ScanTyped, DataTyped, ListsTyped, ProgTyped
<1>8. CASE Hash!Close
  <2>1. /\ push_pop' = push_pop - 1 /\ Hash!At(i) = "e"
        /\ \/ pc' = "hashed" /\ info_hash' = SubSeq(content, begin + 1, i + 1) /\ i' = i
           \/ pc' = pc /\ info_hash' = info_hash /\ i' = i + 1
    BY <1>8 DEF Hash!Close
  <2>2. i + 1 <= Len(content)
    BY <1>1, <1>4, <2>1 DEF Hash!At, Hash!NUL
  <2>3. SubSeq(content, begin + 1, i + 1) # <<>>
    <3>1. PICK s, a, b : s = SubSeq(content, a, b) /\ a = begin + 1 /\ b = i + 1
      OBVIOUS
    <3>2. a \in Nat /\ b \in Nat /\ 1 <= a /\ a <= b /\ b <= Len(content)
      BY <1>1, <2>2, <3>1
    <3>3. Len(s) = b - a + 1
      <4>1. a \in 1 .. Len(content) /\ b \in 1 .. Len(content) /\ a <= b
        BY <3>2, <1>4
      <4>2. content \in Seq(Symbols)
        BY <1>1
      <4>3. Len(SubSeq(content, a, b)) = IF a <= b THEN b - a + 1 ELSE 0
        BY ONLY <4>1, <4>2, SubSeqProperties
      <4> QED BY <3>1, <4>1, <4>3
    <3>4. Len(s) # 0
      BY ONLY <3>2, <3>3
    <3>5. s # <<>>
      BY ONLY <3>4
    <3> QED BY <3>1, <3>5
  <2>4. i' \in Nat /\ begin' <= i' /\ push_pop' \in Int
    BY <1>1, <1>3, <2>1
  <2> QED BY <1>1, <1>2, <1>3, <2>1, <2>3, <2>4 DEF Typed, ScanTyped, DataTyped, ListsTyped, ProgTyped
<1>9. CASE Hash!OtherCharacter \/ Hash!RunOut
  <2>1. pc' \in {"failed", "overrun"} /\ UNCHANGED <<i, push_pop, info_hash>>
    BY <1>9 DEF Hash!OtherCharacter, Hash!RunOut, Hash!AfterLoop
  <2> QED BY <1>1, <1>2, <1>3, <2>1 DEF Typed, ScanTyped, DataTyped, ListsTyped, ProgTyped
<1>10. ~Hash!Ended
  BY <1>1 DEF Hash!Ended
<1> QED BY <1>1, <1>5, <1>6, <1>7, <1>8, <1>9, <1>10 DEF Hash!Next

\* The numbers and the files that the functions read.
LEMMA LastDigitIsInt ==
    ASSUME content \in Seq(Symbols), NEW n \in Int, NEW c \in Nat, c <= Hash!filesize, NEW without \in Int
    PROVE  LastDigit(n, c, without) \in Int
<1>1. PICK e : e = Hash!SkipTo(":", c)
  OBVIOUS
<1>2. e \in Nat /\ c <= e
  <2>1. Hash!filesize \in Nat
    BY SymbolAt
  <2> QED BY <1>1, <2>1, SkipToIn
<1>3. CASE e = c
  BY <1>1, <1>3 DEF LastDigit
<1>4. CASE e # c
  <2>1. e - 1 \in Nat /\ e - 1 <= e
    BY <1>2, <1>4
  <2>2. NumberFrom(n, e - 1, e) \in Int
    BY <1>2, <2>1, NumberFromIsInt
  <2> QED BY <1>1, <1>4, <2>2 DEF LastDigit
<1> QED BY <1>3, <1>4

LEMMA NewFilesAre == ASSUME content \in Seq(Symbols) PROVE NewFiles \in Seq(AnyFile)
<1>1. CASE Found("files")
  <2>1. After("files") + 1 \in Nat
    <3>1. "files" \in Words
      BY DEF Words
    <3>2. After("files") \in Nat
      BY <1>1, <3>1, AfterIs
    <3> QED BY <3>2
  <2> QED BY <1>1, <2>1, FilesAreRead DEF NewFiles
<1>2. CASE ~Found("files")
  <2>1. <<>> \in Seq(AnyFile)
    OBVIOUS
  <2> QED BY <1>2, <2>1 DEF NewFiles
<1> QED BY <1>1, <1>2

LEMMA FilesAreMeasured == ASSUME NEW s \in Seq(AnyFile) PROVE Measured(s)
<1>1. \A k \in 1 .. Len(s) : s[k] \in AnyFile
  BY ElementOfSeq
<1> QED BY <1>1 DEF Measured, AnyFile

LEMMA AddedFilesAre ==
    ASSUME NEW new \in Seq(AnyFile), NEW dirty, ListsTyped, ProgTyped, AddFiles(new, dirty)
    PROVE  ListsTyped' /\ state' \in {"runs", "done", "crashed", "released"}
<1>1. CASE files' = files /\ wild' = wild /\ (state' = state \/ state' = "crashed")
  BY <1>1 DEF ListsTyped, ProgTyped
<1>2. CASE files' = files \o new /\ wild' = (dirty # 0) /\ state' = state
  <2>1. files \in Seq(AnyFile)
    BY DEF ListsTyped
  <2>2. files \o new \in Seq(AnyFile)
    BY ONLY <2>1, new \in Seq(AnyFile)
  <2> QED BY <1>2, <2>2 DEF ListsTyped, ProgTyped
<1> QED BY <1>1, <1>2 DEF AddFiles

LEMMA SingleLengthIs ==
    ASSUME ScanTyped, DataTyped, Found("length"), SingleLength
    PROVE  content' \in Seq(Symbols) /\ file_length' \in Int
<1>1. PICK c, e : c = After("length") + 1 /\ e = Hash!SkipTo("e", c)
  OBVIOUS
<1>2. content \in Seq(Symbols) /\ file_length \in Int
  BY DEF ScanTyped, DataTyped
<1>3. c \in Nat /\ c <= Hash!filesize /\ Hash!filesize \in Nat
  <2>1. "length" \in Words
    BY DEF Words
  <2>2. After("length") \in Nat /\ After("length") < Hash!filesize
    BY <1>2, <2>1, AfterIs
  <2>3. Hash!filesize \in Nat
    BY <1>2, SymbolAt
  <2> QED BY <1>1, <2>2, <2>3
<1>4. e - c \in Nat
  <2>1. e \in c .. Hash!filesize
    BY <1>1, <1>2, <1>3, SkipToIn
  <2> QED BY <1>3, <2>1
<1>5. content' = Overwritten(c, e) /\ file_length' = Long(Behind(file_length, [k \in 1 .. e - c |-> LetterE]))
  BY <1>1 DEF SingleLength
<1>6. Overwritten(c, e) \in Seq(Symbols)
  <2>1. "e" \in Symbols
    BY SymbolsAre DEF Characters, Marks
  <2>2. PICK r : r = [k \in DOMAIN content |-> IF k - 1 \in c .. e - 1 THEN "e" ELSE content[k]]
    OBVIOUS
  <2>3. \A k \in 1 .. Len(content) : r[k] \in Symbols
    BY <1>2, <2>1, <2>2
  <2>4. r = [k \in DOMAIN content |-> r[k]]
    BY <2>2
  <2>5. r \in Seq(Symbols)
    BY ONLY <1>2, <2>3, <2>4, MappedIn
  <2> QED BY <2>2, <2>5 DEF Overwritten
<1>7. Behind(file_length, [k \in 1 .. e - c |-> LetterE]) \in Int
  <2>1. PICK s : s = [k \in 1 .. e - c |-> LetterE]
    OBVIOUS
  <2>2. s \in Seq(Int)
    BY <1>4, <2>1 DEF LetterE
  <2> QED BY <1>2, <2>1, <2>2, BehindIsInt
<1> QED BY <1>5, <1>6, <1>7, WrappedIs

LEMMA FileLengthIs ==
    ASSUME Typed, get_file_length
    PROVE  /\ content' \in Seq(Symbols) /\ ListsTyped' /\ DataTyped'
           /\ state' \in {"runs", "done", "crashed", "released"}
<1>1. piece_length' = piece_length
  BY DEF get_file_length
<1>2. ScanTyped /\ DataTyped /\ ListsTyped /\ ProgTyped /\ content \in Seq(Symbols)
  BY DEF Typed, ScanTyped
<1>3. CASE Found("files")
  <2>1. muti_file' = 1 /\ LengthOfAll /\ content' = content
    BY <1>3 DEF get_file_length
  <2>2. PICK all : all = IF files = <<>> THEN NewFiles ELSE files
    OBVIOUS
  <2>3. all \in Seq(AnyFile)
    BY <1>2, <2>2, NewFilesAre DEF ListsTyped
  <2>4. TotalLength(all) \in Int
    BY <2>3, FilesAreMeasured, TotalIsInt
  <2>5. \/ state' = "crashed" /\ UNCHANGED <<files, wild, file_length>>
        \/ /\ files' = all /\ wild' = FALSE /\ state' = state
           /\ file_length' = Long(file_length + TotalLength(all))
    BY <2>1, <2>2 DEF LengthOfAll
  <2>6. file_length' \in Int
    <3>1. file_length \in Int
      BY <1>2 DEF DataTyped
    <3>2. Long(file_length + TotalLength(all)) \in Int
      BY <2>4, <3>1, WrappedIs
    <3> QED BY <2>5, <3>1, <3>2
  <2>7. DataTyped'
    BY <1>1, <1>2, <2>1, <2>6 DEF DataTyped
  <2>8. ListsTyped'
    <3>1. files \in Seq(AnyFile) /\ wild \in BOOLEAN
      BY <1>2 DEF ListsTyped
    <3>2. files' \in Seq(AnyFile) /\ wild' \in BOOLEAN
      BY <2>3, <2>5, <3>1
    <3> QED BY <3>2 DEF ListsTyped
  <2>9. state' \in {"runs", "done", "crashed", "released"}
    BY <1>2, <2>5 DEF ProgTyped
  <2> QED BY <1>2, <2>1, <2>7, <2>8, <2>9
<1>4. CASE ~Found("files")
  <2>1. /\ UNCHANGED <<muti_file, files, wild>> /\ (state' = state \/ state' = "crashed")
        /\ \/ content' = content /\ file_length' = file_length
           \/ Found("length") /\ SingleLength
    BY <1>4 DEF get_file_length
  <2>2. content' \in Seq(Symbols) /\ file_length' \in Int
    BY <1>2, <2>1, SingleLengthIs DEF DataTyped
  <2> QED BY <1>1, <1>2, <2>1, <2>2 DEF DataTyped, ListsTyped, ProgTyped
<1> QED BY <1>3, <1>4

LEMMA ReadMetafileStaysTyped ==
    ASSUME Typed, NEW f, Call(f), read_metafile
    PROVE  Typed'
<1>1. metafile \in AllMetafiles
  BY DEF Call, Typed, ProgTyped
<1>2. Content(metafile) \in Seq(Symbols)
  BY <1>1, ContentHas
<1>3. content' \in Seq(Symbols) /\ loaded' \in BOOLEAN
  BY <1>2 DEF read_metafile, Typed, ScanTyped, ProgTyped
<1>4. calls' \in Nat /\ caller' = caller
  BY CallIs DEF Typed, ProgTyped
<1>5. UNCHANGED <<pc, begin, i, push_pop, info_hash, files, wild, file_length, piece_length, muti_file, metafile, state>>
  BY DEF read_metafile, listVars, dataVars
<1> QED BY <1>3, <1>4, <1>5 DEF Typed, ScanTyped, DataTyped, ListsTyped, ProgTyped

LEMMA InfoHashStaysTyped ==
    ASSUME Typed, NEW f, Call(f), get_info_hash
    PROVE  Typed'
<1>1. calls' \in Nat /\ caller' = caller /\ caller # "hash"
  BY CallIs DEF Typed, ProgTyped, Call
<1>2. UNCHANGED <<content, info_hash, files, wild, file_length, piece_length, muti_file, metafile, loaded, state>>
  BY DEF get_info_hash, listVars, dataVars
<1>3. CASE Found("info")
  <2>1. begin' = After("info") /\ i' = begin' /\ push_pop' = 0 /\ pc' = "scan"
    BY <1>3 DEF get_info_hash
  <2>2. After("info") \in Nat
    <3>1. "info" \in Words
      BY DEF Words
    <3> QED BY <1>3, <3>1, AfterIs DEF Typed, ScanTyped
  <2> QED BY <1>1, <1>2, <2>1, <2>2 DEF Typed, ScanTyped, DataTyped, ListsTyped, ProgTyped
<1>4. CASE ~Found("info")
  <2>1. pc' = "failed" /\ UNCHANGED <<begin, i, push_pop>>
    BY <1>4 DEF get_info_hash
  <2> QED BY <1>1, <1>2, <2>1 DEF Typed, ScanTyped, DataTyped, ListsTyped, ProgTyped
<1> QED BY <1>3, <1>4

\* The functions that leave the scan and the file alone.
LEMMA OthersStayTyped ==
    ASSUME Typed, NEW f, Call(f), UNCHANGED hashVars, UNCHANGED <<metafile, loaded>>,
           ListsTyped', DataTyped', state' \in {"runs", "done", "crashed", "released"}
    PROVE  Typed'
<1>1. calls' \in Nat /\ caller' = caller
  BY CallIs DEF Typed, ProgTyped
<1> QED BY <1>1 DEF Typed, ScanTyped, ProgTyped, hashVars

\* A url changes nothing but the list and, when it leaves its node, state.
LEMMA StoreStaysTyped ==
    ASSUME Typed, NEW f, Call(f), UNCHANGED <<hashVars, metafile, loaded, files, wild, dataVars>>,
           NEW urls, state' = state \/ Store(urls)
    PROVE  Typed'
<1>1. ListsTyped' /\ DataTyped'
  BY DEF Typed, ListsTyped, DataTyped, dataVars
<1>2. state' \in {"runs", "done", "crashed", "released"}
  BY DEF Typed, ProgTyped, Store
<1> QED BY <1>1, <1>2, OthersStayTyped

LEMMA TypedGoesOn == Typed /\ [Next]_vars => Typed'
<1> SUFFICES ASSUME Typed, [Next]_vars PROVE Typed'
  OBVIOUS
<1>0. /\ content \in Seq(Symbols) /\ ListsTyped /\ DataTyped /\ ProgTyped
      /\ piece_length \in Int /\ state \in {"runs", "done", "crashed", "released"}
  BY DEF Typed, ScanTyped, DataTyped, ProgTyped
<1>1. CASE UNCHANGED vars \/ Ended
  BY <1>1 DEF Ended, vars, hashVars, progVars, listVars, dataVars, Typed, ScanTyped, DataTyped, ListsTyped, ProgTyped
<1>2. CASE Call("read_metafile") /\ read_metafile
  BY <1>2, ReadMetafileStaysTyped
<1>3. CASE Call("get_info_hash") /\ get_info_hash
  BY <1>3, InfoHashStaysTyped
<1>4. CASE ScanStep
  BY <1>4, ScanStaysTyped
<1>5. CASE Call("get_file_length") /\ HasTracker /\ get_file_length
  <2>1. /\ content' \in Seq(Symbols) /\ ListsTyped' /\ DataTyped'
        /\ state' \in {"runs", "done", "crashed", "released"}
    BY <1>5, FileLengthIs
  <2>2. calls' \in Nat /\ caller' = caller
    BY <1>5, CallIs DEF Typed, ProgTyped
  <2>3. UNCHANGED <<pc, begin, i, push_pop, info_hash, metafile, loaded>>
    BY <1>5 DEF get_file_length
  <2> QED BY <2>1, <2>2, <2>3 DEF Typed, ScanTyped, ProgTyped
<1>6. CASE NoTracker
  <2>1. /\ Call("get_file_length") /\ UNCHANGED hashVars /\ UNCHANGED <<metafile, loaded>>
        /\ UNCHANGED <<files, wild, file_length, piece_length, muti_file>> /\ state' = "done"
    BY <1>6 DEF NoTracker, listVars, dataVars
  <2>2. ListsTyped' /\ DataTyped'
    BY <1>0, <2>1 DEF ListsTyped, DataTyped
  <2> QED BY <2>1, <2>2, OthersStayTyped
<1>7. CASE MainGoesOn
  BY <1>7 DEF MainGoesOn, hashVars, listVars, dataVars, Typed, ScanTyped, DataTyped, ListsTyped, ProgTyped
<1>8. ASSUME NEW f, Call(f), UNCHANGED hashVars, UNCHANGED <<metafile, loaded, state>>,
             UNCHANGED <<files, wild, file_length>>, piece_length' \in Int, muti_file' \in {0, 1}
      PROVE  Typed'
  <2>1. ListsTyped' /\ DataTyped'
    BY <1>0, <1>8 DEF ListsTyped, DataTyped
  <2> QED BY <1>0, <1>8, <2>1, OthersStayTyped
<1>9. CASE Call("read_announce_list") /\ read_announce_list
  <2>1. UNCHANGED <<hashVars, metafile, loaded, files, wild, dataVars>> /\ Store(NewUrls)
    BY <1>9 DEF read_announce_list
  <2> QED BY <1>0, <1>9, <2>1, StoreStaysTyped
<1>10. CASE Call("add_an_announce") /\ \E url \in Urls : add_an_announce(url)
  <2>1. PICK url \in Urls : add_an_announce(url)
    BY <1>10
  <2>2. UNCHANGED <<hashVars, metafile, loaded, files, wild, dataVars>> /\ (state' = state \/ Store(<<url>>))
    BY <2>1 DEF add_an_announce
  <2> QED BY <1>0, <1>10, <2>2, StoreStaysTyped
<1>11. CASE Call("is_muti_files") /\ is_muti_files
  <2>1. /\ UNCHANGED hashVars /\ UNCHANGED <<metafile, loaded, state>>
        /\ UNCHANGED <<files, wild, file_length, piece_length>> /\ muti_file' \in {1, muti_file}
    BY <1>11 DEF is_muti_files, listVars
  <2> QED BY <1>0, <1>8, <1>11, <2>1 DEF DataTyped
<1>12. CASE Call("get_piece_length") /\ get_piece_length
  <2>1. /\ UNCHANGED hashVars /\ UNCHANGED <<metafile, loaded, state>>
        /\ UNCHANGED <<files, wild, file_length, muti_file>>
    BY <1>12 DEF get_piece_length, listVars
  <2>2. piece_length' \in Int
    <3>1. CASE Found("piece_length")
      <4>1. PICK c, e : c = After("piece_length") + 1 /\ e = Hash!SkipTo("e", c)
        OBVIOUS
      <4>2. c \in Nat /\ c <= Hash!filesize /\ Hash!filesize \in Nat
        <5>1. "piece_length" \in Words
          BY DEF Words
        <5>2. After("piece_length") \in Nat /\ After("piece_length") < Hash!filesize
          BY <1>0, <3>1, <5>1, AfterIs
        <5>3. Hash!filesize \in Nat
          BY <1>0, SymbolAt
        <5> QED BY <4>1, <5>2, <5>3
      <4>3. e \in c .. Hash!filesize
        BY <1>0, <4>1, <4>2, SkipToIn
      <4>4. e \in Nat /\ c <= e
        BY <4>2, <4>3
      <4>5. piece_length' = NumberFrom(piece_length, c, e)
        BY <1>12, <3>1, <4>1 DEF get_piece_length
      <4> QED BY <1>0, <4>2, <4>4, <4>5, NumberFromIsInt
    <3>2. CASE ~Found("piece_length")
      BY <1>0, <1>12, <3>2 DEF get_piece_length
    <3> QED BY <3>1, <3>2
  <2> QED BY <1>0, <1>8, <1>12, <2>1, <2>2 DEF DataTyped
<1>13. CASE Call("get_pieces") /\ get_pieces
  <2>1. /\ UNCHANGED hashVars /\ UNCHANGED <<metafile, loaded, state>>
        /\ UNCHANGED <<files, wild, file_length, muti_file>>
    BY <1>13 DEF get_pieces, listVars
  <2>2. piece_length' \in Int
    <3>1. CASE Found("pieces")
      <4>1. "pieces" \in Words /\ Hash!filesize \in Nat
        BY <1>0, SymbolAt DEF Words
      <4>2. After("pieces") \in Nat /\ After("pieces") <= Hash!filesize
        BY <1>0, <3>1, <4>1, AfterIs
      <4>3. 0 \in Int /\ piece_length' = LastDigit(0, After("pieces"), piece_length)
        BY <1>13, <3>1 DEF get_pieces
      <4> QED BY <1>0, <4>2, <4>3, LastDigitIsInt
    <3>2. CASE ~Found("pieces")
      BY <1>0, <1>13, <3>2 DEF get_pieces
    <3> QED BY <3>1, <3>2
  <2> QED BY <1>0, <1>8, <1>13, <2>1, <2>2 DEF DataTyped
<1>14. CASE Call("get_file_name") /\ get_file_name
  <2>1. /\ UNCHANGED hashVars /\ UNCHANGED <<metafile, loaded, state>>
        /\ UNCHANGED <<files, wild, file_length, piece_length, muti_file>>
    BY <1>14 DEF get_file_name, listVars
  <2> QED BY <1>0, <1>8, <1>14, <2>1 DEF DataTyped
<1>15. CASE Call("get_files_length_path") /\ get_files_length_path
  <2>1. /\ UNCHANGED hashVars /\ UNCHANGED <<metafile, loaded>>
        /\ UNCHANGED <<file_length, piece_length, muti_file>>
    BY <1>15 DEF get_files_length_path, dataVars
  <2>2. PICK dirty : AddFiles(NewFiles, dirty)
    BY <1>15 DEF get_files_length_path
  <2>3. ListsTyped' /\ state' \in {"runs", "done", "crashed", "released"}
    BY <1>0, <2>2, NewFilesAre, AddedFilesAre
  <2>4. DataTyped'
    BY <1>0, <2>1 DEF DataTyped
  <2> QED BY <1>15, <2>1, <2>3, <2>4, OthersStayTyped
<1>16. CASE Call("get_peer_id") /\ get_peer_id
  <2>1. /\ UNCHANGED hashVars /\ UNCHANGED <<metafile, loaded, state>>
        /\ UNCHANGED <<files, wild, file_length, piece_length, muti_file>>
    BY <1>16 DEF get_peer_id, listVars, dataVars
  <2> QED BY <1>0, <1>8, <1>16, <2>1 DEF DataTyped
<1>17. CASE Call("release") /\ release_memory_in_parse_metafile
  <2>1. /\ UNCHANGED hashVars /\ UNCHANGED <<metafile, loaded>>
        /\ UNCHANGED <<wild, file_length, piece_length, muti_file>>
        /\ files' = <<>> /\ state' \in {"crashed", "released"}
    BY <1>17 DEF release_memory_in_parse_metafile, dataVars
  <2>2. <<>> \in Seq(AnyFile)
    OBVIOUS
  <2>3. ListsTyped' /\ DataTyped'
    BY <1>0, <2>1, <2>2 DEF ListsTyped, DataTyped
  <2> QED BY <1>17, <2>1, <2>3, OthersStayTyped
<1> QED BY <1>1, <1>2, <1>3, <1>4, <1>5, <1>6, <1>7, <1>9, <1>10, <1>11, <1>12, <1>13, <1>14, <1>15,
           <1>16, <1>17 DEF Next

-----------------------------------------------------------------------------
(***************************************************************************)
(* What main reads of the trackers and of the files.                       *)
(***************************************************************************)
LEMMA HasOneAfterOther ==
    ASSUME NEW T, NEW t \in Seq(T), NEW a \in Seq(T), NEW b \in Seq(T), NEW n,
           Has(t, n, a), Has(t, n + Len(a), b)
    PROVE  Has(t, n, a \o b)
<1>1. PICK x, y, z, w : x = Len(a) /\ y = Len(b) /\ z = Len(t) /\ w = a \o b
  OBVIOUS
<1>2. x \in Nat /\ y \in Nat /\ z \in Nat /\ n \in Nat /\ n + x + y <= z
  BY <1>1 DEF Has
<1>3. /\ \A k \in 1 .. x : t[n + k] = a[k]
      /\ \A k \in 1 .. y : t[n + x + k] = b[k]
  BY <1>1 DEF Has
<1>4. /\ Len(w) = x + y
      /\ \A k \in 1 .. x : w[k] = a[k]
      /\ \A k \in 1 .. y : w[x + k] = b[k]
  <2>1. a \in Seq(T) /\ b \in Seq(T)
    OBVIOUS
  <2> QED BY ONLY <1>1, <2>1, HasBoth DEF Has
<1>5. ASSUME NEW k \in 1 .. x + y PROVE t[n + k] = w[k]
  <2>1. CASE k <= x
    <3>1. k \in 1 .. x
      BY <1>2, <2>1
    <3> QED BY <1>3, <1>4, <3>1
  <2>2. CASE k > x
    <3>1. k - x \in 1 .. y /\ x + (k - x) = k /\ n + x + (k - x) = n + k
      BY <1>2, <2>2
    <3>2. t[n + x + (k - x)] = b[k - x] /\ w[x + (k - x)] = b[k - x]
      BY <1>3, <1>4, <3>1
    <3> QED BY <3>1, <3>2
  <2> QED BY <1>2, <2>1, <2>2
<1>6. n + (x + y) <= z
  BY <1>2
<1> QED BY <1>1, <1>2, <1>4, <1>5, <1>6 DEF Has

LEMMA FilesPartIs ==
    ASSUME metafile \in AllMetafiles, metafile.files # <<>>, content = Content(metafile)
    PROVE  /\ BeforeInfo(metafile) \in Seq(Symbols)
           /\ Has(content, Len(BeforeInfo(metafile)) + 3, <<"d">>)
           /\ Has(content, Len(BeforeInfo(metafile)) + 3 + 1, Key("files"))
           /\ Has(content, Len(BeforeInfo(metafile)) + 3 + 1 + 3 + 1, Each(metafile.files, File))
           /\ Has(content, Len(BeforeInfo(metafile)) + 3 + 1 + 3 + 1 + Len(Each(metafile.files, File)), <<"e">>)
<1>1. PICK m, z, a, b, c, d, e, f, g, h, n :
          /\ m = metafile /\ z = <<"d">> /\ a = LengthOrFiles(m) /\ b = Key("name") /\ c = Text(m.name)
          /\ d = Key("piece length") /\ e = Int_(m.piece_length) /\ f = Key("pieces") /\ g = Text(m.pieces)
          /\ h = <<"e">> /\ n = Len(BeforeInfo(m)) + 3
  OBVIOUS
<1>2. PICK k, l, s : k = Key("files") /\ l = <<"l">> /\ s = Each(m.files, File)
  OBVIOUS
<1>3. a = k \o l \o s \o h
  BY <1>1, <1>2 DEF LengthOrFiles
<1>4. /\ k \in Seq(Symbols) /\ l \in Seq(Symbols) /\ s \in Seq(Symbols) /\ h \in Seq(Symbols) /\ z \in Seq(Symbols)
      /\ b \in Seq(Symbols) /\ c \in Seq(Symbols) /\ d \in Seq(Symbols) /\ e \in Seq(Symbols)
      /\ f \in Seq(Symbols) /\ g \in Seq(Symbols) /\ a \in Seq(Symbols)
  <2>1. TextsIn(Symbols) = SomeTexts
    BY DEF TextsIn, SomeTexts
  <2>2. /\ m.name \in SomeTexts /\ m.pieces \in SomeTexts /\ m.piece_length \in Lengths
        /\ m.files \in Seq(TheFiles)
    <3>1. m.name \in FileTexts /\ m.pieces \in FileTexts /\ m.piece_length \in Lengths
      BY <1>1 DEF AllMetafiles
    <3>2. m.files \in Seq(TheFiles)
      BY <1>1 DEF AllMetafiles, TheFiles
    <3> QED BY <3>1, <3>2, SymbolsAre
  <2>3. {"files", "length", "path", "name", "piece length", "pieces"} \subseteq Words
    BY DEF Words
  <2>4. {"files", "length", "path", "name", "piece length", "pieces"} \subseteq Symbols /\ Characters \subseteq Symbols
    BY <2>3, SymbolsAre
  <2>5. /\ k \in Seq(Symbols) /\ l \in Seq(Symbols) /\ h \in Seq(Symbols) /\ z \in Seq(Symbols)
        /\ b \in Seq(Symbols) /\ c \in Seq(Symbols) /\ d \in Seq(Symbols) /\ e \in Seq(Symbols)
        /\ f \in Seq(Symbols) /\ g \in Seq(Symbols)
    BY <1>1, <1>2, <2>1, <2>2, <2>3, <2>4, PartsIn
  <2>6. m.files \in Seq(FilesIn(Symbols))
    <3>1. PICK r : r = m.files
      OBVIOUS
    <3>2. ASSUME NEW j \in 1 .. Len(r) PROVE r[j] \in FilesIn(Symbols)
      <4>1. PICK x, p : x = r[j] /\ p = x.path
        OBVIOUS
      <4>2. x \in TheFiles
        BY <2>2, <3>1, <4>1
      <4>3. x = [length |-> x.length, path |-> p] /\ x.length \in Lengths /\ p \in Seq(FileTexts)
        BY <4>1, <4>2 DEF TheFiles
      <4>4. \A y \in 1 .. Len(p) : p[y] \in SomeTexts
        BY <4>3, SymbolsAre
      <4>5. p \in Seq(SomeTexts)
        BY ONLY <4>3, <4>4, IsSeqOf
      <4> QED BY <2>1, <4>1, <4>3, <4>5 DEF FilesIn
    <3>3. r \in Seq(TheFiles)
      BY <2>2, <3>1
    <3>4. r \in Seq(FilesIn(Symbols))
      BY ONLY <3>2, <3>3, IsSeqOf
    <3> QED BY <3>1, <3>4
  <2>7. s \in Seq(Symbols)
    BY <1>2, <2>4, <2>6, EachFileIn
  <2>8. a \in Seq(Symbols)
    BY ONLY <1>3, <2>5, <2>7
  <2> QED BY <2>5, <2>7, <2>8
<1>5. Has(content, n, z \o a \o b \o c \o d \o e \o f \o g \o h)
  BY <1>1, ContentHas DEF Info, LengthOrFiles
<1>6. PICK p, q, r : p = z \o a \o b \o c /\ q = p \o d \o e \o f /\ r = q \o g
  OBVIOUS
<1>7. p \in Seq(Symbols) /\ q \in Seq(Symbols) /\ r \in Seq(Symbols)
  BY ONLY <1>4, <1>6
<1>8. content \in Seq(Symbols) /\ BeforeInfo(m) \in Seq(Symbols)
  BY <1>1, ContentHas
<1>9. Has(content, n, r)
  BY ONLY <1>4, <1>5, <1>6, <1>7, <1>8, HasBothInside
<1>10. Has(content, n, q)
  BY ONLY <1>4, <1>6, <1>7, <1>8, <1>9, HasBothInside
<1>11. Has(content, n, p)
  BY ONLY <1>4, <1>6, <1>7, <1>8, <1>10, HasFour
<1>12. Has(content, n, z) /\ Has(content, n + Len(z), a)
  BY ONLY <1>4, <1>6, <1>7, <1>8, <1>11, HasFour
<1>13. PICK o : o = n + Len(z)
  OBVIOUS
<1>14. /\ Has(content, o, k) /\ Has(content, o + Len(k) + Len(l), s)
       /\ Has(content, o + Len(k) + Len(l) + Len(s), h)
  <2>1. Has(content, o, k \o l \o s \o h)
    BY ONLY <1>3, <1>12, <1>13
  <2>2. /\ k \in Seq(Symbols) /\ l \in Seq(Symbols) /\ s \in Seq(Symbols) /\ h \in Seq(Symbols)
        /\ content \in Seq(Symbols)
    BY <1>4, <1>8
  <2> QED BY ONLY <2>1, <2>2, HasFour
<1>15. Len(z) = 1 /\ Len(l) = 1 /\ Len(k) = 3
  <2>1. "files" \in Words
    BY DEF Words
  <2> QED BY <1>1, <1>2, <2>1, KeyIs
<1>16. o = n + 1 /\ o + Len(k) + Len(l) = n + 1 + 3 + 1
  BY <1>13, <1>15
<1> QED BY <1>1, <1>2, <1>8, <1>12, <1>14, <1>16

LEMMA FilesAreFound ==
    ASSUME metafile \in AllMetafiles, KeysAreKeys, loaded, content = Content(metafile),
           metafile.files # <<>>, FilesFit
    PROVE  Found("files") /\ NewFiles = ReadOf(metafile.files)
<1>1. PICK b, k, d, s, n, T :
          /\ b = BeforeInfo(metafile) /\ k = Key("info") /\ d = <<"d">> /\ s = metafile.files
          /\ n = Len(b) /\ T = Bare("files")
  OBVIOUS
<1>2. "files" \in Words /\ "files" \in Keywords /\ "info" \in Words
  BY DEF Words, Keywords
<1>3. b \in Seq(T) /\ k \in Seq(T) /\ d \in Seq(T)
  <2>1. /\ Characters \subseteq T /\ Words \ {"files"} \subseteq T
        /\ metafile.announce \in TextsIn(T) /\ metafile.comment \in TextsIn(T)
        /\ metafile.tiers \in Seq(Seq(TextsIn(T)))
    BY <1>1, <1>2, BareIs, TextsAreBare
  <2>2. "announce" \in T /\ "announce-list" \in T /\ "comment" \in T /\ "info" \in T
    BY <2>1 DEF Words
  <2>3. b \in Seq(T)
    BY <1>1, <2>1, <2>2, BeforeInfoIn
  <2> QED BY <1>1, <1>2, <2>1, <2>2, <2>3, PartsIn
<1>4. /\ content \in Seq(Symbols) /\ b \in Seq(Symbols) /\ Has(content, 0, b) /\ Has(content, n, k)
      /\ Has(content, n + 3, d) /\ Has(content, n + 3 + 1, Key("files"))
      /\ Has(content, n + 3 + 1 + 3 + 1, Each(s, File))
      /\ Has(content, n + 3 + 1 + 3 + 1 + Len(Each(s, File)), <<"e">>)
  BY <1>1, ContentHas, FilesPartIs
<1>5. k \in Seq(Symbols) /\ Len(k) = 3 /\ d \in Seq(Symbols) /\ Len(d) = 1 /\ n \in Nat
  <2>1. d \in Seq(Symbols) /\ Len(d) = 1
    BY <1>1, SymbolsAre, PartsIn
  <2> QED BY <1>1, <1>2, <1>4, <2>1, KeyIs
<1>6. PICK x, y : x = b \o k /\ y = x \o d
  OBVIOUS
<1>7. x \in Seq(Symbols) /\ Len(x) = n + 3
  BY <1>1, <1>4, <1>5, <1>6, HasBoth
<1>8. y \in Seq(Symbols) /\ Len(y) = n + 3 + 1
  <2>1. x \in Seq(Symbols) /\ d \in Seq(Symbols)
    BY <1>5, <1>7
  <2>2. y \in Seq(Symbols) /\ Len(y) = Len(x) + Len(d)
    BY ONLY <1>6, <2>1, HasBoth
  <2> QED BY <1>5, <1>7, <2>2
<1>9. y \in Seq(T)
  BY ONLY <1>3, <1>6
<1>10. Has(content, 0, y)
  <2>1. 0 + Len(b) = n /\ 0 + Len(x) = n + 3
    BY <1>1, <1>5, <1>7
  <2>2. Has(content, 0, x)
    BY <1>4, <1>5, <1>6, <2>1, HasOneAfterOther
  <2> QED BY <1>4, <1>5, <1>6, <1>7, <2>1, <2>2, HasOneAfterOther
<1>11. n + 3 + 1 \in Nat /\ \A z \in 1 .. n + 3 + 1 : content[z] # "files"
  BY <1>1, <1>8, <1>9, <1>10, BeginsBare
<1>12. Found("files") /\ After("files") = n + 3 + 1 + 3
  BY <1>2, <1>4, <1>11, KeyIsFound
<1>13. s \in Seq(TheFiles) /\ \A j \in 1 .. Len(s) : Fits(s[j])
  <2>1. s \in Seq(TheFiles)
    BY <1>1 DEF AllMetafiles, TheFiles
  <2>2. DOMAIN s = 1 .. Len(s)
    BY <2>1
  <2> QED BY <1>1, <2>1, <2>2 DEF FilesFit, Fits
<1>14. FileList[n + 3 + 1 + 3 + 1] = ReadOf(s)
  BY <1>4, <1>13, FilesAreTaken
<1> QED BY <1>1, <1>12, <1>14 DEF NewFiles

LEMMA FilesAreCounted ==
    ASSUME NEW s \in Seq(TheFiles)
    PROVE  TotalLength(ReadOf(s)) = TotalLength(s) /\ Len(ReadOf(s)) = Len(s) /\ TotalLength(s) \in Nat
<1>1. PICK n, r, A : n = Len(s) /\ r = ReadOf(s) /\ A = {r[k] : k \in 1 .. n}
  OBVIOUS
<1>2. n \in Nat
  BY <1>1
<1>3. \A k \in 1 .. n : r[k] = [length |-> s[k].length, path |-> s[k].path[1]]
  BY <1>1 DEF ReadOf
<1>4. r \in Seq(A) /\ Len(r) = n
  <2>1. r = [k \in 1 .. n |-> r[k]]
    BY <1>1 DEF ReadOf
  <2>2. \A k \in 1 .. n : r[k] \in A
    BY <1>1
  <2> QED BY ONLY <1>2, <2>1, <2>2, MadeSeq
<1>5. ASSUME NEW k \in 1 .. n PROVE s[k].length \in Nat
  <2>1. PICK f : f = s[k]
    OBVIOUS
  <2>2. f \in TheFiles
    BY <1>1, <2>1
  <2>3. f.length \in Lengths
    BY <2>2 DEF TheFiles
  <2> QED BY <2>1, <2>3, DecimalIs
<1>6. ASSUME NEW k \in 1 .. n PROVE r[k].length = s[k].length
  <2>1. PICK a, b, f : a = s[k].length /\ b = s[k].path[1] /\ f = r[k]
    OBVIOUS
  <2>2. f = [length |-> a, path |-> b]
    BY <1>3, <2>1
  <2>3. f.length = a
    BY ONLY <2>2
  <2> QED BY <2>1, <2>3
<1>7. Measured(s) /\ Measured(r)
  BY <1>1, <1>4, <1>5, <1>6 DEF Measured
<1>8. TotalLength(r) = TotalLength(s)
  BY <1>1, <1>4, <1>6, <1>7, TotalsAgree
<1>9. TotalLength(s) \in Nat
  <2>1. \A k \in 1 .. Len(s) : s[k].length \in Nat
    BY <1>1, <1>5
  <2> QED BY <2>1, TotalIsNat
<1> QED BY <1>1, <1>4, <1>8, <1>9

TrackersInv ==
    /\ (calls <= 1 \/ ~loaded) => announce_list = <<>>
    /\ calls > 1 /\ loaded /\ KeysAreKeys /\ OneUrlEach /\ UrlsFit => announce_list = AnnouncedUrls

FilesInv ==
    /\ calls < 5 => files = <<>> /\ wild = FALSE /\ file_length = 0
    /\ calls = 5 /\ KeysAreKeys /\ announce_list # <<>> /\ metafile.files # <<>> /\ FilesFit
         /\ state # "crashed" =>
        /\ file_length = TotalLength(metafile.files)
        /\ Len(files) = Len(metafile.files)

ReadMainInv == caller = "main" => TrackersInv /\ FilesInv

LEMMA ReadMainBegins == Init => ReadMainInv
BY DEF Init, ReadMainInv, TrackersInv, FilesInv

\* The functions main calls, in its order.
LEMMA MainDoes ==
    ASSUME InfoInv, Next, caller = "main"
    PROVE  /\ metafile' = metafile /\ caller' = caller /\ calls \in 0 .. 5
           /\ \/ calls = 0 /\ calls' = 1 /\ read_metafile
              \/ calls = 1 /\ calls' = 2 /\ read_announce_list
              \/ calls = 2 /\ calls' = 3 /\ get_info_hash
              \/ calls = 3 /\ calls' = 4 /\ get_peer_id
              \/ calls = 4 /\ calls' = 5 /\ HasTracker /\ get_file_length
              \/ calls = 4 /\ calls' = 5 /\ NoTracker
              \/ calls = 5 /\ calls' = 5 /\ MainGoesOn
              \/ ScanStep
              \/ Ended
<1>1. metafile' = metafile /\ caller' = caller /\ calls \in 0 .. 5
  BY FunctionsKeep DEF InfoInv, MainInv
<1>2. ASSUME NEW f, Call(f)
      PROVE  /\ calls' = calls + 1
             /\ \/ calls = 0 /\ f = "read_metafile"
                \/ calls = 1 /\ f = "read_announce_list"
                \/ calls = 2 /\ f = "get_info_hash"
                \/ calls = 3 /\ f = "get_peer_id"
                \/ calls = 4 /\ f = "get_file_length"
  <2>1. calls' = calls + 1 /\ calls < 5 /\ MainOrder[calls + 1] = f
    BY <1>2, CallIs
  <2>2. calls = 0 \/ calls = 1 \/ calls = 2 \/ calls = 3 \/ calls = 4
    BY <1>1, <2>1
  <2>3. /\ MainOrder[0 + 1] = "read_metafile" /\ MainOrder[1 + 1] = "read_announce_list"
        /\ MainOrder[2 + 1] = "get_info_hash" /\ MainOrder[3 + 1] = "get_peer_id"
        /\ MainOrder[4 + 1] = "get_file_length"
    BY DEF MainOrder
  <2>4. CASE calls = 0
    BY ONLY <2>1, <2>3, <2>4
  <2>5. CASE calls = 1
    BY ONLY <2>1, <2>3, <2>5
  <2>6. CASE calls = 2
    BY ONLY <2>1, <2>3, <2>6
  <2>7. CASE calls = 3
    BY ONLY <2>1, <2>3, <2>7
  <2>8. CASE calls = 4
    BY ONLY <2>1, <2>3, <2>8
  <2> QED BY <2>2, <2>4, <2>5, <2>6, <2>7, <2>8
<1>3. ASSUME NEW f, Call(f), f \notin {"read_metafile", "read_announce_list", "get_info_hash", "get_peer_id",
                                      "get_file_length"}
      PROVE  FALSE
  BY <1>2, <1>3
<1>4. MainGoesOn => calls = 5 /\ calls' = 5
  BY DEF MainGoesOn, MainOrder
<1>5. CASE Call("read_metafile") /\ read_metafile
  BY <1>1, <1>2, <1>5
<1>6. CASE Call("read_announce_list") /\ read_announce_list
  BY <1>1, <1>2, <1>6
<1>7. CASE Call("get_info_hash") /\ get_info_hash
  BY <1>1, <1>2, <1>7
<1>8. CASE Call("get_peer_id") /\ get_peer_id
  BY <1>1, <1>2, <1>8
<1>9. CASE Call("get_file_length") /\ HasTracker /\ get_file_length
  BY <1>1, <1>2, <1>9
<1>10. CASE NoTracker
  <2>1. Call("get_file_length")
    BY <1>10 DEF NoTracker
  <2> QED BY <1>1, <1>2, <1>10, <2>1
<1> QED BY <1>1, <1>3, <1>4, <1>5, <1>6, <1>7, <1>8, <1>9, <1>10 DEF Next

LEMMA ReadStays ==
    ASSUME metafile' = metafile
    PROVE  /\ KeysAreKeys' <=> KeysAreKeys
           /\ (OneUrlEach' <=> OneUrlEach) /\ (UrlsFit' <=> UrlsFit)
           /\ FilesFit' <=> FilesFit
           /\ AnnouncedUrls' = AnnouncedUrls
BY DEF KeysAreKeys, OneUrlEach, UrlsFit, FilesFit, AnnouncedUrls

\* Urls that fit are kept as they are.
Fitting == {url \in Seq(STRING) : Len(url) < AnnounceSize}

LEMMA AnnouncedUrlsFit ==
    ASSUME metafile \in AllMetafiles, OneUrlEach, UrlsFit
    PROVE  AnnouncedUrls \in Seq(Fitting) /\ [k \in DOMAIN AnnouncedUrls |-> Kept(AnnouncedUrls[k])] = AnnouncedUrls
<1>1. PICK tiers : tiers = metafile.tiers
  OBVIOUS
<1>2. metafile.announce \in FileTexts /\ tiers \in Seq(Seq(FileTexts))
  BY <1>1 DEF AllMetafiles
<1>3. AnnouncedUrls \in Seq(Fitting)
  <2>1. CASE tiers = <<>>
    <3>1. metafile.announce \in Fitting
      BY <1>2 DEF UrlsFit, Fitting, FileTexts
    <3> QED BY <1>1, <2>1, <3>1 DEF AnnouncedUrls
  <2>2. CASE tiers # <<>>
    <3>1. PICK G : G = [k \in DOMAIN tiers |-> IF tiers[k][1][1] = "http" THEN tiers[k] ELSE <<>>]
      OBVIOUS
    <3>2. ASSUME NEW k \in DOMAIN tiers PROVE tiers[k] \in Seq(Fitting)
      <4>1. PICK t : t = tiers[k]
        OBVIOUS
      <4>2. t \in Seq(FileTexts)
        BY <1>2, <4>1, ElementOfSeq
      <4>3. \A j \in DOMAIN t : t[j] \in ToSet(t)
        BY DEF ToSet
      <4>4. \A j \in DOMAIN t : Len(t[j]) < AnnounceSize
        BY <1>1, <4>1, <4>3 DEF UrlsFit
      <4>5. \A j \in 1 .. Len(t) : t[j] \in Fitting
        BY <4>2, <4>4, ElementOfSeq DEF Fitting, FileTexts
      <4>6. t \in Seq(Fitting)
        BY ONLY <4>2, <4>5, IsSeqOf
      <4> QED BY <4>1, <4>6
    <3>3. G \in Seq(Seq(Fitting))
      <4>1. PICK n : n = Len(tiers)
        OBVIOUS
      <4>2. n \in Nat /\ DOMAIN tiers = 1 .. n
        BY <1>2, <4>1
      <4>3. <<>> \in Seq(Fitting)
        OBVIOUS
      <4>4. \A k \in 1 .. n : G[k] \in Seq(Fitting)
        BY <3>1, <3>2, <4>2, <4>3
      <4>5. G = [k \in 1 .. n |-> G[k]]
        BY <3>1, <4>2
      <4> QED BY ONLY <4>2, <4>4, <4>5, MadeSeq
    <3>4. PICK F : Built(G, F, Fitting)
      BY <3>3, FlatBuilt
    <3>5. FlattenSeq(G) \in Seq(Fitting)
      <4>1. Len(G) \in Nat
        BY <3>3
      <4> QED BY <3>4, <4>1 DEF Built
    <3> QED BY <1>1, <2>2, <3>1, <3>5 DEF AnnouncedUrls
  <2> QED BY <2>1, <2>2
<1>4. PICK u : u = AnnouncedUrls
  OBVIOUS
<1>5. \A k \in DOMAIN u : Kept(u[k]) = u[k]
  <2>1. \A k \in 1 .. Len(u) : u[k] \in Fitting
    BY <1>3, <1>4, ElementOfSeq
  <2>2. DOMAIN u = 1 .. Len(u)
    BY <1>3, <1>4
  <2> QED BY <2>1, <2>2 DEF Kept, Fitting
<1>6. [k \in DOMAIN u |-> Kept(u[k])] = u
  <2>1. u = [k \in DOMAIN u |-> u[k]]
    BY ONLY <1>3, <1>4
  <2> QED BY <1>5, <2>1
<1> QED BY <1>3, <1>4, <1>6

LEMMA ReadMainGoesOn == InfoInv /\ ReadMainInv /\ [Next]_vars => ReadMainInv'
<1> SUFFICES ASSUME InfoInv, ReadMainInv, [Next]_vars, caller' = "main" PROVE (TrackersInv /\ FilesInv)'
  BY DEF ReadMainInv
<1>1. CASE UNCHANGED vars
  BY <1>1, ReadStays DEF vars, hashVars, progVars, listVars, dataVars, ReadMainInv, TrackersInv, FilesInv
<1>2. CASE Next
  <2>1. caller = "main" /\ metafile' = metafile /\ calls \in 0 .. 5 /\ metafile \in AllMetafiles
    BY <1>2, FunctionsKeep DEF InfoInv, MainInv
  <2>2. /\ loaded /\ calls < 5 => content = Content(metafile)
        /\ TrackersInv /\ FilesInv
    BY <2>1 DEF InfoInv, MainInv, ReadMainInv
  <2>3. /\ KeysAreKeys' <=> KeysAreKeys
        /\ (OneUrlEach' <=> OneUrlEach) /\ (UrlsFit' <=> UrlsFit)
        /\ FilesFit' <=> FilesFit
        /\ AnnouncedUrls' = AnnouncedUrls
    BY <2>1, ReadStays
  <2>4. ASSUME UNCHANGED <<announce_list, files, wild, file_length>>, state' = state,
               calls' = calls \/ (calls' = calls + 1 /\ calls < 4 /\ calls # 1),
               loaded' = loaded \/ calls = 0
        PROVE  (TrackersInv /\ FilesInv)'
    BY <2>1, <2>2, <2>3, <2>4 DEF TrackersInv, FilesInv
  <2>5. CASE calls = 0 /\ calls' = 1 /\ read_metafile
    BY <2>4, <2>5 DEF read_metafile, listVars, dataVars
  <2>6. CASE calls = 2 /\ calls' = 3 /\ get_info_hash
    BY <2>4, <2>6 DEF get_info_hash, listVars, dataVars
  <2>7. CASE calls = 3 /\ calls' = 4 /\ get_peer_id
    BY <2>4, <2>7 DEF get_peer_id, listVars, dataVars
  <2>8. CASE ScanStep \/ Ended
    BY <2>4, <2>8 DEF ScanStep, Ended, vars, progVars, listVars, dataVars
  <2>9. CASE calls = 1 /\ calls' = 2 /\ read_announce_list
    <3>1. UNCHANGED <<files, wild, file_length, loaded>>
      BY <2>9 DEF read_announce_list, dataVars
    <3>2. announce_list = <<>>
      BY <2>2, <2>9 DEF TrackersInv
    <3>3. CASE ~loaded
      <4>1. find_keyword("announce-list") = NoFile /\ ~Found("announce-list")
        BY <3>3 DEF find_keyword, filesize, Found, NoFile
      <4>2. NewUrls = <<>>
        BY <4>1 DEF NewUrls, NoFile, NotFound
      <4>3. announce_list' = <<>> \o [k \in DOMAIN <<>> |-> Kept(NewUrls[k])]
        BY <2>9, <3>2, <4>2 DEF read_announce_list
      <4>4. announce_list' = <<>>
        BY <4>3
      <4> QED BY <2>2, <2>9, <3>1, <3>3, <4>4 DEF TrackersInv, FilesInv
    <3>4. CASE loaded
      <4>1. ASSUME KeysAreKeys, OneUrlEach, UrlsFit PROVE announce_list' = AnnouncedUrls
        <5>1. content = Content(metafile)
          BY <2>2, <2>9, <3>4
        <5>2. NewUrls = AnnouncedUrls
          <6>1. CASE metafile.tiers = <<>>
            BY <2>1, <3>4, <4>1, <5>1, <6>1, AnnounceIsFound DEF NewUrls, AnnouncedUrls
          <6>2. CASE metafile.tiers # <<>>
            BY <2>1, <3>4, <4>1, <5>1, <6>2, TiersAreFound DEF NewUrls
          <6> QED BY <6>1, <6>2
        <5>3. PICK u, T : u = AnnouncedUrls /\ T = Fitting
          OBVIOUS
        <5>4. u \in Seq(T) /\ [k \in DOMAIN u |-> Kept(u[k])] = u
          BY <2>1, <4>1, <5>3, AnnouncedUrlsFit
        <5>5. announce_list' = <<>> \o u
          BY <2>9, <3>2, <5>2, <5>3, <5>4 DEF read_announce_list
        <5>6. announce_list' = u
          BY ONLY <5>4, <5>5
        <5> QED BY <5>3, <5>6
      <4> QED BY <2>2, <2>3, <2>9, <3>1, <3>4, <4>1 DEF TrackersInv, FilesInv
    <3> QED BY <3>3, <3>4
  <2>10. CASE calls = 4 /\ calls' = 5 /\ NoTracker
    <3>1. announce_list = <<>> /\ UNCHANGED <<announce_list, loaded>>
      BY <2>10 DEF NoTracker, HasTracker, listVars
    <3> QED BY <2>2, <2>3, <2>10, <3>1 DEF TrackersInv, FilesInv
  <2>11. CASE calls = 5 /\ calls' = 5 /\ MainGoesOn
    <3>1. UNCHANGED <<announce_list, loaded, files, wild, file_length>> /\ state = "runs"
      BY <2>11 DEF MainGoesOn, listVars, dataVars
    <3> QED BY <2>1, <2>2, <2>3, <2>11, <3>1 DEF TrackersInv, FilesInv
  <2>12. CASE calls = 4 /\ calls' = 5 /\ HasTracker /\ get_file_length
    <3>1. UNCHANGED <<announce_list, loaded>> /\ announce_list # <<>>
      BY <2>1, <2>12 DEF get_file_length, HasTracker
    <3>2. files = <<>> /\ wild = FALSE /\ file_length = 0 /\ loaded
      BY <2>2, <2>12, <3>1 DEF FilesInv, TrackersInv
    <3>3. ASSUME KeysAreKeys, metafile.files # <<>>, FilesFit, state' # "crashed"
          PROVE  file_length' = TotalLength(metafile.files) /\ Len(files') = Len(metafile.files)
      <4>1. content = Content(metafile)
        BY <2>2, <2>12, <3>2
      <4>2. Found("files") /\ NewFiles = ReadOf(metafile.files)
        BY <2>1, <3>2, <3>3, <4>1, FilesAreFound DEF FilesFit
      <4>3. files' = ReadOf(metafile.files) /\ file_length' = Long(0 + TotalLength(ReadOf(metafile.files)))
        BY <2>12, <3>2, <3>3, <4>2 DEF get_file_length, LengthOfAll
      <4>4. metafile.files \in Seq(TheFiles)
        BY <2>1 DEF AllMetafiles, TheFiles
      <4>5. /\ TotalLength(ReadOf(metafile.files)) = TotalLength(metafile.files)
            /\ Len(ReadOf(metafile.files)) = Len(metafile.files) /\ TotalLength(metafile.files) \in Nat
        BY <4>4, FilesAreCounted
      <4>6. Long(0 + TotalLength(metafile.files)) = TotalLength(metafile.files)
        BY <3>3, <4>5, WrappedIs DEF FilesFit
      <4> QED BY <4>3, <4>5, <4>6
    <3>4. TrackersInv'
      BY <2>2, <2>3, <2>12, <3>1 DEF TrackersInv
    <3>5. FilesInv'
      BY <2>1, <2>3, <2>12, <3>3 DEF FilesInv
    <3> QED BY <3>4, <3>5
  <2> QED BY <1>2, <2>1, <2>5, <2>6, <2>7, <2>8, <2>9, <2>10, <2>11, <2>12, MainDoes
<1> QED BY <1>1, <1>2

\* Whatever the metafile, its texts and lengths of any size (none of them empty
\* or 0), and whatever the order of the calls, the types hold.  And of every
\* metafile in which no text is a keyword, main reads the trackers, if there is
\* one url in each tier and every url fits annouce, and the number and the
\* lengths of the files, if each path has one part, which fits path, and the
\* lengths and their sum fit a long long.
THEOREM MetafileIsRead == Spec => []ReadInv
<1>1. Init => InfoInv /\ Typed /\ ReadMainInv
  BY InfoBegins, TypedBegins, ReadMainBegins
<1>2. InfoInv /\ Typed /\ ReadMainInv /\ [Next]_vars => (InfoInv /\ Typed /\ ReadMainInv)'
  BY InfoGoesOn, TypedGoesOn, ReadMainGoesOn
<1>3. InfoInv /\ Typed /\ ReadMainInv => ReadInv
  <2> SUFFICES ASSUME InfoInv, Typed, ReadMainInv PROVE ReadInv
    OBVIOUS
  <2>1. TypeOK
    BY DEF TypeOK, Typed, ScanTyped, DataTyped, ListsTyped, ProgTyped
  <2>2. TrackersAreRead
    BY DEF TrackersAreRead, ReadMainInv, TrackersInv
  <2>3. LengthOfFilesIsRead
    <3>1. Len(MainOrder) = 5
      BY DEF MainOrder
    <3> QED BY <3>1 DEF LengthOfFilesIsRead, ReadMainInv, FilesInv, FilesFit
  <2> QED BY <2>1, <2>2, <2>3 DEF ReadInv
<1> QED BY <1>1, <1>2, <1>3, PTL DEF Spec

=============================================================================
