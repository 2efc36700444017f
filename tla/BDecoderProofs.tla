--------------------------- MODULE BDecoderProofs --------------------------
(***************************************************************************)
(* Proofs about BDecoder, for files of any length and any width of         *)
(* tab_cursor: the depth printed follows the calls until it wraps, and     *)
(* where the file is B code each call returns at the end of the value it   *)
(* was made for.                                                           *)
(***************************************************************************)
EXTENDS BDecoder, BencodeProofs

\* The dictionaries under the top of the stack are in the call for a value,
\* and the one on top is not.
UnderOK(f) == (f.call = "array" => f.at = "key") /\ (f.call = "dictionary" => f.at = "in value")
TopOK(f)   == (f.call = "array" => f.at = "key") /\ (f.call = "dictionary" => f.at # "in value")

Under(s)  == \A k \in 1 .. Len(s) : UnderOK(s[k])
Framed(s) == \A k \in 1 .. Len(s) : IF k = Len(s) THEN TopOK(s[k]) ELSE UnderOK(s[k])

\* What a call is yet to read, from position a to before the 'e' at its end.
Inside(c, f, a, b) ==
    IF f.call = "array" THEN AreVals(c, a, b)
    ELSE IF f.at = "value" THEN \E m \in Nat : IsVal(c, a, m) /\ ArePairs(c, m, b)
    ELSE ArePairs(c, a, b)

\* The call's value ends before position x, and the rest of it begins at a.
FrameInv(c, f, a, x) == IsVal(c, f.from, x) /\ c[x] = "e" /\ Inside(c, f, a, x - 1)

\* Where the rest begins of what the k-th call is to read, if the calls end
\* before the positions e.
Rest(cursor, e, k) == IF k = Len(e) THEN cursor ELSE e[k + 1]

Plan(c, cursor, s, e) ==
    /\ Len(e) = Len(s)
    /\ AreVals(c, Rest(cursor, e, 0), Len(c))
    /\ \A k \in 1 .. Len(s) : FrameInv(c, s[k], Rest(cursor, e, k), e[k])

Planned(c, cursor, s) == \E e \in Seq(Nat) : Plan(c, cursor, s, e)

\* The inductive invariant.  What DecoderInv says of B code holds because each
\* open call has the rest of its own value before it.
DocumentInv ==
    content \in Documents => Planned(content, file_cursor, stack) /\ pc # "overrun"

DoneInv == pc = "done" => stack = <<>> /\ file_cursor >= file_size

\* The depth printed is that of the calls and of the tabs left on, as far as
\* tab_cursor holds it.  Each of these tabs stands for a character read, and so
\* does a key that waits for its value.
WaitsOf(s) == IF s # <<>> /\ Last(s).call = "dictionary" /\ Last(s).at = "value" THEN 1 ELSE 0

LeftOn(left) ==
    /\ left \in Nat
    /\ tab_cursor = UShort(TabsOf(stack) + left)
    /\ TabsOf(stack) + left + WaitsOf(stack) <= file_cursor
    /\ content \in Documents => left = 0

TabsInv == \E left : LeftOn(left)

IInv == /\ TypeOK /\ TabsInv /\ Framed(stack) /\ content \in Contents
        /\ DoneInv /\ DocumentInv

-----------------------------------------------------------------------------
(***************************************************************************)
(* The stack.                                                              *)
(***************************************************************************)
LEMMA FrontLast ==
    ASSUME NEW S, NEW s \in Seq(S), NEW f \in S
    PROVE  Front(Append(s, f)) = s /\ Last(Append(s, f)) = f
<1> DEFINE t == Append(s, f)
<1>1. /\ t \in Seq(S) /\ Len(t) = Len(s) + 1 /\ Len(s) \in Nat
      /\ \A i \in 1 .. Len(s) : t[i] = s[i]
      /\ t[Len(s) + 1] = f
  BY AppendProperties
<1> HIDE DEF t
<1>2. Last(t) = f
  BY <1>1 DEF Last
<1>3. Front(t) = s
  <2>1. Front(t) = SubSeq(t, 1, Len(s))
    BY <1>1 DEF Front
  <2>2. \A i \in 1 .. Len(s) : t[i] \in S
    BY <1>1
  <2>3. /\ SubSeq(t, 1, Len(s)) \in Seq(S)
        /\ Len(SubSeq(t, 1, Len(s))) = IF 1 <= Len(s) THEN Len(s) - 1 + 1 ELSE 0
        /\ \A i \in 1 .. Len(s) - 1 + 1 : SubSeq(t, 1, Len(s))[i] = t[1 + i - 1]
    BY <1>1, <2>2, SubSeqProperties
  <2>4. Len(SubSeq(t, 1, Len(s))) = Len(s)
    BY <1>1, <2>3
  <2>5. \A i \in 1 .. Len(s) : SubSeq(t, 1, Len(s))[i] = s[i]
    BY <1>1, <2>3
  <2> QED BY <2>1, <2>3, <2>4, <2>5, SeqEqual
<1> QED BY <1>2, <1>3 DEF t

\* A stack of calls with one on top.
OnTop(s, t, f) ==
    /\ t \in Seq(Frame) /\ f \in Frame /\ s = Append(t, f)
    /\ Front(s) = t /\ Last(s) = f
    /\ Len(t) \in Nat /\ Len(s) = Len(t) + 1

LEMMA TopOf ==
    ASSUME NEW s \in Seq(Frame), s # <<>>
    PROVE  OnTop(s, Front(s), Last(s))
<1>1. PICK t \in Seq(Frame), f \in Frame : s = Append(t, f)
  BY SequenceEmptyOrAppend
<1>2. Front(s) = t /\ Last(s) = f
  BY <1>1, FrontLast
<1>3. Len(t) \in Nat /\ Len(s) = Len(t) + 1
  BY <1>1, AppendProperties
<1> QED BY <1>1, <1>2, <1>3 DEF OnTop

LEMMA AppendOnTop ==
    ASSUME NEW t \in Seq(Frame), NEW f \in Frame
    PROVE  OnTop(Append(t, f), t, f) /\ Append(t, f) \in Seq(Frame) /\ Append(t, f) # <<>>
<1>1. Front(Append(t, f)) = t /\ Last(Append(t, f)) = f
  BY FrontLast
<1>2. Append(t, f) \in Seq(Frame) /\ Append(t, f) # <<>> /\ Len(Append(t, f)) = Len(t) + 1
  BY AppendProperties
<1> QED BY <1>1, <1>2 DEF OnTop

LEMMA OneFrame ==
    ASSUME NEW s, NEW t, NEW f, OnTop(s, t, f)
    PROVE  \A k \in 1 .. Len(s) : s[k] = IF k = Len(s) THEN f ELSE t[k]
<1>1. \A i \in 1 .. Len(t) : Append(t, f)[i] = t[i]
  BY AppendProperties DEF OnTop
<1>2. Append(t, f)[Len(t) + 1] = f
  BY AppendProperties DEF OnTop
<1> QED BY <1>1, <1>2 DEF OnTop

-----------------------------------------------------------------------------
(***************************************************************************)
(* The sum that TabsOf defines.                                            *)
(***************************************************************************)
TabsStep(f, s, k) == IF k = 0 THEN 0 ELSE f[k - 1] + Tab(s[k])
IsTabs(f, s, n) == f = [k \in 0 .. n |-> TabsStep(f, s, k)]

LEMMA TabsExist == ASSUME NEW s, NEW N \in Nat PROVE \E f : IsTabs(f, s, N)
<1> DEFINE S == {n \in Nat : \E f : IsTabs(f, s, n)}
<1>1. 0 \in S
  <2> DEFINE f == [k \in 0 .. 0 |-> 0]
  <2>1. IsTabs(f, s, 0)
    BY DEF IsTabs, TabsStep
  <2> HIDE DEF f
  <2> QED BY <2>1
<1>2. ASSUME NEW n \in S PROVE n + 1 \in S
  <2>1. PICK f : IsTabs(f, s, n)
    OBVIOUS
  <2> DEFINE h == [k \in 0 .. n + 1 |-> IF k = n + 1 THEN f[n] + Tab(s[n + 1]) ELSE f[k]]
  <2>2. /\ \A k \in 0 .. n : h[k] = f[k]
        /\ h[n + 1] = f[n] + Tab(s[n + 1])
        /\ h = [k \in 0 .. n + 1 |-> h[k]]
    OBVIOUS
  <2> HIDE DEF h
  <2>3. \A k \in 0 .. n : f[k] = TabsStep(f, s, k)
    BY <2>1 DEF IsTabs
  <2>4. ASSUME NEW k \in 0 .. n + 1 PROVE h[k] = TabsStep(h, s, k)
    <3>1. CASE k = n + 1
      <4>1. n + 1 # 0 /\ n + 1 - 1 = n /\ n \in 0 .. n
        OBVIOUS
      <4>2. h[n] = f[n]
        BY <2>2, <4>1
      <4>3. TabsStep(h, s, n + 1) = h[n] + Tab(s[n + 1])
        BY <4>1 DEF TabsStep
      <4> QED BY <2>2, <3>1, <4>2, <4>3
    <3>2. CASE k # n + 1
      <4>1. k \in 0 .. n /\ (k # 0 => k - 1 \in 0 .. n)
        BY <3>2
      <4>2. TabsStep(h, s, k) = TabsStep(f, s, k)
        BY <2>2, <4>1 DEF TabsStep
      <4> QED BY <2>2, <2>3, <4>1, <4>2
    <3> QED BY <3>1, <3>2
  <2>5. IsTabs(h, s, n + 1)
    BY <2>2, <2>4 DEF IsTabs
  <2> QED BY <2>5
<1>3. S = Nat
  <2>1. S \in SUBSET Nat
    OBVIOUS
  <2> HIDE DEF S
  <2> QED BY <1>1, <1>2, <2>1, NatFromBefore
<1> QED BY <1>3

\* TabsOf is the last value of the one solution of its equation.
LEMMA TabsSolve ==
    ASSUME NEW s, Len(s) \in Nat
    PROVE  \E f : IsTabs(f, s, Len(s)) /\ TabsOf(s) = f[Len(s)]
<1>1. \E f : IsTabs(f, s, Len(s))
  BY TabsExist
<1>2. TabsOf(s) = (CHOOSE f : IsTabs(f, s, Len(s)))[Len(s)]
  BY DEF TabsOf, IsTabs, TabsStep
<1>3. IsTabs(CHOOSE f : IsTabs(f, s, Len(s)), s, Len(s))
  BY <1>1
<1> QED BY <1>2, <1>3

LEMMA TabsAgree ==
    ASSUME NEW n \in Nat, NEW m \in Nat, n <= m, NEW s, NEW t, NEW f, NEW g,
           IsTabs(f, s, n), IsTabs(g, t, m), \A k \in 1 .. n : s[k] = t[k]
    PROVE  \A k \in 0 .. n : f[k] = g[k] /\ f[k] \in Nat
<1> DEFINE S == {k \in Nat : k <= n => f[k] = g[k] /\ f[k] \in Nat}
<1>1. /\ \A k \in 0 .. n : f[k] = TabsStep(f, s, k)
      /\ \A k \in 0 .. m : g[k] = TabsStep(g, t, k)
  BY DEF IsTabs
<1>2. 0 \in S
  BY <1>1 DEF TabsStep
<1>3. ASSUME NEW k \in S PROVE k + 1 \in S
  <2>1. SUFFICES ASSUME k + 1 <= n PROVE f[k + 1] = g[k + 1] /\ f[k + 1] \in Nat
    OBVIOUS
  <2>2. f[k] = g[k] /\ f[k] \in Nat
    BY <2>1
  <2>3. k + 1 # 0 /\ k + 1 - 1 = k /\ k + 1 \in 0 .. n /\ k + 1 \in 0 .. m /\ k + 1 \in 1 .. n
    BY <2>1
  <2>4. f[k + 1] = f[k] + Tab(s[k + 1]) /\ g[k + 1] = g[k] + Tab(t[k + 1])
    BY <1>1, <2>3 DEF TabsStep
  <2>5. s[k + 1] = t[k + 1] /\ Tab(s[k + 1]) \in Nat
    BY <2>3 DEF Tab
  <2> QED BY <2>2, <2>4, <2>5
<1>4. S = Nat
  <2>1. S \in SUBSET Nat
    OBVIOUS
  <2> HIDE DEF S
  <2> QED BY <1>2, <1>3, <2>1, NatFromBefore
<1> QED BY <1>4

LEMMA TabsNat == ASSUME NEW s, Len(s) \in Nat PROVE TabsOf(s) \in Nat
<1>1. PICK f : IsTabs(f, s, Len(s)) /\ TabsOf(s) = f[Len(s)]
  BY TabsSolve
<1>2. \A k \in 0 .. Len(s) : f[k] = f[k] /\ f[k] \in Nat
  BY <1>1, TabsAgree
<1> QED BY <1>1, <1>2

LEMMA TabsEmpty == TabsOf(<<>>) = 0
<1>1. Len(<<>>) = 0
  OBVIOUS
<1>2. PICK f : IsTabs(f, <<>>, 0) /\ TabsOf(<<>>) = f[0]
  BY <1>1, TabsSolve
<1>3. f[0] = 0
  BY <1>2 DEF IsTabs, TabsStep
<1> QED BY <1>2, <1>3

LEMMA TabsTop ==
    ASSUME NEW s, NEW t, NEW f, OnTop(s, t, f)
    PROVE  TabsOf(s) = TabsOf(t) + Tab(f)
<1>1. Len(t) \in Nat /\ Len(s) \in Nat /\ Len(s) = Len(t) + 1
  BY DEF OnTop
<1>2. PICK x : IsTabs(x, t, Len(t)) /\ TabsOf(t) = x[Len(t)]
  BY <1>1, TabsSolve
<1>3. PICK y : IsTabs(y, s, Len(s)) /\ TabsOf(s) = y[Len(s)]
  BY <1>1, TabsSolve
<1>4. s[Len(s)] = f /\ \A k \in 1 .. Len(t) : t[k] = s[k]
  BY <1>1, OneFrame
<1>5. \A k \in 0 .. Len(t) : x[k] = y[k] /\ x[k] \in Nat
  <2>1. Len(t) <= Len(s)
    BY ONLY <1>1
  <2> QED BY ONLY <1>1, <1>2, <1>3, <1>4, <2>1, TabsAgree
<1>6. y[Len(s)] = TabsStep(y, s, Len(s))
  BY <1>1, <1>3 DEF IsTabs
<1>7. y[Len(s)] = y[Len(t)] + Tab(f)
  BY <1>1, <1>4, <1>6 DEF TabsStep
<1>8. y[Len(t)] = x[Len(t)]
  BY <1>1, <1>5
<1> QED BY <1>2, <1>3, <1>7, <1>8

-----------------------------------------------------------------------------
(***************************************************************************)
(* Where the scalars end.                                                  *)
(***************************************************************************)
LEMMA Least ==
    ASSUME NEW S \in SUBSET Nat, S # {}
    PROVE  \E m \in S : \A q \in S : m <= q
<1>1. PICK m \in S : \A y \in S : ~(<<y, m>> \in OpToRel(<, Nat))
  BY NatLessThanWellFounded, WFMin
<1>2. ASSUME NEW q \in S PROVE m <= q
  <2>1. SUFFICES ASSUME q < m PROVE FALSE
    OBVIOUS
  <2>2. <<q, m>> \in OpToRel(<, Nat)
    BY <2>1 DEF OpToRel
  <2> QED BY <1>1, <2>2
<1> QED BY <1>2

ContentOK == content \in Seq(Characters)

LEMMA AtIs ==
    ASSUME ContentOK, NEW c \in Nat
    PROVE  /\ file_size \in Nat
           /\ c < file_size => At(c) = content[c + 1] /\ At(c) \in Characters
           /\ c >= file_size => At(c) = NUL
           /\ At(c) # NUL => c < file_size
<1>1. file_size \in Nat
  BY DEF ContentOK, file_size
<1>2. c < file_size => c + 1 \in 1 .. Len(content)
  BY <1>1 DEF file_size
<1>3. c < file_size => content[c + 1] \in Characters
  BY <1>2, ElementOfSeq DEF ContentOK
<1> QED BY <1>1, <1>3, DigitsAssumption DEF At, NUL, Characters, Marks, AllDigits

LEMMA DigitNat == \A ch \in Characters : Digit[ch] \in Nat
BY DigitsAssumption DEF Digit, Characters, Marks, AllDigits

\* Find finds the first one.
Found(ch, c, p) ==
    /\ p \in c .. file_size + 1
    /\ p > file_size \/ At(p) = ch
    /\ \A q \in c .. p - 1 : At(q) # ch

LEMMA FindFinds ==
    ASSUME ContentOK, NEW ch, NEW c \in Nat, c <= file_size + 1
    PROVE  Found(ch, c, Find(ch, c))
<1> DEFINE S == {p \in Nat : p >= c /\ (p > file_size \/ At(p) = ch)}
<1>1. file_size \in Nat
  BY AtIs
<1>2. file_size + 1 \in S
  BY <1>1
<1>3. PICK m \in S : \A q \in S : m <= q
  <2>1. S \in SUBSET Nat /\ S # {}
    BY <1>2
  <2> HIDE DEF S
  <2> QED BY <2>1, Least
<1>4. m \in c .. file_size + 1 /\ (m > file_size \/ At(m) = ch)
  BY <1>1, <1>2, <1>3
<1>5. ASSUME NEW q \in c .. m - 1 PROVE At(q) # ch
  <2>1. q \in Nat /\ q >= c /\ ~(m <= q)
    BY <1>4
  <2>2. q \notin S
    BY <1>3, <2>1
  <2> QED BY <2>1, <2>2
<1>6. \E p \in c .. file_size + 1 : Found(ch, c, p)
  BY <1>4, <1>5 DEF Found
<1>7. Find(ch, c) = CHOOSE p \in c .. file_size + 1 : Found(ch, c, p)
  <2>1. \A p \in c .. file_size + 1 :
            Found(ch, c, p) <=> /\ p > file_size \/ At(p) = ch
                                /\ \A q \in c .. p - 1 : At(q) # ch
    BY DEF Found
  <2> QED BY <2>1 DEF Find
<1> QED BY <1>6, <1>7

LEMMA FoundOnce ==
    ASSUME ContentOK, NEW ch, NEW c \in Nat, NEW p, NEW q, Found(ch, c, p), Found(ch, c, q),
           q <= file_size
    PROVE  p = q
<1>1. file_size \in Nat /\ p \in Nat /\ q \in Nat
  BY AtIs DEF Found
<1>2. ~ (p < q)
  <2>1. SUFFICES ASSUME p < q PROVE FALSE
    OBVIOUS
  <2>2. p \in c .. q - 1 /\ ~(p > file_size)
    BY <1>1, <2>1 DEF Found
  <2> QED BY <2>2 DEF Found
<1>3. ~ (q < p)
  <2>1. SUFFICES ASSUME q < p PROVE FALSE
    OBVIOUS
  <2>2. q \in c .. p - 1 /\ ~(q > file_size)
    BY <1>1, <2>1 DEF Found
  <2> QED BY <2>2 DEF Found
<1> QED BY <1>1, <1>2, <1>3

\* The number read is one.
NumberStep(f, a, c) == IF c = a THEN 0 ELSE f[c - 1] * 10 + Digit[At(c - 1)]
IsNumber(f, a, b) == f = [c \in a .. b |-> NumberStep(f, a, c)]

LEMMA NumberExists ==
    ASSUME NEW a \in Nat, NEW N \in Nat
    PROVE  \E f : IsNumber(f, a, a + N)
<1> DEFINE S == {n \in Nat : \E f : IsNumber(f, a, a + n)}
<1>1. 0 \in S
  <2> DEFINE f == [c \in a .. a + 0 |-> 0]
  <2>1. \A c \in a .. a + 0 : c = a
    OBVIOUS
  <2>2. IsNumber(f, a, a + 0)
    BY <2>1 DEF IsNumber, NumberStep
  <2> HIDE DEF f
  <2> QED BY <2>2
<1>2. ASSUME NEW n \in S PROVE n + 1 \in S
  <2>1. PICK f : IsNumber(f, a, a + n)
    OBVIOUS
  <2> DEFINE b == a + (n + 1)
             h == [c \in a .. b |-> IF c = b THEN f[a + n] * 10 + Digit[At(a + n)] ELSE f[c]]
  <2>2. b \in Nat /\ b - 1 = a + n /\ b # a /\ b \in a .. b
    OBVIOUS
  <2>3. /\ \A c \in a .. a + n : h[c] = f[c]
        /\ h[b] = f[a + n] * 10 + Digit[At(a + n)]
        /\ h = [c \in a .. b |-> h[c]]
    OBVIOUS
  <2>4. \A c \in a .. b : c # b => c \in a .. a + n /\ (c # a => c - 1 \in a .. a + n)
    OBVIOUS
  <2>5. a + n \in a .. a + n
    OBVIOUS
  <2> HIDE DEF h, b
  <2>6. \A c \in a .. a + n : f[c] = NumberStep(f, a, c)
    BY <2>1 DEF IsNumber
  <2>7. ASSUME NEW c \in a .. b PROVE h[c] = NumberStep(h, a, c)
    <3>1. CASE c = b
      <4>1. h[a + n] = f[a + n]
        BY <2>3, <2>5
      <4>2. NumberStep(h, a, b) = h[b - 1] * 10 + Digit[At(b - 1)]
        BY <2>2 DEF NumberStep
      <4> QED BY <2>2, <2>3, <3>1, <4>1, <4>2
    <3>2. CASE c # b
      <4>1. NumberStep(h, a, c) = NumberStep(f, a, c)
        BY <2>3, <2>4, <3>2 DEF NumberStep
      <4> QED BY <2>3, <2>4, <2>6, <3>2, <4>1
    <3> QED BY <3>1, <3>2
  <2>8. IsNumber(h, a, b)
    BY <2>3, <2>7 DEF IsNumber
  <2> QED BY <2>8 DEF b
<1>3. S = Nat
  <2>1. S \in SUBSET Nat
    OBVIOUS
  <2> HIDE DEF S
  <2> QED BY <1>1, <1>2, <2>1, NatFromBefore
<1> QED BY <1>3

LEMMA NumberSolves ==
    ASSUME NEW a \in Nat, NEW b \in Nat, a <= b
    PROVE  \E f : IsNumber(f, a, b) /\ Number(a, b) = f[b]
<1>1. b - a \in Nat /\ a + (b - a) = b
  OBVIOUS
<1>2. \E f : IsNumber(f, a, b)
  BY <1>1, NumberExists
<1>3. Number(a, b) = (CHOOSE f : IsNumber(f, a, b))[b]
  BY DEF Number, IsNumber, NumberStep
<1>4. IsNumber(CHOOSE f : IsNumber(f, a, b), a, b)
  BY <1>2
<1> QED BY <1>3, <1>4

LEMMA NumberNat ==
    ASSUME ContentOK, NEW a \in Nat, NEW b \in Nat, a <= b, b <= file_size
    PROVE  Number(a, b) \in Nat
<1>1. PICK f : IsNumber(f, a, b) /\ Number(a, b) = f[b]
  BY NumberSolves
<1> DEFINE S == {n \in Nat : a + n <= b => f[a + n] \in Nat}
<1>2. \A c \in a .. b : f[c] = NumberStep(f, a, c)
  BY <1>1 DEF IsNumber
<1>3. 0 \in S
  BY <1>2 DEF NumberStep
<1>4. ASSUME NEW n \in S PROVE n + 1 \in S
  <2>1. SUFFICES ASSUME a + (n + 1) <= b PROVE f[a + (n + 1)] \in Nat
    OBVIOUS
  <2>2. f[a + n] \in Nat
    BY <2>1
  <2>3. a + (n + 1) \in a .. b /\ a + (n + 1) # a /\ a + (n + 1) - 1 = a + n
        /\ a + n \in Nat /\ a + n < file_size
    BY <2>1, AtIs
  <2>4. f[a + (n + 1)] = f[a + n] * 10 + Digit[At(a + n)]
    BY <1>2, <2>3 DEF NumberStep
  <2>5. Digit[At(a + n)] \in Nat
    BY <2>3, AtIs, DigitNat
  <2> QED BY <2>2, <2>4, <2>5
<1>5. S = Nat
  <2>1. S \in SUBSET Nat
    OBVIOUS
  <2> HIDE DEF S
  <2> QED BY <1>3, <1>4, <2>1, NatFromBefore
<1>6. b - a \in Nat /\ a + (b - a) = b
  OBVIOUS
<1>7. \A n \in Nat : a + n <= b => f[a + n] \in Nat
  BY <1>5
<1>8. a + (b - a) <= b
  BY <1>6
<1>9. f[a + (b - a)] \in Nat
  BY <1>6, <1>7, <1>8
<1> QED BY <1>1, <1>6, <1>9

LEMMA NumberOfOneDigit ==
    ASSUME ContentOK, NEW a \in Nat, a < file_size
    PROVE  Number(a, a + 1) = Digit[At(a)]
<1>1. PICK f : IsNumber(f, a, a + 1) /\ Number(a, a + 1) = f[a + 1]
  BY NumberSolves
<1>2. \A c \in a .. a + 1 : f[c] = NumberStep(f, a, c)
  BY <1>1 DEF IsNumber
<1>3. f[a] = 0
  BY <1>2 DEF NumberStep
<1>4. a + 1 \in a .. a + 1 /\ a + 1 # a /\ a + 1 - 1 = a
  OBVIOUS
<1>5. f[a + 1] = f[a] * 10 + Digit[At(a)]
  BY <1>2, <1>4 DEF NumberStep
<1>6. Digit[At(a)] \in Nat
  BY AtIs, DigitNat
<1> QED BY <1>1, <1>3, <1>5, <1>6

\* A scalar ends somewhere, if print_int or print_str is called at a character
\* of the content or at the NUL behind it.
LEMMA ScalarEnds ==
    ASSUME ContentOK, file_cursor \in Nat, file_cursor <= file_size
    PROVE  ScalarEnd \in Nat /\ file_cursor < ScalarEnd
<1>1. file_size \in Nat
  BY AtIs
<1>2. CASE Here = "i"
  <2>1. Found("e", file_cursor + 1, Find("e", file_cursor + 1))
    BY <1>1, FindFinds
  <2>2. ScalarEnd = Find("e", file_cursor + 1) + 1
    BY <1>2 DEF ScalarEnd
  <2> QED BY <1>1, <2>1, <2>2 DEF Found
<1>3. CASE Here # "i"
  <2> DEFINE colon == Find(":", file_cursor)
  <2>1. Found(":", file_cursor, colon)
    BY <1>1, FindFinds
  <2>2. colon \in Nat /\ file_cursor <= colon
    BY <1>1, <2>1 DEF Found
  <2>3. CASE colon > file_size
    BY <1>1, <1>3, <2>3 DEF ScalarEnd
  <2>4. CASE colon <= file_size
    <3>1. Number(file_cursor, colon) \in Nat
      BY <2>2, <2>4, NumberNat
    <3>2. ScalarEnd = colon + 1 + Number(file_cursor, colon)
      BY <1>1, <1>3, <2>2, <2>4 DEF ScalarEnd, StringEnd
    <3> QED BY <2>2, <3>1, <3>2
  <2> QED BY <1>1, <2>2, <2>3, <2>4
<1> QED BY <1>2, <1>3

\* In B code it ends where it should.
LEMMA StringEnds ==
    ASSUME ContentOK, NEW m, IsStr(content, file_cursor, m)
    PROVE  ScalarEnd = m /\ Here \in Digits /\ m <= file_size
<1> DEFINE a == file_cursor
<1>1. IsStrAt(content, a, m) /\ a \in Nat /\ m \in Nat /\ m <= file_size /\ file_size \in Nat
  BY StrAt, AtIs DEF IsStr, Stretch, ContentOK, file_size
<1>2. content[a + 1] \in Digits /\ content[a + 2] = ":" /\ a + 2 <= m
      /\ m = a + 2 + Digit[content[a + 1]]
  BY <1>1 DEF IsStrAt
<1>3. a < file_size /\ a + 1 < file_size /\ a + 1 \in Nat /\ a + 1 + 1 = a + 2
  BY <1>1, <1>2
<1>4. At(a) = content[a + 1] /\ At(a + 1) = content[a + 2]
  BY <1>1, <1>3, AtIs
<1>5. Here \in Digits /\ Here # "i" /\ At(a) # ":"
  BY <1>2, <1>4, DigitsAssumption DEF Here, AllDigits
<1>6. Found(":", a, a + 1)
  <2>1. \A q \in a .. (a + 1) - 1 : q = a
    BY <1>1
  <2>2. a + 1 \in a .. file_size + 1
    BY <1>1, <1>3
  <2>3. \A q \in a .. (a + 1) - 1 : At(q) # ":"
    BY <1>5, <2>1
  <2>4. At(a + 1) = ":"
    BY <1>2, <1>4
  <2> QED BY <2>2, <2>3, <2>4 DEF Found
<1>7. Find(":", a) = a + 1
  <2>1. Found(":", a, Find(":", a))
    BY <1>1, <1>3, FindFinds
  <2>2. a + 1 <= file_size
    BY <1>1, <1>3
  <2> QED BY <1>1, <1>6, <2>1, <2>2, FoundOnce
<1>8. Number(a, a + 1) = Digit[At(a)]
  BY <1>1, <1>3, NumberOfOneDigit
<1>9. ScalarEnd = a + 1 + 1 + Digit[At(a)]
  <2>1. ~(a + 1 > file_size)
    BY <1>1, <1>3
  <2> QED BY <1>5, <1>7, <1>8, <2>1 DEF ScalarEnd, StringEnd
<1> QED BY <1>1, <1>2, <1>3, <1>4, <1>5, <1>9

LEMMA IntegerEnds ==
    ASSUME ContentOK, NEW m, Stretch(content, file_cursor, m), IsIntAt(content, file_cursor, m)
    PROVE  ScalarEnd = m /\ Here = "i" /\ m <= file_size
<1> DEFINE a == file_cursor
<1>1. a \in Nat /\ m \in Nat /\ m <= file_size /\ file_size \in Nat /\ a + 3 <= m
  BY AtIs DEF Stretch, file_size, IsIntAt
<1>2. content[a + 1] = "i" /\ content[m] = "e" /\ \A i \in a + 2 .. m - 1 : content[i] = "1"
  BY DEF IsIntAt
<1>3. a < file_size /\ m - 1 < file_size /\ m - 1 \in Nat /\ m - 1 + 1 = m /\ a + 1 \in Nat
  BY <1>1
<1>4. Here = "i" /\ At(m - 1) = "e"
  BY <1>1, <1>2, <1>3, AtIs DEF Here
<1>5. ASSUME NEW q \in a + 1 .. m - 1 - 1 PROVE At(q) # "e"
  <2>1. q \in Nat /\ q < file_size /\ q + 1 \in a + 2 .. m - 1
    BY <1>1
  <2>2. At(q) = content[q + 1]
    BY <2>1, AtIs
  <2>3. content[q + 1] = "1"
    BY <1>2, <2>1
  <2> QED BY <2>2, <2>3
<1>6. Found("e", a + 1, m - 1)
  <2>1. m - 1 \in a + 1 .. file_size + 1
    BY <1>1
  <2> QED BY <1>4, <1>5, <2>1 DEF Found
<1>7. Find("e", a + 1) = m - 1
  <2>1. a + 1 <= file_size + 1 /\ m - 1 <= file_size
    BY <1>1, <1>3
  <2>2. Found("e", a + 1, Find("e", a + 1))
    BY <1>3, <2>1, FindFinds
  <2> QED BY <1>3, <1>6, <2>1, <2>2, FoundOnce
<1>8. ScalarEnd = m - 1 + 1
  BY <1>4, <1>7 DEF ScalarEnd
<1> QED BY <1>1, <1>3, <1>4, <1>8

\* What begins at a character is told by it.
Begin == Digits \cup {"i", "l", "d"}

LEMMA ValueBegins ==
    ASSUME NEW c \in Seq(Characters), NEW a, NEW m, IsVal(c, a, m)
    PROVE  /\ a \in Nat /\ m \in Nat /\ a < m /\ m <= Len(c) /\ c[a + 1] \in Begin
           /\ c[a + 1] = "l" => IsListAt(c, a, m)
           /\ c[a + 1] = "d" => IsDictAt(c, a, m)
           /\ c[a + 1] = "i" => IsIntAt(c, a, m)
           /\ c[a + 1] \in Digits => IsStr(c, a, m)
<1>1. IsValAt(c, a, m) /\ a \in Nat /\ m \in Nat /\ m <= Len(c) /\ a + 2 <= m
  BY ValAt, ValIsLong DEF IsVal, Stretch
<1>2. a < m
  BY <1>1
<1>3. IsIntAt(c, a, m) => c[a + 1] = "i"
  BY DEF IsIntAt
<1>4. IsListAt(c, a, m) => c[a + 1] = "l"
  BY DEF IsListAt
<1>5. IsDictAt(c, a, m) => c[a + 1] = "d"
  BY DEF IsDictAt
<1>6. IsStr(c, a, m) => c[a + 1] \in Digits
  BY StrAt DEF IsStrAt
<1>7. c[a + 1] \in Begin
  BY <1>1, <1>3, <1>4, <1>5, <1>6 DEF IsValAt, Begin
<1> QED BY <1>1, <1>2, <1>3, <1>4, <1>5, <1>6, <1>7, DigitsAssumption DEF IsValAt, AllDigits

-----------------------------------------------------------------------------
(***************************************************************************)
(* The plan of a stack of calls: that of the calls under the top, and what *)
(* the top is yet to read.                                                 *)
(***************************************************************************)
LEMMA PlanTop ==
    ASSUME NEW c, NEW cursor, NEW s, NEW t, NEW f, OnTop(s, t, f),
           NEW d \in Seq(Nat), NEW x \in Nat, Len(d) = Len(t)
    PROVE  Plan(c, cursor, s, Append(d, x)) <=> Plan(c, x, t, d) /\ FrameInv(c, f, cursor, x)
<1> DEFINE e == Append(d, x)
           n == Len(t)
<1>1. /\ e \in Seq(Nat) /\ Len(e) = n + 1 /\ n \in Nat /\ Len(s) = n + 1 /\ Len(d) = n
      /\ e[n + 1] = x /\ \A i \in 1 .. n : e[i] = d[i]
  BY AppendProperties DEF OnTop
<1>2. s[n + 1] = f /\ \A i \in 1 .. n : s[i] = t[i]
  BY <1>1, OneFrame
<1> HIDE DEF e, n
<1>3. ASSUME NEW k \in 0 .. n PROVE Rest(cursor, e, k) = Rest(x, d, k)
  <2>1. k # Len(e) /\ Rest(cursor, e, k) = e[k + 1]
    BY <1>1 DEF Rest
  <2>2. CASE k = n
    BY <1>1, <2>1, <2>2 DEF Rest
  <2>3. CASE k # n
    <3>1. k + 1 \in 1 .. n
      BY <1>1, <2>3
    <3>2. Rest(x, d, k) = d[k + 1]
      BY <1>1, <2>3 DEF Rest
    <3> QED BY <1>1, <2>1, <3>1, <3>2
  <2> QED BY <2>2, <2>3
<1>4. Rest(cursor, e, n + 1) = cursor
  BY <1>1 DEF Rest
<1>5. Rest(cursor, e, 0) = Rest(x, d, 0)
  BY <1>1, <1>3
<1> DEFINE Q(k) == FrameInv(c, s[k], Rest(cursor, e, k), e[k])
           R(k) == FrameInv(c, t[k], Rest(x, d, k), d[k])
<1>6. \A k \in 1 .. n : Q(k) <=> R(k)
  <2>1. ASSUME NEW k \in 1 .. n PROVE Q(k) <=> R(k)
    <3>1. k \in 0 .. n
      BY <1>1
    <3>2. s[k] = t[k] /\ Rest(cursor, e, k) = Rest(x, d, k) /\ e[k] = d[k]
      BY <1>1, <1>2, <1>3, <3>1
    <3> QED BY <3>2
  <2> QED BY <2>1
<1>7. Q(n + 1) <=> FrameInv(c, f, cursor, x)
  BY <1>1, <1>2, <1>4
<1>8. Plan(c, cursor, s, e) <=> /\ AreVals(c, Rest(cursor, e, 0), Len(c))
                                /\ \A k \in 1 .. n + 1 : Q(k)
  BY <1>1 DEF Plan
<1>9. Plan(c, x, t, d) <=> AreVals(c, Rest(x, d, 0), Len(c)) /\ \A k \in 1 .. n : R(k)
  BY <1>1 DEF Plan, n
<1> HIDE DEF Q, R
<1>10. (\A k \in 1 .. n + 1 : Q(k)) <=> (\A k \in 1 .. n : Q(k)) /\ Q(n + 1)
  <2>1. \A k : k \in 1 .. n + 1 <=> k \in 1 .. n \/ k = n + 1
    BY <1>1
  <2> QED BY <2>1, Zenon
<1>11. (\A k \in 1 .. n : Q(k)) <=> (\A k \in 1 .. n : R(k))
  BY <1>6, Zenon
<1> QED BY <1>5, <1>7, <1>8, <1>9, <1>10, <1>11, Zenon DEF e

OneMore(c, cursor, t, f) == \E x \in Nat : Planned(c, x, t) /\ FrameInv(c, f, cursor, x)

LEMMA PlannedTop ==
    ASSUME NEW c, NEW cursor, NEW s, NEW t, NEW f, OnTop(s, t, f)
    PROVE  Planned(c, cursor, s) <=> OneMore(c, cursor, t, f)
<1>1. ASSUME Planned(c, cursor, s) PROVE OneMore(c, cursor, t, f)
  <2>1. PICK e \in Seq(Nat) : Plan(c, cursor, s, e)
    BY <1>1 DEF Planned
  <2>2. Len(e) = Len(t) + 1 /\ Len(t) \in Nat
    BY <2>1 DEF Plan, OnTop
  <2>3. e # <<>>
    BY <2>2
  <2>4. PICK d \in Seq(Nat), x \in Nat : e = Append(d, x)
    BY <2>3, SequenceEmptyOrAppend
  <2>5. Len(e) = Len(d) + 1 /\ Len(d) \in Nat
    BY <2>4, AppendProperties
  <2>6. Len(d) = Len(t)
    BY <2>2, <2>5
  <2>7. Plan(c, x, t, d) /\ FrameInv(c, f, cursor, x)
    BY <2>1, <2>4, <2>6, PlanTop
  <2> QED BY <2>7 DEF OneMore, Planned
<1>2. ASSUME OneMore(c, cursor, t, f) PROVE Planned(c, cursor, s)
  <2>1. PICK x \in Nat : Planned(c, x, t) /\ FrameInv(c, f, cursor, x)
    BY <1>2 DEF OneMore
  <2>2. PICK d \in Seq(Nat) : Plan(c, x, t, d)
    BY <2>1 DEF Planned
  <2>3. Len(d) = Len(t)
    BY <2>2 DEF Plan
  <2>4. Plan(c, cursor, s, Append(d, x))
    BY <2>1, <2>2, <2>3, PlanTop
  <2>5. Append(d, x) \in Seq(Nat)
    BY AppendProperties
  <2> QED BY <2>4, <2>5 DEF Planned
<1> QED BY <1>1, <1>2

LEMMA PlannedNone ==
    ASSUME NEW c, NEW cursor
    PROVE  Planned(c, cursor, <<>>) <=> AreVals(c, cursor, Len(c))
<1>1. Len(<<>>) = 0 /\ <<>> \in Seq(Nat)
  OBVIOUS
<1>2. \A e \in Seq(Nat) : Len(e) = 0 => (Plan(c, cursor, <<>>, e) <=> AreVals(c, cursor, Len(c)))
  BY <1>1 DEF Plan, Rest
<1>3. \A e \in Seq(Nat) : Plan(c, cursor, <<>>, e) => Len(e) = 0
  BY <1>1 DEF Plan
<1> QED BY <1>1, <1>2, <1>3 DEF Planned

\* What is planned for the caller is planned whatever the call on top is
\* called for.
LEMMA PlannedSame ==
    ASSUME NEW c, NEW cursor, NEW t \in Seq(Frame), NEW f \in Frame, NEW g \in Frame,
           g.call = f.call, g.from = f.from,
           f.call = "dictionary" => f.at # "value" /\ g.at # "value",
           Planned(c, cursor, Append(t, f))
    PROVE  Planned(c, cursor, Append(t, g))
<1>1. OneMore(c, cursor, t, f)
  BY AppendOnTop, PlannedTop
<1>2. PICK x \in Nat : Planned(c, x, t) /\ FrameInv(c, f, cursor, x)
  BY <1>1 DEF OneMore
<1>3. f.call \in {"array", "dictionary"}
  BY DEF Frame
<1>4. Inside(c, f, cursor, x - 1) <=> Inside(c, g, cursor, x - 1)
  BY <1>3 DEF Inside
<1>5. FrameInv(c, g, cursor, x)
  BY <1>2, <1>4 DEF FrameInv
<1>6. OneMore(c, cursor, t, g)
  BY <1>2, <1>5 DEF OneMore
<1> QED BY <1>6, AppendOnTop, PlannedTop

-----------------------------------------------------------------------------
(***************************************************************************)
(* What a call and a return do to the stack.                               *)
(***************************************************************************)
LEMMA FrameIs ==
    ASSUME NEW f \in Frame
    PROVE  /\ f.call \in {"array", "dictionary"} /\ f.from \in Nat
           /\ f.at \in {"key", "value", "in value"}
           /\ Tab(f) = IF f.at = "in value" THEN 2 ELSE 1
           /\ TopOK(f) => Tab(f) = 1
BY DEF Frame, Tab, TopOK

LEMMA FramesTop ==
    ASSUME NEW s, NEW t, NEW f, OnTop(s, t, f)
    PROVE  /\ Under(s) <=> Under(t) /\ UnderOK(f)
           /\ Framed(s) <=> Under(t) /\ TopOK(f)
<1> DEFINE n == Len(t)
<1>1. n \in Nat /\ Len(s) = n + 1
  BY DEF OnTop
<1>2. \A k \in 1 .. n + 1 : s[k] = IF k = n + 1 THEN f ELSE t[k]
  BY <1>1, OneFrame
<1>3. s[n + 1] = f /\ \A k \in 1 .. n : s[k] = t[k] /\ k # n + 1 /\ k \in 1 .. n + 1
  BY <1>1, <1>2
<1>4. \A k \in 1 .. n + 1 : k = n + 1 \/ k \in 1 .. n
  BY <1>1
<1>5. n + 1 \in 1 .. n + 1
  BY <1>1
<1>6. /\ Under(s) <=> \A k \in 1 .. n + 1 : UnderOK(s[k])
      /\ Under(t) <=> \A k \in 1 .. n : UnderOK(t[k])
      /\ Framed(s) <=> \A k \in 1 .. n + 1 : IF k = n + 1 THEN TopOK(s[k]) ELSE UnderOK(s[k])
  BY <1>1 DEF Under, Framed
<1> HIDE DEF n
<1>7. Under(s) <=> Under(t) /\ UnderOK(f)
  BY <1>3, <1>4, <1>5, <1>6
<1>8. Framed(s) <=> Under(t) /\ TopOK(f)
  BY <1>3, <1>4, <1>5, <1>6
<1> QED BY <1>7, <1>8

LEMMA FramesEmpty == Under(<<>>) /\ Framed(<<>>) /\ <<>> \in Seq(Frame) /\ Len(<<>>) = 0
BY DEF Under, Framed

\* The frame of a dictionary that goes on to another place.
Going(f, where) == [f EXCEPT !.at = where]

LEMMA GoingIs ==
    ASSUME NEW f \in Frame, NEW where \in {"key", "value", "in value"}
    PROVE  /\ Going(f, where) \in Frame
           /\ Going(f, where).call = f.call /\ Going(f, where).from = f.from
           /\ Going(f, where).at = where
BY DEF Going, Frame

\* The tabs of the caller for the value.
CallerTabs(s) == IF s # <<>> /\ Last(s).call = "dictionary" THEN 1 ELSE 0

Returned(t, s) ==
    /\ s \in Seq(Frame) /\ Len(s) = Len(t) /\ Framed(s)
    /\ TabsOf(s) = TabsOf(t) - CallerTabs(t)
    /\ \A c, cursor : Planned(c, cursor, t) => Planned(c, cursor, s)

LEMMA CallerGoesOn ==
    ASSUME NEW t \in Seq(Frame), Under(t)
    PROVE  Returned(t, NextKey(t))
<1>1. CASE t = <<>>
  <2>1. NextKey(t) = t /\ CallerTabs(t) = 0
    BY <1>1 DEF NextKey, CallerTabs
  <2>2. TabsOf(t) = 0
    BY <1>1, TabsEmpty
  <2>3. Framed(t)
    BY <1>1, FramesEmpty
  <2>4. TabsOf(t) = TabsOf(t) - CallerTabs(t)
    BY <2>1, <2>2
  <2> QED BY <2>1, <2>3, <2>4 DEF Returned
<1>2. CASE t # <<>>
  <2> DEFINE u == Front(t)
             f == Last(t)
  <2>1. OnTop(t, u, f)
    BY <1>2, TopOf
  <2> HIDE DEF u, f
  <2>2. u \in Seq(Frame) /\ f \in Frame /\ t = Append(u, f) /\ Len(t) \in Nat
        /\ Len(u) \in Nat /\ Front(t) = u /\ Last(t) = f
    BY <2>1 DEF OnTop
  <2>3. Under(u) /\ UnderOK(f)
    BY <2>1, FramesTop
  <2>4. TabsOf(t) = TabsOf(u) + Tab(f) /\ TabsOf(u) \in Nat
    BY <2>1, <2>2, TabsTop, TabsNat
  <2>5. CASE f.call = "array"
    <3>1. NextKey(t) = t /\ CallerTabs(t) = 0
      BY <2>2, <2>5 DEF NextKey, CallerTabs
    <3>2. TopOK(f) /\ Tab(f) = 1
      BY <2>2, <2>3, <2>5, FrameIs DEF UnderOK, TopOK
    <3>3. Framed(t)
      BY <2>1, <2>3, <3>2, FramesTop
    <3>4. TabsOf(t) = TabsOf(t) - 0
      BY <2>2, <2>4, <3>2
    <3> QED BY <2>2, <3>1, <3>3, <3>4 DEF Returned
  <2>6. CASE f.call = "dictionary"
    <3> DEFINE g == Going(f, "key")
    <3>1. NextKey(t) = Append(u, g) /\ CallerTabs(t) = 1
      BY <1>2, <2>2, <2>6 DEF NextKey, CallerTabs, Going
    <3>2. g \in Frame /\ g.call = f.call /\ g.from = f.from /\ g.at = "key"
      BY <2>2, GoingIs
    <3> HIDE DEF g
    <3>3. OnTop(Append(u, g), u, g) /\ Append(u, g) \in Seq(Frame)
      BY <2>2, <3>2, AppendOnTop
    <3>4. f.at = "in value" /\ Tab(f) = 2 /\ TopOK(g) /\ Tab(g) = 1
      BY <2>2, <2>3, <2>6, <3>2, FrameIs DEF UnderOK, TopOK
    <3>5. Framed(Append(u, g))
      BY <2>3, <3>3, <3>4, FramesTop
    <3>6. TabsOf(Append(u, g)) = TabsOf(u) + 1
      <4>1. TabsOf(Append(u, g)) = TabsOf(u) + Tab(g)
        BY <3>3, TabsTop
      <4> QED BY <3>4, <4>1
    <3>7. ASSUME NEW c, NEW cursor, Planned(c, cursor, t)
          PROVE  Planned(c, cursor, Append(u, g))
      <4>1. Planned(c, cursor, Append(u, f))
        BY <2>2, <3>7
      <4>2. f.call = "dictionary" => f.at # "value" /\ g.at # "value"
        BY <3>2, <3>4
      <4> QED BY <2>2, <3>2, <4>1, <4>2, PlannedSame
    <3>8. Len(Append(u, g)) = Len(t)
      BY <2>1, <3>3 DEF OnTop
    <3>9. TabsOf(Append(u, g)) = TabsOf(t) - 1
      <4>1. TabsOf(t) = TabsOf(u) + 2
        BY <2>4, <3>4
      <4>2. TabsOf(u) + 1 = (TabsOf(u) + 2) - 1
        BY <2>4
      <4> QED BY <3>6, <4>1, <4>2
    <3>10. TabsOf(Append(u, g)) = TabsOf(t) - CallerTabs(t)
      BY <3>1, <3>9
    <3> DEFINE r == Append(u, g)
    <3>11. Returned(t, r)
      BY <3>3, <3>5, <3>7, <3>8, <3>10 DEF Returned
    <3> QED BY <3>1, <3>11
  <2> QED BY <2>2, <2>5, <2>6, FrameIs
<1> QED BY <1>1, <1>2

\* A scalar for a value leaves the calls as they are, but a dictionary goes on
\* to its next key.
LEMMA NextKeyOnTop ==
    ASSUME NEW s \in Seq(Frame), Framed(s)
    PROVE  /\ NextKey(s) \in Seq(Frame) /\ Len(NextKey(s)) = Len(s)
           /\ Framed(NextKey(s)) /\ TabsOf(NextKey(s)) = TabsOf(s)
<1>1. CASE s = <<>>
  BY <1>1 DEF NextKey
<1>2. CASE s # <<>>
  <2> DEFINE u == Front(s)
             f == Last(s)
  <2>1. OnTop(s, u, f)
    BY <1>2, TopOf
  <2> HIDE DEF u, f
  <2>2. u \in Seq(Frame) /\ f \in Frame /\ s = Append(u, f) /\ Front(s) = u /\ Last(s) = f
    BY <2>1 DEF OnTop
  <2>3. Under(u) /\ TopOK(f)
    BY <2>1, FramesTop
  <2>4. CASE f.call = "array"
    BY <2>2, <2>4 DEF NextKey
  <2>5. CASE f.call = "dictionary"
    <3> DEFINE g == Going(f, "key")
    <3>1. NextKey(s) = Append(u, g)
      BY <1>2, <2>2, <2>5 DEF NextKey, Going
    <3>2. g \in Frame /\ g.call = f.call /\ g.at = "key"
      BY <2>2, GoingIs
    <3> HIDE DEF g
    <3>3. OnTop(Append(u, g), u, g) /\ Append(u, g) \in Seq(Frame)
      BY <2>2, <3>2, AppendOnTop
    <3>4. TopOK(g) /\ Tab(g) = 1 /\ Tab(f) = 1
      BY <2>2, <2>3, <2>5, <3>2, FrameIs DEF TopOK
    <3>5. Framed(Append(u, g))
      BY <2>3, <3>3, <3>4, FramesTop
    <3>6. TabsOf(Append(u, g)) = TabsOf(s)
      BY <2>1, <3>3, <3>4, TabsTop
    <3>7. Len(Append(u, g)) = Len(s)
      BY <2>1, <3>3 DEF OnTop
    <3> QED BY <3>1, <3>3, <3>5, <3>6, <3>7
  <2> QED BY <2>2, <2>4, <2>5, FrameIs
<1> QED BY <1>1, <1>2

\* Where a dictionary goes on to its next key, no value is waited for.
LEMMA NothingWaits == ASSUME NEW s \in Seq(Frame) PROVE WaitsOf(NextKey(s)) = 0
<1>1. CASE s = <<>>
  BY <1>1 DEF NextKey, WaitsOf
<1>2. CASE s # <<>>
  <2> DEFINE u == Front(s)
             f == Last(s)
  <2>1. OnTop(s, u, f)
    BY <1>2, TopOf
  <2>2. CASE f.call = "dictionary"
    <3> DEFINE g == Going(f, "key")
    <3>1. NextKey(s) = Append(u, g)
      BY <1>2, <2>2 DEF NextKey, Going
    <3> HIDE DEF u, f
    <3>2. g \in Frame /\ g.at = "key" /\ u \in Seq(Frame)
      BY <2>1, GoingIs DEF OnTop
    <3> HIDE DEF g
    <3>3. Last(Append(u, g)) = g
      BY <3>2, AppendOnTop DEF OnTop
    <3> QED BY <3>1, <3>2, <3>3 DEF WaitsOf
  <2>3. CASE f.call # "dictionary"
    BY <2>3 DEF NextKey, WaitsOf
  <2> QED BY <2>2, <2>3
<1> QED BY <1>1, <1>2

-----------------------------------------------------------------------------
(***************************************************************************)
(* tab_cursor, which wraps.                                                *)
(***************************************************************************)
\* It does not matter where it wraps.
LEMMA WrapsOnce ==
    ASSUME NEW a \in Int, NEW k \in Int, NEW L \in Nat \ {0}
    PROVE  ((a % L) + k) % L = (a + k) % L
<1> DEFINE b == (a % L) + k
           p == a \div L
           q == b \div L
           r == b % L
<1>1. a = L * p + (b - k) /\ p \in Int /\ b \in Int
  BY Division
<1>2. b = L * q + r /\ q \in Int /\ r \in 0 .. L - 1
  BY <1>1, Division
<1> HIDE DEF p, q
<1>3. p + q \in Int /\ L * (p + q) = L * p + L * q /\ L * p \in Int /\ L * q \in Int
  BY <1>1, <1>2
<1> HIDE DEF b, r
<1>4. a + k = L * (p + q) + r
  BY <1>1, <1>2, <1>3
<1>5. (a + k) % L = r
  BY <1>2, <1>3, <1>4, Remainder
<1> QED BY <1>5 DEF r, b

LEMMA UShortIs ==
    /\ \A n \in Int : UShort(n) \in 0 .. TabLimit - 1
    /\ \A n \in 0 .. TabLimit - 1 : UShort(n) = n
    /\ \A n \in Int, k \in Int : UShort(UShort(n) + k) = UShort(n + k)
<1>1. ASSUME NEW n \in Int PROVE UShort(n) \in 0 .. TabLimit - 1
  BY Division, TabLimitAssumption DEF UShort
<1>2. ASSUME NEW n \in 0 .. TabLimit - 1 PROVE UShort(n) = n
  <2>1. TabLimit * 0 + n = n
    BY TabLimitAssumption
  <2> QED BY <2>1, Remainder, TabLimitAssumption DEF UShort
<1>3. ASSUME NEW n \in Int, NEW k \in Int PROVE UShort(UShort(n) + k) = UShort(n + k)
  BY WrapsOnce, TabLimitAssumption DEF UShort
<1> QED BY <1>1, <1>2, <1>3

-----------------------------------------------------------------------------
(***************************************************************************)
(* The steps, whatever the file holds: the depth falls behind the calls in *)
(* none, and goes ahead of them only where a key is missing.               *)
(***************************************************************************)
Base == TypeOK /\ Framed(stack) /\ ContentOK

Moves(d) ==
    /\ content' = content /\ pc' \in {"running", "done", "overrun"}
    /\ file_cursor' \in 0 .. file_size + 1
    /\ stack' \in Seq(Frame) /\ Framed(stack')
    /\ tab_cursor' \in 0 .. TabLimit - 1
    /\ \A left \in Nat :
            tab_cursor = UShort(TabsOf(stack) + left)
                => tab_cursor' = UShort(TabsOf(stack') + left + d)
    /\ TabsOf(stack') + d + WaitsOf(stack') + file_cursor
            <= TabsOf(stack) + WaitsOf(stack) + file_cursor'

\* A step that adds k to tab_cursor.
Adds(k, d) ==
    /\ tab_cursor' = UShort(tab_cursor + k)
    /\ TabsOf(stack') + d = TabsOf(stack) + k

LEMMA CallingIs ==
    ASSUME stack \in Seq(Frame), stack # <<>>
    PROVE  /\ OnTop(stack, Front(stack), Last(stack))
           /\ Calling = Last(stack).call /\ Calling \in {"array", "dictionary"}
<1>1. OnTop(stack, Front(stack), Last(stack))
  BY TopOf
<1>2. Last(stack).call \in {"array", "dictionary"}
  BY <1>1, FrameIs DEF OnTop
<1> QED BY <1>1, <1>2 DEF Calling

LEMMA BaseIs ==
    ASSUME Base
    PROVE  /\ stack \in Seq(Frame) /\ Framed(stack) /\ ContentOK
           /\ pc \in {"running", "done", "overrun"}
           /\ file_size \in Nat /\ file_cursor \in Nat /\ file_cursor <= file_size + 1
           /\ tab_cursor \in 0 .. TabLimit - 1 /\ TabsOf(stack) \in Nat
           /\ WaitsOf(stack) \in {0, 1}
<1>1. stack \in Seq(Frame) /\ Len(stack) \in Nat /\ ContentOK
  BY DEF Base, TypeOK
<1>2. file_size \in Nat
  BY <1>1, AtIs
<1>3. TabsOf(stack) \in Nat
  BY <1>1, TabsNat
<1> QED BY <1>1, <1>2, <1>3 DEF Base, TypeOK, WaitsOf

LEMMA Added ==
    ASSUME Base, NEW k \in Int, NEW d \in Int, Adds(k, d), TabsOf(stack') \in Nat
    PROVE  /\ tab_cursor' \in 0 .. TabLimit - 1
           /\ \A left \in Nat :
                  tab_cursor = UShort(TabsOf(stack) + left)
                      => tab_cursor' = UShort(TabsOf(stack') + left + d)
<1>1. TabsOf(stack) \in Nat /\ tab_cursor \in Int
  BY BaseIs, TabLimitAssumption
<1>2. tab_cursor + k \in Int
  BY <1>1
<1>3. tab_cursor' \in 0 .. TabLimit - 1
  BY <1>2, UShortIs DEF Adds
<1>4. ASSUME NEW left \in Nat, tab_cursor = UShort(TabsOf(stack) + left)
      PROVE  tab_cursor' = UShort(TabsOf(stack') + left + d)
  <2>1. TabsOf(stack) + left \in Int
    BY <1>1
  <2>2. UShort(UShort(TabsOf(stack) + left) + k) = UShort(TabsOf(stack) + left + k)
    BY <2>1, UShortIs
  <2>3. TabsOf(stack) + left + k = TabsOf(stack') + left + d
    BY <1>1 DEF Adds
  <2> QED BY <1>4, <2>2, <2>3 DEF Adds
<1> QED BY <1>3, <1>4

\* A step that leaves tab_cursor and the tabs as they are.
LEMMA Unadded ==
    ASSUME Base, tab_cursor' = tab_cursor, TabsOf(stack') = TabsOf(stack)
    PROVE  /\ tab_cursor' \in 0 .. TabLimit - 1
           /\ \A left \in Nat :
                  tab_cursor = UShort(TabsOf(stack) + left)
                      => tab_cursor' = UShort(TabsOf(stack') + left + 0)
<1>1. TabsOf(stack) \in Nat /\ tab_cursor \in 0 .. TabLimit - 1
  BY BaseIs
<1>2. \A left \in Nat : TabsOf(stack) + left + 0 = TabsOf(stack) + left
  BY <1>1
<1> QED BY <1>1, <1>2

LEMMA ScalarMoves == ASSUME Base, PrintScalar PROVE Moves(0)
<1>1. file_cursor \in Nat /\ file_cursor <= file_size
  <2>1. CASE stack = <<>>
    <3>1. InMain
      BY <2>1 DEF PrintScalar, TakesValue, In, Calling
    <3> QED BY <3>1, BaseIs DEF InMain
  <2>2. CASE stack # <<>>
    BY <2>2, BaseIs DEF PrintScalar, Running
  <2> QED BY <2>1, <2>2
<1>2. ScalarEnd \in Nat /\ file_cursor < ScalarEnd
  BY <1>1, BaseIs, ScalarEnds
<1>3. file_cursor' \in 0 .. file_size + 1 /\ file_cursor < file_cursor'
  BY <1>2, BaseIs DEF PrintScalar
<1>4. /\ stack' \in Seq(Frame) /\ Framed(stack') /\ TabsOf(stack') = TabsOf(stack)
      /\ WaitsOf(stack') = 0
  BY BaseIs, NextKeyOnTop, NothingWaits DEF PrintScalar
<1>5. content' = content /\ pc' = pc /\ tab_cursor' = tab_cursor
  BY DEF PrintScalar
<1>6. TabsOf(stack') + 0 + WaitsOf(stack') + file_cursor
        <= TabsOf(stack) + WaitsOf(stack) + file_cursor'
  BY <1>1, <1>3, <1>4, BaseIs
<1> QED BY <1>3, <1>4, <1>5, <1>6, BaseIs, Unadded DEF Moves

LEMMA KeyMoves == ASSUME Base, PrintKey PROVE Moves(0)
<1> DEFINE t == Front(stack)
           f == Last(stack)
           g == Going(f, "value")
<1>1. stack # <<>> /\ f.call = "dictionary" /\ f.at = "key"
  BY DEF PrintKey, In, Calling
<1>2. OnTop(stack, t, f) /\ t \in Seq(Frame) /\ f \in Frame
  BY <1>1, BaseIs, CallingIs DEF OnTop
<1>3. file_cursor \in Nat /\ file_cursor <= file_size
  BY <1>1, BaseIs DEF PrintKey, Running
<1>4. file_cursor' \in 0 .. file_size + 1 /\ file_cursor < file_cursor'
  BY <1>3, BaseIs, ScalarEnds DEF PrintKey
<1>5. stack' = Append(t, g)
  BY DEF PrintKey, Going
<1> HIDE DEF t, f
<1>6. g \in Frame /\ g.call = f.call /\ g.at = "value"
  BY <1>2, GoingIs
<1> HIDE DEF g
<1>7. OnTop(stack', t, g) /\ stack' \in Seq(Frame)
  BY <1>2, <1>5, <1>6, AppendOnTop
<1>8. Under(t)
  BY <1>2, BaseIs, FramesTop
<1>9. TopOK(g) /\ Tab(g) = 1 /\ Tab(f) = 1
  BY <1>1, <1>2, <1>6, FrameIs DEF TopOK
<1>10. Framed(stack')
  BY <1>7, <1>8, <1>9, FramesTop
<1>11. TabsOf(stack') = TabsOf(t) + Tab(g) /\ TabsOf(stack) = TabsOf(t) + Tab(f)
  BY <1>2, <1>7, TabsTop
<1>12. TabsOf(stack') = TabsOf(stack)
  BY <1>9, <1>11
<1>13. content' = content /\ pc' = pc /\ tab_cursor' = tab_cursor
  BY DEF PrintKey
<1>14. WaitsOf(stack') \in {0, 1} /\ WaitsOf(stack) = 0
  BY <1>1 DEF WaitsOf, f
<1>15. TabsOf(stack') + 0 + WaitsOf(stack') + file_cursor
        <= TabsOf(stack) + WaitsOf(stack) + file_cursor'
  BY <1>3, <1>4, <1>12, <1>14, BaseIs
<1> QED BY <1>4, <1>7, <1>10, <1>12, <1>13, <1>15, BaseIs, Unadded DEF Moves

\* The stack of the caller, when print_array or print_dictionary is called.
Caller == IF In("value") THEN Append(Front(stack), Going(Last(stack), "in value")) ELSE stack

Called(r) ==
    /\ r \in Seq(Frame) /\ Under(r)
    /\ TabsOf(r) = TabsOf(stack) + IF In("value") THEN 1 ELSE 0
    /\ \A c, cursor : Planned(c, cursor, NextKey(stack)) => Planned(c, cursor, r)

LEMMA CallerCalls == ASSUME Base, TakesValue PROVE Called(Caller)
<1>1. CASE stack = <<>>
  <2>1. ~In("value") /\ Caller = stack /\ NextKey(stack) = stack
    BY <1>1 DEF In, Caller, NextKey, Calling
  <2>2. Under(stack)
    BY <1>1, FramesEmpty
  <2>3. TabsOf(stack) = TabsOf(stack) + 0
    BY BaseIs
  <2> QED BY <2>1, <2>2, <2>3, BaseIs DEF Called
<1>2. CASE stack # <<>>
  <2> DEFINE t == Front(stack)
             f == Last(stack)
  <2>1. OnTop(stack, t, f) /\ Calling = f.call /\ Calling \in {"array", "dictionary"}
    BY <1>2, BaseIs, CallingIs
  <2>2. In("value") <=> f.call = "dictionary" /\ f.at = "value"
    BY <2>1 DEF In
  <2>3. f.call = "array" \/ (f.call = "dictionary" /\ f.at = "value")
    <3>1. Calling # "main"
      BY <2>1
    <3>2. Calling = "array" \/ In("value")
      BY <3>1 DEF TakesValue, InMain, In
    <3> QED BY <2>1, <2>2, <3>2
  <2>4. CASE f.call = "array"
    <3>1. ~In("value") /\ Caller = stack /\ NextKey(stack) = stack
      BY <2>2, <2>4 DEF Caller, NextKey
    <3> HIDE DEF t, f
    <3>2. Under(t) /\ TopOK(f)
      BY <2>1, BaseIs, FramesTop
    <3>3. UnderOK(f)
      BY <2>4, <3>2 DEF UnderOK, TopOK
    <3>4. Under(stack)
      BY <2>1, <3>2, <3>3, FramesTop
    <3>5. TabsOf(stack) = TabsOf(stack) + 0
      BY BaseIs
    <3> QED BY <3>1, <3>4, <3>5, BaseIs DEF Called
  <2>5. CASE f.call = "dictionary" /\ f.at = "value"
    <3> DEFINE g == Going(f, "in value")
               k == Going(f, "key")
    <3>1. In("value") /\ Caller = Append(t, g) /\ NextKey(stack) = Append(t, k)
      BY <1>2, <2>2, <2>5 DEF Caller, NextKey, Going
    <3> HIDE DEF t, f
    <3>2. t \in Seq(Frame) /\ f \in Frame
      BY <2>1 DEF OnTop
    <3>3. /\ g \in Frame /\ g.call = f.call /\ g.from = f.from /\ g.at = "in value"
          /\ k \in Frame /\ k.call = f.call /\ k.from = f.from /\ k.at = "key"
      BY <3>2, GoingIs
    <3> HIDE DEF g, k
    <3> DEFINE r == Append(t, g)
    <3>4. OnTop(r, t, g) /\ r \in Seq(Frame)
      BY <3>2, <3>3, AppendOnTop
    <3>5. Under(t)
      BY <2>1, BaseIs, FramesTop
    <3>6. UnderOK(g) /\ Tab(g) = 2 /\ Tab(f) = 1
      BY <2>5, <3>2, <3>3, FrameIs DEF UnderOK
    <3>7. \A c, cursor : Planned(c, cursor, Append(t, k)) => Planned(c, cursor, r)
      <4>1. k.call = "dictionary" => k.at # "value" /\ g.at # "value"
        BY <3>3
      <4> QED BY <3>2, <3>3, <4>1, PlannedSame
    <3> HIDE DEF r
    <3>8. Under(r)
      BY <3>4, <3>5, <3>6, FramesTop
    <3>9. TabsOf(r) = TabsOf(stack) + 1
      <4>1. TabsOf(r) = TabsOf(t) + Tab(g) /\ TabsOf(stack) = TabsOf(t) + Tab(f)
        BY <2>1, <3>4, TabsTop
      <4>2. TabsOf(t) \in Nat
        BY <3>2, TabsNat
      <4> QED BY <3>6, <4>1, <4>2
    <3>10. Called(r)
      BY <3>1, <3>4, <3>7, <3>8, <3>9 DEF Called
    <3> QED BY <3>1, <3>10 DEF r
  <2> QED BY <2>3, <2>4, <2>5
<1> QED BY <1>1, <1>2

\* The call that Call puts on top of the caller's stack.
Callee == [call |-> IF Here = "l" THEN "array" ELSE "dictionary",
           from |-> file_cursor, at |-> "key"]

LEMMA CallMoves == ASSUME Base, Call PROVE Moves(0) /\ OnTop(stack', Caller, Callee)
<1>1. Called(Caller)
  BY CallerCalls DEF Call
<1>2. Here # NUL
  BY DEF Call, NUL
<1>3. file_cursor < file_size
  BY <1>2, BaseIs, AtIs DEF Here
<1>4. file_cursor' = file_cursor + 1 /\ content' = content /\ pc' = pc
  BY DEF Call
<1>5. file_cursor' \in 0 .. file_size + 1
  BY <1>3, <1>4, BaseIs
<1>6. stack' = Append(Caller, Callee)
  BY DEF Call, Caller, Callee, Going
<1>7. Callee \in Frame /\ TopOK(Callee) /\ Tab(Callee) = 1
  <2>1. Callee \in Frame
    BY BaseIs DEF Callee, Frame
  <2>2. TopOK(Callee)
    BY DEF TopOK, Callee
  <2> QED BY <2>1, <2>2, FrameIs
<1>8. OnTop(stack', Caller, Callee) /\ stack' \in Seq(Frame)
  BY <1>1, <1>6, <1>7, AppendOnTop DEF Called
<1>9. Framed(stack')
  BY <1>1, <1>7, <1>8, FramesTop DEF Called
<1>10. TabsOf(stack') = TabsOf(Caller) + Tab(Callee)
  BY <1>8, TabsTop
<1>11. TabsOf(Caller) = TabsOf(stack) + IF In("value") THEN 1 ELSE 0
  BY <1>1 DEF Called
<1>12. tab_cursor' = UShort(tab_cursor + IF In("value") THEN 2 ELSE 1)
  BY DEF Call
<1>13. WaitsOf(stack') = 0 /\ WaitsOf(stack) = IF In("value") THEN 1 ELSE 0
  <2>1. Last(stack') = Callee /\ Callee.at = "key"
    BY <1>8 DEF OnTop, Callee
  <2>2. In("value") <=> stack # <<>> /\ Last(stack).call = "dictionary" /\ Last(stack).at = "value"
    BY DEF In, Calling
  <2> QED BY <2>1, <2>2 DEF WaitsOf
<1>14. pc' \in {"running", "done", "overrun"}
  BY <1>4, BaseIs
<1> DEFINE k == IF In("value") THEN 2 ELSE 1
<1>15. k \in Int /\ Adds(k, 0) /\ TabsOf(stack') \in Nat
       /\ TabsOf(stack') + 0 + WaitsOf(stack') + file_cursor
            <= TabsOf(stack) + WaitsOf(stack) + file_cursor'
  <2>1. CASE In("value")
    <3>1. TabsOf(stack') = TabsOf(stack) + 1 + 1 /\ k = 2 /\ WaitsOf(stack) = 1
      BY <1>7, <1>10, <1>11, <1>13, <2>1
    <3> HIDE DEF k
    <3> QED BY <1>4, <1>12, <1>13, <2>1, <3>1, BaseIs DEF Adds
  <2>2. CASE ~In("value")
    <3>1. TabsOf(stack') = TabsOf(stack) + 0 + 1 /\ k = 1 /\ WaitsOf(stack) = 0
      BY <1>7, <1>10, <1>11, <1>13, <2>2
    <3> HIDE DEF k
    <3> QED BY <1>4, <1>12, <1>13, <2>2, <3>1, BaseIs DEF Adds
  <2> QED BY <2>1, <2>2
<1> HIDE DEF k
<1>16. Moves(0)
  BY <1>4, <1>5, <1>8, <1>9, <1>14, <1>15, Added DEF Moves
<1> QED BY <1>8, <1>16

\* The caller's tabs are those of the stack under the top.
LEMMA ValueTabsAre ==
    ASSUME Base, stack # <<>>
    PROVE  ValueTabs = CallerTabs(Front(stack)) /\ ValueTabs \in {0, 1}
<1> DEFINE t == Front(stack)
           f == Last(stack)
<1>1. OnTop(stack, t, f)
  BY BaseIs, CallingIs
<1> HIDE DEF t, f
<1>2. t \in Seq(Frame) /\ Len(t) \in Nat /\ Len(stack) = Len(t) + 1
  BY <1>1 DEF OnTop
<1>3. CASE t = <<>>
  <2>1. Len(t) = 0
    BY <1>3, FramesEmpty
  <2>2. ~(Len(stack) > 1)
    BY <1>2, <2>1
  <2> QED BY <1>3, <2>2 DEF ValueTabs, CallerTabs, t
<1>4. CASE t # <<>>
  <2>1. Len(t) # 0
    BY <1>2, <1>4, EmptySeq
  <2>2. Len(stack) > 1 /\ Len(stack) - 1 = Len(t) /\ Len(t) \in 1 .. Len(stack)
        /\ Len(t) # Len(stack)
    BY <1>2, <2>1
  <2>3. stack[Len(t)] = t[Len(t)]
    BY <1>1, <2>2, OneFrame
  <2>4. stack[Len(stack) - 1].call = Last(t).call
    BY <2>2, <2>3 DEF Last
  <2> QED BY <1>4, <2>2, <2>4 DEF ValueTabs, CallerTabs, t
<1> QED BY <1>3, <1>4

\* What is left when the call on top is taken off.
LEMMA TakenOff ==
    ASSUME Base, stack # <<>>
    PROVE  /\ Returned(Front(stack), NextKey(Front(stack)))
           /\ TabsOf(NextKey(Front(stack))) = TabsOf(stack) - 1 - ValueTabs
           /\ ValueTabs \in {0, 1} /\ WaitsOf(NextKey(Front(stack))) = 0
           /\ TabsOf(NextKey(Front(stack))) \in Nat
<1> DEFINE t == Front(stack)
           f == Last(stack)
<1>1. OnTop(stack, t, f)
  BY BaseIs, CallingIs
<1>2. ValueTabs = CallerTabs(t) /\ ValueTabs \in {0, 1}
  BY ValueTabsAre
<1> HIDE DEF t, f
<1>3. t \in Seq(Frame) /\ f \in Frame
  BY <1>1 DEF OnTop
<1>4. Under(t) /\ TopOK(f)
  BY <1>1, BaseIs, FramesTop
<1>5. Returned(t, NextKey(t))
  BY <1>3, <1>4, CallerGoesOn
<1>6. TabsOf(stack) = TabsOf(t) + Tab(f) /\ Tab(f) = 1
  BY <1>1, <1>3, <1>4, TabsTop, FrameIs
<1>7. TabsOf(NextKey(t)) = TabsOf(t) - ValueTabs
  BY <1>2, <1>5 DEF Returned
<1>8. TabsOf(t) \in Nat
  BY <1>3, TabsNat
<1>9. TabsOf(NextKey(t)) = TabsOf(stack) - 1 - ValueTabs
  BY <1>2, <1>6, <1>7, <1>8
<1>10. TabsOf(NextKey(t)) \in Nat
  BY <1>5, TabsNat, LenProperties DEF Returned
<1> QED BY <1>2, <1>3, <1>5, <1>9, <1>10, NothingWaits DEF t

LEMMA ReturnMoves == ASSUME Base, Return PROVE Moves(0)
<1>1. stack # <<>>
  BY DEF Return, In, Calling
<1>2. Here # NUL
  BY DEF Return, NUL
<1>3. file_cursor < file_size
  BY <1>2, BaseIs, AtIs DEF Here
<1>4. /\ file_cursor' = file_cursor + 1 /\ content' = content /\ pc' = pc
      /\ stack' = NextKey(Front(stack)) /\ tab_cursor' = UShort(tab_cursor - 1 - ValueTabs)
  BY DEF Return
<1>5. file_cursor' \in 0 .. file_size + 1
  BY <1>3, <1>4, BaseIs
<1>6. /\ stack' \in Seq(Frame) /\ Framed(stack') /\ ValueTabs \in {0, 1}
      /\ TabsOf(stack') = TabsOf(stack) - 1 - ValueTabs
      /\ TabsOf(stack') \in Nat /\ WaitsOf(stack') = 0
  BY <1>1, <1>4, TakenOff DEF Returned
<1> DEFINE k == 0 - 1 - ValueTabs
<1>7. /\ k \in Int /\ Adds(k, 0)
      /\ TabsOf(stack') + 0 + WaitsOf(stack') + file_cursor
            <= TabsOf(stack) + WaitsOf(stack) + file_cursor'
  <2>1. /\ tab_cursor \in Int /\ TabsOf(stack) \in Nat /\ WaitsOf(stack) \in {0, 1}
        /\ file_cursor \in Nat
    BY BaseIs, TabLimitAssumption
  <2>2. tab_cursor - 1 - ValueTabs = tab_cursor + k /\ TabsOf(stack') + 0 = TabsOf(stack) + k
    BY <1>6, <2>1
  <2> QED BY <1>4, <1>6, <2>1, <2>2 DEF Adds
<1> HIDE DEF k
<1> QED BY <1>4, <1>5, <1>6, <1>7, BaseIs, Added DEF Moves

LEMMA KeyIsMissingMoves == ASSUME Base, KeyIsMissing PROVE Moves(1)
<1>1. stack # <<>>
  BY DEF KeyIsMissing, In, Calling
<1>2. /\ file_cursor' = file_cursor /\ content' = content /\ pc' = pc
      /\ stack' = NextKey(Front(stack)) /\ tab_cursor' = UShort(tab_cursor - ValueTabs)
  BY DEF KeyIsMissing
<1>3. /\ stack' \in Seq(Frame) /\ Framed(stack') /\ ValueTabs \in {0, 1}
      /\ TabsOf(stack') = TabsOf(stack) - 1 - ValueTabs
      /\ TabsOf(stack') \in Nat /\ WaitsOf(stack') = 0
  BY <1>1, <1>2, TakenOff DEF Returned
<1> DEFINE k == 0 - ValueTabs
<1>4. /\ k \in Int /\ Adds(k, 1)
      /\ TabsOf(stack') + 1 + WaitsOf(stack') + file_cursor
            <= TabsOf(stack) + WaitsOf(stack) + file_cursor'
  <2>1. /\ tab_cursor \in Int /\ TabsOf(stack) \in Nat /\ WaitsOf(stack) \in {0, 1}
        /\ file_cursor \in Nat
    BY BaseIs, TabLimitAssumption
  <2>2. tab_cursor - ValueTabs = tab_cursor + k /\ TabsOf(stack') + 1 = TabsOf(stack) + k
    BY <1>3, <2>1
  <2> QED BY <1>2, <1>3, <2>1, <2>2 DEF Adds
<1> HIDE DEF k
<1> QED BY <1>2, <1>3, <1>4, BaseIs, Added DEF Moves

LEMMA ValueIsMissingMoves == ASSUME Base, ValueIsMissing PROVE Moves(0)
<1>1. /\ stack' \in Seq(Frame) /\ Framed(stack') /\ TabsOf(stack') = TabsOf(stack)
      /\ WaitsOf(stack') = 0
  BY BaseIs, NextKeyOnTop, NothingWaits DEF ValueIsMissing
<1>2. content' = content /\ pc' = pc /\ tab_cursor' = tab_cursor /\ file_cursor' = file_cursor
  BY DEF ValueIsMissing
<1>3. TabsOf(stack') + 0 + WaitsOf(stack') + file_cursor
        <= TabsOf(stack) + WaitsOf(stack) + file_cursor'
  BY <1>1, <1>2, BaseIs
<1> QED BY <1>1, <1>2, <1>3, BaseIs, Unadded DEF Moves

LEMMA OthersMove ==
    ASSUME Base, Overrun \/ MainReturns \/ UNCHANGED vars
    PROVE  Moves(0)
<1>1. /\ content' = content /\ tab_cursor' = tab_cursor /\ file_cursor' = file_cursor
      /\ stack' = stack /\ pc' \in {"running", "done", "overrun"}
  BY BaseIs DEF Overrun, MainReturns, vars
<1>2. TabsOf(stack') = TabsOf(stack) /\ Framed(stack')
  BY <1>1, BaseIs
<1>3. TabsOf(stack') + 0 + WaitsOf(stack') + file_cursor
        <= TabsOf(stack) + WaitsOf(stack) + file_cursor'
  BY <1>1, <1>2, BaseIs
<1> QED BY <1>1, <1>2, <1>3, BaseIs, Unadded DEF Moves

LEMMA AllMove ==
    ASSUME Base, [Next]_vars
    PROVE  IF KeyIsMissing THEN Moves(1) ELSE Moves(0)
<1>1. ASSUME ~KeyIsMissing PROVE Moves(0)
  <2>1. \/ PrintScalar \/ PrintKey \/ Call \/ Return \/ ValueIsMissing
        \/ Overrun \/ MainReturns \/ UNCHANGED vars
    BY <1>1 DEF Next, Stay, Ended
  <2> QED BY <2>1, ScalarMoves, KeyMoves, CallMoves, ReturnMoves, ValueIsMissingMoves, OthersMove
<1> QED BY <1>1, KeyIsMissingMoves

-----------------------------------------------------------------------------
(***************************************************************************)
(* The steps in B code: each keeps the plan.                               *)
(***************************************************************************)
Ahead == Planned(content, file_cursor, stack)

\* The character at the end of a call's value.
LEMMA EndIs ==
    ASSUME Base, NEW f, NEW x \in Nat, FrameInv(content, f, file_cursor, x), f.at # "value"
    PROVE  /\ file_cursor < x /\ x <= file_size
           /\ file_cursor = x - 1 => Here = "e"
<1>1. IF f.call = "array" THEN AreVals(content, file_cursor, x - 1)
      ELSE ArePairs(content, file_cursor, x - 1)
  BY DEF FrameInv, Inside
<1>2. file_cursor \in Nat /\ file_cursor <= x - 1
  BY <1>1, BaseIs DEF AreVals, ArePairs, Stretch
<1>3. x <= file_size /\ content[x] = "e"
  BY DEF FrameInv, IsVal, Stretch, file_size
<1>4. file_cursor < x /\ file_cursor < file_size
  BY <1>2, <1>3, BaseIs
<1>5. ASSUME file_cursor = x - 1 PROVE Here = "e"
  <2>1. file_cursor + 1 = x
    BY <1>2, <1>5
  <2>2. At(file_cursor) = content[file_cursor + 1]
    BY <1>2, <1>4, BaseIs, AtIs
  <2> QED BY <1>3, <2>1, <2>2 DEF Here
<1> QED BY <1>3, <1>4, <1>5

\* Here is a value, and what comes behind it is planned for.
ValueAhead == \E m \in Nat : IsVal(content, file_cursor, m) /\ Planned(content, m, NextKey(stack))

LEMMA ValueComes ==
    ASSUME Base, Ahead, TakesValue, Calling = "array" => Here # "e"
    PROVE  ValueAhead
<1>0. content \in Seq(Characters)
  BY BaseIs DEF ContentOK
<1>1. CASE stack = <<>>
  <2>1. AreVals(content, file_cursor, Len(content))
    BY <1>1, PlannedNone DEF Ahead
  <2>2. file_cursor < Len(content)
    BY <1>1 DEF TakesValue, InMain, In, Calling, file_size
  <2>3. BeginsWithValue(content, file_cursor, Len(content))
    BY <1>0, <2>1, <2>2, ValuesBegin
  <2>4. PICK m \in Nat : IsVal(content, file_cursor, m) /\ AreVals(content, m, Len(content))
    BY <2>3 DEF BeginsWithValue
  <2>5. NextKey(stack) = <<>> /\ Planned(content, m, <<>>)
    BY <1>1, <2>4, PlannedNone DEF NextKey
  <2> QED BY <2>4, <2>5 DEF ValueAhead
<1>2. CASE stack # <<>>
  <2> DEFINE t == Front(stack)
             f == Last(stack)
  <2>1. OnTop(stack, t, f) /\ Calling = f.call /\ Calling \in {"array", "dictionary"}
    BY <1>2, BaseIs, CallingIs
  <2>2. f.call = "array" \/ (f.call = "dictionary" /\ f.at = "value")
    <3>1. Calling # "main"
      BY <2>1
    <3>2. Calling = "array" \/ (Calling = "dictionary" /\ f.at = "value")
      BY <3>1 DEF TakesValue, InMain, In
    <3> QED BY <2>1, <3>2
  <2>3. f.call = "array" => NextKey(stack) = stack
    BY DEF NextKey
  <2>4. f.call = "dictionary" => NextKey(stack) = Append(t, Going(f, "key"))
    BY <1>2 DEF NextKey, Going
  <2> HIDE DEF t, f
  <2>5. OneMore(content, file_cursor, t, f)
    BY <2>1, PlannedTop DEF Ahead
  <2>6. PICK x \in Nat : Planned(content, x, t) /\ FrameInv(content, f, file_cursor, x)
    BY <2>5 DEF OneMore
  <2>7. CASE f.call = "array"
    <3>1. f.at # "value"
      BY <2>1, <2>7, BaseIs, FramesTop DEF TopOK
    <3>2. file_cursor < x /\ file_cursor # x - 1
      BY <2>1, <2>6, <2>7, <3>1, EndIs
    <3>3. AreVals(content, file_cursor, x - 1) /\ file_cursor < x - 1
      BY <2>6, <2>7, <3>2, BaseIs DEF FrameInv, Inside
    <3>4. BeginsWithValue(content, file_cursor, x - 1)
      BY <1>0, <3>3, ValuesBegin
    <3>5. PICK m \in Nat : IsVal(content, file_cursor, m) /\ AreVals(content, m, x - 1)
      BY <3>4 DEF BeginsWithValue
    <3>6. FrameInv(content, f, m, x)
      BY <2>6, <2>7, <3>5 DEF FrameInv, Inside
    <3>7. OneMore(content, m, t, f)
      BY <2>6, <3>6 DEF OneMore
    <3>8. Planned(content, m, stack)
      BY <2>1, <3>7, PlannedTop
    <3> QED BY <2>3, <2>7, <3>5, <3>8 DEF ValueAhead
  <2>8. CASE f.call = "dictionary" /\ f.at = "value"
    <3>1. PICK m \in Nat : IsVal(content, file_cursor, m) /\ ArePairs(content, m, x - 1)
      BY <2>6, <2>8 DEF FrameInv, Inside
    <3> DEFINE k == Going(f, "key")
    <3>2. k \in Frame /\ k.call = f.call /\ k.from = f.from /\ k.at = "key" /\ t \in Seq(Frame)
      BY <2>1, GoingIs DEF OnTop
    <3>3. NextKey(stack) = Append(t, k)
      BY <2>4, <2>8
    <3> HIDE DEF k
    <3>4. FrameInv(content, k, m, x)
      BY <2>6, <2>8, <3>1, <3>2 DEF FrameInv, Inside
    <3>5. OneMore(content, m, t, k)
      BY <2>6, <3>4 DEF OneMore
    <3>6. Planned(content, m, Append(t, k))
      BY <3>2, <3>5, AppendOnTop, PlannedTop
    <3> QED BY <3>1, <3>3, <3>6 DEF ValueAhead
  <2> QED BY <2>2, <2>7, <2>8
<1> QED BY <1>1, <1>2

\* The value here is told by its first character.
LEMMA ValueHere ==
    ASSUME Base, NEW m, IsVal(content, file_cursor, m)
    PROVE  /\ Here \in Begin /\ m \in Nat /\ file_cursor < m /\ m <= file_size
           /\ Here = "l" => IsListAt(content, file_cursor, m)
           /\ Here = "d" => IsDictAt(content, file_cursor, m)
           /\ IsScalar => ScalarEnd = m
<1>0. content \in Seq(Characters)
  BY BaseIs DEF ContentOK
<1> DEFINE ch == content[file_cursor + 1]
<1>1. /\ file_cursor \in Nat /\ m \in Nat /\ file_cursor < m /\ m <= Len(content) /\ ch \in Begin
      /\ ch = "l" => IsListAt(content, file_cursor, m)
      /\ ch = "d" => IsDictAt(content, file_cursor, m)
      /\ ch = "i" => IsIntAt(content, file_cursor, m)
      /\ ch \in Digits => IsStr(content, file_cursor, m)
  BY <1>0, ValueBegins
<1>2. file_cursor < file_size /\ file_size = Len(content)
  BY <1>1, BaseIs DEF file_size
<1>3. Here = ch
  BY <1>1, <1>2, BaseIs, AtIs DEF Here
<1> HIDE DEF ch
<1>4. ch \in Digits => ScalarEnd = m
  BY <1>1, BaseIs, StringEnds
<1>5. ch = "i" => ScalarEnd = m
  BY <1>1, BaseIs, IntegerEnds DEF IsVal
<1> QED BY <1>1, <1>2, <1>3, <1>4, <1>5 DEF IsScalar

LEMMA ScalarKeeps == ASSUME Base, Ahead, PrintScalar PROVE Ahead'
<1>1. ValueAhead
  <2>1. Here # "e" /\ TakesValue
    BY DigitsAssumption DEF PrintScalar, IsScalar, AllDigits
  <2> QED BY <2>1, ValueComes
<1>2. PICK m \in Nat : IsVal(content, file_cursor, m) /\ Planned(content, m, NextKey(stack))
  BY <1>1 DEF ValueAhead
<1>3. file_cursor' = m /\ content' = content /\ stack' = NextKey(stack)
  BY <1>2, ValueHere DEF PrintScalar
<1> QED BY <1>2, <1>3 DEF Ahead

\* A dictionary before a key has one, with its value, or the 'e' here.
PairAhead(x) ==
    \E m1, m2 \in Nat :
        /\ IsStr(content, file_cursor, m1) /\ IsVal(content, m1, m2)
        /\ ArePairs(content, m2, x - 1)

KeyPlan(t, f, x) ==
    /\ OnTop(stack, t, f) /\ f.call = "dictionary" /\ f.at = "key"
    /\ x \in Nat /\ Planned(content, x, t) /\ FrameInv(content, f, file_cursor, x)
    /\ Here # "e" => PairAhead(x)

LEMMA KeyComes ==
    ASSUME Base, Ahead, In("key")
    PROVE  \E x : KeyPlan(Front(stack), Last(stack), x)
<1> DEFINE t == Front(stack)
           f == Last(stack)
<1>1. stack # <<>> /\ f.call = "dictionary" /\ f.at = "key"
  BY DEF In, Calling
<1>2. OnTop(stack, t, f)
  BY <1>1, BaseIs, CallingIs
<1> HIDE DEF t, f
<1>3. OneMore(content, file_cursor, t, f)
  BY <1>2, PlannedTop DEF Ahead
<1>4. PICK x \in Nat : Planned(content, x, t) /\ FrameInv(content, f, file_cursor, x)
  BY <1>3 DEF OneMore
<1>5. ASSUME Here # "e" PROVE PairAhead(x)
  <2>1. file_cursor < x /\ file_cursor # x - 1
    BY <1>1, <1>4, <1>5, EndIs
  <2>2. ArePairs(content, file_cursor, x - 1)
    BY <1>1, <1>4 DEF FrameInv, Inside
  <2>3. file_cursor < x - 1
    BY <2>1, BaseIs
  <2>4. BeginsWithPair(content, file_cursor, x - 1)
    BY <2>2, <2>3, PairsBegin, BaseIs DEF ContentOK
  <2> QED BY <2>4 DEF BeginsWithPair, PairAhead
<1>6. KeyPlan(t, f, x)
  BY <1>1, <1>2, <1>4, <1>5 DEF KeyPlan
<1> QED BY <1>6 DEF t, f

LEMMA KeyKeeps == ASSUME Base, Ahead, PrintKey PROVE Ahead'
<1>1. In("key") /\ Here # "e"
  BY DigitsAssumption DEF PrintKey, AllDigits
<1> DEFINE t == Front(stack)
           f == Last(stack)
           g == Going(f, "value")
<1>2. PICK x : KeyPlan(t, f, x)
  BY <1>1, KeyComes
<1>3. stack' = Append(t, g) /\ content' = content /\ file_cursor' = ScalarEnd
  BY DEF PrintKey, Going
<1> HIDE DEF t, f
<1>4. OnTop(stack, t, f) /\ f.call = "dictionary" /\ x \in Nat /\ Planned(content, x, t)
      /\ FrameInv(content, f, file_cursor, x) /\ PairAhead(x)
  BY <1>1, <1>2 DEF KeyPlan
<1>5. PICK m1, m2 \in Nat : /\ IsStr(content, file_cursor, m1) /\ IsVal(content, m1, m2)
                            /\ ArePairs(content, m2, x - 1)
  BY <1>4 DEF PairAhead
<1>6. ScalarEnd = m1
  BY <1>5, BaseIs, StringEnds
<1>7. t \in Seq(Frame) /\ f \in Frame
  BY <1>4 DEF OnTop
<1>8. g \in Frame /\ g.call = f.call /\ g.from = f.from /\ g.at = "value"
  BY <1>7, GoingIs
<1> HIDE DEF g
<1>9. Inside(content, g, m1, x - 1)
  BY <1>4, <1>5, <1>8 DEF Inside
<1>10. FrameInv(content, g, m1, x)
  BY <1>4, <1>8, <1>9 DEF FrameInv
<1>11. OneMore(content, m1, t, g)
  BY <1>4, <1>10 DEF OneMore
<1>12. Planned(content, m1, Append(t, g))
  BY <1>7, <1>8, <1>11, AppendOnTop, PlannedTop
<1> QED BY <1>3, <1>6, <1>12 DEF Ahead

LEMMA CallKeeps == ASSUME Base, Ahead, Call PROVE Ahead'
<1>1. Here \in {"l", "d"} /\ TakesValue
  BY DEF Call
<1>2. ValueAhead
  BY <1>1, ValueComes
<1>3. PICK m \in Nat : IsVal(content, file_cursor, m) /\ Planned(content, m, NextKey(stack))
  BY <1>2 DEF ValueAhead
<1>4. Planned(content, m, Caller)
  BY <1>1, <1>3, CallerCalls DEF Called
<1> DEFINE f == Callee
<1>5. OnTop(stack', Caller, f) /\ content' = content /\ file_cursor' = file_cursor + 1
  BY CallMoves DEF Call
<1>6. /\ f.call = IF Here = "l" THEN "array" ELSE "dictionary"
      /\ f.from = file_cursor /\ f.at = "key"
  BY DEF Callee
<1> HIDE DEF f
<1>7. /\ Here = "l" => IsListAt(content, file_cursor, m)
      /\ Here = "d" => IsDictAt(content, file_cursor, m)
  BY <1>3, ValueHere
<1>8. FrameInv(content, f, file_cursor + 1, m)
  <2>1. CASE Here = "l"
    BY <1>3, <1>6, <1>7, <2>1 DEF IsListAt, FrameInv, Inside
  <2>2. CASE Here = "d"
    BY <1>3, <1>6, <1>7, <2>2 DEF IsDictAt, FrameInv, Inside
  <2> QED BY <1>1, <2>1, <2>2
<1>9. OneMore(content, file_cursor + 1, Caller, f)
  BY <1>3, <1>4, <1>8 DEF OneMore
<1>10. Planned(content, file_cursor + 1, stack')
  BY <1>5, <1>9, PlannedTop
<1> QED BY <1>5, <1>10 DEF Ahead

\* A call returns behind the 'e' of its value.
ReturnsAtEnd == IsVal(content, Last(stack).from, file_cursor + 1)

LEMMA ReturnKeeps == ASSUME Base, Ahead, Return PROVE Ahead' /\ ReturnsAtEnd
<1> DEFINE t == Front(stack)
           f == Last(stack)
<1>0. content \in Seq(Characters)
  BY BaseIs DEF ContentOK
<1>1. stack # <<>> /\ (f.call = "array" \/ (f.call = "dictionary" /\ f.at = "key")) /\ Here = "e"
  BY DEF Return, In, Calling
<1>2. OnTop(stack, t, f)
  BY <1>1, BaseIs, CallingIs
<1>3. Returned(t, NextKey(t))
  BY <1>1, TakenOff
<1>4. file_cursor' = file_cursor + 1 /\ content' = content /\ stack' = NextKey(t)
  BY DEF Return
<1> HIDE DEF t, f
<1>5. f.at # "value"
  BY <1>1, <1>2, BaseIs, FramesTop DEF TopOK
<1>6. OneMore(content, file_cursor, t, f)
  BY <1>2, PlannedTop DEF Ahead
<1>7. PICK x \in Nat : Planned(content, x, t) /\ FrameInv(content, f, file_cursor, x)
  BY <1>6 DEF OneMore
<1>8. file_cursor < x /\ x <= file_size
  BY <1>5, <1>7, EndIs
<1>9. At(file_cursor) = content[file_cursor + 1]
  BY <1>8, BaseIs, AtIs
<1>10. content[file_cursor + 1] = "e"
  BY <1>1, <1>9 DEF Here
<1>11. file_cursor = x - 1
  <2>1. SUFFICES ASSUME file_cursor # x - 1 PROVE FALSE
    OBVIOUS
  <2>2. file_cursor < x - 1
    BY <1>8, <2>1, BaseIs
  <2>3. CASE f.call = "array"
    <3>1. AreVals(content, file_cursor, x - 1)
      BY <1>7, <2>3 DEF FrameInv, Inside
    <3>2. BeginsWithValue(content, file_cursor, x - 1)
      BY <1>0, <2>2, <3>1, ValuesBegin
    <3>3. PICK m \in Nat : IsVal(content, file_cursor, m) /\ AreVals(content, m, x - 1)
      BY <3>2 DEF BeginsWithValue
    <3>4. Here \in Begin
      BY <3>3, ValueHere
    <3> QED BY <1>1, <3>4, DigitsAssumption DEF Begin, AllDigits
  <2>4. CASE f.call = "dictionary" /\ f.at = "key"
    <3>1. ArePairs(content, file_cursor, x - 1)
      BY <1>7, <2>4 DEF FrameInv, Inside
    <3>2. BeginsWithPair(content, file_cursor, x - 1)
      BY <1>0, <2>2, <3>1, PairsBegin
    <3>3. PICK m1, m2 \in Nat : /\ IsStr(content, file_cursor, m1) /\ IsVal(content, m1, m2)
                                /\ ArePairs(content, m2, x - 1)
      BY <3>2 DEF BeginsWithPair
    <3>4. Here \in Digits
      BY <3>3, BaseIs, StringEnds
    <3> QED BY <1>1, <3>4, DigitsAssumption DEF AllDigits
  <2> QED BY <1>1, <2>3, <2>4
<1>12. file_cursor + 1 = x
  BY <1>11, <1>7
<1>13. Planned(content, x, NextKey(t))
  BY <1>3, <1>7 DEF Returned
<1>14. Ahead'
  BY <1>4, <1>12, <1>13 DEF Ahead
<1>15. IsVal(content, f.from, file_cursor + 1)
  BY <1>7, <1>12 DEF FrameInv
<1> QED BY <1>14, <1>15 DEF ReturnsAtEnd, f

\* Nothing is missing in B code, and the end of a scalar is there.
LEMMA NothingIsMissing ==
    ASSUME Base, Ahead
    PROVE  ~KeyIsMissing /\ ~ValueIsMissing /\ ~Overrun
<1>1. ASSUME KeyIsMissing PROVE FALSE
  <2>1. In("key") /\ Here # "e" /\ Here \notin Digits
    BY <1>1 DEF KeyIsMissing
  <2>2. PICK x : KeyPlan(Front(stack), Last(stack), x)
    BY <2>1, KeyComes
  <2>3. PICK m \in Nat : IsStr(content, file_cursor, m)
    BY <2>1, <2>2 DEF KeyPlan, PairAhead
  <2> QED BY <2>1, <2>3, BaseIs, StringEnds
<1>2. ASSUME ValueIsMissing PROVE FALSE
  <2>1. TakesValue /\ Calling # "array" /\ Here \notin Begin
    BY <1>2 DEF ValueIsMissing, TakesValue, In, Begin
  <2>2. ValueAhead
    BY <2>1, ValueComes
  <2> QED BY <2>1, <2>2, ValueHere DEF ValueAhead
<1>3. ASSUME stack # <<>>, file_cursor > file_size PROVE FALSE
  <2> DEFINE t == Front(stack)
             f == Last(stack)
  <2>1. OnTop(stack, t, f)
    BY <1>3, BaseIs, CallingIs
  <2> HIDE DEF t, f
  <2>2. OneMore(content, file_cursor, t, f)
    BY <2>1, PlannedTop DEF Ahead
  <2>3. PICK x \in Nat : FrameInv(content, f, file_cursor, x)
    BY <2>2 DEF OneMore
  <2>4. Inside(content, f, file_cursor, x - 1)
    BY <2>3 DEF FrameInv
  <2>5. file_cursor <= file_size
    <3>1. ASSUME NEW b, Stretch(content, file_cursor, b) PROVE file_cursor <= file_size
      BY <3>1, BaseIs DEF Stretch, file_size
    <3> QED BY <2>4, <3>1 DEF Inside, AreVals, ArePairs, IsVal
  <2> QED BY <1>3, <2>5, BaseIs
<1>4. ASSUME TakesValue, IsScalar, ScalarEnd > file_size + 1 PROVE FALSE
  <2>1. Here # "e"
    BY <1>4, DigitsAssumption DEF IsScalar, AllDigits
  <2>2. ValueAhead
    BY <1>4, <2>1, ValueComes
  <2>3. PICK m \in Nat : IsVal(content, file_cursor, m)
    BY <2>2 DEF ValueAhead
  <2>4. ScalarEnd = m /\ m <= file_size
    BY <1>4, <2>3, ValueHere
  <2> QED BY <1>4, <2>4, BaseIs
<1>5. ASSUME In("key"), Here \in Digits, ScalarEnd > file_size + 1 PROVE FALSE
  <2>1. Here # "e"
    BY <1>5, DigitsAssumption DEF AllDigits
  <2>2. PICK x : KeyPlan(Front(stack), Last(stack), x)
    BY <1>5, KeyComes
  <2>3. PICK m \in Nat : IsStr(content, file_cursor, m)
    BY <2>1, <2>2 DEF KeyPlan, PairAhead
  <2>4. ScalarEnd = m /\ m <= file_size
    BY <2>3, BaseIs, StringEnds
  <2> QED BY <1>5, <2>4, BaseIs
<1>6. ~Overrun
  BY <1>3, <1>4, <1>5, Zenon DEF Overrun
<1> QED BY <1>1, <1>2, <1>6

-----------------------------------------------------------------------------
LEMMA DocumentsAhead ==
    ASSUME NEW c \in Seq(Characters), c \in Documents
    PROVE  AreVals(c, 0, Len(c))
<1>1. PICK n \in 1 .. MaxLength : c \in Grammar[n].values_
  BY DEF Documents
<1>2. n \in 0 .. MaxLength /\ n \in Nat
  BY <1>1, MaxLengthAssumption
<1>3. Len(c) = n
  BY <1>1, <1>2, GrammarSized DEF Sized, Texts, IsText
<1>4. SubSeq(c, 1, Len(c)) = c
  BY SubSeqFull
<1>5. Part(c, 0, n) = c
  BY <1>3, <1>4 DEF Part
<1>6. Stretch(c, 0, n) /\ n - 0 = n
  BY <1>2, <1>3, MaxLengthAssumption DEF Stretch
<1>7. AreVals(c, 0, n)
  BY <1>1, <1>5, <1>6 DEF AreVals
<1> QED BY <1>3, <1>7

LEMMA InitInv == Init => IInv
<1>1. SUFFICES ASSUME Init PROVE IInv
  OBVIOUS
<1>2. content \in Seq(Characters) /\ ContentOK
  BY <1>1, ContentsAssumption DEF Init, ContentOK
<1>3. file_size \in Nat
  BY <1>2, AtIs
<1>4. TypeOK
  BY <1>1, <1>3, FramesEmpty, TabLimitAssumption DEF Init, TypeOK
<1>5. Framed(stack)
  BY <1>1, FramesEmpty DEF Init
<1>6. TabsOf(stack) = 0 /\ WaitsOf(stack) = 0 /\ UShort(0) = 0
  BY <1>1, TabsEmpty, UShortIs, TabLimitAssumption DEF Init, WaitsOf
<1>7. TabsInv
  <2>1. LeftOn(0)
    BY <1>1, <1>6 DEF Init, LeftOn
  <2> QED BY <2>1 DEF TabsInv
<1>8. ASSUME content \in Documents PROVE Planned(content, file_cursor, stack)
  <2>1. AreVals(content, 0, Len(content))
    BY <1>2, <1>8, DocumentsAhead
  <2> QED BY <1>1, <2>1, PlannedNone DEF Init
<1>9. DocumentInv /\ DoneInv
  BY <1>1, <1>8 DEF Init, DocumentInv, DoneInv
<1> QED BY <1>1, <1>4, <1>5, <1>7, <1>9 DEF IInv, Init

LEMMA InvBase == IInv => Base
<1>1. SUFFICES ASSUME IInv PROVE Base
  OBVIOUS
<1>2. content \in Seq(Characters)
  BY <1>1, ContentsAssumption DEF IInv
<1> QED BY <1>1, <1>2 DEF IInv, Base, ContentOK

LEMMA AheadStays ==
    ASSUME Base, Ahead, [Next]_vars
    PROVE  Ahead' /\ ~KeyIsMissing /\ ~Overrun
<1>1. ~KeyIsMissing /\ ~ValueIsMissing /\ ~Overrun
  BY NothingIsMissing
<1>2. ASSUME MainReturns \/ UNCHANGED vars PROVE Ahead'
  <2>1. content' = content /\ file_cursor' = file_cursor /\ stack' = stack
    BY <1>2 DEF MainReturns, vars
  <2> QED BY <2>1 DEF Ahead
<1>3. PrintScalar \/ PrintKey \/ Call \/ Return \/ MainReturns \/ UNCHANGED vars
  BY <1>1 DEF Next, Stay, Ended
<1> QED BY <1>1, <1>2, <1>3, ScalarKeeps, KeyKeeps, CallKeeps, ReturnKeeps

LEMMA StepInv == IInv /\ [Next]_vars => IInv'
<1>1. SUFFICES ASSUME IInv, [Next]_vars PROVE IInv'
  OBVIOUS
<1>2. Base /\ (content \in Documents => Ahead /\ pc # "overrun")
  BY <1>1, InvBase DEF IInv, DocumentInv, Ahead
<1>3. PICK d \in {0, 1} : Moves(d) /\ (~KeyIsMissing => d = 0)
  BY <1>1, <1>2, AllMove
<1>4. /\ content' = content /\ pc' \in {"running", "done", "overrun"}
      /\ file_cursor' \in 0 .. file_size + 1
      /\ stack' \in Seq(Frame) /\ Framed(stack')
      /\ tab_cursor' \in 0 .. TabLimit - 1
  BY <1>3 DEF Moves
<1>5. file_size' = file_size
  BY <1>4 DEF file_size
<1>6. TabsOf(stack') \in Nat /\ TabsOf(stack) \in Nat /\ file_cursor \in Nat /\ file_cursor' \in Nat
  <2>1. Len(stack') \in Nat /\ file_size \in Nat
    BY <1>2, <1>4, BaseIs, LenProperties
  <2> QED BY <1>2, <1>4, <2>1, BaseIs, TabsNat
<1>7. PICK left : LeftOn(left)
  BY <1>1 DEF IInv, TabsInv
<1>8. WaitsOf(stack) \in Nat /\ WaitsOf(stack') \in Nat /\ left \in Nat /\ left + d \in Nat
  BY <1>3, <1>7 DEF WaitsOf, LeftOn
<1>9. content \in Documents => Ahead' /\ d = 0 /\ ~Overrun
  BY <1>1, <1>2, <1>3, AheadStays
<1>10. LeftOn(left + d)'
  <2>1. tab_cursor' = UShort(TabsOf(stack') + left + d)
    BY <1>3, <1>7, <1>8 DEF Moves, LeftOn
  <2>2. TabsOf(stack') + (left + d) = TabsOf(stack') + left + d
    BY <1>3, <1>6, <1>8
  <2>3. TabsOf(stack') + (left + d) + WaitsOf(stack') <= file_cursor'
    <3>1. TabsOf(stack') + d + WaitsOf(stack') + file_cursor
            <= TabsOf(stack) + WaitsOf(stack) + file_cursor'
      BY <1>3 DEF Moves
    <3>2. TabsOf(stack) + left + WaitsOf(stack) <= file_cursor
      BY <1>7 DEF LeftOn
    <3> QED BY <1>3, <1>6, <1>8, <3>1, <3>2
  <2>4. content' \in Documents => left + d = 0
    BY <1>4, <1>7, <1>8, <1>9 DEF LeftOn
  <2> QED BY <1>8, <2>1, <2>2, <2>3, <2>4 DEF LeftOn
<1>11. TypeOK'
  BY <1>4, <1>5 DEF TypeOK
<1>12. TabsInv'
  BY <1>10 DEF TabsInv
<1>13. content \in Documents => pc' # "overrun"
  <2>1. SUFFICES ASSUME content \in Documents PROVE pc' # "overrun"
    OBVIOUS
  <2>2. pc # "overrun" /\ ~Overrun
    BY <1>2, <1>9, <2>1
  <2>3. pc' = pc \/ pc' = "done"
    BY <1>1, <2>2 DEF Next, vars, PrintScalar, PrintKey, Call, Return, KeyIsMissing,
                      ValueIsMissing, Stay, MainReturns, Ended
  <2> QED BY <2>2, <2>3
<1>14. DocumentInv'
  BY <1>4, <1>9, <1>13 DEF DocumentInv, Ahead
<1>15. DoneInv'
  <2>1. CASE MainReturns
    <3>1. stack = <<>>
      BY <1>2, <2>1, BaseIs, CallingIs DEF MainReturns
    <3> QED BY <1>5, <2>1, <3>1 DEF MainReturns, DoneInv
  <2>2. CASE ~MainReturns
    <3>1. UNCHANGED vars \/ pc' # "done"
      BY <1>1, <2>2 DEF Next, PrintScalar, PrintKey, Call, Return, KeyIsMissing,
                        ValueIsMissing, Stay, Overrun, Ended, Running
    <3>2. ASSUME UNCHANGED vars PROVE DoneInv'
      BY <1>1, <1>5, <3>2 DEF vars, IInv, DoneInv
    <3> QED BY <3>1, <3>2 DEF DoneInv
  <2> QED BY <2>1, <2>2
<1>16. content' \in Contents
  BY <1>1, <1>4 DEF IInv
<1> QED BY <1>4, <1>11, <1>12, <1>14, <1>15, <1>16 DEF IInv

LEMMA Invariance == Spec => []IInv
<1> QED BY InitInv, StepInv, PTL DEF Spec

\* The invariant of the depth gives the property.
LEMMA InvFollows == IInv => DecoderInv
<1>1. SUFFICES ASSUME IInv PROVE DecoderInv
  OBVIOUS
<1>2. PICK left : LeftOn(left)
  BY <1>1 DEF IInv, TabsInv
<1>3. TabsOf(stack) \in Nat /\ file_cursor \in Nat /\ WaitsOf(stack) \in {0, 1} /\ left \in Nat
  BY <1>1, <1>2, InvBase, BaseIs DEF LeftOn
<1>4. content \in Documents => tab_cursor = UShort(Tabs)
  <2>1. TabsOf(stack) + 0 = TabsOf(stack)
    BY <1>3
  <2> QED BY <1>2, <2>1 DEF LeftOn, Tabs
<1>5. file_cursor < TabLimit => tab_cursor >= Tabs
  <2>1. SUFFICES ASSUME file_cursor < TabLimit PROVE tab_cursor >= TabsOf(stack)
    BY DEF Tabs
  <2>2. TabsOf(stack) + left \in 0 .. TabLimit - 1
    BY <1>2, <1>3, <2>1, TabLimitAssumption DEF LeftOn
  <2>3. UShort(TabsOf(stack) + left) = TabsOf(stack) + left
    BY <2>2, UShortIs
  <2> QED BY <1>2, <1>3, <2>3 DEF LeftOn
<1> QED BY <1>1, <1>4, <1>5 DEF IInv, DecoderInv, TabsFollowCalls

\* The depth printed is that of the calls while the file is B code, as far as
\* tab_cursor holds it, and in any file not behind them until TabLimit
\* characters are read: 65,536 in the code.
THEOREM DepthIsKept == Spec => []DecoderInv
<1>1. IInv => DecoderInv
  BY InvFollows
<1> QED BY <1>1, Invariance, PTL

\* Each call of print_array and print_dictionary in B code returns behind the
\* end of the value it was called for, however deep the value is.
THEOREM CallsReturnAtEnd == Spec => CallsTakeOneValue
<1>1. ASSUME IInv, [Next]_vars
      PROVE  [(content \in Documents /\ Len(stack') < Len(stack))
              => (SubSeq(content, Last(stack).from + 1, file_cursor') \in Values)]_vars
  <2>1. SUFFICES ASSUME content \in Documents, Len(stack') < Len(stack)
                 PROVE  SubSeq(content, Last(stack).from + 1, file_cursor') \in Values
    OBVIOUS
  <2>2. Base /\ Ahead /\ ~KeyIsMissing /\ ~ValueIsMissing /\ ~Overrun
    <3>1. Base
      BY <1>1, InvBase
    <3>2. Ahead
      BY <1>1, <2>1 DEF IInv, DocumentInv, Ahead
    <3> QED BY <3>1, <3>2, NothingIsMissing
  <2>3. CASE Return
    <3>1. ReturnsAtEnd /\ file_cursor' = file_cursor + 1
      BY <2>2, <2>3, ReturnKeeps DEF Return
    <3> DEFINE a == Last(stack).from
               b == file_cursor + 1
    <3>2. IsVal(content, a, b) /\ file_cursor' = b
      BY <3>1 DEF ReturnsAtEnd
    <3> HIDE DEF a, b
    <3>3. a + 2 <= b
      BY <2>2, <3>2, BaseIs, ValIsLong DEF ContentOK
    <3>4. b - a \in 1 .. MaxLength /\ SubSeq(content, a + 1, b) \in Grammar[b - a].value
      BY <3>2, <3>3, MaxLengthAssumption DEF IsVal, Stretch, Part
    <3>5. SubSeq(content, a + 1, b) \in Values
      BY <3>4 DEF Values
    <3> QED BY <3>2, <3>5 DEF a
  <2>4. ASSUME ~Return PROVE FALSE
    <3>1. stack \in Seq(Frame) /\ Framed(stack) /\ Len(stack) \in Nat
      BY <2>2, BaseIs
    <3>2. CASE PrintScalar
      BY <2>1, <3>1, <3>2, NextKeyOnTop DEF PrintScalar
    <3>3. CASE PrintKey
      <4>1. stack # <<>>
        BY <3>3 DEF PrintKey, In, Calling
      <4>2. OnTop(stack, Front(stack), Last(stack))
        BY <3>1, <4>1, TopOf
      <4> DEFINE g == Going(Last(stack), "value")
      <4>3. stack' = Append(Front(stack), g)
        BY <3>3 DEF PrintKey, Going
      <4>4. g \in Frame
        BY <4>2, GoingIs DEF OnTop
      <4> HIDE DEF g
      <4>5. Len(stack') = Len(Front(stack)) + 1
        BY <4>2, <4>3, <4>4, AppendProperties DEF OnTop
      <4> QED BY <2>1, <3>1, <4>2, <4>5 DEF OnTop
    <3>4. CASE Call
      <4>1. OnTop(stack', Caller, Callee) /\ Called(Caller)
        BY <2>2, <3>4, CallMoves, CallerCalls DEF Call
      <4>2. Len(Caller) = Len(stack)
        <5>1. CASE In("value")
          <6>1. OnTop(stack, Front(stack), Last(stack))
            BY <3>1, <5>1, TopOf DEF In, Calling
          <6> DEFINE g == Going(Last(stack), "in value")
          <6>2. g \in Frame
            BY <6>1, GoingIs DEF OnTop
          <6>3. Caller = Append(Front(stack), g)
            BY <5>1 DEF Caller
          <6> HIDE DEF g
          <6>4. Len(Caller) = Len(Front(stack)) + 1
            BY <6>1, <6>2, <6>3, AppendProperties DEF OnTop
          <6> QED BY <6>1, <6>4 DEF OnTop
        <5>2. CASE ~In("value")
          BY <5>2 DEF Caller
        <5> QED BY <5>1, <5>2
      <4> QED BY <2>1, <3>1, <4>1, <4>2 DEF OnTop
    <3>5. CASE MainReturns \/ UNCHANGED vars
      BY <2>1, <3>1, <3>5 DEF MainReturns, vars
    <3> QED BY <1>1, <2>2, <2>4, <3>2, <3>3, <3>4, <3>5 DEF Next, Stay, Ended
  <2> QED BY <2>3, <2>4
<1> QED BY <1>1, Invariance, PTL DEF Spec, CallsTakeOneValue

\* When main has returned, B code was decoded to its end and no tab is left on.
THEOREM DecodedToTheEnd ==
    Spec => [](content \in Documents /\ pc = "done" => file_cursor = file_size /\ tab_cursor = 0)
<1>1. IInv => (content \in Documents /\ pc = "done" => file_cursor = file_size /\ tab_cursor = 0)
  <2>1. SUFFICES ASSUME IInv, content \in Documents, pc = "done"
                 PROVE  file_cursor = file_size /\ tab_cursor = 0
    OBVIOUS
  <2>2. stack = <<>> /\ file_cursor >= file_size
    BY <2>1 DEF IInv, DoneInv
  <2>3. tab_cursor = 0
    <3>1. tab_cursor = UShort(0)
      BY <2>1, <2>2, InvFollows, TabsEmpty DEF DecoderInv, TabsFollowCalls, Tabs
    <3> QED BY <3>1, UShortIs, TabLimitAssumption
  <2>4. AreVals(content, file_cursor, Len(content))
    BY <2>1, <2>2, PlannedNone DEF IInv, DocumentInv
  <2>5. file_cursor \in Nat /\ file_cursor <= file_size /\ file_size \in Nat
    BY <2>1, <2>4, InvBase, BaseIs DEF AreVals, Stretch, file_size
  <2> QED BY <2>2, <2>3, <2>5
<1> QED BY <1>1, Invariance, PTL

=============================================================================
