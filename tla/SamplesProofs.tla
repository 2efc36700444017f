---------------------------- MODULE SamplesProofs --------------------------
(***************************************************************************)
(* Proofs about the small programs: PipeTalk; for any number of clients    *)
(* and bytes StoreServer; for any number of clients and lines, and any     *)
(* number of datagrams that are lost or come twice, Datagrams; and for an  *)
(* answer of any length StreamClients, with the tracker's client in it;    *)
(* for any hash the request that TrackerClient sends, and for any url the  *)
(* name and the port that it takes from it.                                *)
(***************************************************************************)
EXTENDS WellFoundedInduction, SequenceTheorems, TLAPS,
        PipeTalk, StoreServer, Datagrams, TrackerClient

\* Induction, for a set of numbers.
LEMMA NatSubset ==
    ASSUME NEW S \in SUBSET Nat, 0 \in S, \A n \in S : n + 1 \in S
    PROVE  S = Nat
<1> DEFINE T == Nat \ S
<1>1. SUFFICES ASSUME T # {} PROVE FALSE
  OBVIOUS
<1>2. PICK m \in T : \A y \in T : ~(<<y, m>> \in OpToRel(<, Nat))
  <2>1. T \subseteq Nat
    OBVIOUS
  <2> HIDE DEF T
  <2> QED BY <1>1, <2>1, NatLessThanWellFounded, WFMin
<1>3. m # 0 /\ m - 1 \in Nat /\ m - 1 \notin T
  <2>1. m # 0 /\ m - 1 \in Nat /\ m - 1 < m
    OBVIOUS
  <2>2. <<m - 1, m>> \in OpToRel(<, Nat)
    BY <2>1 DEF OpToRel
  <2> QED BY <1>2, <2>1, <2>2
<1>4. m - 1 + 1 \in S
  BY <1>3
<1> QED BY <1>3, <1>4

-----------------------------------------------------------------------------
(***************************************************************************)
(* FoldLeft over a sequence of n elements: h[k] is what the k-th element   *)
(* makes of the result of those before it, and b the result of none.       *)
(***************************************************************************)
IsMax(t, m) == m \in t /\ \A y \in t : m >= y

LEMMA MaxIs ==
    ASSUME NEW n \in Nat, NEW t \in SUBSET (1 .. n), NEW m, IsMax(t, m)
    PROVE  Max(t) = m
<1>1. \A x \in t : x \in Nat
  OBVIOUS
<1>2. ASSUME NEW x \in t, \A y \in t : x >= y PROVE x = m
  <2>1. x >= m /\ m >= x /\ m \in Nat
    BY <1>1, <1>2 DEF IsMax
  <2> QED BY <1>1, <2>1
<1> QED BY <1>2 DEF Max, IsMax

LEMMA MaxExists ==
    ASSUME NEW n \in Nat
    PROVE  \A t \in SUBSET (1 .. n) : t # {} => \E m : IsMax(t, m)
<1> DEFINE S == {k \in Nat : \A t \in SUBSET (1 .. k) : t # {} => \E m : IsMax(t, m)}
<1>1. 0 \in S
  <2>1. 1 .. 0 = {}
    OBVIOUS
  <2> QED BY <2>1
<1>2. ASSUME NEW k \in S PROVE k + 1 \in S
  <2>1. ASSUME NEW t \in SUBSET (1 .. k + 1), t # {} PROVE \E m : IsMax(t, m)
    <3>1. CASE k + 1 \in t
      BY <3>1 DEF IsMax
    <3>2. CASE k + 1 \notin t
      <4>1. t \in SUBSET (1 .. k)
        BY <3>2
      <4> QED BY <2>1, <4>1
    <3> QED BY <3>1, <3>2
  <2> QED BY <2>1
<1>3. S \in SUBSET Nat
  OBVIOUS
<1> HIDE DEF S
<1>4. n \in S
  BY <1>1, <1>2, <1>3, NatSubset
<1> QED BY <1>4 DEF S

\* The function that the fold is computed by.
FoldStep(f, h, b, t) == IF t = {} THEN b ELSE h[Max(t)][f[t \ {Max(t)}]]
Folding(f, n, h, b) == f = [t \in SUBSET (1 .. n) |-> FoldStep(f, h, b, t)]

LEMMA FoldExists ==
    ASSUME NEW T, NEW b \in T, NEW n \in Nat, NEW h, \A k \in 1 .. n : h[k] \in [T -> T]
    PROVE  \E f \in [SUBSET (1 .. n) -> T] : Folding(f, n, h, b)
<1> DEFINE Typed(k) == k <= n => \E f \in [SUBSET (1 .. k) -> T] : Folding(f, k, h, b)
           S == {k \in Nat : Typed(k)}
<1>1. 0 \in S
  <2>1. 1 .. 0 = {} /\ SUBSET (1 .. 0) = {{}}
    OBVIOUS
  <2> DEFINE f == [t \in SUBSET (1 .. 0) |-> b]
  <2>2. f \in [SUBSET (1 .. 0) -> T]
    OBVIOUS
  <2>3. Folding(f, 0, h, b)
    BY <2>1 DEF Folding, FoldStep
  <2> QED BY <2>2, <2>3
<1>2. ASSUME NEW k \in S PROVE k + 1 \in S
  <2>1. ASSUME k + 1 <= n PROVE \E f \in [SUBSET (1 .. k + 1) -> T] : Folding(f, k + 1, h, b)
    <3>0. Typed(k)
      OBVIOUS
    <3>1. PICK g \in [SUBSET (1 .. k) -> T] : Folding(g, k, h, b)
      <4>1. k <= n
        BY <2>1
      <4> QED BY ONLY <3>0, <4>1
    <3> DEFINE f == [t \in SUBSET (1 .. k + 1) |-> IF k + 1 \in t THEN h[k + 1][g[t \ {k + 1}]] ELSE g[t]]
    <3>2. h[k + 1] \in [T -> T]
      BY <2>1
    <3>3. \A t \in SUBSET (1 .. k + 1) : t \ {k + 1} \in SUBSET (1 .. k) /\ (k + 1 \notin t => t \in SUBSET (1 .. k))
      OBVIOUS
    <3>4. f \in [SUBSET (1 .. k + 1) -> T]
      BY <3>2, <3>3
    <3>5. \A t \in SUBSET (1 .. k) : t \in SUBSET (1 .. k + 1) /\ k + 1 \notin t /\ f[t] = g[t]
      OBVIOUS
    <3>6. ASSUME NEW t \in SUBSET (1 .. k + 1) PROVE f[t] = FoldStep(f, h, b, t)
      <4>1. CASE k + 1 \in t
        <5>1. Max(t) = k + 1
          <6>1. IsMax(t, k + 1)
            BY <4>1 DEF IsMax
          <6> QED BY <6>1, MaxIs
        <5>2. f[t] = h[k + 1][g[t \ {k + 1}]]
          BY <4>1
        <5>3. f[t \ {k + 1}] = g[t \ {k + 1}]
          BY <3>3, <3>5
        <5> HIDE DEF f
        <5> QED BY <4>1, <5>1, <5>2, <5>3 DEF FoldStep
      <4>2. CASE k + 1 \notin t
        <5>1. t \in SUBSET (1 .. k)
          BY <3>3, <4>2
        <5>2. f[t] = g[t] /\ g[t] = FoldStep(g, h, b, t)
          BY <3>1, <3>5, <5>1 DEF Folding
        <5>3. CASE t = {}
          BY <5>2, <5>3 DEF FoldStep
        <5>4. CASE t # {}
          <6>1. f[t \ {Max(t)}] = g[t \ {Max(t)}]
            BY <3>5, <5>1
          <6> HIDE DEF f
          <6> QED BY <5>2, <5>4, <6>1 DEF FoldStep
        <5> QED BY <5>3, <5>4
      <4> QED BY <4>1, <4>2
    <3> HIDE DEF f
    <3>7. f = [t \in SUBSET (1 .. k + 1) |-> f[t]]
      BY <3>4
    <3>8. Folding(f, k + 1, h, b)
      BY <3>6, <3>7 DEF Folding
    <3> QED BY <3>4, <3>8
  <2> HIDE DEF Typed
  <2>2. Typed(k + 1)
    BY <2>1 DEF Typed
  <2> QED BY <2>2
<1>3. S \in SUBSET Nat
  OBVIOUS
<1> HIDE DEF S
<1>4. n \in S
  BY <1>1, <1>2, <1>3, NatSubset
<1>5. Typed(n)
  <2> HIDE DEF Typed
  <2> QED BY <1>4 DEF S
<1>6. n <= n
  OBVIOUS
<1> QED BY ONLY <1>5, <1>6

\* The first k elements.
LEMMA FirstElements ==
    ASSUME NEW n \in Nat, NEW k \in 1 .. n
    PROVE  /\ 1 .. k \in SUBSET (1 .. n) /\ 1 .. k # {} /\ Max(1 .. k) = k
           /\ (1 .. k) \ {k} = 1 .. k - 1 /\ 1 .. k - 1 \in SUBSET (1 .. n)
<1>1. 1 .. k \in SUBSET (1 .. n) /\ 1 .. k # {} /\ (1 .. k) \ {k} = 1 .. k - 1
  OBVIOUS
<1>2. IsMax(1 .. k, k)
  BY DEF IsMax
<1> QED BY <1>1, <1>2, MaxIs

-----------------------------------------------------------------------------
(***************************************************************************)
(* FlattenSeq: the sequences that the programs echo and print in pieces.   *)
(***************************************************************************)
\* f holds the first pieces of s together, for each number of them.
Joins(s, f) == f = [i \in 1 .. Len(s) |-> IF i = 1 THEN s[i] ELSE f[i - 1] \o s[i]]

\* With one piece more it holds one more.
Joined(s, x, f) ==
    [i \in 1 .. Len(s) + 1 |->
        IF i <= Len(s) THEN f[i] ELSE IF Len(s) = 0 THEN x ELSE f[Len(s)] \o x]

LEMMA JoinsExtends ==
    ASSUME NEW T, NEW s \in Seq(T), NEW x \in T, NEW f, Joins(s, f)
    PROVE  Joins(Append(s, x), Joined(s, x, f))
<1>0. PICK n, t, g : n = Len(s) /\ t = Append(s, x) /\ g = Joined(s, x, f)
  OBVIOUS
<1>1. n \in Nat /\ Len(t) = n + 1 /\ t[n + 1] = x /\ \A i \in 1 .. n : t[i] = s[i]
  BY <1>0
<1>2. \A i \in 1 .. n : f[i] = IF i = 1 THEN s[i] ELSE f[i - 1] \o s[i]
  BY <1>0 DEF Joins
<1>3. /\ g = [i \in 1 .. n + 1 |-> g[i]] /\ \A i \in 1 .. n : g[i] = f[i]
      /\ g[n + 1] = IF n = 0 THEN x ELSE f[n] \o x
  BY <1>0, <1>1 DEF Joined
<1>4. ASSUME NEW i \in 1 .. n + 1 PROVE g[i] = IF i = 1 THEN t[i] ELSE g[i - 1] \o t[i]
  <2>1. CASE i \in 1 .. n
    <3>1. i # 1 => i - 1 \in 1 .. n
      BY <1>1, <2>1
    <3> QED BY <1>1, <1>2, <1>3, <2>1, <3>1
  <2>2. CASE i = n + 1
    <3>1. (i = 1 <=> n = 0) /\ i - 1 = n /\ (n # 0 => n \in 1 .. n)
      BY <1>1, <2>2
    <3> QED BY <1>1, <1>3, <2>2, <3>1
  <2> QED BY <1>1, <2>1, <2>2
<1>5. g = [i \in 1 .. n + 1 |-> IF i = 1 THEN t[i] ELSE g[i - 1] \o t[i]]
  BY <1>3, <1>4
<1> QED BY <1>0, <1>1, <1>5 DEF Joins

\* There is such a function, and only one.
LEMMA JoinsExists ==
    ASSUME NEW T, NEW s \in Seq(T)
    PROVE  \E f : Joins(s, f)
<1> DEFINE S == {n \in Nat : \A t \in Seq(T) : Len(t) = n => \E f : Joins(t, f)}
<1>1. 0 \in S
  <2>1. ASSUME NEW t \in Seq(T), Len(t) = 0 PROVE Joins(t, <<>>)
    BY <2>1 DEF Joins
  <2> QED BY <2>1
<1>2. ASSUME NEW n \in S PROVE n + 1 \in S
  <2>1. ASSUME NEW t \in Seq(T), Len(t) = n + 1 PROVE \E f : Joins(t, f)
    <3>1. PICK u \in Seq(T), x \in T : t = Append(u, x) /\ Len(u) = n
      <4>1. /\ SubSeq(t, 1, n) \in Seq(T) /\ t[n + 1] \in T /\ Len(SubSeq(t, 1, n)) = n
            /\ t = Append(SubSeq(t, 1, n), t[n + 1])
        BY <2>1
      <4> QED BY <4>1
    <3>2. PICK f : Joins(u, f)
      BY <3>1
    <3> QED BY <3>1, <3>2, JoinsExtends
  <2> QED BY <2>1
<1>3. S \in SUBSET Nat
  OBVIOUS
<1> HIDE DEF S
<1>4. S = Nat
  BY <1>1, <1>2, <1>3, NatSubset
<1>5. Len(s) \in S
  BY <1>4
<1> QED BY <1>5 DEF S

LEMMA JoinsIsOne ==
    ASSUME NEW T, NEW s \in Seq(T), Len(s) # 0, NEW f, NEW g, Joins(s, f), Joins(s, g)
    PROVE  f[Len(s)] = g[Len(s)]
<1> DEFINE S == {n \in Nat : n + 1 <= Len(s) => f[n + 1] = g[n + 1]}
<1>0. Len(s) \in Nat
  OBVIOUS
<1>1. 0 \in S
  <2>1. 1 <= Len(s) => 1 \in 1 .. Len(s)
    BY <1>0
  <2>2. 1 <= Len(s) => f[1] = s[1] /\ g[1] = s[1]
    BY <2>1 DEF Joins
  <2> QED BY <2>2
<1>2. ASSUME NEW n \in S PROVE n + 1 \in S
  <2>1. ASSUME (n + 1) + 1 <= Len(s) PROVE f[(n + 1) + 1] = g[(n + 1) + 1]
    <3>1. PICK i : i = (n + 1) + 1
      OBVIOUS
    <3>2. i \in 1 .. Len(s) /\ i # 1 /\ i - 1 = n + 1 /\ f[n + 1] = g[n + 1]
      BY <1>0, <2>1, <3>1
    <3>3. f[i] = f[i - 1] \o s[i] /\ g[i] = g[i - 1] \o s[i]
      BY <3>2 DEF Joins
    <3> QED BY <3>1, <3>2, <3>3
  <2> QED BY <2>1
<1>3. S \in SUBSET Nat
  OBVIOUS
<1> HIDE DEF S
<1>4. S = Nat
  BY <1>1, <1>2, <1>3, NatSubset
<1>5. Len(s) - 1 \in S /\ (Len(s) - 1) + 1 = Len(s)
  BY <1>0, <1>4
<1> QED BY <1>0, <1>5 DEF S

LEMMA FlattenIs ==
    ASSUME NEW T, NEW s \in Seq(T), NEW f, Joins(s, f)
    PROVE  FlattenSeq(s) = IF Len(s) = 0 THEN <<>> ELSE f[Len(s)]
<1>1. CASE Len(s) = 0
  BY <1>1 DEF FlattenSeq
<1>2. CASE Len(s) # 0
  <2> DEFINE flatten[i \in 1 .. Len(s)] == IF i = 1 THEN s[i] ELSE flatten[i - 1] \o s[i]
  <2>1. FlattenSeq(s) = flatten[Len(s)]
    BY <1>2 DEF FlattenSeq
  <2>2. flatten = CHOOSE g : Joins(s, g)
    BY DEF Joins
  <2> HIDE DEF flatten
  <2>3. Joins(s, flatten)
    BY <2>2
  <2> QED BY <1>2, <2>1, <2>3, JoinsIsOne
<1> QED BY <1>1, <1>2

\* FlattenSeq of no piece, and of one piece more.
LEMMA FlattenEmpty == FlattenSeq(<<>>) = <<>>
  BY DEF FlattenSeq

LEMMA FlattenOneMore ==
    ASSUME NEW T, NEW s \in Seq(Seq(T)), NEW x \in Seq(T)
    PROVE  FlattenSeq(Append(s, x)) = IF Len(s) = 0 THEN x ELSE FlattenSeq(s) \o x
<1>1. PICK f : Joins(s, f)
  BY JoinsExists
<1>2. PICK t, g : t \in Seq(Seq(T)) /\ t = Append(s, x) /\ g = Joined(s, x, f)
  <2>1. Append(s, x) \in Seq(Seq(T))
    OBVIOUS
  <2> QED BY <2>1
<1>3. Joins(t, g)
  BY <1>1, <1>2, JoinsExtends
<1>4. Len(t) = Len(s) + 1 /\ Len(s) \in Nat
  BY <1>2
<1>5. FlattenSeq(t) = g[Len(s) + 1]
  <2>1. FlattenSeq(t) = IF Len(t) = 0 THEN <<>> ELSE g[Len(t)]
    BY ONLY <1>2, <1>3, FlattenIs
  <2> QED BY <1>4, <2>1
<1>6. FlattenSeq(s) = IF Len(s) = 0 THEN <<>> ELSE f[Len(s)]
  BY <1>1, FlattenIs
<1>7. g[Len(s) + 1] = IF Len(s) = 0 THEN x ELSE f[Len(s)] \o x
  BY <1>2, <1>4 DEF Joined
<1> QED BY <1>2, <1>5, <1>6, <1>7

LEMMA FlattenTyped ==
    ASSUME NEW T, NEW s \in Seq(Seq(T))
    PROVE  FlattenSeq(s) \in Seq(T)
<1> DEFINE S == {n \in Nat : \A t \in Seq(Seq(T)) : Len(t) = n => FlattenSeq(t) \in Seq(T)}
<1>1. 0 \in S
  <2>1. ASSUME NEW t \in Seq(Seq(T)), Len(t) = 0 PROVE FlattenSeq(t) \in Seq(T)
    <3>1. t = <<>>
      BY <2>1
    <3>2. FlattenSeq(t) = <<>>
      BY <3>1, FlattenEmpty
    <3> QED BY <3>2
  <2> QED BY <2>1
<1>2. ASSUME NEW n \in S PROVE n + 1 \in S
  <2>1. ASSUME NEW t \in Seq(Seq(T)), Len(t) = n + 1 PROVE FlattenSeq(t) \in Seq(T)
    <3>1. PICK u \in Seq(Seq(T)), x \in Seq(T) : t = Append(u, x) /\ Len(u) = n
      <4>1. /\ SubSeq(t, 1, n) \in Seq(Seq(T)) /\ t[n + 1] \in Seq(T) /\ Len(SubSeq(t, 1, n)) = n
            /\ t = Append(SubSeq(t, 1, n), t[n + 1])
        BY <2>1
      <4> QED BY <4>1
    <3>2. FlattenSeq(u) \in Seq(T)
      BY <3>1
    <3>3. FlattenSeq(t) = IF Len(u) = 0 THEN x ELSE FlattenSeq(u) \o x
      BY <3>1, FlattenOneMore
    <3> QED BY <3>1, <3>2, <3>3
  <2> QED BY <2>1
<1>3. S \in SUBSET Nat
  OBVIOUS
<1> HIDE DEF S
<1>4. S = Nat
  BY <1>1, <1>2, <1>3, NatSubset
<1>5. Len(s) \in S
  BY <1>4
<1> QED BY <1>5 DEF S

LEMMA FlattenAppend ==
    ASSUME NEW T, NEW s \in Seq(Seq(T)), NEW x \in Seq(T)
    PROVE  FlattenSeq(Append(s, x)) = FlattenSeq(s) \o x
<1>1. CASE Len(s) = 0
  <2>1. s = <<>> /\ <<>> \o x = x
    BY <1>1
  <2> QED BY <1>1, <2>1, FlattenEmpty, FlattenOneMore
<1>2. CASE Len(s) # 0
  BY <1>2, FlattenOneMore
<1> QED BY <1>1, <1>2

-----------------------------------------------------------------------------
(***************************************************************************)
(* PipeTalk.                                                               *)
(***************************************************************************)
Question == <<Says["child"]>>
Thanks   == <<Says["parent"]>>

\* A state of the talk: where the child and the parent are, what is in the
\* pipe, and what each has heard.
Talk(c, p, inPipe, byChild, byParent) ==
    /\ at["child"] = c /\ at["parent"] = p
    /\ talk = inPipe
    /\ heard["child"] = byChild /\ heard["parent"] = byParent

\* The talk takes one of two ways from its second state on.
TalkInv ==
    /\ at \in [Talker -> 1 .. 3] /\ heard \in [Talker -> {<<>>, Question, Thanks}]
    /\ \/ Talk(1, 1, <<>>, <<>>, <<>>)
       \/ Talk(2, 1, Question, <<>>, <<>>)
       \/ Talk(3, 1, <<>>, Question, <<>>)
       \/ Talk(2, 2, <<>>, <<>>, Question)
       \/ Talk(2, 3, Thanks, <<>>, Question)
       \/ Talk(3, 3, <<>>, Thanks, Question)

LEMMA TalkBegins == TalkInit => TalkInv
  BY DEF TalkInit, TalkInv, Talk, Talker

\* Who writes or reads, and when.
LEMMA Turns ==
    ASSUME NEW p \in Talker, NEW call
    PROVE  Goes(p, call) =>
        /\ at' = [at EXCEPT ![p] = @ + 1]
        /\ \/ p = "child" /\ call = "write" /\ at[p] = 1
           \/ p = "child" /\ call = "read" /\ at[p] = 2
           \/ p = "parent" /\ call = "read" /\ at[p] = 1
           \/ p = "parent" /\ call = "write" /\ at[p] = 2
<1>1. /\ Calls["child"] = <<"write", "read">>
      /\ Calls["parent"] = <<"read", "write">>
  BY DEF Calls
<1>2. CASE p = "child"
  BY <1>1, <1>2 DEF Goes
<1>3. CASE p = "parent"
  BY <1>1, <1>3 DEF Goes
<1> QED BY <1>2, <1>3 DEF Talker

LEMMA TalkGoesOn == TalkInv /\ [TalkNext]_<<sample, talkVars>> => TalkInv'
<1> SUFFICES ASSUME TalkInv, [TalkNext]_<<sample, talkVars>> PROVE TalkInv'
  OBVIOUS
<1> USE DEF TalkInv, Talk
<1>q. /\ Question # <<>> /\ Thanks # <<>>
      /\ Append(<<>>, Says["child"]) = Question /\ Append(<<>>, Says["parent"]) = Thanks
  BY DEF Question, Thanks
<1>1. CASE UNCHANGED <<sample, talkVars>>
  BY <1>1 DEF talkVars
<1>2. ASSUME NEW p \in Talker, Says_(p) PROVE TalkInv'
  <2>1. /\ Goes(p, "write")
        /\ talk' = Append(talk, Says[p]) /\ heard' = heard
    BY <1>2 DEF Says_
  <2>2. CASE p = "child"
    BY <2>1, <2>2, <1>q, Turns DEF Talker
  <2>3. CASE p = "parent"
    BY <2>1, <2>3, <1>q, Turns DEF Talker
  <2> QED BY <2>2, <2>3 DEF Talker
<1>3. ASSUME NEW p \in Talker, Listens(p) PROVE TalkInv'
  <2>1. /\ Goes(p, "read") /\ talk # <<>>
        /\ heard' = [heard EXCEPT ![p] = talk] /\ talk' = <<>>
    BY <1>3 DEF Listens
  <2>2. CASE p = "child"
    BY <2>1, <2>2, <1>q, Turns DEF Talker
  <2>3. CASE p = "parent"
    BY <2>1, <2>3, <1>q, Turns DEF Talker
  <2> QED BY <2>2, <2>3 DEF Talker
<1> QED BY <1>1, <1>2, <1>3 DEF TalkNext, TalkStep

\* The child is thanked only for a question that the parent has read, and who
\* reads the question takes it from the other.
THEOREM QuestionIsThanked == TalkSpec => []ThanksFollowQuestion
<1>1. TalkInv => ThanksFollowQuestion
  <2>1. /\ ToSet(<<>>) = {}
        /\ ToSet(Question) = {Says["child"]} /\ ToSet(Thanks) = {Says["parent"]}
    BY DEF ToSet, Question, Thanks
  <2>2. Says["child"] # Says["parent"]
    BY DEF Says
  <2>3. SUFFICES ASSUME TalkInv PROVE ThanksFollowQuestion
    OBVIOUS
  <2>4. \/ heard["child"] = <<>>
        \/ heard["child"] = Question /\ heard["parent"] = <<>>
        \/ heard["child"] = Thanks /\ heard["parent"] = Question
    BY <2>3 DEF TalkInv, Talk
  <2> QED BY <2>1, <2>2, <2>4, Zenon DEF ThanksFollowQuestion, Hears
<1> QED BY <1>1, TalkBegins, TalkGoesOn, PTL DEF TalkSpec

-----------------------------------------------------------------------------
(***************************************************************************)
(* StoreServer.                                                            *)
(***************************************************************************)
\* What BytesOf takes of the pairs.
Pieces(c, s) == [k \in DOMAIN s |-> IF s[k][1] = c THEN <<s[k][2]>> ELSE <<>>]

\* A pair at the end adds a byte to what is of its client.
LEMMA BytesOfAppend ==
    ASSUME NEW c, NEW T, \A y \in T : y[2] \in Nat, NEW s \in Seq(T), NEW m \in T
    PROVE  BytesOf(c, Append(s, m)) =
             IF m[1] = c THEN Append(BytesOf(c, s), m[2]) ELSE BytesOf(c, s)
<1>1. PICK x \in Seq(Nat) : x = IF m[1] = c THEN <<m[2]>> ELSE <<>>
  <2>1. m[2] \in Nat
    OBVIOUS
  <2>2. (IF m[1] = c THEN <<m[2]>> ELSE <<>>) \in Seq(Nat)
    BY <2>1
  <2> QED BY <2>2
<1>2. PICK p, q : p = Pieces(c, s) /\ q = Pieces(c, Append(s, m))
  OBVIOUS
<1>3. p \in Seq(Seq(Nat)) /\ Len(p) = Len(s)
  <2>1. \A k \in 1 .. Len(s) : s[k] \in T /\ s[k][2] \in Nat
    OBVIOUS
  <2>2. \A k \in 1 .. Len(s) : (IF s[k][1] = c THEN <<s[k][2]>> ELSE <<>>) \in Seq(Nat)
    BY <2>1
  <2>3. p = [k \in 1 .. Len(s) |-> IF s[k][1] = c THEN <<s[k][2]>> ELSE <<>>] /\ Len(s) \in Nat
    BY <1>2 DEF Pieces
  <2> QED BY <2>2, <2>3
<1>4. q = Append(p, x)
  <2>1. PICK t : t = Append(s, m)
    OBVIOUS
  <2>2. Len(s) \in Nat /\ DOMAIN t = 1 .. Len(s) + 1 /\ DOMAIN s = 1 .. Len(s)
        /\ t[Len(s) + 1] = m /\ \A k \in 1 .. Len(s) : t[k] = s[k]
    BY <2>1
  <2>3. q = [k \in 1 .. Len(s) + 1 |-> IF t[k][1] = c THEN <<t[k][2]>> ELSE <<>>]
    BY <1>2, <2>1, <2>2 DEF Pieces
  <2>4. \A k \in 1 .. Len(s) : p[k] = IF t[k][1] = c THEN <<t[k][2]>> ELSE <<>>
    BY <1>2, <2>2 DEF Pieces
  <2>5. PICK r : r = Append(p, x)
    OBVIOUS
  <2>6. r = [k \in 1 .. Len(s) + 1 |-> r[k]] /\ r[Len(s) + 1] = x /\ \A k \in 1 .. Len(s) : r[k] = p[k]
    <3>1. r \in Seq(Seq(Nat)) /\ Len(r) = Len(s) + 1
      BY <1>3, <2>2, <2>5
    <3>2. r[Len(s) + 1] = x /\ \A k \in 1 .. Len(s) : r[k] = p[k]
      BY <1>3, <2>2, <2>5
    <3>3. r = [k \in 1 .. Len(r) |-> r[k]]
      BY <3>1
    <3> QED BY <3>1, <3>2, <3>3
  <2>7. \A k \in 1 .. Len(s) + 1 : r[k] = IF t[k][1] = c THEN <<t[k][2]>> ELSE <<>>
    <3>1. ASSUME NEW k \in 1 .. Len(s) + 1 PROVE k \in 1 .. Len(s) \/ k = Len(s) + 1
      BY <2>2
    <3> QED BY <1>1, <2>2, <2>4, <2>6, <3>1
  <2> QED BY <2>3, <2>5, <2>6, <2>7
<1>5. FlattenSeq(q) = FlattenSeq(p) \o x /\ FlattenSeq(p) \in Seq(Nat)
  BY <1>1, <1>3, <1>4, FlattenAppend, FlattenTyped
<1>6. BytesOf(c, Append(s, m)) = FlattenSeq(q) /\ BytesOf(c, s) = FlattenSeq(p)
  BY <1>2 DEF BytesOf, Pieces
<1>7. CASE m[1] = c
  <2>1. m[2] \in Nat /\ FlattenSeq(p) \o <<m[2]>> = Append(FlattenSeq(p), m[2])
    BY <1>5
  <2> QED BY <1>1, <1>5, <1>6, <1>7, <2>1
<1>8. CASE m[1] # c
  <2>1. FlattenSeq(p) \o <<>> = FlattenSeq(p)
    BY <1>5
  <2> QED BY <1>1, <1>5, <1>6, <1>8, <2>1
<1> QED BY <1>7, <1>8

LEMMA BytesOfEmpty == \A c : BytesOf(c, <<>>) = <<>>
<1> TAKE c
<1>1. Pieces(c, <<>>) = <<>>
  BY DEF Pieces
<1> QED BY <1>1, FlattenEmpty DEF BytesOf, Pieces

StoreTyped ==
    /\ line \in [Client -> {"open", "closed", "reset", "broken"}]
    /\ nsent \in [Client -> Nat] /\ buf \in [Client -> Nat]
    /\ toChild \in [Client -> Seq(Nat)] /\ echoed \in [Client -> Seq(Nat)]
    /\ childAt \in [Client -> {"none", "read", "echo", "store", "done", "killed"}]
    /\ pipe \in Seq(Client \X Nat) /\ echomsg \in Seq(Client \X Nat)

\* What a child is yet to read comes after what it has in its buffer, and that
\* not before what it echoed; when it is about to echo to a client that has not
\* seen the end of it, the buffer holds something new, and when it is about to
\* store, what it echoed last.
InOrder(c) ==
    /\ \A j \in 1 .. Len(toChild[c]) : buf[c] < toChild[c][j] /\ toChild[c][j] <= nsent[c]
    /\ \A j, k \in 1 .. Len(toChild[c]) : j < k => toChild[c][j] < toChild[c][k]
    /\ buf[c] <= nsent[c]
    /\ \A k \in 1 .. Len(echoed[c]) : echoed[c][k] <= buf[c]
    /\ childAt[c] = "echo" /\ line[c] # "broken" =>
          \A k \in 1 .. Len(echoed[c]) : echoed[c][k] < buf[c]
    /\ childAt[c] = "store" => Len(echoed[c]) > 0 /\ echoed[c][Len(echoed[c])] = buf[c]

StoreInv ==
    /\ StoreTyped
    /\ \A c \in Client : InOrder(c)
    /\ EchoIsStored

\* What is of a client stays as it is.
IsLeft(c) ==
    /\ line'[c] = line[c] /\ nsent'[c] = nsent[c] /\ buf'[c] = buf[c]
    /\ toChild'[c] = toChild[c] /\ echoed'[c] = echoed[c] /\ childAt'[c] = childAt[c]

\* The child's echo is kept: how many bytes of c are stored, and are echoed.
Kept(c) ==
    /\ Stored(c) = IF childAt[c] = "store" THEN Front(echoed[c]) ELSE echoed[c]
    /\ \A k \in 2 .. Len(echoed[c]) : echoed[c][k - 1] < echoed[c][k]

LEMMA StoreInvIs == StoreInv <=> StoreTyped /\ \A c \in Client : InOrder(c) /\ Kept(c)
  BY DEF StoreInv, EchoIsStored, StoredIsEchoed, EchoIsOrdered, Kept

LEMMA StoreInvWillBe ==
    ASSUME StoreTyped', \A c \in Client : InOrder(c)' /\ Kept(c)'
    PROVE  StoreInv'
  BY DEF StoreInv, EchoIsStored, StoredIsEchoed, EchoIsOrdered, Kept

LEMMA LeftIsKept ==
    ASSUME NEW c \in Client, IsLeft(c), InOrder(c), Kept(c), Stored(c)' = Stored(c)
    PROVE  InOrder(c)' /\ Kept(c)'
  BY DEF IsLeft, InOrder, Kept

LEMMA StoreBegins == StoreInit => StoreInv
<1> SUFFICES ASSUME StoreInit PROVE StoreTyped /\ \A c \in Client : InOrder(c) /\ Kept(c)
  BY StoreInvIs
<1>1. StoreTyped
  BY DEF StoreInit, StoreTyped
<1>2. ASSUME NEW c \in Client PROVE InOrder(c) /\ Kept(c)
  <2>1. /\ toChild[c] = <<>> /\ echoed[c] = <<>> /\ nsent[c] = 0 /\ buf[c] = 0
        /\ childAt[c] = "none" /\ echomsg \o pipe = <<>>
    BY DEF StoreInit
  <2>2. Stored(c) = <<>>
    BY <2>1, BytesOfEmpty DEF Stored
  <2> QED BY <2>1, <2>2 DEF InOrder, Kept
<1> QED BY <1>1, <1>2

LEMMA ClientSendsKeeps ==
    ASSUME NEW c \in Client, StoreInv, ClientSends(c)
    PROVE  StoreInv'
<1>0. StoreTyped /\ \A d \in Client : InOrder(d) /\ Kept(d)
  BY StoreInvIs
<1>1. /\ nsent' = [nsent EXCEPT ![c] = @ + 1]
      /\ toChild' = [toChild EXCEPT ![c] = Append(@, nsent'[c])]
      /\ UNCHANGED <<line, echoed, childAt, buf, pipe, echomsg>>
  BY DEF ClientSends
<1>2. StoreTyped'
  BY <1>0, <1>1 DEF StoreTyped
<1>3. \A d \in Client : Stored(d)' = Stored(d)
  BY <1>0, <1>1 DEF Stored
<1>4. \A d \in Client \ {c} : IsLeft(d)
  BY <1>0, <1>1 DEF IsLeft, StoreTyped
<1>5. nsent'[c] = nsent[c] + 1 /\ toChild'[c] = Append(toChild[c], nsent[c] + 1)
  BY <1>0, <1>1 DEF StoreTyped
<1>6. InOrder(c)'
  <2>1. /\ Len(toChild'[c]) = Len(toChild[c]) + 1 /\ Len(toChild[c]) \in Nat
        /\ toChild'[c][Len(toChild[c]) + 1] = nsent[c] + 1
        /\ \A j \in 1 .. Len(toChild[c]) : toChild'[c][j] = toChild[c][j] /\ toChild[c][j] \in Nat
    BY <1>0, <1>5 DEF StoreTyped
  <2>2. nsent[c] \in Nat /\ buf[c] \in Nat /\ InOrder(c)
    BY <1>0 DEF StoreTyped
  <2>3. ASSUME NEW j \in 1 .. Len(toChild'[c])
        PROVE  buf[c] < toChild'[c][j] /\ toChild'[c][j] <= nsent'[c]
    <3>1. j \in 1 .. Len(toChild[c]) \/ j = Len(toChild[c]) + 1
      BY ONLY <2>1
    <3>2. CASE j \in 1 .. Len(toChild[c])
      <4>1. buf[c] < toChild[c][j] /\ toChild[c][j] <= nsent[c]
        BY ONLY <2>2, <3>2 DEF InOrder
      <4> QED BY ONLY <1>5, <2>1, <2>2, <3>2, <4>1
    <3>3. CASE j = Len(toChild[c]) + 1
      <4>1. buf[c] <= nsent[c]
        BY ONLY <2>2 DEF InOrder
      <4> QED BY ONLY <1>5, <2>1, <2>2, <3>3, <4>1
    <3> QED BY <3>1, <3>2, <3>3
  <2>4. \A j, k \in 1 .. Len(toChild'[c]) : j < k => toChild'[c][j] < toChild'[c][k]
    <3>1. ASSUME NEW j \in 1 .. Len(toChild'[c]), NEW k \in 1 .. Len(toChild'[c]), j < k
          PROVE  toChild'[c][j] < toChild'[c][k]
      <4>1. j \in 1 .. Len(toChild[c]) /\ (k \in 1 .. Len(toChild[c]) \/ k = Len(toChild[c]) + 1)
        BY <2>1, <3>1
      <4>2. CASE k = Len(toChild[c]) + 1
        <5>1. toChild[c][j] <= nsent[c]
          BY <2>2, <4>1 DEF InOrder
        <5> QED BY ONLY <2>1, <2>2, <4>1, <4>2, <5>1
      <4>3. CASE k \in 1 .. Len(toChild[c])
        <5>1. toChild[c][j] < toChild[c][k]
          BY ONLY <2>2, <3>1, <4>1, <4>3 DEF InOrder
        <5> QED BY ONLY <2>1, <4>1, <4>3, <5>1
      <4> QED BY <4>1, <4>2, <4>3
    <3> QED BY <3>1
  <2>5. buf[c] <= nsent'[c]
    BY <1>5, <2>2 DEF InOrder
  <2> QED BY <1>1, <2>2, <2>3, <2>4, <2>5 DEF InOrder
<1>7. Kept(c)'
  BY <1>0, <1>1, <1>3 DEF Kept
<1> QED BY <1>0, <1>2, <1>3, <1>4, <1>6, <1>7, LeftIsKept, StoreInvWillBe

LEMMA ClientLeavesKeeps ==
    ASSUME NEW c \in Client, StoreInv, ClientLeaves(c)
    PROVE  StoreInv'
<1>0. StoreTyped /\ \A d \in Client : InOrder(d) /\ Kept(d)
  BY StoreInvIs
<1>1. UNCHANGED <<nsent, echoed, childAt, buf, pipe, echomsg>>
  BY DEF ClientLeaves
<1>2. PICK w \in {"closed", "reset"}, n \in 0 .. Len(toChild[c]) :
        /\ line[c] # "broken" /\ line' = [line EXCEPT ![c] = w]
        /\ toChild' = [toChild EXCEPT ![c] = SubSeq(@, 1, n)]
  <2>1. CASE line[c] = "open" /\ line' = [line EXCEPT ![c] = "closed"] /\ UNCHANGED toChild
    <3>1. SubSeq(toChild[c], 1, Len(toChild[c])) = toChild[c] /\ Len(toChild[c]) \in 0 .. Len(toChild[c])
      BY <1>0 DEF StoreTyped
    <3>2. toChild' = [toChild EXCEPT ![c] = SubSeq(@, 1, Len(toChild[c]))]
      BY <1>0, <2>1, <3>1 DEF StoreTyped
    <3> QED BY <2>1, <3>1, <3>2
  <2>2. CASE /\ line[c] \in {"open", "closed"}
             /\ line' = [line EXCEPT ![c] = "reset"]
             /\ \E n \in 0 .. Len(toChild[c]) : toChild' = [toChild EXCEPT ![c] = SubSeq(@, 1, n)]
    BY <2>2
  <2> QED BY <2>1, <2>2 DEF ClientLeaves
<1>3. StoreTyped'
  BY <1>0, <1>1, <1>2 DEF StoreTyped
<1>4. \A d \in Client : Stored(d)' = Stored(d)
  BY <1>0, <1>1 DEF Stored
<1>5. \A d \in Client \ {c} : IsLeft(d)
  BY <1>0, <1>1, <1>2 DEF IsLeft, StoreTyped
<1>6. /\ Len(toChild'[c]) = n /\ n <= Len(toChild[c]) /\ Len(toChild[c]) \in Nat
      /\ \A j \in 1 .. n : toChild'[c][j] = toChild[c][j]
  BY <1>0, <1>2 DEF StoreTyped
<1>7. InOrder(c)'
  <2>1. InOrder(c) /\ line'[c] = w
    BY <1>0, <1>2 DEF StoreTyped
  <2>2. \A j \in 1 .. n : j \in 1 .. Len(toChild[c])
    BY <1>6
  <2>3. /\ \A j \in 1 .. Len(toChild'[c]) : buf[c] < toChild'[c][j] /\ toChild'[c][j] <= nsent[c]
        /\ \A j, k \in 1 .. Len(toChild'[c]) : j < k => toChild'[c][j] < toChild'[c][k]
    BY <1>6, <2>1, <2>2 DEF InOrder
  <2> QED BY <1>1, <1>2, <2>1, <2>3 DEF InOrder
<1>8. Kept(c)'
  BY <1>0, <1>1, <1>4 DEF Kept
<1> QED BY <1>0, <1>3, <1>4, <1>5, <1>7, <1>8, LeftIsKept, StoreInvWillBe

LEMMA AcceptKeeps ==
    ASSUME NEW c \in Client, StoreInv, Accept(c)
    PROVE  StoreInv'
<1>0. StoreTyped /\ \A d \in Client : InOrder(d) /\ Kept(d)
  BY StoreInvIs
<1>1. /\ childAt[c] = "none" /\ childAt' = [childAt EXCEPT ![c] = "read"]
      /\ UNCHANGED <<line, nsent, toChild, echoed, buf, pipe, echomsg>>
  BY DEF Accept
<1>2. StoreTyped'
  BY <1>0, <1>1 DEF StoreTyped
<1>3. \A d \in Client : Stored(d)' = Stored(d)
  BY <1>0, <1>1 DEF Stored
<1>4. \A d \in Client \ {c} : IsLeft(d)
  BY <1>0, <1>1 DEF IsLeft, StoreTyped
<1>5. InOrder(c)' /\ Kept(c)'
  BY <1>0, <1>1, <1>3 DEF InOrder, Kept, StoreTyped
<1> QED BY <1>0, <1>2, <1>3, <1>4, <1>5, LeftIsKept, StoreInvWillBe


\* What the loop does next.
LEMMA LoopIs == Loop["read"] = "echo" /\ Loop["echo"] = "store" /\ Loop["store"] = "read"
  BY DEF Loop

LEMMA ChildReadsKeeps ==
    ASSUME NEW c \in Client, StoreInv, ChildReads(c)
    PROVE  StoreInv'
<1>0. StoreTyped /\ \A d \in Client : InOrder(d) /\ Kept(d)
  BY StoreInvIs
<1>1. /\ childAt[c] = "read" /\ childAt' = [childAt EXCEPT ![c] = "echo"]
      /\ toChild[c] # <<>> /\ buf' = [buf EXCEPT ![c] = Head(toChild[c])]
      /\ UNCHANGED <<line, nsent, echoed, pipe, echomsg>>
  BY LoopIs DEF ChildReads, ChildGoesOn
<1>2. PICK n \in 1 .. BufSize :
        /\ n <= Len(toChild[c])
        /\ toChild' = [toChild EXCEPT ![c] = SubSeq(@, n + 1, Len(@))]
  BY DEF ChildReads
<1>3. toChild[c] \in Seq(Nat) /\ Len(toChild[c]) \in Nat /\ n \in Nat /\ 1 <= n
  BY <1>0, StoreAssumption DEF StoreTyped
<1>4. /\ buf'[c] = toChild[c][1] /\ buf'[c] \in Nat /\ Len(toChild[c]) >= 1
      /\ toChild'[c] \in Seq(Nat) /\ Len(toChild'[c]) = Len(toChild[c]) - n
      /\ \A j \in 1 .. Len(toChild'[c]) : toChild'[c][j] = toChild[c][j + n]
  <2>1. toChild'[c] = SubSeq(toChild[c], n + 1, Len(toChild[c]))
    BY <1>0, <1>2 DEF StoreTyped
  <2>2. buf'[c] = Head(toChild[c])
    BY <1>0, <1>1 DEF StoreTyped
  <2> QED BY <1>1, <1>2, <1>3, <2>1, <2>2
<1>5. StoreTyped'
  BY <1>0, <1>1, <1>2, <1>4 DEF StoreTyped
<1>6. \A d \in Client : Stored(d)' = Stored(d)
  BY <1>1 DEF Stored
<1>7. \A d \in Client \ {c} : IsLeft(d)
  BY <1>0, <1>1, <1>2 DEF IsLeft, StoreTyped
<1>8. InOrder(c)'
  <2>1. InOrder(c) /\ childAt'[c] = "echo"
    BY <1>0, <1>1 DEF StoreTyped
  <2>2. /\ buf[c] < buf'[c] /\ buf'[c] <= nsent[c]
        /\ nsent[c] \in Nat /\ buf[c] \in Nat /\ echoed[c] \in Seq(Nat)
    BY <1>0, <1>3, <1>4, <2>1 DEF InOrder, StoreTyped
  <2>3. \A j \in 1 .. Len(toChild'[c]) : j + n \in 1 .. Len(toChild[c]) /\ 1 < j + n
    <3>1. /\ Len(toChild[c]) \in Nat /\ n \in Nat /\ 1 <= n
          /\ Len(toChild'[c]) = Len(toChild[c]) - n
      BY <1>3, <1>4
    <3> QED BY ONLY <3>1
  <2>4. ASSUME NEW j \in 1 .. Len(toChild'[c])
        PROVE  buf'[c] < toChild'[c][j] /\ toChild'[c][j] <= nsent[c]
    <3> DEFINE k == j + n
    <3>1. /\ k \in 1 .. Len(toChild[c]) /\ 1 < k /\ 1 \in 1 .. Len(toChild[c])
          /\ toChild'[c][j] = toChild[c][k]
      BY ONLY <1>3, <1>4, <2>3
    <3> HIDE DEF k
    <3>2. toChild[c][1] < toChild[c][k] /\ toChild[c][k] <= nsent[c]
      BY <2>1, <3>1 DEF InOrder
    <3> QED BY ONLY <1>4, <3>1, <3>2
  <2>5. \A j, k \in 1 .. Len(toChild'[c]) : j < k => toChild'[c][j] < toChild'[c][k]
    <3>1. ASSUME NEW j \in 1 .. Len(toChild'[c]), NEW k \in 1 .. Len(toChild'[c]), j < k
          PROVE  toChild[c][j + n] < toChild[c][k + n]
      <4> DEFINE x == j + n
                 y == k + n
      <4>1. x < y
        BY ONLY <1>3, <1>4, <3>1
      <4>2. x \in 1 .. Len(toChild[c]) /\ y \in 1 .. Len(toChild[c])
        BY <2>3
      <4> HIDE DEF x, y
      <4>3. toChild[c][x] < toChild[c][y]
        BY <4>1, <4>2, <2>1 DEF InOrder
      <4> QED BY <4>3 DEF x, y
    <3> QED BY <1>4, <3>1
  <2>6. \A k \in 1 .. Len(echoed[c]) : echoed[c][k] < buf'[c] /\ echoed[c][k] <= buf'[c]
    <3>1. ASSUME NEW k \in 1 .. Len(echoed[c])
          PROVE  echoed[c][k] < buf'[c] /\ echoed[c][k] <= buf'[c]
      <4>1. echoed[c][k] \in Nat /\ echoed[c][k] <= buf[c]
        BY <2>1, <2>2 DEF InOrder
      <4>2. buf[c] < buf'[c] /\ buf[c] \in Nat /\ buf'[c] \in Nat
        BY ONLY <1>4, <2>2
      <4> QED BY ONLY <4>1, <4>2
    <3> QED BY <3>1
  <2> QED BY <1>1, <2>1, <2>2, <2>4, <2>5, <2>6 DEF InOrder
<1>9. Kept(c)'
  BY <1>0, <1>1, <1>6 DEF Kept, StoreTyped
<1> QED BY <1>0, <1>5, <1>6, <1>7, <1>8, <1>9, LeftIsKept, StoreInvWillBe

\* A read that fails, the end of the loop and a SIGPIPE.
LEMMA ChildStopsKeeps ==
    ASSUME NEW c \in Client, StoreInv, ChildReadFails(c) \/ ChildEnds(c) \/ ChildIsKilled(c)
    PROVE  StoreInv'
<1>0. StoreTyped /\ \A d \in Client : InOrder(d) /\ Kept(d)
  BY StoreInvIs
<1>1. UNCHANGED <<nsent, toChild, echoed, buf, pipe, echomsg>>
  BY DEF ChildReadFails, ChildEnds, ChildIsKilled
<1>2. PICK a \in {"echo", "done", "killed"} :
        /\ childAt[c] \in {"read", "echo"} /\ childAt' = [childAt EXCEPT ![c] = a]
        /\ IF a = "echo" THEN line' = [line EXCEPT ![c] = "broken"] ELSE line' = line
  BY LoopIs DEF ChildReadFails, ChildEnds, ChildIsKilled, ChildGoesOn
<1>3. StoreTyped'
  BY <1>0, <1>1, <1>2 DEF StoreTyped
<1>4. \A d \in Client : Stored(d)' = Stored(d)
  BY <1>1 DEF Stored
<1>5. \A d \in Client \ {c} : IsLeft(d)
  BY <1>0, <1>1, <1>2 DEF IsLeft, StoreTyped
<1>6. childAt'[c] = a /\ (a = "echo" => line'[c] = "broken")
  BY <1>0, <1>2 DEF StoreTyped
<1>7. InOrder(c)' /\ Kept(c)'
  BY <1>0, <1>1, <1>2, <1>4, <1>6 DEF InOrder, Kept
<1> QED BY <1>0, <1>3, <1>4, <1>5, <1>7, LeftIsKept, StoreInvWillBe

LEMMA ChildEchoesKeeps ==
    ASSUME NEW c \in Client, StoreInv, ChildEchoes(c)
    PROVE  StoreInv'
<1>0. StoreTyped /\ \A d \in Client : InOrder(d) /\ Kept(d)
  BY StoreInvIs
<1>1. /\ line[c] # "broken" /\ childAt[c] = "echo" /\ childAt' = [childAt EXCEPT ![c] = "store"]
      /\ echoed' = [echoed EXCEPT ![c] = Append(@, buf[c])]
      /\ line' = [line EXCEPT ![c] = IF @ = "reset" THEN "broken" ELSE @]
      /\ UNCHANGED <<nsent, toChild, buf, pipe, echomsg>>
  BY LoopIs DEF ChildEchoes, ChildGoesOn
<1>2. StoreTyped'
  BY <1>0, <1>1 DEF StoreTyped
<1>3. \A d \in Client : Stored(d)' = Stored(d)
  BY <1>1 DEF Stored
<1>4. \A d \in Client \ {c} : IsLeft(d)
  BY <1>0, <1>1 DEF IsLeft, StoreTyped
<1>5. /\ echoed'[c] = Append(echoed[c], buf[c]) /\ echoed[c] \in Seq(Nat) /\ buf[c] \in Nat
      /\ childAt'[c] = "store"
  BY <1>0, <1>1 DEF StoreTyped
<1>6. /\ Len(echoed'[c]) = Len(echoed[c]) + 1 /\ Len(echoed[c]) \in Nat
      /\ echoed'[c][Len(echoed[c]) + 1] = buf[c]
      /\ \A k \in 1 .. Len(echoed[c]) : echoed'[c][k] = echoed[c][k]
      /\ Front(echoed'[c]) = echoed[c]
  <2>1. SubSeq(Append(echoed[c], buf[c]), 1, Len(echoed[c])) = echoed[c]
    BY <1>5
  <2> QED BY <1>5, <2>1 DEF Front
<1>7. \A k \in 1 .. Len(echoed[c]) : echoed[c][k] < buf[c]
  BY <1>0, <1>1 DEF InOrder
<1>8. InOrder(c)'
  <2>1. InOrder(c)
    BY <1>0
  <2>2. \A k \in 1 .. Len(echoed'[c]) : echoed'[c][k] <= buf[c]
    BY <1>5, <1>6, <2>1 DEF InOrder
  <2> QED BY <1>1, <1>5, <1>6, <2>1, <2>2 DEF InOrder
<1>9. Kept(c)'
  <2>1. Stored(c)' = Front(echoed'[c])
    BY <1>0, <1>1, <1>3, <1>6 DEF Kept
  <2>2. ASSUME NEW k \in 2 .. Len(echoed'[c]) PROVE echoed'[c][k - 1] < echoed'[c][k]
    <3>1. CASE k = Len(echoed[c]) + 1
      <4>1. k - 1 \in 1 .. Len(echoed[c]) /\ k - 1 = Len(echoed[c])
        BY <1>6, <3>1
      <4> QED BY <1>6, <1>7, <3>1, <4>1
    <3>2. CASE k # Len(echoed[c]) + 1
      <4>1. k \in 2 .. Len(echoed[c]) /\ k \in 1 .. Len(echoed[c]) /\ k - 1 \in 1 .. Len(echoed[c])
        BY <1>6, <3>2
      <4> QED BY <1>0, <1>6, <4>1 DEF Kept
    <3> QED BY <3>1, <3>2
  <2> QED BY <1>5, <2>1, <2>2 DEF Kept
<1> QED BY <1>0, <1>2, <1>3, <1>4, <1>8, <1>9, LeftIsKept, StoreInvWillBe

LEMMA AppendBehind ==
    ASSUME NEW T, NEW s \in Seq(T), NEW t \in Seq(T), NEW x \in T
    PROVE  s \o Append(t, x) = Append(s \o t, x)
  OBVIOUS

\* What is moved from the beginning of t to the end of s stays in place.
Moves(s, t, n) == (s \o SubSeq(t, 1, n)) \o SubSeq(t, n + 1, Len(t)) = s \o t

LEMMA MovedBehind ==
    ASSUME NEW T, NEW s \in Seq(T), NEW t \in Seq(T), NEW n \in 1 .. Len(t)
    PROVE  /\ SubSeq(t, 1, n) \in Seq(T) /\ SubSeq(t, n + 1, Len(t)) \in Seq(T)
           /\ Moves(s, t, n)
<1>0. PICK u, v : u = SubSeq(t, 1, n) /\ v = SubSeq(t, n + 1, Len(t))
  OBVIOUS
<1>1. n \in Nat /\ Len(t) \in Nat /\ n <= Len(t) /\ Len(s) \in Nat
  OBVIOUS
<1>2. u \in Seq(T) /\ Len(u) = n /\ \A j \in 1 .. n : u[j] = t[j]
  BY <1>0, <1>1
<1>3. v \in Seq(T) /\ Len(v) = Len(t) - n /\ \A j \in 1 .. Len(t) - n : v[j] = t[j + n]
  BY <1>0, <1>1
<1>4. u \o v = t
  <2>0. PICK w : w = u \o v
    OBVIOUS
  <2>1. w \in Seq(T) /\ Len(w) = Len(t)
    BY <1>1, <1>2, <1>3, <2>0
  <2>2. ASSUME NEW j \in 1 .. Len(t) PROVE w[j] = t[j]
    <3>1. CASE j <= n
      BY <1>1, <1>2, <1>3, <2>0, <3>1
    <3>2. CASE j > n
      <4>1. j - n \in 1 .. Len(t) - n /\ (j - n) + n = j
        BY <1>1, <3>2
      <4>2. w[j] = v[j - n]
        BY <1>1, <1>2, <1>3, <2>0, <3>2
      <4> QED BY <1>3, <4>1, <4>2
    <3>3. j <= n \/ j > n
      BY <1>1
    <3> QED BY <3>1, <3>2, <3>3
  <2>3. w = t
    BY <2>1, <2>2
  <2> QED BY <2>0, <2>3
<1>5. (s \o u) \o v = s \o (u \o v)
  <2>1. s \in Seq(T) /\ u \in Seq(T) /\ v \in Seq(T)
    BY <1>2, <1>3
  <2> QED BY ONLY <2>1
<1> QED BY <1>0, <1>2, <1>3, <1>4, <1>5 DEF Moves

LEMMA ChildStoresKeeps ==
    ASSUME NEW c \in Client, StoreInv, ChildStores(c)
    PROVE  StoreInv'
<1>0. StoreTyped /\ \A d \in Client : InOrder(d) /\ Kept(d)
  BY StoreInvIs
<1>1. /\ childAt[c] = "store" /\ childAt' = [childAt EXCEPT ![c] = "read"]
      /\ pipe' = Append(pipe, <<c, buf[c]>>)
      /\ UNCHANGED <<line, nsent, toChild, echoed, buf, echomsg>>
  BY LoopIs DEF ChildStores, ChildGoesOn
<1>2. PICK m \in Client \X Nat : m = <<c, buf[c]>> /\ m[1] = c /\ m[2] = buf[c]
  <2>1. buf[c] \in Nat
    BY <1>0 DEF StoreTyped
  <2>2. <<c, buf[c]>> \in Client \X Nat /\ <<c, buf[c]>>[1] = c /\ <<c, buf[c]>>[2] = buf[c]
    BY <2>1
  <2> QED BY <2>2
<1>3. StoreTyped'
  BY <1>0, <1>1, <1>2 DEF StoreTyped
<1>4. echomsg' \o pipe' = Append(echomsg \o pipe, m)
  <2>1. echomsg \in Seq(Client \X Nat) /\ pipe \in Seq(Client \X Nat)
    BY <1>0 DEF StoreTyped
  <2> QED BY <1>1, <1>2, <2>1, AppendBehind
<1>5. \A d \in Client :
        Stored(d)' = IF d = c THEN Append(Stored(d), buf[c]) ELSE Stored(d)
  <2>1. echomsg \o pipe \in Seq(Client \X Nat)
    BY <1>0 DEF StoreTyped
  <2>2. ASSUME NEW d
        PROVE  BytesOf(d, Append(echomsg \o pipe, m)) =
                 IF m[1] = d THEN Append(BytesOf(d, echomsg \o pipe), m[2])
                 ELSE BytesOf(d, echomsg \o pipe)
    <3>1. \A y \in Client \X Nat : y[2] \in Nat
      OBVIOUS
    <3> QED BY <2>1, <3>1, BytesOfAppend
  <2> QED BY <1>2, <1>4, <2>2 DEF Stored
<1>6. \A d \in Client \ {c} : IsLeft(d)
  BY <1>0, <1>1 DEF IsLeft, StoreTyped
<1>7. childAt'[c] = "read" /\ InOrder(c) /\ echoed[c] \in Seq(Nat)
  BY <1>0, <1>1 DEF StoreTyped
<1>8. InOrder(c)'
  BY <1>1, <1>7 DEF InOrder
<1>9. Kept(c)'
  <2>1. Len(echoed[c]) > 0 /\ echoed[c][Len(echoed[c])] = buf[c]
    BY <1>1, <1>7 DEF InOrder
  <2>2. Append(SubSeq(echoed[c], 1, Len(echoed[c]) - 1), echoed[c][Len(echoed[c])]) = echoed[c]
    BY <1>7, <2>1
  <2>3. Stored(c) = Front(echoed[c])
    BY <1>0, <1>1 DEF Kept
  <2>4. Stored(c)' = echoed[c]
    BY <1>5, <2>1, <2>2, <2>3 DEF Front
  <2>5. \A k \in 2 .. Len(echoed[c]) : echoed[c][k - 1] < echoed[c][k]
    BY <1>0 DEF Kept
  <2> QED BY <1>1, <1>7, <2>4, <2>5 DEF Kept
<1> QED BY <1>0, <1>3, <1>5, <1>6, <1>8, <1>9, LeftIsKept, StoreInvWillBe

\* The logger moves bytes from the pipe to the file.
LEMMA LogsKeeps ==
    ASSUME StoreInv, Logs
    PROVE  StoreInv'
<1>0. StoreTyped /\ \A d \in Client : InOrder(d) /\ Kept(d)
  BY StoreInvIs
<1>1. UNCHANGED <<line, nsent, toChild, echoed, childAt, buf>>
  BY DEF Logs
<1>p. pipe \in Seq(Client \X Nat) /\ echomsg \in Seq(Client \X Nat)
  BY <1>0 DEF StoreTyped
<1>2. PICK n \in 1 .. Len(pipe) :
        echomsg' = echomsg \o SubSeq(pipe, 1, n) /\ pipe' = SubSeq(pipe, n + 1, Len(pipe))
  <2>1. pipe \in Seq(Client \X Nat) /\ pipe # <<>> /\ BufSize \in Nat \ {0}
    BY <1>0, StoreAssumption DEF Logs, StoreTyped
  <2>2. (IF Len(pipe) < BufSize THEN Len(pipe) ELSE BufSize) \in 1 .. Len(pipe)
    BY <2>1
  <2> QED BY <2>2 DEF Logs
<1>3. StoreTyped'
  <2>1. echomsg' \in Seq(Client \X Nat) /\ pipe' \in Seq(Client \X Nat)
    BY <1>2, <1>p, MovedBehind, ConcatProperties
  <2> QED BY <1>0, <1>1, <2>1 DEF StoreTyped
<1>4. echomsg' \o pipe' = echomsg \o pipe
  <2>1. n \in 1 .. Len(pipe) /\ echomsg \in Seq(Client \X Nat) /\ pipe \in Seq(Client \X Nat)
    BY <1>2, <1>p
  <2>2. Moves(echomsg, pipe, n)
    BY ONLY <2>1, MovedBehind
  <2> QED BY <1>2, <2>2, Zenon DEF Moves
<1>5. \A d \in Client : Stored(d)' = Stored(d) /\ IsLeft(d)
  BY <1>1, <1>4 DEF Stored, IsLeft
<1> QED BY <1>0, <1>3, <1>5, LeftIsKept, StoreInvWillBe

LEMMA StoreGoesOn == StoreInv /\ [StoreNext]_<<sample, storeVars>> => StoreInv'
<1> SUFFICES ASSUME StoreInv, [StoreNext]_<<sample, storeVars>> PROVE StoreInv'
  OBVIOUS
<1>1. CASE UNCHANGED <<sample, storeVars>>
  <2>1. StoreTyped /\ \A d \in Client : InOrder(d) /\ Kept(d)
    BY StoreInvIs
  <2>2. StoreTyped'
    BY <1>1, <2>1 DEF storeVars, StoreTyped
  <2>3. \A d \in Client : Stored(d)' = Stored(d) /\ IsLeft(d)
    BY <1>1 DEF storeVars, Stored, IsLeft
  <2> QED BY <2>1, <2>2, <2>3, LeftIsKept, StoreInvWillBe
<1>2. ASSUME NEW c \in Client, ClientSends(c) \/ ClientLeaves(c) \/ Accept(c) \/ ChildStep(c)
      PROVE  StoreInv'
  BY <1>2, ClientSendsKeeps, ClientLeavesKeeps, AcceptKeeps, ChildReadsKeeps, ChildStopsKeeps,
     ChildEchoesKeeps, ChildStoresKeeps DEF ChildStep
<1> QED BY <1>1, <1>2, LogsKeeps DEF StoreNext

\* For any number of clients and bytes, whatever the children and the logger
\* do in between: of each client the file and the pipe hold what was echoed to
\* it, and no byte comes back twice or out of order.
THEOREM EchoesAreStored == StoreSpec => []EchoIsStored
<1>1. StoreInv => EchoIsStored
  BY DEF StoreInv
<1> QED BY <1>1, StoreBegins, StoreGoesOn, PTL DEF StoreSpec

-----------------------------------------------------------------------------
(***************************************************************************)
(* Datagrams: the two programs of UDP echo.                                *)
(***************************************************************************)
\* The client that a datagram is from or to.
Who(d) == IF d.to = Server THEN d.from ELSE d.to

IsOf(d, c) == d.text \in Nat /\ d \in {Datagram(c, Server, d.text), Datagram(Server, c, d.text)}

\* It holds what the client sent last, and the client waits for it.
IsLast(d) ==
    /\ clientAt[Who(d)] = "wait"
    /\ d.text = asked[Who(d)][Len(asked[Who(d)])]

\* It holds something that the client sent.
IsAsked(d) == \E j \in 1 .. Len(asked[Who(d)]) : d.text = asked[Who(d)][j]

IsBag(B) == B \in [DOMAIN B -> Nat \ {0}]

TextsAreTyped ==
    /\ twice \in Nat
    /\ IsBag(net)
    /\ clientAt \in [Host -> {"input", "wait", "done"}]
    /\ message \in [Host -> Nat]
    /\ asked \in [Host -> Seq(Nat)] /\ printed \in [Host -> Seq(Nat)]

\* Every datagram is from a client or to one, with what that client asked.
OwnersAreClients ==
    /\ \A d \in DOMAIN net : (\E c \in Host : IsOf(d, c)) /\ IsAsked(d)
    /\ held # Nobody => (\E c \in Host : IsOf(held, c)) /\ IsAsked(held) /\ held.to = Server

\* A client that waits has one question more than answers.
TurnsAreTaken ==
    \A c \in Host :
        Len(asked[c]) = IF clientAt[c] = "wait" THEN Len(printed[c]) + 1 ELSE Len(printed[c])

\* While nothing came twice, at most one datagram of a client is on its way,
\* and that one is its last question or the answer to it.
OneIsOnItsWay ==
    twice = 0 =>
        /\ \A d \in DOMAIN net : net[d] = 1 /\ IsLast(d) /\ (held # Nobody => Who(held) # Who(d))
        /\ held # Nobody => IsLast(held)
        /\ \A d, e \in DOMAIN net : Who(d) = Who(e) => d = e

UdpInv == TextsAreTyped /\ OwnersAreClients /\ TurnsAreTaken /\ OneIsOnItsWay /\ AnswersAreInStep

DatagramsInv ==
    /\ sample = "udp" => UdpInv
    /\ sample # "udp" => \A c \in Host : printed[c] = <<>>


\* What adding a datagram to the network and taking one from it do.
Added(B, C, d) ==
    /\ IsBag(C) /\ DOMAIN C = DOMAIN B \cup {d}
    /\ d \notin DOMAIN B => C[d] = 1
    /\ \A e \in DOMAIN B \ {d} : C[e] = B[e]

Removed(B, C, d) ==
    /\ IsBag(C) /\ DOMAIN C \subseteq DOMAIN B
    /\ B[d] = 1 => DOMAIN C = DOMAIN B \ {d}
    /\ \A e \in DOMAIN C \ {d} : C[e] = B[e]

LEMMA AddOne ==
    ASSUME NEW B, IsBag(B), NEW d
    PROVE  Added(B, B (+) SetToBag({d}), d)
<1>1. CASE d \in DOMAIN B
  BY <1>1 DEF IsBag, Added, (+), SetToBag
<1>2. CASE d \notin DOMAIN B
  BY <1>2 DEF IsBag, Added, (+), SetToBag
<1> QED BY <1>1, <1>2

LEMMA RemoveOne ==
    ASSUME NEW B, IsBag(B), NEW d \in DOMAIN B
    PROVE  Removed(B, B (-) SetToBag({d}), d)
<1>1. CASE B[d] = 1
  BY <1>1 DEF IsBag, Removed, (-), SetToBag
<1>2. CASE B[d] # 1
  BY <1>2 DEF IsBag, Removed, (-), SetToBag
<1> QED BY <1>1, <1>2

\* A datagram that is received is gone, or counted as one that comes twice.
Taken(d) ==
    /\ d \in DOMAIN net /\ twice' \in Nat
    /\ IsBag(net') /\ DOMAIN net' \subseteq DOMAIN net
    /\ twice' = 0 => twice = 0 /\ Removed(net, net', d)

LEMMA ReceivedIsTaken ==
    ASSUME IsBag(net), twice \in Nat, NEW d, Received(d)
    PROVE  Taken(d)
<1>1. d \in DOMAIN net
  BY DEF Received, BagIn, BagToSet
<1>2. CASE net' = net (-) SetToBag({d}) /\ twice' = twice
  <2>1. Removed(net, net', d)
    BY <1>1, <1>2, RemoveOne
  <2> QED BY <1>1, <1>2, <2>1 DEF Taken, Removed
<1>3. CASE twice' = twice + 1 /\ net' = net
  BY <1>1, <1>3 DEF Taken
<1> QED BY <1>2, <1>3 DEF Received

\* A datagram of a client, and whose it is.
LEMMA OwnerIsClient ==
    ASSUME NEW c \in Host, NEW d, IsOf(d, c)
    PROVE  Who(d) = c /\ d # Nobody /\ d.text \in Nat
<1>1. c # Server
  BY DatagramsAssumption DEF Server
<1> QED BY <1>1 DEF IsOf, Who, Datagram, Nobody

LEMMA DatagramsBegin == DatagramsInit => DatagramsInv
<1> SUFFICES ASSUME DatagramsInit PROVE DatagramsInv
  OBVIOUS
<1>1. /\ DOMAIN net = {} /\ twice = 0 /\ held = Nobody
      /\ clientAt = [c \in Host |-> "input"] /\ message = [c \in Host |-> 0]
      /\ asked = [c \in Host |-> <<>>] /\ printed = [c \in Host |-> <<>>]
  BY DEF DatagramsInit, EmptyBag, SetToBag, Garbage
<1>2. IsBag(net)
  BY DEF DatagramsInit, EmptyBag, SetToBag, IsBag
<1> QED BY <1>1, <1>2 DEF DatagramsInv, UdpInv, TextsAreTyped, OwnersAreClients,
              TurnsAreTaken, OneIsOnItsWay, AnswersAreInStep


\* A question is added at the end of what its client has asked.
LEMMA AskKeeps ==
    ASSUME NEW c \in Host, UdpInv, Ask(c)
    PROVE  UdpInv'
<1> USE DEF UdpInv
<1>0. PICK m, d : m = message'[c] /\ d = Datagram(c, Server, m)
  OBVIOUS
<1>1. /\ clientAt[c] = "input" /\ clientAt' = [clientAt EXCEPT ![c] = "wait"]
      /\ asked' = [asked EXCEPT ![c] = Append(@, m)]
      /\ net' = net (+) SetToBag({d})
      /\ UNCHANGED <<twice, printed, held>>
  BY <1>0 DEF Ask, Sent
<1>2. message' \in [Host -> Nat] /\ m \in Nat
  BY <1>0 DEF Ask, TextsAreTyped
<1>3. Added(net, net', d)
  BY <1>1, AddOne DEF TextsAreTyped
<1>4. IsOf(d, c) /\ Who(d) = c
  <2>1. IsOf(d, c)
    BY <1>0, <1>2 DEF IsOf, Datagram
  <2> QED BY <2>1, OwnerIsClient
<1>5. /\ asked' \in [Host -> Seq(Nat)]
      /\ asked'[c] = Append(asked[c], m) /\ \A x \in Host \ {c} : asked'[x] = asked[x]
      /\ Len(asked'[c]) = Len(asked[c]) + 1 /\ asked'[c][Len(asked[c]) + 1] = m
      /\ Len(asked[c]) \in Nat
      /\ \A x \in Host : \A j \in 1 .. Len(asked[x]) : j \in 1 .. Len(asked'[x]) /\ asked'[x][j] = asked[x][j]
  BY <1>1, <1>2 DEF TextsAreTyped
<1>6. d.text = m
  BY <1>0 DEF Datagram
<1>7. ASSUME NEW e, NEW x \in Host, IsOf(e, x), IsAsked(e) PROVE IsAsked(e)'
  BY <1>7, <1>5, OwnerIsClient DEF IsAsked
<1>8. IsAsked(d)'
  BY <1>4, <1>5, <1>6 DEF IsAsked
<1>9. TextsAreTyped'
  BY <1>1, <1>2, <1>3, <1>5 DEF TextsAreTyped, Added
<1>10. OwnersAreClients'
  <2>1. ASSUME NEW e \in DOMAIN net' PROVE (\E x \in Host : IsOf(e, x)) /\ IsAsked(e)'
    BY <1>3, <1>4, <1>7, <1>8 DEF OwnersAreClients, Added
  <2> QED BY <1>1, <1>7, <2>1 DEF OwnersAreClients
<1>11. TurnsAreTaken'
  BY <1>1, <1>5 DEF TurnsAreTaken, TextsAreTyped
<1>12. OneIsOnItsWay'
  <2> SUFFICES ASSUME twice = 0 PROVE OneIsOnItsWay'
    BY <1>1 DEF OneIsOnItsWay
  <2>1. \A e \in DOMAIN net : Who(e) # c /\ Who(e) \in Host
    BY <1>1, OwnerIsClient DEF OneIsOnItsWay, IsLast, OwnersAreClients
  <2>2. held # Nobody => Who(held) # c /\ Who(held) \in Host
    BY <1>1, OwnerIsClient DEF OneIsOnItsWay, IsLast, OwnersAreClients
  <2>3. ASSUME NEW e, Who(e) \in Host \ {c}, IsLast(e) PROVE IsLast(e)'
    BY <1>1, <1>5, <2>3 DEF IsLast, TextsAreTyped
  <2>4. IsLast(d)'
    BY <1>1, <1>4, <1>5, <1>6 DEF IsLast, TextsAreTyped
  <2>5. d \notin DOMAIN net
    BY <2>1, <1>4
  <2>6. ASSUME NEW e \in DOMAIN net' PROVE net'[e] = 1 /\ IsLast(e)' /\ (held # Nobody => Who(held) # Who(e))
    BY <1>3, <1>4, <2>1, <2>2, <2>3, <2>4, <2>5 DEF OneIsOnItsWay, Added
  <2>7. held # Nobody => IsLast(held)'
    BY <1>1, <2>2, <2>3 DEF OneIsOnItsWay
  <2>8. \A e, f \in DOMAIN net' : Who(e) = Who(f) => e = f
    BY <1>3, <1>4, <2>1 DEF OneIsOnItsWay, Added
  <2> QED BY <1>1, <2>6, <2>7, <2>8 DEF OneIsOnItsWay
<1>13. AnswersAreInStep'
  <2>1. ASSUME NEW x \in Host, NEW k \in DOMAIN printed[x]
        PROVE  /\ \E j \in 1 .. k : printed[x][k] = asked'[x][j]
               /\ twice = 0 => printed[x][k] = asked'[x][k]
    <3>0. printed[x] \in Seq(Nat) /\ asked[x] \in Seq(Nat)
      BY DEF TextsAreTyped
    <3>1. k \in Nat /\ k <= Len(printed[x]) /\ Len(printed[x]) <= Len(asked[x])
      <4>1. Len(asked[x]) = IF clientAt[x] = "wait" THEN Len(printed[x]) + 1 ELSE Len(printed[x])
        BY DEF TurnsAreTaken
      <4> QED BY ONLY <3>0, <4>1
    <3>2. 1 .. k \subseteq 1 .. Len(asked[x]) /\ k \in 1 .. Len(asked[x])
      BY ONLY <3>0, <3>1
    <3>3. PICK j \in 1 .. k : printed[x][k] = asked[x][j]
      BY DEF AnswersAreInStep
    <3>4. twice = 0 => printed[x][k] = asked[x][k]
      BY DEF AnswersAreInStep
    <3>5. asked'[x][j] = asked[x][j] /\ asked'[x][k] = asked[x][k]
      BY <1>5, <3>2, <3>3
    <3> QED BY <3>3, <3>4, <3>5
  <2> QED BY <1>1, <2>1 DEF AnswersAreInStep
<1> QED BY <1>9, <1>10, <1>11, <1>12, <1>13


LEMMA QuitKeeps ==
    ASSUME NEW c \in Host, UdpInv, Quit(c)
    PROVE  UdpInv'
<1> USE DEF UdpInv
<1>1. /\ clientAt[c] = "input" /\ clientAt' = [clientAt EXCEPT ![c] = "done"]
      /\ UNCHANGED <<net, twice, message, asked, printed, held>>
  BY DEF Quit
<1>2. TextsAreTyped'
  BY <1>1 DEF TextsAreTyped
<1>3. OwnersAreClients'
  BY <1>1 DEF OwnersAreClients, IsAsked
<1>4. TurnsAreTaken'
  BY <1>1 DEF TurnsAreTaken, TextsAreTyped
<1>5. \A d : IsLast(d) => clientAt'[Who(d)] = "wait"
  BY <1>1 DEF IsLast, TextsAreTyped
<1>6. OneIsOnItsWay'
  BY <1>1, <1>5 DEF OneIsOnItsWay, IsLast
<1>7. AnswersAreInStep'
  BY <1>1 DEF AnswersAreInStep
<1> QED BY <1>2, <1>3, <1>4, <1>6, <1>7

\* Whose a datagram on its way is.
LEMMA OnItsWayIsOf ==
    ASSUME UdpInv, NEW d \in DOMAIN net \cup ({held} \ {Nobody})
    PROVE  Who(d) \in Host /\ IsOf(d, Who(d)) /\ IsAsked(d) /\ d # Nobody /\ d.text \in Nat
<1>1. PICK c \in Host : IsOf(d, c) /\ IsAsked(d)
  BY DEF UdpInv, OwnersAreClients
<1> QED BY <1>1, OwnerIsClient

\* What is taken from the network leaves the rest in order.
LEMMA TakenLeavesRest ==
    ASSUME UdpInv, NEW d, Taken(d), twice' = 0
    PROVE  /\ twice = 0 /\ IsLast(d)
           /\ \A e \in DOMAIN net' : net'[e] = 1 /\ IsLast(e) /\ Who(e) # Who(d)
           /\ \A e, f \in DOMAIN net' : Who(e) = Who(f) => e = f
           /\ \A e \in DOMAIN net' : held # Nobody => Who(held) # Who(e)
           /\ held # Nobody => IsLast(held) /\ Who(held) # Who(d)
<1>1. twice = 0 /\ Removed(net, net', d) /\ d \in DOMAIN net
  BY DEF Taken
<1>2. net[d] = 1
  BY <1>1 DEF UdpInv, OneIsOnItsWay
<1>3. DOMAIN net' = DOMAIN net \ {d} /\ \A e \in DOMAIN net' : net'[e] = net[e]
  BY <1>1, <1>2 DEF Removed
<1> QED BY <1>1, <1>3 DEF UdpInv, OneIsOnItsWay

\* An answer is added at the end of what its client has printed.
LEMMA AnsweredKeeps ==
    ASSUME NEW c \in Host, UdpInv, Answered(c)
    PROVE  UdpInv'
<1>1. PICK d \in DOMAIN net :
        /\ d.to = c /\ Received(d)
        /\ message' = [message EXCEPT ![c] = d.text]
        /\ printed' = [printed EXCEPT ![c] = Append(@, d.text)]
  BY DEF Answered, BagToSet
<1>2. /\ clientAt[c] = "wait" /\ clientAt' = [clientAt EXCEPT ![c] = "input"]
      /\ UNCHANGED <<asked, held>>
  BY DEF Answered
<1>3. Taken(d)
  BY ReceivedIsTaken, <1>1 DEF UdpInv, TextsAreTyped
<1>4. Who(d) = c /\ IsAsked(d) /\ d.text \in Nat
  <2>1. c # Server
    BY DatagramsAssumption DEF Server
  <2> QED BY <1>1, <2>1, OnItsWayIsOf DEF Who
<1>5. /\ printed' \in [Host -> Seq(Nat)]
      /\ Len(printed'[c]) = Len(printed[c]) + 1 /\ printed'[c][Len(printed[c]) + 1] = d.text
      /\ \A k \in 1 .. Len(printed[c]) : printed'[c][k] = printed[c][k]
      /\ \A x \in Host \ {c} : printed'[x] = printed[x]
  BY <1>1, <1>4 DEF UdpInv, TextsAreTyped
<1>6. \A x \in Host : x # c => clientAt'[x] = clientAt[x]
  BY <1>2 DEF UdpInv, TextsAreTyped
<1>7. TextsAreTyped'
  BY <1>1, <1>2, <1>3, <1>4, <1>5 DEF UdpInv, TextsAreTyped, Taken
<1>8. OwnersAreClients'
  BY <1>2, <1>3 DEF UdpInv, OwnersAreClients, IsAsked, Taken
<1>9. TurnsAreTaken'
  BY <1>2, <1>5 DEF UdpInv, TurnsAreTaken, TextsAreTyped
<1>10. OneIsOnItsWay'
  <2> SUFFICES ASSUME twice' = 0 PROVE OneIsOnItsWay'
    BY DEF OneIsOnItsWay
  <2>1. ASSUME NEW e, Who(e) # c, IsLast(e) PROVE IsLast(e)'
    BY <1>2, <2>1 DEF IsLast, UdpInv, TextsAreTyped
  <2>2. \A e \in DOMAIN net' : net'[e] = 1 /\ IsLast(e)' /\ (held # Nobody => Who(held) # Who(e))
    BY TakenLeavesRest, <1>3, <1>4, <2>1
  <2>3. \A e, f \in DOMAIN net' : Who(e) = Who(f) => e = f
    BY TakenLeavesRest, <1>3
  <2>4. held # Nobody => IsLast(held)'
    BY TakenLeavesRest, <1>2, <1>3, <1>4, <2>1
  <2> QED BY <1>2, <2>2, <2>3, <2>4 DEF OneIsOnItsWay
<1>11. AnswersAreInStep'
  <2>1. ASSUME NEW x \in Host, NEW k \in DOMAIN printed'[x]
        PROVE  /\ \E j \in 1 .. k : printed'[x][k] = asked[x][j]
               /\ twice' = 0 => printed'[x][k] = asked[x][k]
    <3>1. twice' = 0 => twice = 0 /\ IsLast(d)
      BY TakenLeavesRest, <1>3
    <3>2. CASE x = c /\ k = Len(printed[c]) + 1
      <4>1. Len(asked[c]) = k
        BY <1>2, <3>2 DEF UdpInv, TurnsAreTaken
      <4>2. \E j \in 1 .. k : d.text = asked[c][j]
        BY <1>4, <4>1 DEF IsAsked
      <4>3. twice' = 0 => d.text = asked[c][k]
        BY <3>1, <1>4, <4>1 DEF IsLast
      <4> QED BY <1>5, <3>2, <4>2, <4>3
    <3>3. CASE ~(x = c /\ k = Len(printed[c]) + 1)
      <4>1. k \in DOMAIN printed[x] /\ printed'[x][k] = printed[x][k]
        <5>1. k \in 1 .. Len(printed'[x])
          BY <1>5
        <5>2. k \in 1 .. Len(printed[x]) /\ printed'[x][k] = printed[x][k]
          BY <1>5, <3>3, <5>1 DEF UdpInv, TextsAreTyped
        <5> QED BY <5>2 DEF UdpInv, TextsAreTyped
      <4> QED BY <3>1, <4>1 DEF UdpInv, AnswersAreInStep
    <3> QED BY <3>2, <3>3
  <2> QED BY <1>2, <2>1 DEF AnswersAreInStep
<1> QED BY <1>7, <1>8, <1>9, <1>10, <1>11 DEF UdpInv

LEMMA ServerReceivesKeeps ==
    ASSUME UdpInv, ServerReceives
    PROVE  UdpInv'
<1>1. PICK d \in DOMAIN net : d.to = Server /\ Received(d) /\ held' = d
  BY DEF ServerReceives, BagToSet
<1>2. held = Nobody /\ UNCHANGED <<clientAt, message, asked, printed>>
  BY DEF ServerReceives
<1>3. Taken(d)
  BY ReceivedIsTaken, <1>1 DEF UdpInv, TextsAreTyped
<1>4. Who(d) \in Host /\ IsOf(d, Who(d)) /\ IsAsked(d)
  BY OnItsWayIsOf
<1>5. TextsAreTyped'
  BY <1>2, <1>3 DEF UdpInv, TextsAreTyped, Taken
<1>6. OwnersAreClients'
  BY <1>1, <1>2, <1>3, <1>4 DEF UdpInv, OwnersAreClients, IsAsked, Taken
<1>7. TurnsAreTaken'
  BY <1>2 DEF UdpInv, TurnsAreTaken
<1>8. OneIsOnItsWay'
  BY TakenLeavesRest, <1>1, <1>2, <1>3 DEF OneIsOnItsWay, IsLast
<1>9. AnswersAreInStep'
  BY <1>2, <1>3 DEF UdpInv, AnswersAreInStep, Taken
<1> QED BY <1>5, <1>6, <1>7, <1>8, <1>9 DEF UdpInv

\* The answer takes the place of the question.
LEMMA ServerSendsKeeps ==
    ASSUME UdpInv, ServerSends
    PROVE  UdpInv'
<1>1. PICK d : d = Datagram(Server, AnswerTo(held), held.text)
  OBVIOUS
<1>2. /\ held # Nobody /\ held' = Nobody /\ net' = net (+) SetToBag({d})
      /\ UNCHANGED <<twice, clientAt, message, asked, printed>>
  BY <1>1 DEF ServerSends, Sent
<1>3. PICK c : c = Who(held) /\ c \in Host /\ IsOf(held, c) /\ IsAsked(held)
  BY <1>2, OnItsWayIsOf
<1>4. c # Server
  BY <1>3, DatagramsAssumption DEF Server
<1>5. held.from = c
  BY <1>2, <1>3 DEF UdpInv, OwnersAreClients, Who
<1>6. d.text = held.text /\ IsOf(d, c) /\ Who(d) = c
  BY <1>1, <1>3, <1>4, <1>5 DEF IsOf, Who, Datagram, AnswerTo
<1>7. IsAsked(d)
  BY <1>3, <1>6 DEF IsAsked
<1>8. Added(net, net', d)
  BY <1>2, AddOne DEF UdpInv, TextsAreTyped
<1>9. TextsAreTyped'
  BY <1>2, <1>8 DEF UdpInv, TextsAreTyped, Added
<1>10. OwnersAreClients'
  BY <1>2, <1>3, <1>6, <1>7, <1>8 DEF UdpInv, OwnersAreClients, IsAsked, Added
<1>11. TurnsAreTaken'
  BY <1>2 DEF UdpInv, TurnsAreTaken
<1>12. OneIsOnItsWay'
  <2> SUFFICES ASSUME twice = 0 PROVE OneIsOnItsWay'
    BY <1>2 DEF OneIsOnItsWay
  <2>1. d \notin DOMAIN net /\ \A e \in DOMAIN net : Who(e) # c
    BY <1>2, <1>3, <1>6 DEF UdpInv, OneIsOnItsWay
  <2>2. IsLast(d)
    BY <1>2, <1>3, <1>6 DEF UdpInv, OneIsOnItsWay, IsLast
  <2>3. \A e : IsLast(e) => IsLast(e)'
    BY <1>2 DEF IsLast
  <2>4. \A e \in DOMAIN net' : net'[e] = 1 /\ IsLast(e)'
    BY <1>8, <2>1, <2>2, <2>3 DEF UdpInv, OneIsOnItsWay, Added
  <2>5. \A e, f \in DOMAIN net' : Who(e) = Who(f) => e = f
    BY <1>6, <1>8, <2>1 DEF UdpInv, OneIsOnItsWay, Added
  <2> QED BY <1>2, <2>4, <2>5 DEF OneIsOnItsWay
<1>13. AnswersAreInStep'
  BY <1>2 DEF UdpInv, AnswersAreInStep
<1> QED BY <1>9, <1>10, <1>11, <1>12, <1>13 DEF UdpInv

LEMMA LoseKeeps ==
    ASSUME UdpInv, Lose
    PROVE  UdpInv'
<1>1. PICK d \in DOMAIN net : net' = net (-) SetToBag({d})
  BY DEF Lose, BagToSet
<1>2. UNCHANGED <<twice, clientAt, message, asked, printed, held>>
  BY DEF Lose, udpVars
<1>3. Removed(net, net', d)
  BY <1>1, RemoveOne DEF UdpInv, TextsAreTyped
<1>4. Taken(d)
  BY <1>2, <1>3 DEF Taken, UdpInv, TextsAreTyped, Removed
<1>5. TextsAreTyped'
  BY <1>2, <1>3 DEF UdpInv, TextsAreTyped, Removed
<1>6. OwnersAreClients'
  BY <1>2, <1>3 DEF UdpInv, OwnersAreClients, IsAsked, Removed
<1>7. TurnsAreTaken'
  BY <1>2 DEF UdpInv, TurnsAreTaken
<1>8. OneIsOnItsWay'
  BY TakenLeavesRest, <1>2, <1>4 DEF OneIsOnItsWay, IsLast
<1>9. AnswersAreInStep'
  BY <1>2 DEF UdpInv, AnswersAreInStep
<1> QED BY <1>5, <1>6, <1>7, <1>8, <1>9 DEF UdpInv

LEMMA DatagramsGoOn == DatagramsInv /\ [DatagramsNext]_<<sample, netVars>> => DatagramsInv'
<1> SUFFICES ASSUME DatagramsInv, [DatagramsNext]_<<sample, netVars>> PROVE DatagramsInv'
  OBVIOUS
<1>1. CASE sample = "udp" /\ DatagramsNext
  <2>1. UdpStep \/ Lose
    BY <1>1 DEF DatagramsNext
  <2>2. UdpInv'
    BY <1>1, <2>1, AskKeeps, QuitKeeps, AnsweredKeeps, ServerReceivesKeeps, ServerSendsKeeps,
       LoseKeeps DEF UdpStep, DatagramsInv
  <2> QED BY <1>1, <2>2 DEF DatagramsInv, DatagramsNext
<1>2. CASE sample # "udp" /\ DatagramsNext
  <2>1. printed' = printed /\ sample' = sample
    BY <1>2 DEF DatagramsNext, BoundSends, BoundReceives, Lose, udpVars
  <2> QED BY <1>2, <2>1 DEF DatagramsInv
<1>3. CASE UNCHANGED <<sample, netVars>>
  <2>1. UNCHANGED <<sample, net, twice, clientAt, message, asked, printed, held>>
    BY <1>3 DEF netVars, udpVars
  <2> QED BY <2>1 DEF DatagramsInv, UdpInv, TextsAreTyped, OwnersAreClients, TurnsAreTaken,
             OneIsOnItsWay, AnswersAreInStep, IsAsked, IsLast
<1> QED BY <1>1, <1>2, <1>3

\* The kth answer is that to the kth question until a datagram comes twice,
\* and to an earlier one of the same client for ever.
THEOREM AnswersStayInStep == DatagramsSpec => []AnswersAreInStep
<1>1. DatagramsInv => AnswersAreInStep
  BY DEF DatagramsInv, UdpInv, AnswersAreInStep
<1> QED BY <1>1, DatagramsBegin, DatagramsGoOn, PTL DEF DatagramsSpec

-----------------------------------------------------------------------------
(***************************************************************************)
(* StreamClients, with TrackerClient.                                      *)
(***************************************************************************)
FirstBytes(p) == SubSeq(answer, 1, p)

\* What was read is the first p bytes, and what has arrived follows it; as long
\* as the connection is open that is all the server has sent.
InTune(p) ==
    /\ FlattenSeq(got) = FirstBytes(p)
    /\ \A j \in 1 .. Len(toClient) : toClient[j] = answer[p + j]
    /\ p + Len(toClient) <= answered
    /\ conn = "open" => p + Len(toClient) = answered

StreamTyped ==
    /\ answer \in Seq(Nat) /\ answered \in 0 .. Len(answer)
    /\ toClient \in Seq(Nat) /\ got \in Seq(Seq(Nat))

\* A client that has not asked has got nothing.
NothingYet ==
    streamAt \in {"name", "port", "connect", "send"} =>
        /\ request = <<>> /\ answered = 0 /\ toClient = <<>> /\ got = <<>>
        /\ IF streamAt = "send" THEN sample # "hello_client" ELSE conn = "none"

ReadInv == StreamTyped /\ NothingYet /\ \E p \in Nat : InTune(p)

\* A text in a buffer of s ends behind m bytes.
CutAt(s, m) == m + 1 \in 1 .. Len(s) /\ s[m + 1] = 0 /\ \A j \in 1 .. m : s[j] # 0

\* What a print shows of what was read before it, and of the print before.
Begins(part, text) == IF 0 \in ToSet(part) THEN text = UpToNul(part) ELSE IsPrefix(part, text)
Repeats(n, before, text) ==
    \A i \in n + 1 .. Len(text) : i <= Len(before) => text[i] = before[i]

\* There is a NUL behind the buffer, and the last print is what it holds.
BufferInv == msg \in Seq(Nat) /\ ReadSize < Len(msg) /\ msg[Len(msg)] = 0

ShownInv ==
    /\ got \in Seq(Seq(Nat)) /\ shown \in Seq(Seq(Nat)) /\ Len(shown) = Len(got)
    /\ \A k \in 1 .. Len(shown) : Begins(got[k], shown[k])
    /\ \A k \in 2 .. Len(shown) : Repeats(Len(got[k]), shown[k - 1], shown[k])
    /\ Len(shown) # 0 => shown[Len(shown)] = UpToNul(msg)

PrintInv == ReadInv /\ BufferInv /\ ShownInv

LEMMA UpToNulIs ==
    ASSUME NEW s \in Seq(Nat), NEW m \in Nat, CutAt(s, m)
    PROVE  /\ UpToNul(s) = SubSeq(s, 1, m) /\ UpToNul(s) \in Seq(Nat) /\ Len(UpToNul(s)) = m
           /\ \A i \in 1 .. m : UpToNul(s)[i] = s[i]
<1> DEFINE I == {i \in 1 .. Len(s) : s[i] = 0}
<1>1. m + 1 \in I /\ \A i \in I : m + 1 <= i
  <2>1. ASSUME NEW i \in I PROVE m + 1 <= i
    BY DEF CutAt
  <2> QED BY <2>1 DEF CutAt
<1>2. \A i \in I : i \in Nat
  OBVIOUS
<1> HIDE DEF I
<1>3. Min(I) = m + 1
  <2>1. ASSUME NEW x \in I, \A y \in I : x <= y PROVE x = m + 1
    <3>1. x <= m + 1 /\ m + 1 <= x /\ x \in Nat
      BY <1>1, <1>2, <2>1
    <3> QED BY <3>1
  <2> QED BY <1>1, <2>1 DEF Min
<1>4. SelectInSeq(s, LAMBDA b : b = 0) = m + 1
  <2>1. SelectInSeq(s, LAMBDA b : b = 0) = IF I # {} THEN Min(I) ELSE 0
    BY DEF SelectInSeq, I
  <2> QED BY <1>1, <1>3, <2>1
<1>5. UpToNul(s) = SubSeq(s, 1, m)
  BY <1>4 DEF UpToNul
<1>6. m <= Len(s) /\ Len(s) \in Nat
  BY DEF CutAt
<1> QED BY <1>5, <1>6

LEMMA CutExists ==
    ASSUME NEW s \in Seq(Nat), NEW q \in 1 .. Len(s), s[q] = 0
    PROVE  \E m \in Nat : CutAt(s, m) /\ m < q
<1> DEFINE S == {n \in Nat : \A k \in 1 .. n : k \in 1 .. Len(s) => s[k] # 0}
<1>1. 0 \in S
  OBVIOUS
<1>2. S \in SUBSET Nat /\ q \in Nat /\ q \notin S /\ Len(s) \in Nat
  OBVIOUS
<1>3. PICK m \in S : m + 1 \notin S
  <2>1. S # Nat
    BY <1>2
  <2> HIDE DEF S
  <2> QED BY <1>1, <1>2, <2>1, NatSubset
<1>4. PICK k \in 1 .. m + 1 : k \in 1 .. Len(s) /\ s[k] = 0
  BY <1>3
<1>5. k = m + 1 /\ m \in Nat
  BY <1>3, <1>4
<1>6. m < q
  BY <1>2, <1>3
<1>7. \A j \in 1 .. m : s[j] # 0
  <2>1. \A j \in 1 .. m : j \in 1 .. Len(s)
    BY <1>2, <1>4, <1>5
  <2> QED BY <1>3, <2>1
<1> QED BY <1>4, <1>5, <1>6, <1>7 DEF CutAt

\* What is behind the first n elements.
LEMMA RestIs ==
    ASSUME NEW s \in Seq(Nat), NEW n \in 0 .. Len(s), NEW t, t = SubSeq(s, n + 1, Len(s))
    PROVE  /\ t \in Seq(Nat) /\ Len(t) = Len(s) - n
           /\ \A j \in 1 .. Len(s) - n : t[j] = s[j + n]
<1>1. n + 1 \in Int /\ Len(s) \in Int /\ n \in Nat /\ Len(s) \in Nat
  OBVIOUS
<1>2. \A i \in n + 1 .. Len(s) : s[i] \in Nat
  OBVIOUS
<1>3. /\ t \in Seq(Nat)
      /\ Len(t) = IF n + 1 <= Len(s) THEN Len(s) - (n + 1) + 1 ELSE 0
      /\ \A j \in 1 .. Len(s) - (n + 1) + 1 : t[j] = s[(n + 1) + j - 1]
  BY <1>1, <1>2, SubSeqProperties
<1>4. ASSUME NEW j \in 1 .. Len(s) - n PROVE t[j] = s[j + n]
  <2>1. j \in 1 .. Len(s) - (n + 1) + 1 /\ (n + 1) + j - 1 = j + n
    BY <1>1
  <2> QED BY <1>3, <2>1
<1>5. Len(t) = Len(s) - n
  BY <1>1, <1>3
<1> QED BY <1>3, <1>4, <1>5

LEMMA PrefixIs ==
    ASSUME NEW s \in Seq(Nat), NEW t \in Seq(Nat), Len(s) <= Len(t), \A i \in 1 .. Len(s) : t[i] = s[i]
    PROVE  IsPrefix(s, t)
<1>1. PICK n \in Nat : n = Len(s) /\ n <= Len(t)
  OBVIOUS
<1>2. PICK r : r = SubSeq(t, 1, n)
  OBVIOUS
<1>3. /\ r \in Seq(Nat) /\ Len(r) = n /\ \A i \in 1 .. n : r[i] = t[i]
  BY <1>1, <1>2
<1>4. r = s
  <2>1. Len(r) = Len(s) /\ \A i \in 1 .. Len(r) : r[i] = s[i]
    BY <1>1, <1>3
  <2> QED BY ONLY <1>3, <2>1, s \in Seq(Nat), SeqEqual
<1>5. SubSeq(s, 1, n) = s
  BY <1>1, SubSeqFull
<1> QED BY <1>1, <1>2, <1>4, <1>5 DEF IsPrefix

\* What the buffer holds after a read, and what is shown of it.
LEMMA PrintsKeep ==
    ASSUME BufferInv, ShownInv, NEW part \in Seq(Nat), Len(part) <= ReadSize, Prints(part)
    PROVE  BufferInv' /\ ShownInv'
<1>0. PICK n, N : n = Len(part) /\ N = Len(msg)
  OBVIOUS
<1>1. n \in Nat /\ N \in Nat /\ n < N /\ msg \in Seq(Nat) /\ msg[N] = 0
  BY <1>0, StreamAssumption DEF BufferInv
<1>2. PICK t : t = msg' /\ t = part \o SubSeq(msg, n + 1, N)
  BY <1>0 DEF Prints, Filled
<1>3. /\ t \in Seq(Nat) /\ Len(t) = N
      /\ \A i \in 1 .. n : t[i] = part[i]
      /\ \A i \in n + 1 .. N : t[i] = msg[i]
  <2>1. PICK r \in Seq(Nat) : /\ r = SubSeq(msg, n + 1, N) /\ Len(r) = N - n
                              /\ \A i \in 1 .. N - n : r[i] = msg[i + n]
    <3>1. n \in 0 .. Len(msg) /\ N = Len(msg) /\ msg \in Seq(Nat)
      BY <1>0, <1>1
    <3>2. PICK r : r = SubSeq(msg, n + 1, N)
      OBVIOUS
    <3>3. /\ r \in Seq(Nat) /\ Len(r) = N - n /\ \A i \in 1 .. N - n : r[i] = msg[i + n]
      BY ONLY <3>1, <3>2, RestIs
    <3> QED BY <3>2, <3>3
  <2>a. /\ t \in Seq(Nat) /\ Len(t) = Len(part) + Len(r)
        /\ \A i \in 1 .. Len(part) + Len(r) : t[i] = IF i <= Len(part) THEN part[i] ELSE r[i - Len(part)]
    BY <1>2, <2>1, ConcatProperties
  <2>2. /\ t \in Seq(Nat) /\ Len(t) = N
        /\ \A i \in 1 .. N : t[i] = IF i <= n THEN part[i] ELSE r[i - n]
    <3>1. Len(part) + Len(r) = N
      BY <1>0, <1>1, <2>1
    <3> QED BY <1>0, <2>a, <3>1
  <2>3. \A i \in 1 .. n : t[i] = part[i]
    <3>1. \A i \in 1 .. n : i \in 1 .. N /\ i <= n
      BY <1>1
    <3> QED BY <2>2, <3>1
  <2>4. ASSUME NEW i \in n + 1 .. N PROVE t[i] = msg[i]
    <3>1. i - n \in 1 .. N - n /\ (i - n) + n = i /\ i \in 1 .. N /\ ~(i <= n)
      BY <1>1
    <3>2. t[i] = r[i - n]
      BY <2>2, <3>1
    <3> QED BY <2>1, <3>1, <3>2
  <2> QED BY <2>2, <2>3, <2>4
<1>4. t[N] = 0 /\ N \in 1 .. Len(t)
  BY <1>1, <1>3
<1>5. PICK m \in Nat : CutAt(t, m)
  BY <1>3, <1>4, CutExists
<1>6. PICK x : x = UpToNul(t)
  OBVIOUS
<1>7. x \in Seq(Nat) /\ Len(x) = m /\ \A i \in 1 .. m : x[i] = t[i]
  BY <1>3, <1>5, <1>6, UpToNulIs
<1>8. m < N /\ t[m + 1] = 0 /\ \A j \in 1 .. m : t[j] # 0
  BY <1>1, <1>3, <1>5 DEF CutAt
<1>9. Begins(part, x)
  <2>1. CASE 0 \in ToSet(part)
    <3>1. PICK q \in 1 .. n : part[q] = 0
      BY <1>0, <2>1 DEF ToSet
    <3>2. q \in Nat /\ m + 1 <= q /\ m + 1 \in 1 .. n
      <4>1. t[q] = 0
        BY <1>3, <3>1
      <4>2. ~(q <= m)
        BY <1>1, <1>8, <3>1, <4>1
      <4> QED BY <1>1, <3>1, <4>2
    <3>3. CutAt(part, m)
      <4>1. part[m + 1] = 0
        BY <1>3, <1>8, <3>2
      <4>2. \A j \in 1 .. m : j \in 1 .. n
        BY <1>1, <3>2
      <4>3. \A j \in 1 .. m : part[j] # 0
        BY <1>3, <1>8, <4>2
      <4> QED BY <1>0, <3>2, <4>1, <4>3 DEF CutAt
    <3>4. PICK y : y = UpToNul(part)
      OBVIOUS
    <3>5. y \in Seq(Nat) /\ Len(y) = m /\ \A i \in 1 .. m : y[i] = part[i]
      BY <3>3, <3>4, UpToNulIs
    <3>6. \A i \in 1 .. m : x[i] = y[i]
      <4>1. \A i \in 1 .. m : i \in 1 .. n
        BY <1>1, <3>2
      <4> QED BY <1>3, <1>7, <3>5, <4>1
    <3>7. x = y
      <4>1. Len(x) = Len(y) /\ \A i \in 1 .. Len(x) : x[i] = y[i]
        BY <1>7, <3>5, <3>6
      <4>2. x \in Seq(Nat) /\ y \in Seq(Nat)
        BY <1>7, <3>5
      <4> QED BY ONLY <4>1, <4>2, SeqEqual
    <3> QED BY <2>1, <3>4, <3>7 DEF Begins
  <2>2. CASE 0 \notin ToSet(part)
    <3>1. \A i \in 1 .. n : part[i] # 0
      BY <1>0, <2>2 DEF ToSet
    <3>2. n <= m
      <4>1. m + 1 \notin 1 .. n
        BY <1>3, <1>8, <3>1
      <4> QED BY <1>1, <4>1
    <3>3. \A i \in 1 .. n : x[i] = part[i]
      <4>1. \A i \in 1 .. n : i \in 1 .. m
        BY <1>1, <3>2
      <4> QED BY <1>3, <1>7, <4>1
    <3>4. x \in Seq(Nat) /\ Len(part) <= Len(x) /\ \A i \in 1 .. Len(part) : x[i] = part[i]
      BY <1>0, <1>7, <3>2, <3>3
    <3>5. IsPrefix(part, x)
      BY ONLY <3>4, part \in Seq(Nat), PrefixIs
    <3> QED BY <2>2, <3>5 DEF Begins
  <2> QED BY <2>1, <2>2
<1>10. ASSUME NEW b, b = UpToNul(msg) PROVE Repeats(n, b, x)
  <2>1. N \in 1 .. N
    BY <1>1
  <2>2. PICK l \in Nat : CutAt(msg, l)
    BY <1>0, <1>1, <2>1, CutExists
  <2>3. Len(b) = l /\ \A i \in 1 .. l : b[i] = msg[i]
    BY <1>1, <1>10, <2>2, UpToNulIs
  <2>4. ASSUME NEW i \in n + 1 .. m, i <= l PROVE x[i] = b[i]
    <3>1. i \in 1 .. m /\ i \in 1 .. l /\ i \in n + 1 .. N
      BY <1>1, <1>8, <2>4
    <3> QED BY <1>3, <1>7, <2>3, <3>1
  <2> QED BY <1>7, <2>3, <2>4 DEF Repeats
<1>11. PICK K : K = Len(shown)
  OBVIOUS
<1>12. /\ K \in Nat /\ K = Len(got) /\ got \in Seq(Seq(Nat)) /\ shown \in Seq(Seq(Nat))
       /\ got' = Append(got, part) /\ shown' = Append(shown, x)
  BY <1>2, <1>6, <1>11 DEF ShownInv, Prints
<1>13. /\ got' \in Seq(Seq(Nat)) /\ Len(got') = K + 1 /\ got'[K + 1] = part
       /\ \A k \in 1 .. K : got'[k] = got[k]
  <2>1. /\ Append(got, part) \in Seq(Seq(Nat)) /\ Len(Append(got, part)) = K + 1
        /\ Append(got, part)[K + 1] = part
        /\ \A k \in 1 .. K : Append(got, part)[k] = got[k]
    BY ONLY <1>12, part \in Seq(Nat), AppendProperties
  <2> QED BY <1>12, <2>1
<1>14. /\ shown' \in Seq(Seq(Nat)) /\ Len(shown') = K + 1 /\ shown'[K + 1] = x
       /\ \A k \in 1 .. K : shown'[k] = shown[k]
  <2>1. x \in Seq(Nat)
    BY <1>7
  <2>2. Len(shown) = K
    BY <1>11
  <2>3. /\ Append(shown, x) \in Seq(Seq(Nat)) /\ Len(Append(shown, x)) = K + 1
        /\ Append(shown, x)[K + 1] = x
        /\ \A k \in 1 .. K : Append(shown, x)[k] = shown[k]
    BY ONLY <1>12, <2>1, <2>2, AppendProperties
  <2> QED BY <1>12, <2>3
<1>15. ASSUME NEW k \in 1 .. K + 1 PROVE Begins(got'[k], shown'[k])
  <2>1. k \in 1 .. K \/ k = K + 1
    BY <1>12
  <2>2. CASE k \in 1 .. K
    BY <1>11, <1>13, <1>14, <2>2 DEF ShownInv
  <2>3. CASE k = K + 1
    BY <1>9, <1>13, <1>14, <2>3
  <2> QED BY <2>1, <2>2, <2>3
<1>16. ASSUME NEW k \in 2 .. K + 1 PROVE Repeats(Len(got'[k]), shown'[k - 1], shown'[k])
  <2>1. k \in 2 .. K \/ (k = K + 1 /\ K # 0)
    BY <1>12
  <2>2. CASE k \in 2 .. K
    <3>1. k \in 1 .. K /\ k - 1 \in 1 .. K
      BY <1>12, <2>2
    <3>2. Repeats(Len(got[k]), shown[k - 1], shown[k])
      BY <1>11, <2>2 DEF ShownInv
    <3> QED BY <1>13, <1>14, <3>1, <3>2
  <2>3. CASE k = K + 1 /\ K # 0
    <3>1. k - 1 = K /\ K \in 1 .. K
      BY <1>12, <2>3
    <3>2. shown'[k - 1] = UpToNul(msg)
      BY <1>11, <1>14, <2>3, <3>1 DEF ShownInv
    <3> QED BY <1>0, <1>10, <1>13, <1>14, <2>3, <3>2
  <2> QED BY <2>1, <2>2, <2>3
<1>17. BufferInv'
  <2>1. ReadSize < N
    BY <1>0 DEF BufferInv
  <2> QED BY <1>2, <1>3, <1>4, <2>1 DEF BufferInv
<1>18. ShownInv'
  <2>1. Len(shown') = Len(got') /\ Len(shown') = K + 1
    BY <1>13, <1>14
  <2>2. shown'[K + 1] = UpToNul(msg')
    BY <1>2, <1>6, <1>14
  <2> QED BY <1>13, <1>14, <1>15, <1>16, <2>1, <2>2 DEF ShownInv
<1> QED BY <1>17, <1>18

\* As long as nothing is printed, only what was read and sent can be disturbed.
LEMMA PrintStays ==
    ASSUME PrintInv, UNCHANGED printVars, ReadInv'
    PROVE  PrintInv'
<1>1. BufferInv' /\ ShownInv'
  BY DEF PrintInv, printVars, BufferInv, ShownInv
<1> QED BY <1>1 DEF PrintInv

LEMMA FirstBytesArePrefix ==
    ASSUME NEW p \in Nat, answer \in Seq(Nat), p <= Len(answer)
    PROVE  IsPrefix(FirstBytes(p), answer)
<1>1. Len(FirstBytes(p)) = p /\ Len(answer) \in Nat
  BY DEF FirstBytes
<1>2. SubSeq(FirstBytes(p), 1, p) = FirstBytes(p) /\ SubSeq(answer, 1, p) = FirstBytes(p)
  BY <1>1 DEF FirstBytes
<1> QED BY <1>1, <1>2 DEF IsPrefix

\* With the next bytes of the answer there are so many more of its first.
LEMMA FirstBytesAndMore ==
    ASSUME NEW p \in Nat, NEW t \in Seq(Nat), answer \in Seq(Nat), p + Len(t) <= Len(answer),
           \A j \in 1 .. Len(t) : t[j] = answer[p + j]
    PROVE  FirstBytes(p) \o t = FirstBytes(p + Len(t))
<1>1. PICK f, g, w : f = FirstBytes(p) /\ g = FirstBytes(p + Len(t)) /\ w = f \o t
  OBVIOUS
<1>a. Len(t) \in Nat /\ Len(answer) \in Nat /\ p <= Len(answer)
  OBVIOUS
<1>2. f \in Seq(Nat) /\ Len(f) = p /\ \A j \in 1 .. p : f[j] = answer[j]
  BY <1>1, <1>a DEF FirstBytes
<1>3. g \in Seq(Nat) /\ Len(g) = p + Len(t) /\ \A j \in 1 .. p + Len(t) : g[j] = answer[j]
  BY <1>1, <1>a DEF FirstBytes
<1>4. w \in Seq(Nat) /\ Len(w) = p + Len(t)
  <2>1. f \o t \in Seq(Nat) /\ Len(f \o t) = Len(f) + Len(t)
    BY <1>2, ConcatProperties
  <2> QED BY <1>1, <1>2, <2>1
<1>5. ASSUME NEW j \in 1 .. p + Len(t) PROVE w[j] = answer[j]
  <2>1. CASE j <= p
    BY <1>1, <1>2, <2>1
  <2>2. CASE j > p
    <3>1. j - p \in 1 .. Len(t) /\ p + (j - p) = j
      BY <1>a, <2>2
    <3>2. w[j] = t[j - p]
      <4>1. j \in 1 .. Len(f) + Len(t) /\ ~(j <= Len(f)) /\ Len(f) = p
        BY <1>2, <2>2, <1>a
      <4>2. (f \o t)[j] = IF j <= Len(f) THEN f[j] ELSE t[j - Len(f)]
        BY <1>2, <4>1, ConcatProperties
      <4> QED BY <1>1, <4>1, <4>2
    <3> QED BY <3>1, <3>2
  <2>3. j <= p \/ j > p
    BY <1>a
  <2> QED BY <2>1, <2>2, <2>3
<1>6. w = g
  <2>1. Len(w) = Len(g) /\ \A j \in 1 .. Len(w) : w[j] = g[j]
    BY <1>3, <1>4, <1>5
  <2> QED BY ONLY <1>3, <1>4, <2>1
<1> QED BY <1>1, <1>6

LEMMA SeqOfNat ==
    ASSUME NEW T \in SUBSET Nat, NEW s \in Seq(T)
    PROVE  s \in Seq(Nat)
<1>1. \A i \in 1 .. Len(s) : s[i] \in T
  BY ElementOfSeq
<1>2. s = [i \in 1 .. Len(s) |-> s[i]] /\ Len(s) \in Nat
  OBVIOUS
<1> QED BY <1>1, <1>2

LEMMA OctetsAreNat == \A s \in Seq(0 .. 255) : s \in Seq(Nat)
<1>1. 0 .. 255 \in SUBSET Nat
  OBVIOUS
<1> QED BY <1>1, SeqOfNat

LEMMA PrintBegins == TrackerInit => PrintInv
<1> SUFFICES ASSUME TrackerInit PROVE PrintInv
  OBVIOUS
<1>1. /\ conn = "none" /\ request = <<>> /\ answered = 0 /\ toClient = <<>>
      /\ got = <<>> /\ shown = <<>> /\ answer \in Texts /\ msg \in Memory
      /\ streamAt # "send"
  BY DEF TrackerInit, StreamInit
<1>2. answer \in Seq(Nat) /\ Len(answer) \in Nat
  <2>1. \A s \in Seq(0 .. 255) : s \in Seq(Nat)
    BY OctetsAreNat
  <2>2. answer \in Seq(0 .. 255)
    BY <1>1, StreamAssumption
  <2> QED BY <2>1, <2>2
<1>3. InTune(0)
  <2>1. FirstBytes(0) = <<>>
    BY <1>2 DEF FirstBytes
  <2> QED BY <1>1, <2>1, FlattenEmpty DEF InTune
<1>4. ReadInv
  <2>1. StreamTyped /\ NothingYet
    BY <1>1, <1>2 DEF StreamTyped, NothingYet
  <2>2. 0 \in Nat
    OBVIOUS
  <2> QED BY <1>3, <2>1, <2>2 DEF ReadInv
<1>5. BufferInv
  <2>1. msg \in Seq(0 .. 255) /\ ReadSize < Len(msg) /\ Last(msg) = 0
    BY <1>1, StreamAssumption
  <2>2. msg \in Seq(Nat)
    BY <2>1, OctetsAreNat
  <2> QED BY <2>1, <2>2 DEF BufferInv, Last
<1>6. ShownInv
  BY <1>1 DEF ShownInv
<1> QED BY <1>4, <1>5, <1>6 DEF PrintInv

\* The steps that change nothing but where the client is: it reads the name and
\* the port, does not connect, and closes.
LEMMA StillKeeps ==
    ASSUME PrintInv,
           UNCHANGED <<sample, conn, request, answer, answered, toClient, printVars>>,
           streamAt' \notin {"send", "read"},
           streamAt' \in {"name", "port", "connect"} => streamAt \in {"name", "port"}
    PROVE  PrintInv'
<1>1. StreamTyped' /\ NothingYet'
  BY DEF PrintInv, ReadInv, StreamTyped, NothingYet, printVars
<1>2. \A p : InTune(p) => InTune(p)'
  BY DEF InTune, FirstBytes, printVars
<1> QED BY <1>1, <1>2, PrintStays DEF PrintInv, ReadInv

LEMMA ConnectsKeeps ==
    ASSUME PrintInv, Connects, UNCHANGED <<sample, answer>>
    PROVE  PrintInv'
<1>1. /\ streamAt = "connect" /\ conn' = "open"
      /\ UNCHANGED <<request, answered, toClient>> /\ UNCHANGED printVars
      /\ streamAt' = IF sample = "hello_client" THEN "read" ELSE "send"
  BY DEF Connects
<1>2. request = <<>> /\ answered = 0 /\ toClient = <<>> /\ got = <<>> /\ answer \in Seq(Nat)
  BY <1>1 DEF PrintInv, ReadInv, NothingYet, StreamTyped
<1>3. StreamTyped' /\ NothingYet'
  BY <1>1, <1>2 DEF PrintInv, ReadInv, StreamTyped, NothingYet, printVars
<1>4. InTune(0)'
  <2>1. SubSeq(answer, 1, 0) = <<>>
    BY <1>2
  <2>2. got' = <<>> /\ toClient' = <<>> /\ answered' = 0 /\ answer' = answer
    BY <1>1, <1>2 DEF printVars
  <2>3. FlattenSeq(got') = FirstBytes(0)'
    BY <2>1, <2>2, FlattenEmpty DEF FirstBytes
  <2> QED BY <2>2, <2>3 DEF InTune
<1> QED BY <1>1, <1>3, <1>4, PrintStays DEF ReadInv

LEMMA SendsRequestKeeps ==
    ASSUME PrintInv, SendsRequest, UNCHANGED <<sample, answer>>
    PROVE  PrintInv'
<1>1. /\ streamAt = "send" /\ streamAt' = "read"
      /\ UNCHANGED <<answered, toClient>> /\ UNCHANGED printVars
      /\ conn' = conn \/ conn' = "broken"
  BY DEF SendsRequest
<1>2. StreamTyped' /\ NothingYet'
  BY <1>1 DEF PrintInv, ReadInv, StreamTyped, NothingYet, printVars
<1>3. \A p : InTune(p) => InTune(p)'
  BY <1>1 DEF InTune, FirstBytes, printVars
<1> QED BY <1>1, <1>2, <1>3, PrintStays DEF PrintInv, ReadInv

\* A part of what has arrived is read.
LEMMA ReadsKeeps ==
    ASSUME PrintInv, Reads, UNCHANGED <<sample, answer>>
    PROVE  PrintInv'
<1>1. /\ streamAt = "read" /\ streamAt' = AfterRead
      /\ UNCHANGED <<conn, request, answered>>
  BY DEF Reads
<1>2. PICK n \in 1 .. ReadSize :
        /\ n <= Len(toClient)
        /\ Prints(SubSeq(toClient, 1, n))
        /\ toClient' = SubSeq(toClient, n + 1, Len(toClient))
  BY DEF Reads
<1>3. n \in 1 .. Len(toClient) /\ toClient \in Seq(Nat) /\ Len(toClient) \in Nat
      /\ got \in Seq(Seq(Nat)) /\ answered \in 0 .. Len(answer) /\ answer \in Seq(Nat)
  BY <1>2, StreamAssumption DEF PrintInv, ReadInv, StreamTyped
<1>4. PICK x \in Seq(Nat) :
        /\ x = SubSeq(toClient, 1, n) /\ Len(x) = n
        /\ \A j \in 1 .. n : x[j] = toClient[j]
  <2>1. /\ SubSeq(toClient, 1, n) \in Seq(Nat) /\ Len(SubSeq(toClient, 1, n)) = n
        /\ \A j \in 1 .. n : SubSeq(toClient, 1, n)[j] = toClient[j]
    BY <1>3
  <2> QED BY <2>1
<1>5. /\ toClient' \in Seq(Nat) /\ Len(toClient') = Len(toClient) - n
      /\ \A j \in 1 .. Len(toClient) - n : toClient'[j] = toClient[j + n]
  <2>1. n \in 0 .. Len(toClient)
    BY <1>3
  <2> QED BY <1>2, <1>3, <2>1, RestIs
<1>6. Prints(x) /\ Len(x) <= ReadSize
  BY <1>2, <1>4, StreamAssumption
<1>7. BufferInv' /\ ShownInv'
  BY <1>6, PrintsKeep DEF PrintInv
<1>8. got' = Append(got, x) /\ got' \in Seq(Seq(Nat))
  BY <1>3, <1>6 DEF Prints
<1>9. StreamTyped'
  BY <1>1, <1>3, <1>5, <1>8 DEF StreamTyped
<1>10. NothingYet'
  BY <1>1 DEF NothingYet, AfterRead
<1>11. PICK p \in Nat : InTune(p)
  BY DEF PrintInv, ReadInv
<1>12. (p + n) + Len(toClient') = p + Len(toClient) /\ p + n \in Nat
  BY <1>3, <1>5
<1>13. FlattenSeq(got') = FirstBytes(p + n)
  <2>1. FlattenSeq(Append(got, x)) = FlattenSeq(got) \o x
    BY <1>3, FlattenAppend
  <2>2. \A j \in 1 .. Len(x) : x[j] = answer[p + j]
    BY <1>3, <1>4, <1>11 DEF InTune
  <2>3. p + Len(x) <= Len(answer)
    <3>1. p + Len(toClient) <= answered
      BY <1>11 DEF InTune
    <3> QED BY <1>3, <1>4, <3>1
  <2>4. FirstBytes(p) \o x = FirstBytes(p + Len(x))
    BY <1>3, <2>2, <2>3, FirstBytesAndMore
  <2> QED BY <1>4, <1>8, <1>11, <2>1, <2>4 DEF InTune
<1>14. ASSUME NEW j \in 1 .. Len(toClient') PROVE toClient'[j] = answer[(p + n) + j]
  <2>1. j \in 1 .. Len(toClient) - n /\ n \in Nat
    BY <1>3, <1>5
  <2>2. j + n \in 1 .. Len(toClient) /\ p + (j + n) = (p + n) + j
    BY ONLY <2>1, <1>3, p \in Nat
  <2>3. toClient[j + n] = answer[p + (j + n)]
    BY <1>11, <2>2 DEF InTune
  <2> QED BY <1>5, <2>1, <2>2, <2>3
<1>15. InTune(p + n)'
  <2>1. answer' = answer /\ answered' = answered /\ conn' = conn
    BY <1>1
  <2> QED BY <1>11, <1>12, <1>13, <1>14, <2>1 DEF InTune, FirstBytes
<1> QED BY <1>7, <1>9, <1>10, <1>12, <1>15 DEF PrintInv, ReadInv

\* A reset is reported, or the end found: a print without a read.
LEMMA PrintsNothingNew ==
    ASSUME PrintInv, ReadFails \/ ReadsEnd, UNCHANGED <<sample, answer>>
    PROVE  PrintInv'
<1>1. /\ streamAt' \in {"failed", "read", "close"} /\ toClient = <<>>
      /\ conn' = "broken" \/ conn' = conn
      /\ UNCHANGED <<request, answered, toClient>>
      /\ UNCHANGED printVars \/ Prints(<<>>)
  BY DEF ReadFails, ReadsEnd
<1>2. PICK p \in Nat : InTune(p)
  BY DEF PrintInv, ReadInv
<1>3. /\ answered \in 0 .. Len(answer) /\ answer \in Seq(Nat)
      /\ toClient \in Seq(Nat) /\ got \in Seq(Seq(Nat))
  BY DEF PrintInv, ReadInv, StreamTyped
<1>4. NothingYet'
  BY <1>1 DEF NothingYet
<1>5. CASE UNCHANGED printVars
  <2>1. StreamTyped' /\ InTune(p)'
    BY <1>1, <1>2, <1>3, <1>5 DEF StreamTyped, InTune, FirstBytes, printVars
  <2> QED BY <1>2, <1>4, <1>5, <2>1, PrintStays DEF ReadInv
<1>6. CASE Prints(<<>>)
  <2>1. <<>> \in Seq(Nat) /\ Len(<<>>) <= ReadSize
    BY StreamAssumption
  <2>2. BufferInv' /\ ShownInv'
    BY <1>6, <2>1, PrintsKeep DEF PrintInv
  <2>3. got' = Append(got, <<>>) /\ got' \in Seq(Seq(Nat))
    BY <1>3, <1>6, <2>1 DEF Prints
  <2>4. FlattenSeq(got') = FlattenSeq(got)
    <3>1. FlattenSeq(got) \in Seq(Nat)
      BY <1>3, FlattenTyped
    <3>2. FlattenSeq(got) \o <<>> = FlattenSeq(got)
      BY <3>1
    <3>3. FlattenSeq(Append(got, <<>>)) = FlattenSeq(got) \o <<>>
      BY <1>3, <2>1, FlattenAppend
    <3> QED BY <2>3, <3>2, <3>3
  <2>5. StreamTyped' /\ InTune(p)'
    BY <1>1, <1>2, <1>3, <2>3, <2>4 DEF StreamTyped, InTune, FirstBytes
  <2> QED BY <1>2, <1>4, <2>2, <2>5 DEF PrintInv, ReadInv
<1> QED BY <1>1, <1>5, <1>6

LEMMA AnswersKeeps ==
    ASSUME PrintInv, Answers, UNCHANGED <<sample, answer>>
    PROVE  PrintInv'
<1>1. /\ conn = "open" /\ MayAnswer /\ answered < Len(answer) /\ answered' = answered + 1
      /\ toClient' = Append(toClient, answer[answered'])
      /\ UNCHANGED <<streamAt, conn, request>> /\ UNCHANGED printVars
  BY DEF Answers
<1>2. /\ answer \in Seq(Nat) /\ Len(answer) \in Nat /\ answered \in Nat
      /\ answered' \in 1 .. Len(answer) /\ answer[answered + 1] \in Nat
      /\ toClient \in Seq(Nat) /\ Len(toClient) \in Nat /\ got \in Seq(Seq(Nat))
  BY <1>1 DEF PrintInv, ReadInv, StreamTyped
<1>3. /\ toClient' \in Seq(Nat) /\ Len(toClient') = Len(toClient) + 1
      /\ toClient'[Len(toClient) + 1] = answer[answered + 1]
      /\ \A j \in 1 .. Len(toClient) : toClient'[j] = toClient[j]
  BY <1>1, <1>2
<1>4. StreamTyped'
  <2>1. answered' \in 0 .. Len(answer')
    BY <1>2
  <2> QED BY <1>1, <1>2, <1>3, <2>1 DEF StreamTyped, printVars
<1>5. NothingYet'
  <2>1. streamAt \notin {"name", "port", "connect", "send"}
    BY <1>1 DEF MayAnswer, PrintInv, ReadInv, NothingYet
  <2> QED BY <1>1, <2>1 DEF NothingYet
<1>6. ASSUME NEW p \in Nat, InTune(p) PROVE InTune(p)'
  <2>1. p + Len(toClient) = answered
    BY <1>1, <1>6 DEF InTune
  <2>2. ASSUME NEW j \in 1 .. Len(toClient') PROVE toClient'[j] = answer[p + j]
    <3>1. j \in 1 .. Len(toClient) \/ j = Len(toClient) + 1
      BY <1>2, <1>3
    <3>2. CASE j \in 1 .. Len(toClient)
      BY <1>3, <1>6, <3>2 DEF InTune
    <3>3. CASE j = Len(toClient) + 1
      <4>1. p + j = answered + 1
        BY <1>2, <2>1, <3>3
      <4> QED BY <1>3, <3>3, <4>1
    <3> QED BY <3>1, <3>2, <3>3
  <2>3. p + Len(toClient') = answered' /\ answered' \in Nat
    <3>1. answered' = answered + 1
      BY <1>1
    <3> QED BY ONLY <1>2, <1>3, <2>1, <3>1, p \in Nat
  <2> QED BY <1>1, <1>6, <2>2, <2>3 DEF InTune, FirstBytes, printVars
<1> QED BY <1>1, <1>4, <1>5, <1>6, PrintStays DEF PrintInv, ReadInv

\* The server ends the connection, or resets it and loses some of the answer.
LEMMA LeavesKeeps ==
    ASSUME PrintInv, ServerCloses \/ GivesUp \/ Resets, UNCHANGED <<sample, answer>>
    PROVE  PrintInv'
<1>1. /\ conn \in {"open", "ended"} /\ conn' \in {"ended", "reset"}
      /\ UNCHANGED <<streamAt, request, answered>> /\ UNCHANGED printVars
  BY DEF ServerCloses, GivesUp, Resets
<1>2. toClient \in Seq(Nat) /\ Len(toClient) \in Nat /\ answered \in Nat
  BY DEF PrintInv, ReadInv, StreamTyped
<1>3. PICK n \in 0 .. Len(toClient) : toClient' = SubSeq(toClient, 1, n)
  <2>1. SubSeq(toClient, 1, Len(toClient)) = toClient /\ Len(toClient) \in 0 .. Len(toClient)
    BY <1>2
  <2>2. CASE toClient' = toClient
    BY <2>1, <2>2
  <2> QED BY <2>2 DEF ServerCloses, GivesUp, Resets
<1>4. /\ toClient' \in Seq(Nat) /\ Len(toClient') = n /\ n <= Len(toClient)
      /\ \A j \in 1 .. n : toClient'[j] = toClient[j] /\ j \in 1 .. Len(toClient)
  BY <1>2, <1>3
<1>5. toClient = <<>> => toClient' = <<>>
  BY <1>2, <1>3
<1>6. StreamTyped' /\ NothingYet'
  BY <1>1, <1>4, <1>5 DEF PrintInv, ReadInv, StreamTyped, NothingYet, printVars
<1>7. ASSUME NEW p \in Nat, InTune(p) PROVE InTune(p)'
  <2>1. \A j \in 1 .. Len(toClient') : toClient'[j] = answer[p + j]
    BY <1>4, <1>7 DEF InTune
  <2>2. p + Len(toClient') <= answered
    BY <1>2, <1>4, <1>7 DEF InTune
  <2> QED BY <1>1, <1>7, <2>1, <2>2 DEF InTune, FirstBytes, printVars
<1> QED BY <1>1, <1>6, <1>7, PrintStays DEF PrintInv, ReadInv

LEMMA PrintGoesOn == PrintInv /\ [TrackerNext]_<<sample, trackerVars>> => PrintInv'
<1> SUFFICES ASSUME PrintInv, [TrackerNext]_<<sample, trackerVars>> PROVE PrintInv'
  OBVIOUS
<1>1. CASE UNCHANGED <<sample, trackerVars>>
  <2>1. UNCHANGED <<sample, streamAt, conn, request, answer, answered, toClient, printVars>>
    BY <1>1 DEF trackerVars, streamVars
  <2>2. \A p : InTune(p) => InTune(p)'
    BY <2>1 DEF InTune, FirstBytes, printVars
  <2>3. StreamTyped' /\ NothingYet'
    BY <2>1 DEF PrintInv, ReadInv, StreamTyped, NothingYet, printVars
  <2> QED BY <2>1, <2>2, <2>3, PrintStays DEF PrintInv, ReadInv
<1>2. CASE UNCHANGED <<sample, answer>> /\ (GetsName \/ GetsPort \/ ConnectFails \/ Closes)
  <2>1. /\ UNCHANGED <<conn, request, answered, toClient, printVars>>
        /\ \/ streamAt = "name" /\ streamAt' = "port"
           \/ streamAt = "port" /\ streamAt' \in {"connect", "failed"}
           \/ streamAt' \in {"failed", "done"}
    BY <1>2 DEF GetsName, GetsPort, ConnectFails, Closes
  <2> QED BY <1>2, <2>1, StillKeeps
<1>3. CASE UNCHANGED <<sample, answer>> /\ (Connects \/ SendsRequest \/ Reads \/ ReadFails \/ ReadsEnd)
  BY <1>3, ConnectsKeeps, SendsRequestKeeps, ReadsKeeps, PrintsNothingNew
<1>4. CASE UNCHANGED <<sample, answer>> /\ (ServerStep \/ GivesUp \/ Resets)
  BY <1>4, AnswersKeeps, LeavesKeeps DEF ServerStep
<1> QED BY <1>1, <1>2, <1>3, <1>4
       DEF TrackerNext, TrackerStep, CreatesRequest, ConnectsToTracker, StreamNext, ClientStep

\* Whatever an answer holds and whatever parts it arrives in, and whatever the
\* memory held before: what the clients have read is the answer from its
\* beginning, each byte once, every read is printed from its first byte on up
\* to a NUL in it, and what a print shows behind it is what the print before
\* showed there.
THEOREM AnswersArePrinted == TrackerSpec => []AnswerIsPrinted
<1>1. PrintInv => AnswerIsPrinted
  <2> SUFFICES ASSUME PrintInv PROVE AnswerIsPrinted
    OBVIOUS
  <2>1. PICK p \in Nat : InTune(p)
    BY DEF PrintInv, ReadInv
  <2>2. answer \in Seq(Nat) /\ p <= Len(answer)
    BY <2>1 DEF InTune, PrintInv, ReadInv, StreamTyped
  <2>3. IsPrefix(FlattenSeq(got), answer)
    BY <2>1, <2>2, FirstBytesArePrefix DEF InTune
  <2> QED BY <2>3 DEF AnswerIsPrinted, PrintInv, ShownInv, Begins, Repeats
<1> QED BY <1>1, PrintBegins, PrintGoesOn, PTL DEF TrackerSpec

-----------------------------------------------------------------------------
(***************************************************************************)
(* TrackerClient: the hash in the request.  Decoded is a recursive         *)
(* function over sequences: that there is one, for sequences up to a       *)
(* length and then for all, and what its equation says, comes first.       *)
(***************************************************************************)
Bytes == Seq(0 .. 255)

\* What is decoded before the rest, and the rest.
FirstDecoded(s) ==
    IF s[1] = 37 THEN <<16 * HexDigit(s[2]) + HexDigit(s[3])>>
    ELSE <<IF s[1] = 43 THEN 32 ELSE s[1]>>
Undecoded(s) == IF s[1] = 37 THEN SubSeq(s, 4, Len(s)) ELSE Tail(s)
DecodeStep(f, s) == IF s = <<>> THEN <<>> ELSE FirstDecoded(s) \o f[Undecoded(s)]

\* f decodes what is no longer than n.
Decodes(f, n) == f = [s \in Bytes |-> IF Len(s) <= n THEN DecodeStep(f, s) ELSE <<>>]
Decoder(f)    == f = [s \in Bytes |-> DecodeStep(f, s)]

LEMMA UndecodedIsShorter ==
    ASSUME NEW s \in Bytes, s # <<>>
    PROVE  Undecoded(s) \in Bytes /\ Len(Undecoded(s)) \in Nat /\ Len(Undecoded(s)) < Len(s)
<1>1. Len(s) \in Nat \ {0} /\ s \in Seq(0 .. 255)
  BY EmptySeq DEF Bytes
<1>2. Tail(s) \in Seq(0 .. 255) /\ Len(Tail(s)) = Len(s) - 1
  BY <1>1
<1>3. SubSeq(s, 4, Len(s)) \in Seq(0 .. 255)
      /\ Len(SubSeq(s, 4, Len(s))) = IF 4 <= Len(s) THEN Len(s) - 3 ELSE 0
  <2>1. PICK n \in Nat : n = Len(s)
    BY <1>1
  <2>2. \A k \in 4 .. n : s[k] \in 0 .. 255
    BY <1>1, <2>1
  <2>3. /\ SubSeq(s, 4, n) \in Seq(0 .. 255)
        /\ Len(SubSeq(s, 4, n)) = IF 4 <= n THEN n - 4 + 1 ELSE 0
    BY ONLY <2>2, n \in Nat, SubSeqProperties
  <2> QED BY <2>1, <2>3
<1> QED BY <1>1, <1>2, <1>3 DEF Undecoded, Bytes

\* A step looks only at what the function makes of shorter ones.
LEMMA DecodeLocal ==
    ASSUME NEW s \in Bytes, NEW f, NEW g, \A t \in Bytes : Len(t) < Len(s) => f[t] = g[t]
    PROVE  DecodeStep(f, s) = DecodeStep(g, s)
BY UndecodedIsShorter DEF DecodeStep

LEMMA DecodersAgree ==
    ASSUME NEW f, NEW g, NEW n \in Nat, NEW m \in Nat, n <= m, Decodes(f, n), Decodes(g, m)
    PROVE  \A s \in Bytes : Len(s) <= n => f[s] = g[s]
<1> DEFINE S == {l \in Nat : l <= n => \A s \in Bytes : Len(s) <= l => f[s] = g[s]}
<1>1. ASSUME NEW s \in Bytes, Len(s) <= n, \A t \in Bytes : Len(t) < Len(s) => f[t] = g[t]
      PROVE  f[s] = g[s]
  <2>1. Len(s) \in Nat /\ Len(s) <= m
    BY <1>1 DEF Bytes
  <2>2. f[s] = DecodeStep(f, s) /\ g[s] = DecodeStep(g, s)
    BY <1>1, <2>1 DEF Decodes
  <2>3. DecodeStep(f, s) = DecodeStep(g, s)
    BY <1>1, DecodeLocal
  <2> QED BY <2>2, <2>3
<1>2. 0 \in S
  <2>1. \A s \in Bytes : Len(s) \in Nat
    BY DEF Bytes
  <2>2. ASSUME NEW s \in Bytes, Len(s) <= 0 PROVE f[s] = g[s]
    <3>1. Len(s) <= n /\ \A t \in Bytes : ~(Len(t) < Len(s))
      BY <2>1, <2>2
    <3> QED BY <1>1, <3>1
  <2> QED BY <2>2
<1>3. ASSUME NEW l \in S PROVE l + 1 \in S
  <2>1. ASSUME l + 1 <= n, NEW s \in Bytes, Len(s) <= l + 1 PROVE f[s] = g[s]
    <3>1. \A t \in Bytes : Len(t) \in Nat
      BY DEF Bytes
    <3>2. l \in Nat /\ l <= n /\ \A t \in Bytes : Len(t) <= l => f[t] = g[t]
      BY <2>1
    <3>3. Len(s) <= n /\ \A t \in Bytes : Len(t) < Len(s) => Len(t) <= l
      BY <2>1, <3>1, <3>2
    <3> QED BY <1>1, <3>2, <3>3
  <2> QED BY <2>1
<1>4. S \in SUBSET Nat
  OBVIOUS
<1> HIDE DEF S
<1>5. n \in S
  BY <1>2, <1>3, <1>4, NatSubset
<1> QED BY <1>5 DEF S

LEMMA DecodesExist ==
    ASSUME NEW n \in Nat
    PROVE  \E f : Decodes(f, n)
<1> DEFINE S == {l \in Nat : \E f : Decodes(f, l)}
<1>0. \A s \in Bytes : Len(s) \in Nat /\ (Len(s) <= 0 => s = <<>>)
  BY EmptySeq DEF Bytes
<1>1. 0 \in S
  <2> DEFINE f == [s \in Bytes |-> <<>>]
  <2>1. \A s \in Bytes : <<>> = IF Len(s) <= 0 THEN DecodeStep(f, s) ELSE <<>>
    BY <1>0 DEF DecodeStep
  <2>2. Decodes(f, 0)
    BY <2>1 DEF Decodes
  <2> QED BY <2>2
<1>2. ASSUME NEW l \in S PROVE l + 1 \in S
  <2>1. PICK f : Decodes(f, l)
    OBVIOUS
  <2> DEFINE g == [s \in Bytes |-> IF Len(s) <= l + 1 THEN DecodeStep(f, s) ELSE <<>>]
  <2>2. \A s \in Bytes : g[s] = IF Len(s) <= l + 1 THEN DecodeStep(f, s) ELSE <<>>
    OBVIOUS
  <2>3. l \in Nat
    OBVIOUS
  <2>4. \A s \in Bytes : Len(s) <= l => g[s] = f[s]
    BY <1>0, <2>1, <2>2, <2>3 DEF Decodes
  <2>5. g = [s \in Bytes |-> g[s]]
    OBVIOUS
  <2> HIDE DEF g
  <2>6. ASSUME NEW s \in Bytes, Len(s) <= l + 1 PROVE DecodeStep(f, s) = DecodeStep(g, s)
    <3>1. \A t \in Bytes : Len(t) < Len(s) => Len(t) <= l
      BY <1>0, <2>3, <2>6
    <3>2. \A t \in Bytes : Len(t) < Len(s) => f[t] = g[t]
      BY <2>4, <3>1
    <3> QED BY <3>2, DecodeLocal
  <2>7. \A s \in Bytes : g[s] = IF Len(s) <= l + 1 THEN DecodeStep(g, s) ELSE <<>>
    BY <2>2, <2>6
  <2>8. Decodes(g, l + 1)
    BY <2>5, <2>7 DEF Decodes
  <2> QED BY <2>3, <2>8
<1>3. S \in SUBSET Nat
  OBVIOUS
<1> HIDE DEF S
<1>4. n \in S
  BY <1>1, <1>2, <1>3, NatSubset
<1> QED BY <1>4 DEF S

LEMMA DecoderExists == \E f : Decoder(f)
<1> DEFINE Of(n) == CHOOSE f : Decodes(f, n)
           d == [s \in Bytes |-> Of(Len(s))[s]]
<1>1. \A s \in Bytes : Len(s) \in Nat
  BY DEF Bytes
<1>2. \A n \in Nat : Decodes(Of(n), n)
  BY DecodesExist
<1> HIDE DEF Of
<1>3. ASSUME NEW s \in Bytes PROVE d[s] = DecodeStep(d, s)
  <2>1. d[s] = Of(Len(s))[s]
    OBVIOUS
  <2>2. Of(Len(s))[s] = DecodeStep(Of(Len(s)), s)
    <3>1. Decodes(Of(Len(s)), Len(s)) /\ Len(s) <= Len(s)
      BY <1>1, <1>2
    <3> QED BY <3>1 DEF Decodes
  <2>3. ASSUME NEW t \in Bytes, Len(t) < Len(s) PROVE d[t] = Of(Len(s))[t]
    <3>1. Len(t) \in Nat /\ Len(s) \in Nat /\ Len(t) <= Len(s) /\ Len(t) <= Len(t)
      BY <1>1, <2>3
    <3>2. Of(Len(t))[t] = Of(Len(s))[t]
      BY <1>2, <3>1, DecodersAgree
    <3> QED BY <3>2
  <2> HIDE DEF d
  <2>4. DecodeStep(Of(Len(s)), s) = DecodeStep(d, s)
    BY <2>3, DecodeLocal
  <2> QED BY <2>1, <2>2, <2>4
<1>4. d = [s \in Bytes |-> d[s]]
  OBVIOUS
<1> HIDE DEF d
<1>5. Decoder(d)
  BY <1>3, <1>4 DEF Decoder
<1> QED BY <1>5

LEMMA DecodedIs == \A s \in Bytes : Decoded[s] = DecodeStep(Decoded, s)
<1>1. ASSUME NEW f, NEW s
      PROVE  DecodeStep(f, s) =
                 IF s = <<>> THEN <<>>
                 ELSE IF s[1] = 37
                 THEN <<16 * HexDigit(s[2]) + HexDigit(s[3])>> \o f[SubSeq(s, 4, Len(s))]
                 ELSE <<IF s[1] = 43 THEN 32 ELSE s[1]>> \o f[Tail(s)]
  BY Zenon DEF DecodeStep, FirstDecoded, Undecoded
<1> DEFINE Is(f) ==
      f = [s \in Seq(0 .. 255) |->
              IF s = <<>> THEN <<>>
              ELSE IF s[1] = 37
              THEN <<16 * HexDigit(s[2]) + HexDigit(s[3])>> \o f[SubSeq(s, 4, Len(s))]
              ELSE <<IF s[1] = 43 THEN 32 ELSE s[1]>> \o f[Tail(s)]]
<1>2. ASSUME NEW f PROVE Is(f) <=> Decoder(f)
  BY <1>1, Zenon DEF Decoder, Bytes
<1>3. Decoded = CHOOSE f : Is(f)
  BY DEF Decoded
<1> DEFINE d == Decoded
<1> HIDE DEF Is
<1>4. Is(d)
  BY <1>2, <1>3, DecoderExists
<1> HIDE DEF d
<1>5. Decoder(d)
  BY <1>2, <1>4
<1>6. \A s \in Bytes : d[s] = DecodeStep(d, s)
  BY <1>5 DEF Decoder
<1> QED BY <1>6 DEF d

\* Bytes together are bytes.
LEMMA OneByte == \A b \in 0 .. 255 : <<b>> \in Bytes
  BY DEF Bytes

LEMMA JoinedBytes ==
    ASSUME NEW s \in Bytes, NEW t \in Bytes
    PROVE  /\ s \o t \in Bytes /\ Len(s \o t) = Len(s) + Len(t)
           /\ Len(s) \in Nat /\ Len(t) \in Nat
           /\ \A i \in 1 .. Len(s) + Len(t) : (s \o t)[i] = IF i <= Len(s) THEN s[i] ELSE t[i - Len(s)]
<1>1. s \in Seq(0 .. 255) /\ t \in Seq(0 .. 255)
  BY DEF Bytes
<1> QED BY <1>1, ConcatProperties, LenProperties DEF Bytes

LEMMA BytesAssociate ==
    ASSUME NEW s \in Bytes, NEW t \in Bytes, NEW u \in Bytes
    PROVE  (s \o t) \o u = s \o (t \o u)
<1>1. s \in Seq(0 .. 255) /\ t \in Seq(0 .. 255) /\ u \in Seq(0 .. 255)
  BY DEF Bytes
<1> QED BY ONLY <1>1, ConcatAssociative

\* A byte that is encoded is decoded, whatever follows.
LEMMA EncodedByteIs ==
    ASSUME NEW b \in 0 .. 255
    PROVE  /\ EncodeByte(b) \in Bytes
           /\ \/ b # 37 /\ b # 43 /\ EncodeByte(b) = <<b>>
              \/ b = 32 /\ EncodeByte(b) = <<43>>
              \/ \E x, y \in 0 .. 255 :
                    EncodeByte(b) = <<37, x, y>> /\ 16 * HexDigit(x) + HexDigit(y) = b
<1>1. CASE b \in Plain
  <2>1. b # 37 /\ b # 43
    BY <1>1 DEF Plain, Between
  <2>2. EncodeByte(b) = <<b>>
    BY <1>1 DEF EncodeByte
  <2> QED BY <2>1, <2>2, OneByte
<1>2. CASE b \notin Plain /\ b = 32
  <2>1. EncodeByte(b) = <<43>> /\ 43 \in 0 .. 255
    BY <1>2 DEF EncodeByte
  <2> QED BY <1>2, <2>1, OneByte
<1>3. CASE b \notin Plain /\ b # 32
  <2>1. PICK h, l : h = b \div 16 /\ l = b % 16
    OBVIOUS
  <2>2. h \in 0 .. 15 /\ l \in 0 .. 15 /\ 16 * h + l = b
    BY <2>1
  <2>3. ASSUME NEW n \in 0 .. 15 PROVE Hex(n) \in 0 .. 255 /\ HexDigit(Hex(n)) = n
    BY DEF Hex, HexDigit
  <2>4. EncodeByte(b) = <<37, Hex(h), Hex(l)>>
    BY <1>3, <2>1 DEF EncodeByte
  <2>5. /\ Hex(h) \in 0 .. 255 /\ HexDigit(Hex(h)) = h
        /\ Hex(l) \in 0 .. 255 /\ HexDigit(Hex(l)) = l
    BY <2>2, <2>3
  <2>6. <<37, Hex(h), Hex(l)>> \in Seq(0 .. 255)
    BY <2>5
  <2>7. 16 * HexDigit(Hex(h)) + HexDigit(Hex(l)) = b
    BY <2>2, <2>5
  <2> QED BY <2>4, <2>5, <2>6, <2>7 DEF Bytes
<1> QED BY <1>1, <1>2, <1>3

LEMMA ByteIsDecoded ==
    ASSUME NEW b \in 0 .. 255, NEW r \in Bytes
    PROVE  Decoded[EncodeByte(b) \o r] = <<b>> \o Decoded[r]
<1> DEFINE s == EncodeByte(b) \o r
<1>1. EncodeByte(b) \in Bytes /\ s \in Bytes
  BY EncodedByteIs, JoinedBytes
<1>2. Decoded[s] = DecodeStep(Decoded, s)
  BY <1>1, DecodedIs
<1>3. ASSUME NEW x \in 0 .. 255, EncodeByte(b) = <<x>>
      PROVE  s # <<>> /\ s[1] = x /\ Tail(s) = r
  <2>1. Len(s) = Len(r) + 1 /\ s[1] = x
    BY <1>3 DEF Bytes
  <2>2. Tail(s) = r
    BY <1>3 DEF Bytes
  <2> QED BY <2>1, <2>2 DEF Bytes
<1>4. ASSUME NEW x \in 0 .. 255, NEW y \in 0 .. 255, EncodeByte(b) = <<37, x, y>>
      PROVE  s # <<>> /\ s[1] = 37 /\ s[2] = x /\ s[3] = y /\ SubSeq(s, 4, Len(s)) = r
  <2>1. Len(s) = Len(r) + 3 /\ Len(r) \in Nat /\ s[1] = 37 /\ s[2] = x /\ s[3] = y
    BY <1>4 DEF Bytes
  <2>2. SubSeq(s, 4, Len(s)) = r
    BY <1>4 DEF Bytes
  <2> QED BY <2>1, <2>2
<1> HIDE DEF s
<1>5. s # <<>> /\ FirstDecoded(s) = <<b>> /\ Undecoded(s) = r
  <2>1. CASE b # 37 /\ b # 43 /\ EncodeByte(b) = <<b>>
    <3>1. s # <<>> /\ s[1] = b /\ Tail(s) = r
      BY <1>3, <2>1
    <3> QED BY <2>1, <3>1 DEF FirstDecoded, Undecoded
  <2>2. CASE b = 32 /\ EncodeByte(b) = <<43>>
    <3>1. s # <<>> /\ s[1] = 43 /\ Tail(s) = r
      BY <1>3, <2>2
    <3> QED BY <2>2, <3>1 DEF FirstDecoded, Undecoded
  <2>3. ASSUME NEW x \in 0 .. 255, NEW y \in 0 .. 255,
               EncodeByte(b) = <<37, x, y>>, 16 * HexDigit(x) + HexDigit(y) = b
        PROVE  s # <<>> /\ FirstDecoded(s) = <<b>> /\ Undecoded(s) = r
    <3>1. s # <<>> /\ s[1] = 37 /\ s[2] = x /\ s[3] = y /\ SubSeq(s, 4, Len(s)) = r
      BY <1>4, <2>3
    <3> QED BY <2>3, <3>1 DEF FirstDecoded, Undecoded
  <2>4. \/ b # 37 /\ b # 43 /\ EncodeByte(b) = <<b>>
        \/ b = 32 /\ EncodeByte(b) = <<43>>
        \/ \E x, y \in 0 .. 255 :
              EncodeByte(b) = <<37, x, y>> /\ 16 * HexDigit(x) + HexDigit(y) = b
    BY EncodedByteIs, Zenon
  <2> QED BY <2>1, <2>2, <2>3, <2>4, Zenon
<1>6. DecodeStep(Decoded, s) = <<b>> \o Decoded[r]
  BY <1>5, Zenon DEF DecodeStep
<1> QED BY <1>2, <1>6 DEF s

\* The first n bytes, encoded.
FirstEncoded(h, n) == [k \in 1 .. n |-> EncodeByte(h[k])]

LEMMA FirstAreDecoded ==
    ASSUME NEW h \in Bytes, NEW n \in 0 .. Len(h), NEW r \in Bytes, Decoded[r] \in Bytes
    PROVE  Decoded[FlattenSeq(FirstEncoded(h, n)) \o r] = SubSeq(h, 1, n) \o Decoded[r]
<1> DEFINE Are(m) == \A t \in Bytes : Decoded[t] \in Bytes =>
                        Decoded[FlattenSeq(FirstEncoded(h, m)) \o t] = SubSeq(h, 1, m) \o Decoded[t]
           S == {m \in Nat : m <= Len(h) => Are(m)}
<1>0. Len(h) \in Nat /\ \A k \in 1 .. Len(h) : h[k] \in 0 .. 255
  BY ElementOfSeq, LenProperties DEF Bytes
<1>1. 0 \in S
  <2>1. FirstEncoded(h, 0) = <<>> /\ SubSeq(h, 1, 0) = <<>>
    BY SubSeqEmpty DEF FirstEncoded
  <2>2. ASSUME NEW t \in Bytes, Decoded[t] \in Bytes
        PROVE  Decoded[FlattenSeq(FirstEncoded(h, 0)) \o t] = SubSeq(h, 1, 0) \o Decoded[t]
    <3>1. <<>> \o t = t /\ <<>> \o Decoded[t] = Decoded[t]
      BY <2>2 DEF Bytes
    <3> QED BY <2>1, <3>1, FlattenEmpty
  <2> QED BY <2>2
<1>2. ASSUME NEW m \in S PROVE m + 1 \in S
  <2>0. m \in Nat /\ (m <= Len(h) => Are(m))
    OBVIOUS
  <2> SUFFICES ASSUME m + 1 <= Len(h) PROVE Are(m + 1)
    <3> HIDE DEF Are
    <3> QED BY <2>0
  <2>1. m \in Nat /\ m <= Len(h) /\ m + 1 \in 1 .. Len(h)
    BY <1>0, <2>0
  <2> DEFINE b == h[m + 1]
             e == FirstEncoded(h, m)
  <2>2. b \in 0 .. 255 /\ EncodeByte(b) \in Bytes
    BY <1>0, <2>1, EncodedByteIs
  <2>3. e \in Seq(Bytes) /\ FirstEncoded(h, m + 1) = Append(e, EncodeByte(b))
    <3>1. ASSUME NEW k \in 1 .. m + 1 PROVE EncodeByte(h[k]) \in Bytes
      <4>1. k \in 1 .. Len(h)
        BY <1>0, <2>1
      <4> QED BY <1>0, <4>1, EncodedByteIs
    <3>2. e \in Seq(Bytes) /\ Len(e) = m
      <4>1. \A k \in 1 .. m : EncodeByte(h[k]) \in Bytes
        BY <3>1, <2>1
      <4> QED BY <2>1, <4>1 DEF FirstEncoded
    <3>3. Append(e, EncodeByte(b)) = [k \in 1 .. m + 1 |-> IF k = m + 1 THEN EncodeByte(b) ELSE e[k]]
      BY <2>1, <3>2
    <3>4. \A k \in 1 .. m : e[k] = EncodeByte(h[k])
      BY DEF FirstEncoded
    <3>5. FirstEncoded(h, m + 1) = [k \in 1 .. m + 1 |-> IF k = m + 1 THEN EncodeByte(b) ELSE e[k]]
      BY <2>1, <3>4 DEF FirstEncoded
    <3> QED BY <3>2, <3>3, <3>5
  <2>4. SubSeq(h, 1, m + 1) = SubSeq(h, 1, m) \o <<b>> /\ SubSeq(h, 1, m) \in Bytes
    <3>1. h \in Seq(0 .. 255) /\ 1 \in 1 .. Len(h) /\ m + 1 \in 1 .. Len(h) /\ m + 1 - 1 = m
      BY <1>0, <2>1 DEF Bytes
    <3>2. SubSeq(h, 1, m + 1) = SubSeq(h, 1, m + 1 - 1) \o <<h[m + 1]>>
      BY <3>1, SubSeqRecursiveSecond
    <3>3. \A k \in 1 .. m : h[k] \in 0 .. 255
      BY <1>0, <2>1
    <3>4. SubSeq(h, 1, m) \in Seq(0 .. 255)
      BY <2>1, <3>3, SubSeqProperties
    <3> QED BY <3>1, <3>2, <3>4 DEF Bytes
  <2> HIDE DEF b, e
  <2>5. FlattenSeq(e) \in Bytes /\ FlattenSeq(FirstEncoded(h, m + 1)) = FlattenSeq(e) \o EncodeByte(b)
    <3>1. e \in Seq(Seq(0 .. 255)) /\ EncodeByte(b) \in Seq(0 .. 255)
      BY <2>2, <2>3 DEF Bytes
    <3>2. FlattenSeq(e) \in Seq(0 .. 255)
      BY ONLY <3>1, FlattenTyped
    <3>3. FlattenSeq(Append(e, EncodeByte(b))) = FlattenSeq(e) \o EncodeByte(b)
      BY ONLY <3>1, FlattenAppend
    <3> QED BY <2>3, <3>2, <3>3 DEF Bytes
  <2>6. ASSUME NEW t \in Bytes, Decoded[t] \in Bytes
        PROVE  Decoded[FlattenSeq(FirstEncoded(h, m + 1)) \o t] = SubSeq(h, 1, m + 1) \o Decoded[t]
    <3> DEFINE u == EncodeByte(b) \o t
    <3>1. u \in Bytes /\ (FlattenSeq(e) \o EncodeByte(b)) \o t = FlattenSeq(e) \o u
      <4>1. EncodeByte(b) \in Bytes /\ FlattenSeq(e) \in Bytes
        BY <2>2, <2>5
      <4>2. u \in Bytes
        BY ONLY <4>1, t \in Bytes, JoinedBytes
      <4>3. (FlattenSeq(e) \o EncodeByte(b)) \o t = FlattenSeq(e) \o u
        BY ONLY <4>1, t \in Bytes, BytesAssociate
      <4> QED BY <4>2, <4>3
    <3>2. Decoded[u] = <<b>> \o Decoded[t]
      BY <2>2, ByteIsDecoded
    <3>3. Decoded[u] \in Bytes
      <4>1. <<b>> \in Bytes /\ Decoded[t] \in Bytes
        BY <2>2, <2>6, OneByte
      <4>2. <<b>> \o Decoded[t] \in Bytes
        BY ONLY <4>1, JoinedBytes
      <4> QED BY <3>2, <4>2
    <3> HIDE DEF u
    <3>4. Decoded[FlattenSeq(e) \o u] = SubSeq(h, 1, m) \o Decoded[u]
      BY <2>0, <2>1, <3>1, <3>3 DEF e
    <3>5. SubSeq(h, 1, m) \o (<<b>> \o Decoded[t]) = (SubSeq(h, 1, m) \o <<b>>) \o Decoded[t]
      <4>1. <<b>> \in Bytes /\ Decoded[t] \in Bytes
        BY <2>2, <2>6, OneByte
      <4> QED BY ONLY <2>4, <4>1, BytesAssociate
    <3> QED BY <2>4, <2>5, <3>1, <3>2, <3>4, <3>5
  <2> QED BY <2>6
<1>3. S \in SUBSET Nat
  OBVIOUS
<1> HIDE DEF S, Are
<1>4. n \in S
  <2>1. S = Nat
    BY ONLY <1>1, <1>2, <1>3, NatSubset
  <2> QED BY <2>1
<1>5. Are(n)
  BY <1>0, <1>4 DEF S
<1> QED BY <1>5 DEF Are

\* The server reads in the request what the hash is.
LEMMA HashIsDecoded == \A h \in Bytes : Decoded[http_encode(h)] = h
<1> SUFFICES ASSUME NEW h \in Bytes PROVE Decoded[http_encode(h)] = h
  OBVIOUS
<1> DEFINE n == Len(h)
           e == FlattenSeq(FirstEncoded(h, n))
<1>1. n \in Nat /\ n \in 0 .. Len(h) /\ SubSeq(h, 1, n) = h /\ <<>> \in Bytes
  BY DEF Bytes
<1>2. http_encode(h) = e
  BY DEF http_encode, FirstEncoded, Bytes
<1>3. Decoded[<<>>] = <<>> /\ Decoded[<<>>] \in Bytes
  BY <1>1, DecodedIs DEF DecodeStep
<1>4. e \in Bytes
  <2>1. \A k \in 1 .. n : EncodeByte(h[k]) \in Seq(0 .. 255)
    BY EncodedByteIs, ElementOfSeq DEF Bytes
  <2>2. FirstEncoded(h, n) \in Seq(Seq(0 .. 255))
    BY <1>1, <2>1 DEF FirstEncoded
  <2> QED BY <2>2, FlattenTyped DEF Bytes
<1>5. Decoded[e \o <<>>] = SubSeq(h, 1, n) \o <<>>
  <2>1. Decoded[e \o <<>>] = SubSeq(h, 1, n) \o Decoded[<<>>]
    BY <1>1, <1>3, FirstAreDecoded
  <2> QED BY <1>3, <2>1
<1> HIDE DEF e
<1>6. e \o <<>> = e /\ h \o <<>> = h
  BY <1>4 DEF Bytes
<1> QED BY <1>1, <1>2, <1>5, <1>6

EncodedInv == info_hash \in Bytes /\ (encoded = <<>> \/ encoded = http_encode(info_hash))

\* The tracker gets the hash that the parser computed, for every hash.
THEOREM HashArrives == TrackerSpec => []HashIsSent
<1>1. TrackerInit => EncodedInv
  BY TrackerAssumption DEF TrackerInit, EncodedInv, Bytes
<1>2. EncodedInv /\ [TrackerNext]_<<sample, trackerVars>> => EncodedInv'
  <2> SUFFICES ASSUME EncodedInv, [TrackerNext]_<<sample, trackerVars>> PROVE EncodedInv'
    OBVIOUS
  <2>1. UNCHANGED info_hash /\ (UNCHANGED encoded \/ encoded' = http_encode(info_hash))
    BY DEF TrackerNext, TrackerStep, GetsName, GetsPort, CreatesRequest, givenVars, trackerVars
  <2> QED BY <2>1 DEF EncodedInv
<1>3. EncodedInv => HashIsSent
  BY HashIsDecoded DEF EncodedInv, HashIsSent
<1> QED BY <1>1, <1>2, <1>3, PTL DEF TrackerSpec

-----------------------------------------------------------------------------
(***************************************************************************)
(* TrackerClient: the name and the port.  A port that is a number of 16    *)
(* bits is read as that number.                                            *)
(***************************************************************************)
Digit10 == ToSet(Digits)

LEMMA DigitIsNat == \A d \in Digit10 : Digit(d) \in Nat
<1> SUFFICES ASSUME NEW d \in Digit10 PROVE Digit(d) \in Nat
  OBVIOUS
<1>1. DOMAIN Digits = 1 .. 10
  BY DEF Digits
<1>2. PICK n \in 1 .. 10 : Digits[n] = d
  BY <1>1 DEF Digit10, ToSet
<1>3. PICK m \in 1 .. 10 : m = CHOOSE k \in 1 .. 10 : Digits[k] = d
  BY <1>2
<1>4. Digit(d) = m - 1
  BY <1>3, Zenon DEF Digit
<1> QED BY <1>4

\* What the digits of s make of a number, in Number and in Value.
Count(s)  == [k \in 1 .. Len(s) |-> [n \in Nat |-> n * 10 + Digit(s[k])]]
Count16(s) == [k \in 1 .. Len(s) |-> [n \in Nat |-> Short(n * 10 + Digit(s[k]))]]

\* The results after the first k digits.
Counted(s, r)   == r[0] = 0 /\ \A k \in 1 .. Len(s) : r[k] = r[k - 1] * 10 + Digit(s[k])
Counted16(s, r) == r[0] = 0 /\ \A k \in 1 .. Len(s) : r[k] = Short(r[k - 1] * 10 + Digit(s[k]))

Value16(s) == FoldLeft(LAMBDA n, d : Short(n * 10 + Digit(d)), 0, s)

Fits(n) == n < 65536

LEMMA ShortIs == \A n \in Nat : Short(n) \in Nat /\ (Fits(n) => Short(n) = n)
  BY SMT DEF Short, Fits

LEMMA SmallerFits == \A m, n \in Nat : m <= n /\ Fits(n) => Fits(m)
  BY SMT DEF Fits

LEMMA NumberIsCounted ==
    ASSUME NEW s \in Seq(Digit10)
    PROVE  \E r : Counted(s, r) /\ Number(s) = r[Len(s)]
<1> DEFINE N == Len(s)
           iter[t \in SUBSET DOMAIN s] ==
               IF t = {} THEN 0 ELSE LET x == Max(t) IN iter[t \ {x}] * 10 + Digit(s[x])
           IsFold(f) == f = [t \in SUBSET (1 .. N) |->
               IF t = {} THEN 0 ELSE f[t \ {Max(t)}] * 10 + Digit(s[Max(t)])]
           r == [k \in 0 .. N |-> iter[1 .. k]]
<1>1. N \in Nat /\ DOMAIN s = 1 .. N
  OBVIOUS
<1>2. Number(s) = iter[1 .. N]
  BY <1>1 DEF Number, FoldLeft, MapThenFoldSet, Max
<1>3. iter = CHOOSE f : IsFold(f)
  BY <1>1
<1> HIDE DEF iter
<1>4. \A k \in 1 .. N : Digit(s[k]) \in Nat
  BY DigitIsNat, ElementOfSeq
<1>5. \E f : IsFold(f)
  <2>1. \A k \in 1 .. N : Count(s)[k] \in [Nat -> Nat]
    BY <1>4 DEF Count
  <2>2. PICK f \in [SUBSET (1 .. N) -> Nat] : Folding(f, N, Count(s), 0)
    BY <1>1, <2>1, FoldExists
  <2>3. ASSUME NEW t \in SUBSET (1 .. N), t # {}
        PROVE  Count(s)[Max(t)][f[t \ {Max(t)}]] = f[t \ {Max(t)}] * 10 + Digit(s[Max(t)])
    <3>1. PICK m : IsMax(t, m)
      BY <1>1, <2>3, MaxExists
    <3>2. Max(t) = m /\ m \in 1 .. N
      BY <1>1, <3>1, MaxIs DEF IsMax
    <3>3. f[t \ {m}] \in Nat
      OBVIOUS
    <3> QED BY <3>2, <3>3 DEF Count
  <2>4. IsFold(f)
    BY <2>2, <2>3 DEF Folding, FoldStep
  <2> QED BY <2>4
<1>6. IsFold(iter)
  <2> HIDE DEF IsFold
  <2> QED BY <1>3, <1>5
<1>7. r[0] = 0
  <2>1. 1 .. 0 = {} /\ {} \in SUBSET (1 .. N) /\ 0 \in 0 .. N
    BY <1>1
  <2>2. iter[{}] = 0
    BY <1>6, <2>1
  <2> QED BY <2>1, <2>2
<1>8. ASSUME NEW k \in 1 .. N PROVE r[k] = r[k - 1] * 10 + Digit(s[k])
  <2>1. /\ 1 .. k \in SUBSET (1 .. N) /\ 1 .. k # {} /\ Max(1 .. k) = k
        /\ (1 .. k) \ {k} = 1 .. k - 1
    BY <1>1, FirstElements
  <2>2. iter[1 .. k] = iter[1 .. k - 1] * 10 + Digit(s[k])
    BY <1>6, <2>1
  <2>3. k \in 0 .. N /\ k - 1 \in 0 .. N
    BY <1>1
  <2> QED BY <2>2, <2>3
<1>9. r[N] = iter[1 .. N]
  BY <1>1
<1> HIDE DEF r
<1> QED BY <1>2, <1>7, <1>8, <1>9 DEF Counted

LEMMA ValueIsCounted ==
    ASSUME NEW s \in Seq(Digit10)
    PROVE  \E r : Counted16(s, r) /\ Value16(s) = r[Len(s)]
<1> DEFINE N == Len(s)
           iter[t \in SUBSET DOMAIN s] ==
               IF t = {} THEN 0 ELSE LET x == Max(t) IN Short(iter[t \ {x}] * 10 + Digit(s[x]))
           IsFold(f) == f = [t \in SUBSET (1 .. N) |->
               IF t = {} THEN 0 ELSE Short(f[t \ {Max(t)}] * 10 + Digit(s[Max(t)]))]
           r == [k \in 0 .. N |-> iter[1 .. k]]
<1>1. N \in Nat /\ DOMAIN s = 1 .. N
  OBVIOUS
<1>2. Value16(s) = iter[1 .. N]
  BY <1>1 DEF Value16, FoldLeft, MapThenFoldSet, Max
<1>3. iter = CHOOSE f : IsFold(f)
  BY <1>1
<1> HIDE DEF iter
<1>4. \A k \in 1 .. N : Digit(s[k]) \in Nat
  BY DigitIsNat, ElementOfSeq
<1>5. \E f : IsFold(f)
  <2>1. \A k \in 1 .. N : Count16(s)[k] \in [Nat -> Nat]
    <3> SUFFICES ASSUME NEW k \in 1 .. N PROVE Count16(s)[k] \in [Nat -> Nat]
      OBVIOUS
    <3>1. ASSUME NEW n \in Nat PROVE Short(n * 10 + Digit(s[k])) \in Nat
      <4>1. n * 10 + Digit(s[k]) \in Nat
        BY <1>4
      <4> QED BY <4>1, ShortIs
    <3> QED BY <3>1 DEF Count16
  <2>2. PICK f \in [SUBSET (1 .. N) -> Nat] : Folding(f, N, Count16(s), 0)
    BY <1>1, <2>1, FoldExists
  <2>3. ASSUME NEW t \in SUBSET (1 .. N), t # {}
        PROVE  Count16(s)[Max(t)][f[t \ {Max(t)}]] = Short(f[t \ {Max(t)}] * 10 + Digit(s[Max(t)]))
    <3>1. PICK m : IsMax(t, m)
      BY <1>1, <2>3, MaxExists
    <3>2. Max(t) = m /\ m \in 1 .. N
      BY <1>1, <3>1, MaxIs DEF IsMax
    <3>3. f[t \ {m}] \in Nat
      OBVIOUS
    <3> QED BY <3>2, <3>3 DEF Count16
  <2>4. IsFold(f)
    BY <2>2, <2>3 DEF Folding, FoldStep
  <2> QED BY <2>4
<1>6. IsFold(iter)
  <2> HIDE DEF IsFold
  <2> QED BY <1>3, <1>5
<1>7. r[0] = 0
  <2>1. 1 .. 0 = {} /\ {} \in SUBSET (1 .. N) /\ 0 \in 0 .. N
    BY <1>1
  <2>2. iter[{}] = 0
    BY <1>6, <2>1
  <2> QED BY <2>1, <2>2
<1>8. ASSUME NEW k \in 1 .. N PROVE r[k] = Short(r[k - 1] * 10 + Digit(s[k]))
  <2>1. /\ 1 .. k \in SUBSET (1 .. N) /\ 1 .. k # {} /\ Max(1 .. k) = k
        /\ (1 .. k) \ {k} = 1 .. k - 1
    BY <1>1, FirstElements
  <2>2. iter[1 .. k] = Short(iter[1 .. k - 1] * 10 + Digit(s[k]))
    BY <1>6, <2>1
  <2>3. k \in 0 .. N /\ k - 1 \in 0 .. N
    BY <1>1
  <2> QED BY <2>2, <2>3
<1>9. r[N] = iter[1 .. N]
  BY <1>1
<1> HIDE DEF r
<1> QED BY <1>2, <1>7, <1>8, <1>9 DEF Counted16

LEMMA PortFits ==
    ASSUME NEW s \in Seq(Digit10), Fits(Number(s))
    PROVE  Value16(s) = Number(s)
<1> DEFINE N == Len(s)
<1>1. PICK r : Counted(s, r) /\ Number(s) = r[N]
  BY NumberIsCounted
<1>2. PICK v : Counted16(s, v) /\ Value16(s) = v[N]
  BY ValueIsCounted
<1>3. N \in Nat /\ \A k \in 1 .. N : Digit(s[k]) \in Nat
  BY DigitIsNat, ElementOfSeq
<1> HIDE DEF N
\* The results grow, so that none is greater than the last.
<1>4. \A k \in Nat : k <= N => r[k] \in Nat
  <2> DEFINE S == {k \in Nat : k <= N => r[k] \in Nat}
  <2>1. 0 \in S
    BY <1>1 DEF Counted
  <2>2. ASSUME NEW k \in S PROVE k + 1 \in S
    <3>1. ASSUME k + 1 <= N PROVE r[k + 1] \in Nat
      <4>1. k + 1 \in 1 .. N /\ k + 1 - 1 = k /\ r[k] \in Nat
        BY <1>3, <3>1
      <4>2. r[k + 1] = r[k] * 10 + Digit(s[k + 1])
        BY <1>1, <4>1 DEF Counted, N
      <4> QED BY <1>3, <4>1, <4>2
    <3> QED BY <3>1
  <2>3. S \in SUBSET Nat
    OBVIOUS
  <2> HIDE DEF S
  <2>4. S = Nat
    BY <2>1, <2>2, <2>3, NatSubset
  <2> QED BY <2>4 DEF S
<1>5. \A k \in 1 .. N : /\ k - 1 \in Nat /\ r[k - 1] \in Nat /\ r[k] \in Nat
                        /\ r[k] = r[k - 1] * 10 + Digit(s[k]) /\ r[k - 1] <= r[k]
  <2> SUFFICES ASSUME NEW k \in 1 .. N
               PROVE  /\ k - 1 \in Nat /\ r[k - 1] \in Nat /\ r[k] \in Nat
                      /\ r[k] = r[k - 1] * 10 + Digit(s[k]) /\ r[k - 1] <= r[k]
    OBVIOUS
  <2>1. k - 1 \in Nat /\ k - 1 <= N /\ k \in Nat /\ k <= N
    BY <1>3
  <2>2. r[k - 1] \in Nat /\ r[k] \in Nat
    BY <1>4, <2>1
  <2>3. r[k] = r[k - 1] * 10 + Digit(s[k])
    BY <1>1 DEF Counted, N
  <2> QED BY <1>3, <2>1, <2>2, <2>3
<1>6. \A k \in Nat : k <= N => Fits(r[N - k])
  <2> DEFINE S == {k \in Nat : k <= N => Fits(r[N - k])}
  <2>1. 0 \in S
    BY <1>1, <1>3 DEF N
  <2>2. ASSUME NEW k \in S PROVE k + 1 \in S
    <3>1. ASSUME k + 1 <= N PROVE Fits(r[N - (k + 1)])
      <4>1. N - k \in 1 .. N /\ N - k - 1 = N - (k + 1) /\ Fits(r[N - k])
        BY <1>3, <3>1
      <4>2. r[N - (k + 1)] \in Nat /\ r[N - k] \in Nat /\ r[N - (k + 1)] <= r[N - k]
        BY <1>5, <4>1
      <4> QED BY <4>1, <4>2, SmallerFits
    <3> QED BY <3>1
  <2>3. S \in SUBSET Nat
    OBVIOUS
  <2> HIDE DEF S
  <2>4. S = Nat
    BY <2>1, <2>2, <2>3, NatSubset
  <2> QED BY <2>4 DEF S
<1>7. \A k \in Nat : k <= N => v[k] = r[k]
  <2> DEFINE S == {k \in Nat : k <= N => v[k] = r[k]}
  <2>1. 0 \in S
    BY <1>1, <1>2 DEF Counted, Counted16
  <2>2. ASSUME NEW k \in S PROVE k + 1 \in S
    <3>1. ASSUME k + 1 <= N PROVE v[k + 1] = r[k + 1]
      <4>1. k + 1 \in 1 .. N /\ k + 1 - 1 = k /\ v[k] = r[k]
        BY <1>3, <3>1
      <4>2. v[k + 1] = Short(v[k] * 10 + Digit(s[k + 1]))
        BY <1>2, <4>1 DEF Counted16, N
      <4>3. r[k + 1] = r[k] * 10 + Digit(s[k + 1]) /\ r[k + 1] \in Nat
        BY <1>5, <4>1
      <4>4. Fits(r[k + 1])
        <5>1. N - (k + 1) \in Nat /\ N - (k + 1) <= N /\ N - (N - (k + 1)) = k + 1
          BY <1>3, <3>1
        <5> QED BY <1>6, <5>1
      <4>5. Short(r[k + 1]) = r[k + 1]
        BY <4>3, <4>4, ShortIs
      <4> QED BY <4>1, <4>2, <4>3, <4>5
    <3> QED BY <3>1
  <2>3. S \in SUBSET Nat
    OBVIOUS
  <2> HIDE DEF S
  <2>4. S = Nat
    BY <2>1, <2>2, <2>3, NatSubset
  <2> QED BY <2>4 DEF S
<1>8. N <= N
  BY <1>3
<1> QED BY <1>1, <1>2, <1>3, <1>7, <1>8 DEF N

\* t holds s behind its first n elements.
Has(t, n, s) == n \in Nat /\ n + Len(s) <= Len(t) /\ \A k \in 1 .. Len(s) : t[n + k] = s[k]

LEMMA HasBoth ==
    ASSUME NEW T, NEW a \in Seq(T), NEW b \in Seq(T)
    PROVE  a \o b \in Seq(T) /\ Len(a \o b) = Len(a) + Len(b) /\ Has(a \o b, 0, a) /\ Has(a \o b, Len(a), b)
<1>1. /\ a \o b \in Seq(T) /\ Len(a \o b) = Len(a) + Len(b) /\ Len(a) \in Nat /\ Len(b) \in Nat
      /\ \A k \in 1 .. Len(a) : (a \o b)[k] = a[k]
      /\ \A k \in 1 .. Len(b) : (a \o b)[Len(a) + k] = b[k]
  OBVIOUS
<1>2. PICK t, n, m : t = a \o b /\ n = Len(a) /\ m = Len(b)
  OBVIOUS
<1>3. Has(t, 0, a)
  <2>1. \A k \in 1 .. n : 0 + k = k
    BY <1>1, <1>2
  <2>2. 0 + n <= Len(t)
    BY <1>1, <1>2
  <2> QED BY <1>1, <1>2, <2>1, <2>2 DEF Has
<1>4. Has(t, n, b)
  BY <1>1, <1>2 DEF Has
<1> QED BY <1>1, <1>2, <1>3, <1>4

LEMMA HasInside ==
    ASSUME NEW T, NEW t \in Seq(T), NEW s \in Seq(T), NEW r \in Seq(T), NEW n, NEW m, Has(t, n, s), Has(s, m, r)
    PROVE  Has(t, n + m, r)
<1>1. Len(t) \in Nat /\ Len(s) \in Nat /\ Len(r) \in Nat /\ n \in Nat /\ m \in Nat
  BY DEF Has
<1>2. PICK a, b, c : a = Len(t) /\ b = Len(s) /\ c = Len(r)
  OBVIOUS
<1>3. /\ n + b <= a /\ m + c <= b
      /\ \A k \in 1 .. b : t[n + k] = s[k]
      /\ \A k \in 1 .. c : s[m + k] = r[k]
  BY <1>2 DEF Has
<1>4. n + m \in Nat /\ n + m + c <= a
  BY <1>1, <1>2, <1>3
<1>5. ASSUME NEW k \in 1 .. c PROVE t[n + m + k] = r[k]
  <2>1. m + k \in 1 .. b /\ n + m + k = n + (m + k)
    BY <1>1, <1>2, <1>3
  <2> QED BY <1>3, <2>1
<1> QED BY <1>2, <1>4, <1>5 DEF Has

LEMMA HasBothInside ==
    ASSUME NEW T, NEW t \in Seq(T), NEW n, NEW a \in Seq(T), NEW b \in Seq(T), Has(t, n, a \o b)
    PROVE  Has(t, n, a) /\ Has(t, n + Len(a), b)
<1>1. a \o b \in Seq(T) /\ Has(a \o b, 0, a) /\ Has(a \o b, Len(a), b)
  BY HasBoth
<1>2. Has(t, n + 0, a) /\ Has(t, n + Len(a), b)
  BY <1>1, HasInside
<1>3. n + 0 = n
  BY DEF Has
<1> QED BY <1>2, <1>3

Chars == STRING \cup {":", "/", NUL}

\* The url in the array: its parts begin here.
AtHost(u) == Len(u.scheme) + 3
AtPort(u) == AtHost(u) + Len(u.host) + 1
UrlEnd(u) == AtPort(u) + Len(u.port)

Parts(u) == {u.scheme, u.host, u.port, u.path} \subseteq Seq(Chars)

\* Every part of a url with a port, from the array's first character.
Laid(u) ==
    /\ Has(annouce, 0, u.scheme)
    /\ Has(annouce, Len(u.scheme), <<":", "/", "/">>)
    /\ Has(annouce, AtHost(u), u.host)
    /\ Has(annouce, AtHost(u) + Len(u.host), <<":">>)
    /\ Has(annouce, AtPort(u), u.port)
    /\ Has(annouce, UrlEnd(u), u.path \o <<NUL>>)

IsFilled(u) ==
    annouce = [k \in 1 .. AnnounceSize |->
                  IF k <= Len(Text(u) \o <<NUL>>) THEN (Text(u) \o <<NUL>>)[k] ELSE fill]

LEMMA UrlIsLaid ==
    ASSUME NEW u, Parts(u), u.port # <<>>, Len(Text(u)) < AnnounceSize, IsFilled(u), fill \in Chars
    PROVE  Laid(u) /\ annouce \in Seq(Chars) /\ Len(annouce) = AnnounceSize
<1>1. PICK s, h, p, a : s = u.scheme /\ h = u.host /\ p = u.port /\ a = u.path
  OBVIOUS
<1>2. s \in Seq(Chars) /\ h \in Seq(Chars) /\ p \in Seq(Chars) /\ a \in Seq(Chars)
  BY <1>1 DEF Parts
<1>3. PICK sep, colon, end : sep = <<":", "/", "/">> /\ colon = <<":">> /\ end = <<NUL>>
  OBVIOUS
<1>4. sep \in Seq(Chars) /\ colon \in Seq(Chars) /\ end \in Seq(Chars) /\ Len(sep) = 3 /\ Len(colon) = 1 /\ Len(end) = 1
  <2>1. ":" \in Chars /\ "/" \in Chars /\ NUL \in Chars
    BY DEF NUL, Chars
  <2> QED BY <1>3, <2>1
<1>5. Text(u) = ((s \o sep) \o h) \o (colon \o p) \o a
  BY <1>1, <1>3 DEF Text
<1>6. PICK t : t = Text(u) \o end
  OBVIOUS
<1>7. Len(s) \in Nat /\ Len(h) \in Nat /\ Len(p) \in Nat /\ Len(a) \in Nat /\ AnnounceSize \in Nat
  BY <1>2, TrackerAssumption
\* From the whole text to its parts.
<1>8. PICK t1 : t1 = s \o sep /\ t1 \in Seq(Chars) /\ Len(t1) = Len(s) + 3
  <2>1. s \in Seq(Chars) /\ sep \in Seq(Chars)
    BY <1>2, <1>4
  <2>2. s \o sep \in Seq(Chars) /\ Len(s \o sep) = Len(s) + Len(sep)
    BY ONLY <2>1
  <2> QED BY <1>4, <2>2
<1>9. PICK t2 : t2 = t1 \o h /\ t2 \in Seq(Chars) /\ Len(t2) = Len(s) + 3 + Len(h)
  <2>1. t1 \in Seq(Chars) /\ h \in Seq(Chars)
    BY <1>2, <1>8
  <2>2. t1 \o h \in Seq(Chars) /\ Len(t1 \o h) = Len(t1) + Len(h)
    BY ONLY <2>1
  <2> QED BY <1>8, <2>2
<1>10. PICK t3 : t3 = colon \o p /\ t3 \in Seq(Chars) /\ Len(t3) = 1 + Len(p)
  <2>1. colon \in Seq(Chars) /\ p \in Seq(Chars)
    BY <1>2, <1>4
  <2>2. colon \o p \in Seq(Chars) /\ Len(colon \o p) = Len(colon) + Len(p)
    BY ONLY <2>1
  <2> QED BY <1>4, <2>2
<1>11. PICK t4 : t4 = t2 \o t3 /\ t4 \in Seq(Chars) /\ Len(t4) = Len(s) + 3 + Len(h) + 1 + Len(p)
  <2>1. t2 \o t3 \in Seq(Chars) /\ Len(t2 \o t3) = Len(t2) + Len(t3)
    BY <1>9, <1>10, HasBoth
  <2>2. Len(t2 \o t3) = Len(s) + 3 + Len(h) + 1 + Len(p)
    BY <1>7, <1>9, <1>10, <2>1
  <2> QED BY <2>1, <2>2
<1>12. Text(u) = t4 \o a /\ Text(u) \in Seq(Chars)
  BY <1>2, <1>5, <1>8, <1>9, <1>10, <1>11, HasBoth
<1>13. t \in Seq(Chars) /\ Len(t) = Len(Text(u)) + 1 /\ t = t4 \o (a \o end)
  <2>1. t \in Seq(Chars) /\ Len(t) = Len(Text(u)) + 1
    <3>1. PICK x : x = Text(u) /\ x \in Seq(Chars)
      BY <1>12
    <3>2. x \in Seq(Chars) /\ end \in Seq(Chars)
      BY <1>4, <3>1
    <3>3. x \o end \in Seq(Chars) /\ Len(x \o end) = Len(x) + Len(end)
      BY ONLY <3>2
    <3> QED BY <1>4, <1>6, <3>1, <3>3
  <2>2. t4 \in Seq(Chars) /\ a \in Seq(Chars) /\ end \in Seq(Chars)
    BY <1>2, <1>4, <1>11
  <2>3. (t4 \o a) \o end = t4 \o (a \o end)
    BY ONLY <2>2
  <2> QED BY <1>6, <1>12, <2>1, <2>3
<1>14. annouce \in Seq(Chars) /\ Len(annouce) = AnnounceSize /\ Has(annouce, 0, t)
  <2>1. annouce = [k \in 1 .. AnnounceSize |-> IF k <= Len(t) THEN t[k] ELSE fill]
    BY <1>3, <1>6 DEF IsFilled
  <2>2. \A k \in 1 .. AnnounceSize : k <= Len(t) => t[k] \in Chars
    BY <1>13
  <2>3. annouce \in Seq(Chars) /\ Len(annouce) = AnnounceSize
    BY <1>7, <2>1, <2>2
  <2>4. Len(t) <= AnnounceSize /\ Len(t) \in Nat
    BY <1>7, <1>12, <1>13
  <2>5. \A k \in 1 .. Len(t) : 0 + k = k /\ k \in 1 .. AnnounceSize /\ k <= Len(t)
    BY <1>7, <2>4
  <2>6. \A k \in 1 .. Len(t) : annouce[0 + k] = t[k]
    BY <2>1, <2>5
  <2> QED BY <2>3, <2>4, <2>6 DEF Has
<1>15. a \o end \in Seq(Chars)
  BY <1>2, <1>4, HasBoth
<1>16. Has(annouce, 0, t4) /\ Has(annouce, 0 + Len(t4), a \o end)
  BY <1>11, <1>13, <1>14, <1>15, HasBothInside
<1>17. Has(annouce, 0, t2) /\ Has(annouce, 0 + Len(t2), t3)
  BY <1>9, <1>10, <1>11, <1>14, <1>16, HasBothInside
<1>18. Has(annouce, 0 + Len(t2), colon) /\ Has(annouce, 0 + Len(t2) + Len(colon), p)
  BY <1>2, <1>4, <1>10, <1>14, <1>17, HasBothInside
<1>19. Has(annouce, 0, t1) /\ Has(annouce, 0 + Len(t1), h)
  BY <1>2, <1>8, <1>9, <1>14, <1>17, HasBothInside
<1>20. Has(annouce, 0, s) /\ Has(annouce, 0 + Len(s), sep)
  BY <1>2, <1>4, <1>8, <1>14, <1>19, HasBothInside
<1>21. /\ 0 + Len(s) = Len(u.scheme) /\ 0 + Len(t1) = AtHost(u) /\ 0 + Len(t2) = AtHost(u) + Len(u.host)
       /\ 0 + Len(t2) + Len(colon) = AtPort(u) /\ 0 + Len(t4) = UrlEnd(u)
  BY <1>1, <1>4, <1>7, <1>8, <1>9, <1>11 DEF AtHost, AtPort, UrlEnd
<1> QED BY <1>1, <1>3, <1>14, <1>16, <1>17, <1>18, <1>19, <1>20, <1>21 DEF Laid

\* What the functions see of a part.
LEMMA PartAt ==
    ASSUME NEW s \in Seq(Chars), NEW n, annouce \in Seq(Chars), Len(annouce) = AnnounceSize, Has(annouce, n, s)
    PROVE  /\ n \in Nat /\ Len(s) \in Nat /\ n + Len(s) <= AnnounceSize
           /\ \A k \in 1 .. Len(s) : At(n + k - 1) = s[k]
<1>1. n \in Nat /\ Len(s) \in Nat /\ n + Len(s) <= AnnounceSize /\ AnnounceSize \in Nat
  BY TrackerAssumption DEF Has
<1>2. PICK m : m = Len(s)
  OBVIOUS
<1>3. ASSUME NEW k \in 1 .. m PROVE At(n + k - 1) = s[k]
  <2>1. n + k - 1 < AnnounceSize /\ n + k - 1 + 1 = n + k
    BY <1>1, <1>2
  <2>2. annouce[n + k] = s[k]
    BY <1>2 DEF Has
  <2> QED BY <2>1, <2>2 DEF At
<1> QED BY <1>1, <1>2, <1>3

\* The search for a character.
LEMMA Skipped ==
    ASSUME NEW S, NEW c \in Nat, NEW m \in c .. AnnounceSize, At(m) \in S,
           \A q \in c .. m - 1 : At(q) \notin S
    PROVE  SkipTo(S, c) = m
<1> DEFINE IsFirst(x) == /\ x = AnnounceSize \/ At(x) \in S
                         /\ \A q \in c .. x - 1 : At(q) \notin S
<1>1. AnnounceSize \in Nat
  BY TrackerAssumption
<1>2. IsFirst(m)
  OBVIOUS
<1>3. ASSUME NEW x \in c .. AnnounceSize, IsFirst(x) PROVE x = m
  <2>1. ~(x < m)
    <3> SUFFICES ASSUME x < m PROVE FALSE
      OBVIOUS
    <3>1. x \in c .. m - 1 /\ x # AnnounceSize
      BY <1>1
    <3> QED BY <1>3, <3>1
  <2>2. ~(m < x)
    <3> SUFFICES ASSUME m < x PROVE FALSE
      OBVIOUS
    <3>1. m \in c .. x - 1
      BY <1>1
    <3> QED BY <1>3, <3>1
  <2> QED BY <1>1, <2>1, <2>2
<1>4. SkipTo(S, c) = CHOOSE x \in c .. AnnounceSize : IsFirst(x)
  BY DEF SkipTo
<1> HIDE DEF IsFirst
<1> QED BY <1>2, <1>3, <1>4

\* A step of the copy of the name, and its function.
NameStep(f, c) ==
    LET k == IF At(c) = "/" THEN c + Slashes ELSE c
    IN  IF c >= AnnounceSize THEN <<>>
        ELSE IF At(k) = ":" THEN <<":">>
        ELSE <<At(k)>> \o f[k + 1]

\* One for the last m positions.
Names(f, m) == f = [c \in Nat |-> IF c + m >= AnnounceSize THEN NameStep(f, c) ELSE <<>>]

LEMMA NamesExist == \A m \in Nat : \E f : Names(f, m)
<1> DEFINE S == {m \in Nat : \E f : Names(f, m)}
<1>1. AnnounceSize \in Nat
  BY TrackerAssumption
<1>2. 0 \in S
  <2> DEFINE f == [c \in Nat |-> <<>>]
  <2>1. ASSUME NEW c \in Nat PROVE f[c] = IF c + 0 >= AnnounceSize THEN NameStep(f, c) ELSE <<>>
    BY DEF NameStep
  <2>2. f = [c \in Nat |-> IF c + 0 >= AnnounceSize THEN NameStep(f, c) ELSE <<>>]
    <3> HIDE DEF NameStep
    <3> QED BY <2>1
  <2>3. Names(f, 0)
    BY <2>2 DEF Names
  <2> QED BY <2>3
<1>3. ASSUME NEW m \in S PROVE m + 1 \in S
  <2>1. PICK g : Names(g, m)
    OBVIOUS
  <2> DEFINE f == [c \in Nat |-> IF c + (m + 1) >= AnnounceSize THEN NameStep(g, c) ELSE <<>>]
  <2>2. \A c \in Nat : g[c] = IF c + m >= AnnounceSize THEN NameStep(g, c) ELSE <<>>
    BY <2>1 DEF Names
  <2>3. \A c \in Nat : f[c] = IF c + (m + 1) >= AnnounceSize THEN NameStep(g, c) ELSE <<>>
    OBVIOUS
  <2>4. \A c \in Nat : c + m >= AnnounceSize => f[c] = g[c]
    BY <1>1, <2>2, <2>3
  <2>5. ASSUME NEW c \in Nat, c + (m + 1) >= AnnounceSize PROVE NameStep(f, c) = NameStep(g, c)
    <3>1. ASSUME NEW k \in Nat, k >= c PROVE f[k + 1] = g[k + 1]
      <4>1. k + 1 \in Nat /\ k + 1 + m >= AnnounceSize
        BY <1>1, <2>5, <3>1
      <4> QED BY <2>4, <4>1
    <3>2. c + 2 \in Nat /\ c + 2 >= c /\ c >= c
      OBVIOUS
    <3>3. f[c + 1] = g[c + 1] /\ f[c + 2 + 1] = g[c + 2 + 1]
      BY <3>1, <3>2
    <3> HIDE DEF f
    <3> QED BY <3>3 DEF NameStep, Slashes
  <2>6. f = [c \in Nat |-> f[c]]
    OBVIOUS
  <2> HIDE DEF f
  <2>7. f = [c \in Nat |-> IF c + (m + 1) >= AnnounceSize THEN NameStep(f, c) ELSE <<>>]
    BY <2>3, <2>5, <2>6
  <2>8. Names(f, m + 1)
    BY <2>7 DEF Names
  <2> QED BY <2>8
<1>4. S \in SUBSET Nat
  OBVIOUS
<1> HIDE DEF S
<1>5. S = Nat
  BY <1>2, <1>3, <1>4, NatSubset
<1> QED BY <1>5 DEF S

LEMMA NameFromIs == \A c \in Nat : NameFrom[c] = NameStep(NameFrom, c)
<1> DEFINE IsName(f) == f = [c \in Nat |-> NameStep(f, c)]
<1>1. AnnounceSize \in Nat
  BY TrackerAssumption
<1>2. PICK f : Names(f, AnnounceSize)
  BY <1>1, NamesExist
<1>3. \A c \in Nat : c + AnnounceSize >= AnnounceSize
  BY <1>1
<1>4. IsName(f)
  BY <1>2, <1>3 DEF Names
<1>5. NameFrom = CHOOSE g : IsName(g)
  BY Zenon DEF NameFrom, NameStep
<1>6. IsName(NameFrom)
  <2> HIDE DEF IsName
  <2> QED BY <1>4, <1>5
<1> QED BY <1>6

\* What the parts of a url are made of.
Named(u) ==
    /\ Parts(u)
    /\ (ToSet(u.scheme) \cup ToSet(u.host)) \cap {"/", ":", NUL} = {}
    /\ ToSet(u.port) \subseteq Digit10 /\ Fits(Number(u.port))
    /\ u.path # <<>> => u.path[1] = "/"

\* The parts' characters, by their positions.
IsLaid(S, H, P, s, h, p, c) ==
    /\ S \in Nat /\ H \in Nat /\ P \in Nat /\ AnnounceSize \in Nat
    /\ s \in Seq(Chars) /\ h \in Seq(Chars) /\ p \in Seq(Digit10)
    /\ S = Len(s) /\ H = Len(h) /\ P = Len(p)
    /\ S + 3 + H + 1 + P < AnnounceSize
    /\ \A k \in 1 .. S : s[k] \notin {"/", ":", NUL} /\ At(k - 1) = s[k]
    /\ At(S) = ":" /\ At(S + 1) = "/" /\ At(S + 2) = "/"
    /\ \A k \in 1 .. H : h[k] \notin {"/", ":", NUL} /\ At(S + 3 + k - 1) = h[k]
    /\ At(S + 3 + H) = ":"
    /\ \A k \in 1 .. P : p[k] \in Digit10 /\ At(S + 3 + H + 1 + k - 1) = p[k]
    /\ At(S + 3 + H + 1 + P) = c /\ c \notin Digit10

LEMMA PartsAreLaid ==
    ASSUME NEW u, Named(u), Laid(u), annouce \in Seq(Chars), Len(annouce) = AnnounceSize
    PROVE  \E S, H, P, c : IsLaid(S, H, P, u.scheme, u.host, u.port, c)
<1>0. annouce \in Seq(Chars) /\ Len(annouce) = AnnounceSize
  OBVIOUS
<1>1. PICK s, h, p, a : s = u.scheme /\ h = u.host /\ p = u.port /\ a = u.path
  OBVIOUS
<1>2. s \in Seq(Chars) /\ h \in Seq(Chars) /\ p \in Seq(Chars) /\ a \in Seq(Chars)
  BY <1>1 DEF Named, Parts
<1>3. PICK S, H, P : S = Len(s) /\ H = Len(h) /\ P = Len(p)
  OBVIOUS
<1>4. S \in Nat /\ H \in Nat /\ P \in Nat /\ AnnounceSize \in Nat
  BY <1>2, <1>3, TrackerAssumption
<1>5. AtHost(u) = S + 3 /\ AtPort(u) = S + 3 + H + 1 /\ UrlEnd(u) = S + 3 + H + 1 + P
  BY <1>1, <1>3 DEF AtHost, AtPort, UrlEnd
<1>6. PICK sep, colon, end : sep = <<":", "/", "/">> /\ colon = <<":">> /\ end = a \o <<NUL>>
  OBVIOUS
<1>7. /\ sep \in Seq(Chars) /\ colon \in Seq(Chars) /\ end \in Seq(Chars) /\ Len(sep) = 3 /\ Len(colon) = 1 /\ Len(end) # 0
      /\ sep[1] = ":" /\ sep[2] = "/" /\ sep[3] = "/" /\ colon[1] = ":"
      /\ end[1] = IF a = <<>> THEN NUL ELSE a[1]
  <2>1. ":" \in Chars /\ "/" \in Chars /\ NUL \in Chars
    BY DEF NUL, Chars
  <2>2. a \in Seq(Chars)
    BY <1>2
  <2>3. end \in Seq(Chars) /\ Len(end) # 0 /\ end[1] = IF a = <<>> THEN NUL ELSE a[1]
    BY <1>6, <2>1, <2>2
  <2> QED BY <1>6, <2>1, <2>3
<1>8. /\ Has(annouce, 0, s) /\ Has(annouce, S, sep) /\ Has(annouce, S + 3, h) /\ Has(annouce, S + 3 + H, colon)
      /\ Has(annouce, S + 3 + H + 1, p) /\ Has(annouce, S + 3 + H + 1 + P, end)
  BY <1>1, <1>3, <1>5, <1>6 DEF Laid
<1>9. ASSUME NEW k \in 1 .. S PROVE s[k] \notin {"/", ":", NUL} /\ At(k - 1) = s[k]
  <2>1. At(0 + k - 1) = s[k] /\ 0 + k - 1 = k - 1
    <3>1. \A j \in 1 .. Len(s) : At(0 + j - 1) = s[j]
      BY ONLY <1>0, <1>2, <1>8, PartAt, Zenon
    <3> QED BY <1>3, <1>4, <3>1
  <2>2. s[k] \in ToSet(s)
    BY <1>2, <1>3 DEF ToSet
  <2> QED BY <1>1, <2>1, <2>2 DEF Named
<1>10. At(S) = ":" /\ At(S + 1) = "/" /\ At(S + 2) = "/"
  <2>1. \A k \in 1 .. 3 : At(S + k - 1) = sep[k]
    <3>1. \A k \in 1 .. Len(sep) : At(S + k - 1) = sep[k]
      BY ONLY <1>0, <1>7, <1>8, PartAt, Zenon
    <3> QED BY <1>7, <3>1
  <2>2. S + 1 - 1 = S /\ S + 2 - 1 = S + 1 /\ S + 3 - 1 = S + 2 /\ 1 \in 1 .. 3 /\ 2 \in 1 .. 3 /\ 3 \in 1 .. 3
    BY <1>4
  <2>3. At(S + 1 - 1) = ":" /\ At(S + 2 - 1) = "/" /\ At(S + 3 - 1) = "/"
    BY <1>7, <2>1, <2>2
  <2> QED BY <2>2, <2>3
<1>11. ASSUME NEW k \in 1 .. H PROVE h[k] \notin {"/", ":", NUL} /\ At(S + 3 + k - 1) = h[k]
  <2>1. At(S + 3 + k - 1) = h[k]
    <3>1. \A j \in 1 .. Len(h) : At(S + 3 + j - 1) = h[j]
      BY ONLY <1>0, <1>2, <1>8, PartAt, Zenon
    <3> QED BY <1>3, <3>1
  <2>2. h[k] \in ToSet(h)
    <3>1. k \in DOMAIN h
      BY <1>2, <1>3
    <3> QED BY <3>1 DEF ToSet
  <2> QED BY <1>1, <2>1, <2>2 DEF Named
<1>12. At(S + 3 + H) = ":"
  <2>1. 1 \in 1 .. 1 /\ S + 3 + H + 1 - 1 = S + 3 + H
    BY <1>4
  <2>2. At(S + 3 + H + 1 - 1) = colon[1]
    <3>1. \A j \in 1 .. Len(colon) : At(S + 3 + H + j - 1) = colon[j]
      BY ONLY <1>0, <1>7, <1>8, PartAt, Zenon
    <3> QED BY <1>7, <2>1, <3>1
  <2> QED BY <1>7, <2>1, <2>2
<1>13. ASSUME NEW k \in 1 .. P PROVE p[k] \in Digit10 /\ At(S + 3 + H + 1 + k - 1) = p[k]
  <2>1. At(S + 3 + H + 1 + k - 1) = p[k]
    <3>1. \A j \in 1 .. Len(p) : At(S + 3 + H + 1 + j - 1) = p[j]
      BY ONLY <1>0, <1>2, <1>8, PartAt, Zenon
    <3> QED BY <1>3, <3>1
  <2>2. p[k] \in ToSet(p)
    BY <1>2, <1>3 DEF ToSet
  <2> QED BY <1>1, <2>1, <2>2 DEF Named
<1>14. p \in Seq(Digit10)
  <2>1. p = [k \in 1 .. P |-> p[k]]
    BY <1>2, <1>3
  <2> QED BY <1>4, <1>13, <2>1
<1>15. At(S + 3 + H + 1 + P) = end[1] /\ S + 3 + H + 1 + P < AnnounceSize
  <2>1. PICK n : n = S + 3 + H + 1 + P /\ n \in Nat /\ n + 1 - 1 = n
    BY <1>4
  <2>2. n + Len(end) <= AnnounceSize /\ Len(end) \in Nat /\ \A k \in 1 .. Len(end) : At(n + k - 1) = end[k]
    <3>1. Has(annouce, n, end)
      BY <1>8, <2>1
    <3> QED BY ONLY <1>0, <1>7, <3>1, PartAt, Zenon
  <2>3. 1 \in 1 .. Len(end) /\ n < AnnounceSize
    BY <1>4, <1>7, <2>1, <2>2
  <2>4. At(n + 1 - 1) = end[1]
    BY <2>2, <2>3
  <2> QED BY <2>1, <2>3, <2>4
<1>16. end[1] \notin Digit10
  <2>1. "/" \notin Digit10 /\ NUL \notin Digit10
    BY DEF Digit10, Digits, NUL, ToSet
  <2> QED BY <1>1, <1>7, <2>1 DEF Named
<1>17. IsLaid(S, H, P, s, h, p, end[1])
  BY <1>2, <1>3, <1>4, <1>9, <1>10, <1>11, <1>12, <1>13, <1>14, <1>15, <1>16 DEF IsLaid
<1> QED BY <1>1, <1>17

LEMMA NameIsCopied ==
    ASSUME NEW S, NEW H, NEW P, NEW s, NEW h, NEW p, NEW z, IsLaid(S, H, P, s, h, p, z)
    PROVE  get_tracker_name = h \o <<":">>
<1>1. S \in Nat /\ H \in Nat /\ P \in Nat /\ AnnounceSize \in Nat /\ S + 3 + H < AnnounceSize
  BY DEF IsLaid
<1>2. h \in Seq(Chars) /\ H = Len(h)
  BY DEF IsLaid
<1>3. /\ \A k \in 1 .. S : s[k] \notin {"/", ":", NUL} /\ At(k - 1) = s[k]
      /\ At(S) = ":" /\ At(S + 1) = "/"
      /\ \A k \in 1 .. H : h[k] \notin {"/", ":", NUL} /\ At(S + 3 + k - 1) = h[k]
      /\ At(S + 3 + H) = ":"
  BY DEF IsLaid
<1>4. SkipTo({"/"}, 0) = S + 1
  <2>1. S + 1 \in 0 .. AnnounceSize
    BY <1>1
  <2>2. ASSUME NEW q \in 0 .. S + 1 - 1 PROVE At(q) \notin {"/"}
    <3>1. CASE q = S
      BY <1>3, <3>1
    <3>2. CASE q # S
      <4>1. q + 1 \in 1 .. S /\ q + 1 - 1 = q
        BY <1>1, <3>2
      <4> QED BY <1>3, <4>1
    <3> QED BY <3>1, <3>2
  <2>3. At(S + 1) \in {"/"} /\ 0 \in Nat
    BY <1>3
  <2>4. \A q \in 0 .. S + 1 - 1 : At(q) \notin {"/"}
    BY <2>2
  <2>5. PICK X : X = {"/"}
    OBVIOUS
  <2>6. PICK m : m = S + 1
    OBVIOUS
  <2>7. At(m) \in X /\ m \in 0 .. AnnounceSize /\ 0 \in Nat /\ \A q \in 0 .. m - 1 : At(q) \notin X
    <3>1. At(m) \in X /\ m \in 0 .. AnnounceSize /\ 0 \in Nat
      BY <2>1, <2>3, <2>5, <2>6
    <3>2. ASSUME NEW q \in 0 .. m - 1 PROVE At(q) \notin X
      <4>1. q \in 0 .. S + 1 - 1
        BY <1>1, <2>6
      <4>2. At(q) \notin {"/"}
        BY <2>2, <4>1
      <4> QED BY <2>5, <4>2
    <3> QED BY <3>1, <3>2
  <2>8. SkipTo(X, 0) = m
    BY ONLY <2>7, Skipped, Zenon
  <2> QED BY <2>5, <2>6, <2>8
<1> DEFINE Rest(j) == NameFrom[S + 3 + (H - j)] = SubSeq(h, H - j + 1, H) \o <<":">>
           J == {j \in Nat : j <= H => Rest(j)}
<1>5. 0 \in J
  <2>1. S + 3 + H \in Nat /\ S + 3 + (H - 0) = S + 3 + H /\ ~(S + 3 + H >= AnnounceSize) /\ H - 0 + 1 = H + 1
    BY <1>1
  <2>2. NameFrom[S + 3 + H] = <<":">>
    BY <1>3, <2>1, NameFromIs DEF NameStep
  <2>3. SubSeq(h, H + 1, H) \o <<":">> = <<":">>
    <3>1. SubSeq(h, H + 1, H) = <<>>
      BY ONLY <1>1, <1>2
    <3>2. ":" \in Chars
      BY DEF Chars
    <3>3. <<":">> \in Seq(Chars)
      BY <3>2
    <3>4. PICK x : x = <<":">> /\ x \in Seq(Chars)
      BY <3>3, Zenon
    <3>5. <<>> \o x = x
      BY ONLY <3>4
    <3> QED BY <3>1, <3>4, <3>5
  <2> QED BY <2>1, <2>2, <2>3
<1>6. ASSUME NEW j \in J PROVE j + 1 \in J
  <2>1. ASSUME j + 1 <= H PROVE Rest(j + 1)
    <3>1. PICK k \in 1 .. H : k = H - j /\ H - (j + 1) + 1 = k
      BY <1>1, <2>1
    <3>2. PICK c \in Nat : c = S + 3 + (H - (j + 1)) /\ c = S + 3 + k - 1 /\ c + 1 = S + 3 + (H - j)
                           /\ ~(c >= AnnounceSize)
      BY <1>1, <2>1, <3>1
    <3>3. At(c) = h[k] /\ h[k] \notin {"/", ":"}
      BY <1>3, <3>1, <3>2
    <3>4. NameFrom[c] = <<h[k]>> \o NameFrom[c + 1]
      BY <3>2, <3>3, NameFromIs DEF NameStep
    <3>5. NameFrom[c + 1] = SubSeq(h, k + 1, H) \o <<":">>
      <4>1. j <= H /\ H - j + 1 = k + 1
        BY <1>1, <2>1, <3>1
      <4> QED BY <3>2, <4>1
    <3>6. SubSeq(h, k, H) \o <<":">> = <<h[k]>> \o (SubSeq(h, k + 1, H) \o <<":">>)
      <4>1. h \in Seq(Chars) /\ H = Len(h) /\ k \in 1 .. Len(h)
        BY <1>2, <3>1
      <4>2. SubSeq(h, k, H) = <<h[k]>> \o SubSeq(h, k + 1, H)
        BY ONLY <4>1
      <4>3. <<h[k]>> \in Seq(Chars) /\ SubSeq(h, k + 1, H) \in Seq(Chars) /\ <<":">> \in Seq(Chars)
        <5>1. ":" \in Chars
          BY DEF Chars
        <5>2. h[k] \in Chars
          BY <4>1
        <5>3. SubSeq(h, k + 1, H) \in Seq(Chars)
          BY ONLY <4>1
        <5> QED BY <5>1, <5>2, <5>3
      <4>4. (<<h[k]>> \o SubSeq(h, k + 1, H)) \o <<":">> = <<h[k]>> \o (SubSeq(h, k + 1, H) \o <<":">>)
        <5>1. PICK x, y, w : x = <<h[k]>> /\ y = SubSeq(h, k + 1, H) /\ w = <<":">>
          OBVIOUS
        <5>2. x \in Seq(Chars) /\ y \in Seq(Chars) /\ w \in Seq(Chars)
          BY <4>3, <5>1
        <5>3. (x \o y) \o w = x \o (y \o w)
          BY ONLY <5>2
        <5> QED BY <5>1, <5>3, Zenon
      <4> QED BY ONLY <4>2, <4>4
    <3> QED BY <3>1, <3>2, <3>4, <3>5, <3>6
  <2> HIDE DEF Rest
  <2> QED BY <2>1
<1>7. J \in SUBSET Nat
  OBVIOUS
<1> HIDE DEF J
<1>8. H \in J
  BY <1>1, <1>5, <1>6, <1>7, NatSubset
<1>9. NameFrom[S + 3] = h \o <<":">>
  <2>1. H <= H /\ S + 3 + (H - H) = S + 3 /\ H - H + 1 = 1
    BY <1>1
  <2>2. SubSeq(h, 1, H) = h
    BY <1>2
  <2> QED BY <1>8, <2>1, <2>2 DEF J
\* The copy goes on behind the second '/'.
<1>10. NameFrom[S + 1] = NameFrom[S + 3]
  <2>1. S + 1 \in Nat /\ S + 3 \in Nat /\ ~(S + 1 >= AnnounceSize) /\ ~(S + 3 >= AnnounceSize) /\ S + 1 + 2 = S + 3
    BY <1>1
  <2>2. At(S + 3) # "/"
    <3>1. CASE H = 0
      <4>1. S + 3 + H = S + 3
        BY <1>1, <3>1
      <4> QED BY <1>3, <4>1
    <3>2. CASE H # 0
      <4>1. 1 \in 1 .. H /\ S + 3 + 1 - 1 = S + 3
        BY <1>1, <3>2
      <4>2. At(S + 3) = h[1] /\ h[1] \notin {"/", ":", NUL}
        BY <1>3, <4>1
      <4> QED BY <4>2
    <3> QED BY <3>1, <3>2
  <2>3. NameFrom[S + 3] = IF At(S + 3) = ":" THEN <<":">> ELSE <<At(S + 3)>> \o NameFrom[S + 3 + 1]
    BY <2>1, <2>2, NameFromIs DEF NameStep
  <2>4. NameFrom[S + 1] = IF At(S + 3) = ":" THEN <<":">> ELSE <<At(S + 3)>> \o NameFrom[S + 3 + 1]
    BY <1>3, <2>1, NameFromIs DEF NameStep, Slashes
  <2> QED BY <2>3, <2>4
<1> QED BY <1>4, <1>9, <1>10 DEF get_tracker_name

\* Which is the name, and one character more of the url.
LEMMA NameIs ==
    ASSUME NEW S, NEW H, NEW P, NEW s, NEW h, NEW p, NEW z, IsLaid(S, H, P, s, h, p, z), fill = NUL
    PROVE  LET copied == get_tracker_name
           IN  /\ copied # <<>> /\ Last(copied) = ":"
               /\ CString(Front(copied)) = h /\ Offset(copied) = H + 1
<1>1. PICK x : x = h \o <<":">>
  OBVIOUS
<1>2. h \in Seq(Chars) /\ H = Len(h)
  BY DEF IsLaid
<1>3. Len(x) = Len(h) + 1 /\ x # <<>> /\ Last(x) = ":" /\ Front(x) = h
  <2>1. ":" \in Chars
    BY DEF Chars
  <2>2. x = Append(h, ":")
    BY <1>1, <1>2, <2>1
  <2>3. Len(x) = Len(h) + 1 /\ x[Len(h) + 1] = ":" /\ SubSeq(x, 1, Len(h)) = h /\ Len(h) \in Nat
    BY <1>2, <2>1, <2>2
  <2>4. Len(x) - 1 = Len(h) /\ x # <<>>
    BY <2>3
  <2> QED BY <2>3, <2>4 DEF Last, Front
<1>4. CString(h) = h
  <2>1. \A k \in 1 .. Len(h) : h[k] # NUL
    BY DEF IsLaid
  <2>2. SelectInSeq(h, LAMBDA c : c = NUL) = 0
    BY <2>1 DEF SelectInSeq
  <2> QED BY <2>2 DEF CString
<1>5. get_tracker_name = x
  BY <1>1, NameIsCopied
<1> QED BY <1>2, <1>3, <1>4, <1>5 DEF Offset

\* get_tracker_port, once the ':' is found.
EndsPort(colon, x) == /\ At(x) \notin ToSet(Digits)
                      /\ \A q \in colon + 1 .. x - 1 : At(q) \in ToSet(Digits)
PortBehind(colon) ==
    IF colon = AnnounceSize THEN 0
    ELSE Value(colon + 1, CHOOSE x \in colon + 1 .. AnnounceSize + 1 : EndsPort(colon, x))

\* The port is looked for behind the ':' of the scheme.
LEMMA PortIs ==
    ASSUME NEW S, NEW H, NEW P, NEW s, NEW h, NEW p, NEW z, IsLaid(S, H, P, s, h, p, z),
           Fits(Number(p)), tmp = 0, offset = H + 1, S <= H,
           annouce \in Seq(Chars), Len(annouce) = AnnounceSize
    PROVE  get_tracker_port = Number(p)
<1>1. /\ S \in Nat /\ H \in Nat /\ P \in Nat /\ AnnounceSize \in Nat /\ S + 3 + H + 1 + P < AnnounceSize
      /\ p \in Seq(Digit10) /\ P = Len(p)
  BY DEF IsLaid
<1>2. /\ At(S + 1) = "/" /\ At(S + 2) = "/" /\ At(S + 3 + H) = ":"
      /\ \A k \in 1 .. H : h[k] \notin {"/", ":", NUL} /\ At(S + 3 + k - 1) = h[k]
      /\ \A k \in 1 .. P : p[k] \in Digit10 /\ At(S + 3 + H + 1 + k - 1) = p[k]
      /\ At(S + 3 + H + 1 + P) \notin Digit10
  BY DEF IsLaid
<1>3. PICK colon : colon = S + 3 + H /\ colon \in Nat
  BY <1>1
<1>4. SkipTo({":"}, offset) = colon
  <2>1. offset \in Nat /\ colon \in offset .. AnnounceSize
    BY <1>1, <1>3
  <2>2. ASSUME NEW q \in offset .. colon - 1 PROVE At(q) \notin {":"}
    <3>1. CASE q = S + 1
      BY <1>2, <3>1
    <3>2. CASE q = S + 2
      BY <1>2, <3>2
    <3>3. CASE q # S + 1 /\ q # S + 2
      <4>1. q - (S + 2) \in 1 .. H /\ S + 3 + (q - (S + 2)) - 1 = q
        BY <1>1, <1>3, <3>3
      <4> QED BY <1>2, <4>1
    <3> QED BY <3>1, <3>2, <3>3
  <2>3. PICK X : X = {":"}
    OBVIOUS
  <2>4. At(colon) \in X
    BY <1>2, <1>3, <2>3
  <2>5. \A q \in offset .. colon - 1 : At(q) \notin X
    BY <2>2, <2>3
  <2>6. SkipTo(X, offset) = colon
    BY ONLY <2>1, <2>4, <2>5, Skipped, Zenon
  <2> QED BY <2>3, <2>6
<1>5. PICK end : /\ end = S + 3 + H + 1 + P /\ end \in Nat /\ end = colon + 1 + P
                 /\ At(end) \notin Digit10
  BY <1>1, <1>2, <1>3
<1> DEFINE IsEnd(x) == EndsPort(colon, x)
<1>6. IsEnd(end) /\ end \in colon + 1 .. AnnounceSize + 1
  <2>1. end \in colon + 1 .. AnnounceSize + 1 /\ At(end) \notin Digit10
    <3>1. end \in colon + 1 .. AnnounceSize + 1
      BY <1>1, <1>3, <1>5
    <3> QED BY ONLY <1>5, <3>1, Zenon
  <2>2. ASSUME NEW q \in colon + 1 .. end - 1 PROVE At(q) \in Digit10
    <3>1. q - colon \in 1 .. P /\ S + 3 + H + 1 + (q - colon) - 1 = q
      BY <1>1, <1>3, <1>5
    <3> QED BY <1>2, <3>1
  <2> QED BY <2>1, <2>2 DEF Digit10, EndsPort
<1>7. ASSUME NEW x \in colon + 1 .. AnnounceSize + 1, IsEnd(x) PROVE x = end
  <2>1. ~(x < end)
    <3> SUFFICES ASSUME x < end PROVE FALSE
      OBVIOUS
    <3>1. x \in colon + 1 .. end - 1
      BY <1>1, <1>3, <1>5
    <3> QED BY <1>6, <1>7, <3>1 DEF EndsPort
  <2>2. ~(end < x)
    <3> SUFFICES ASSUME end < x PROVE FALSE
      OBVIOUS
    <3>1. end \in colon + 1 .. x - 1
      BY <1>1, <1>3, <1>5
    <3> QED BY <1>6, <1>7, <3>1 DEF EndsPort
  <2> QED BY <1>1, <1>3, <1>5, <2>1, <2>2
<1>8. get_tracker_port = PortBehind(colon)
  <2>1. get_tracker_port = PortBehind(SkipTo({":"}, offset))
    BY Zenon DEF get_tracker_port, PortBehind, EndsPort
  <2> QED BY <1>4, <2>1, Zenon
<1>9. get_tracker_port = Value(colon + 1, end)
  <2>1. colon # AnnounceSize
    BY <1>1, <1>3
  <2> HIDE DEF IsEnd
  <2>2. end = CHOOSE x \in colon + 1 .. AnnounceSize + 1 : IsEnd(x)
    BY <1>6, <1>7
  <2> QED BY <1>8, <2>1, <2>2 DEF PortBehind, IsEnd
<1>10. SubSeq(annouce, colon + 1 + 1, end) = p
  <2>1. PICK t : t = SubSeq(annouce, colon + 1 + 1, end)
    OBVIOUS
  <2>2. t = [k \in 1 .. P |-> annouce[colon + 1 + k]]
    <3>1. PICK m : m = colon + 1 + 1 /\ m \in 1 .. Len(annouce) + 1 /\ end \in m - 1 .. Len(annouce) /\ end - m + 1 = P
                   /\ \A k \in 1 .. P : m + k - 1 = colon + 1 + k
      BY <1>1, <1>3, <1>5
    <3>2. t \in Seq(Chars) /\ Len(t) = P /\ \A k \in 1 .. P : t[k] = annouce[m + k - 1]
      BY <2>1, <3>1, SubSeqProperties
    <3>3. t = [k \in 1 .. P |-> t[k]]
      BY <3>2
    <3> QED BY <3>1, <3>2, <3>3
  <2>3. ASSUME NEW k \in 1 .. P PROVE annouce[colon + 1 + k] = p[k]
    <3>1. S + 3 + H + 1 + k - 1 = colon + k /\ colon + k < AnnounceSize /\ colon + k + 1 = colon + 1 + k
      BY <1>1, <1>3
    <3>2. At(colon + k) = p[k]
      BY <1>2, <3>1
    <3> QED BY <3>1, <3>2 DEF At
  <2>4. p = [k \in 1 .. P |-> p[k]]
    BY <1>1
  <2> QED BY <2>1, <2>2, <2>3, <2>4
<1>11. Value(colon + 1, end) = Value16(p)
  BY <1>10, Zenon DEF Value, Value16
<1> QED BY <1>1, <1>9, <1>11, PortFits

NameInv ==
    /\ \E g \in Givens : url = g.url /\ IsFilled(g.url)
    /\ sample = "net_client" /\ fill = NUL /\ tmp = 0 /\ url.port # <<>> /\ Len(url.host) >= Len(url.scheme) =>
        /\ streamAt # "name" => name = url.host /\ offset = Len(url.host) + 1
        /\ streamAt \notin {"name", "port"} => port = Number(url.port)

\* The url of a state is one that the assumption speaks of.
LEMMA UrlIsKnown ==
    ASSUME NEW g \in Givens, url = g.url, IsFilled(g.url), fill = NUL, url.port # <<>>
    PROVE  /\ Fits(Number(url.port)) /\ annouce \in Seq(Chars) /\ Len(annouce) = AnnounceSize
           /\ \E S, H, P, c : IsLaid(S, H, P, url.scheme, url.host, url.port, c)
<1>1. /\ g.url.scheme \in Seq(STRING) /\ g.url.host \in Seq(STRING) /\ g.url.port \in Seq(STRING)
      /\ g.url.path \in Seq(STRING)
      /\ (ToSet(g.url.scheme) \cup ToSet(g.url.host)) \cap {"/", ":", NUL} = {}
      /\ ToSet(g.url.port) \subseteq Digit10 /\ Fits(Number(g.url.port))
      /\ g.url.path # <<>> => g.url.path[1] = "/"
      /\ Len(Text(g.url)) < AnnounceSize
  BY UrlsAssumption, SMT DEF Digit10, Fits
<1>2. Parts(g.url)
  <2>1. \A s \in Seq(STRING) : s \in Seq(Chars)
    BY DEF Chars
  <2> QED BY <1>1, <2>1 DEF Parts
<1>3. Named(g.url)
  BY <1>1, <1>2 DEF Named
<1>4. Laid(g.url) /\ annouce \in Seq(Chars) /\ Len(annouce) = AnnounceSize
  <2>1. fill \in Chars
    BY DEF Chars
  <2> QED BY <1>1, <1>2, <2>1, UrlIsLaid
<1>5. \E S, H, P, c : IsLaid(S, H, P, g.url.scheme, g.url.host, g.url.port, c)
  BY <1>3, <1>4, PartsAreLaid
<1> QED BY <1>1, <1>4, <1>5

LEMMA NameGoesOn == NameInv /\ [TrackerNext]_<<sample, trackerVars>> => NameInv'
<1> SUFFICES ASSUME NameInv, [TrackerNext]_<<sample, trackerVars>> PROVE NameInv'
  OBVIOUS
<1>1. PICK g \in Givens : url = g.url /\ IsFilled(g.url)
  BY DEF NameInv
<1>2. UNCHANGED <<sample, url, fill, tmp, annouce>>
  BY DEF TrackerNext, TrackerStep, GetsName, GetsPort, CreatesRequest, StreamNext, givenVars, trackerVars
<1>3. IsFilled(g.url)' /\ url' = g.url
  BY <1>1, <1>2 DEF IsFilled
<1>4. CASE ~(sample = "net_client" /\ fill = NUL /\ tmp = 0 /\ url.port # <<>> /\ Len(url.host) >= Len(url.scheme))
  BY <1>2, <1>3, <1>4 DEF NameInv
<1>5. CASE /\ sample = "net_client" /\ fill = NUL /\ tmp = 0 /\ url.port # <<>>
           /\ Len(url.host) >= Len(url.scheme)
  <2>1. /\ Fits(Number(url.port)) /\ annouce \in Seq(Chars) /\ Len(annouce) = AnnounceSize
        /\ \E S, H, P, c : IsLaid(S, H, P, url.scheme, url.host, url.port, c)
    BY <1>1, <1>5, UrlIsKnown
  <2>2. PICK S, H, P, c : IsLaid(S, H, P, url.scheme, url.host, url.port, c)
    BY <2>1
  <2>3. S = Len(url.scheme) /\ H = Len(url.host) /\ S <= H
    BY <1>5, <2>2 DEF IsLaid
  <2>4. /\ streamAt # "name" => name = url.host /\ offset = Len(url.host) + 1
        /\ streamAt \notin {"name", "port"} => port = Number(url.port)
    BY <1>5 DEF NameInv
  <2>5. /\ streamAt' # "name" => name' = url.host /\ offset' = Len(url.host) + 1
        /\ streamAt' \notin {"name", "port"} => port' = Number(url.port)
    <3>1. CASE GetsName
      <4>1. /\ get_tracker_name # <<>> /\ Last(get_tracker_name) = ":"
            /\ CString(Front(get_tracker_name)) = url.host /\ Offset(get_tracker_name) = H + 1
        BY <1>5, <2>2, NameIs
      <4>2. name' = url.host /\ offset' = H + 1 /\ streamAt' = "port"
        BY <3>1, <4>1 DEF GetsName
      <4> QED BY <2>3, <4>2
    <3>2. CASE GetsPort
      <4>1. streamAt = "port" /\ port' = get_tracker_port /\ UNCHANGED <<name, offset>>
        BY <3>2 DEF GetsPort
      <4>2. streamAt' \in {"failed", "connect"}
        BY <3>2 DEF GetsPort
      <4>3. offset = H + 1
        BY <2>3, <2>4, <4>1
      <4>4. get_tracker_port = Number(url.port)
        BY <1>5, <2>1, <2>2, <2>3, <4>3, PortIs
      <4> QED BY <2>4, <4>1, <4>4
    <3>3. CASE ~GetsName /\ ~GetsPort
      <4>1. UNCHANGED <<name, offset, port>>
        BY <1>5, <3>3 DEF TrackerNext, TrackerStep, trackerVars
      <4>2. streamAt \in {"name", "port"} => UNCHANGED streamAt
        BY <1>5, <3>3 DEF TrackerNext, TrackerStep, CreatesRequest, SendsRequest, ConnectFails, ConnectsToTracker,
            Connects, Reads, ReadFails, ReadsEnd, Closes, ServerStep, Answers, ServerCloses, GivesUp, Resets,
            trackerVars, streamVars
      <4>3. streamAt' \in {"name", "port"} => UNCHANGED streamAt
        BY <1>5, <3>3 DEF TrackerNext, TrackerStep, CreatesRequest, SendsRequest, ConnectFails, ConnectsToTracker,
            Connects, Reads, AfterRead, ReadFails, ReadsEnd, Closes, ServerStep, Answers, ServerCloses, GivesUp,
            Resets, trackerVars, streamVars
      <4> QED BY <2>4, <4>1, <4>2, <4>3
    <3> QED BY <3>1, <3>2, <3>3
  <2> QED BY <1>2, <1>3, <2>5 DEF NameInv
<1> QED BY <1>4, <1>5

\* From every url with a port, in an array of any size that has room for it, the
\* name and the port of the tracker are read, in clean memory and if the name is
\* not shorter than the scheme.
THEOREM TrackerIsNamed == TrackerSpec => []NameAndPortAreRead
<1>1. TrackerInit => NameInv
  <2> SUFFICES ASSUME TrackerInit PROVE NameInv
    OBVIOUS
  <2>1. PICK g \in Givens : url = g.url
    BY DEF TrackerInit
  <2>2. IsFilled(g.url)
    BY <2>1 DEF TrackerInit, IsFilled
  <2>3. sample = "net_client" => streamAt = "name"
    BY DEF TrackerInit, StreamInit
  <2> QED BY <2>1, <2>2, <2>3 DEF NameInv
<1>2. NameInv /\ [TrackerNext]_<<sample, trackerVars>> => NameInv'
  BY NameGoesOn
<1>3. NameInv => NameAndPortAreRead
  BY DEF NameInv, NameAndPortAreRead
<1> QED BY <1>1, <1>2, <1>3, PTL DEF TrackerSpec

=============================================================================
