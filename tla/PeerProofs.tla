----------------------------- MODULE PeerProofs ----------------------------
(***************************************************************************)
(* Proofs about PeerList, for any set of nodes and any number of requests: *)
(* the linked list is a sequence, its peers own the buffers and requests   *)
(* there are, and it implements PeerSequence.  About OutMessages, for      *)
(* buffers and numbers of any size: nothing is written behind the buffer,  *)
(* and what is written reads as what was created.  About Interest, for     *)
(* every number of pieces: the answers are right.  And about EventLoop,    *)
(* which connects to the peers: its rounds do not meet.                    *)
(***************************************************************************)
EXTENDS Interest, PeerList, OutMessages, EventLoop, SequenceTheorems, FiniteSetTheorems,
        WellFoundedInduction, TLAPS

\* The nodes of a sequence.
Nodes(s) == {s[i] : i \in 1 .. Len(s)}

\* The links follow a sequence s of different nodes, from peer_head to NULL.
Linked(s) ==
    /\ s \in Seq(Node)
    /\ \A i, j \in 1 .. Len(s) : s[i] = s[j] => i = j
    /\ peer_head = IF Len(s) = 0 THEN NULL ELSE s[1]
    /\ \A i \in 1 .. Len(s) : next[s[i]] = IF i = Len(s) THEN NULL ELSE s[i + 1]

\* The inductive invariant: beside ListInv, the links follow some sequence of
\* nodes that malloc returned, so that the nodes of the list are never met
\* twice on a walk and never returned again.
IsList == \E s \in Seq(Node) : Linked(s) /\ Nodes(s) \subseteq allocated

LinksInv == ListInv /\ IsList

-----------------------------------------------------------------------------
\* Induction, for a set of numbers.
LEMMA NatSubset ==
    ASSUME NEW S \in SUBSET Nat, 0 \in S, \A n \in S : n + 1 \in S
    PROVE  S = Nat
<1> DEFINE T == Nat \ S
<1>1. SUFFICES ASSUME T # {} PROVE FALSE
  OBVIOUS
<1>2. PICK m \in T : \A y \in T : ~(<<y, m>> \in OpToRel(<, Nat))
  <2>1. T \subseteq Nat
    OBVIOUS
  <2> HIDE DEF T
  <2> QED BY <1>1, <2>1, NatLessThanWellFounded, WFMin
<1>3. m # 0 /\ m - 1 \in Nat /\ m - 1 \notin T
  <2>1. m # 0 /\ m - 1 \in Nat /\ m - 1 < m
    OBVIOUS
  <2>2. <<m - 1, m>> \in OpToRel(<, Nat)
    BY <2>1 DEF OpToRel
  <2> QED BY <1>2, <2>1, <2>2
<1>4. m - 1 + 1 \in S
  BY <1>3
<1> QED BY <1>3, <1>4

\* The equation of Walk has one solution: that of a list which is a sequence s
\* are the nodes of s, and then NULL.
LEMMA WalkFollows ==
    ASSUME NEW s, Linked(s), NEW C \in Nat, C = Cardinality(Node), Len(s) <= C
    PROVE  Walk = [k \in 0 .. C |-> IF k < Len(s) THEN s[k + 1] ELSE NULL]
<1> DEFINE n == Len(s)
           Step(w, k) == IF k = 0 THEN peer_head
                         ELSE IF w[k - 1] = NULL THEN NULL ELSE next[w[k - 1]]
           IsWalk(w) == w = [k \in 0 .. C |-> Step(w, k)]
           f == [k \in 0 .. C |-> IF k < n THEN s[k + 1] ELSE NULL]
<1>1. s \in Seq(Node) /\ n \in Nat /\ \A i \in 1 .. n : s[i] \in Node /\ s[i] # NULL
  BY NULLAssumption DEF Linked
<1>2. /\ peer_head = IF n = 0 THEN NULL ELSE s[1]
      /\ \A i \in 1 .. n : next[s[i]] = IF i = n THEN NULL ELSE s[i + 1]
  BY DEF Linked
<1>3. n <= C
  OBVIOUS
<1> HIDE DEF n
<1>4. ASSUME NEW k \in 0 .. C PROVE f[k] = Step(f, k)
  <2>1. CASE k = 0
    BY <1>1, <1>2, <2>1
  <2>2. CASE k # 0
    <3>1. k - 1 \in 0 .. C /\ k \in Nat /\ k - 1 + 1 = k
      BY <2>2
    <3>2. f[k - 1] = IF k - 1 < n THEN s[k] ELSE NULL
      BY <3>1
    <3>3. CASE k <= n
      <4>1. k \in 1 .. n /\ f[k - 1] = s[k]
        BY <1>1, <2>2, <3>1, <3>2, <3>3
      <4>2. next[s[k]] = (IF k = n THEN NULL ELSE s[k + 1]) /\ s[k] # NULL
        BY <1>1, <1>2, <4>1
      <4>3. f[k] = IF k = n THEN NULL ELSE s[k + 1]
        BY <1>1, <3>1, <3>3
      <4> HIDE DEF f
      <4> QED BY <2>2, <4>1, <4>2, <4>3
    <3>4. CASE k > n
      <4>1. f[k - 1] = NULL /\ f[k] = NULL
        BY <1>1, <3>1, <3>2, <3>4
      <4> HIDE DEF f
      <4> QED BY <2>2, <4>1
    <3> QED BY <1>1, <3>1, <3>3, <3>4
  <2> QED BY <2>1, <2>2
<1>5. IsWalk(f)
  <2>1. f = [k \in 0 .. C |-> f[k]]
    OBVIOUS
  <2> HIDE DEF f
  <2> QED BY <1>4, <2>1
<1>6. Walk = CHOOSE w : IsWalk(w)
  BY DEF Walk
<1>7. IsWalk(Walk)
  <2>1. \E w : IsWalk(w)
    <3> HIDE DEF f, IsWalk
    <3> QED BY <1>5
  <2> HIDE DEF IsWalk
  <2> QED BY <1>6, <2>1
<1>8. \A k \in 0 .. C : Walk[k] = Step(Walk, k)
  BY <1>7
<1> HIDE DEF f
<1> DEFINE S == {k \in Nat : k <= C => Walk[k] = f[k]}
<1>9. 0 \in S
  <2>1. Walk[0] = peer_head /\ f[0] = peer_head
    BY <1>4, <1>8
  <2> QED BY <2>1
<1>10. ASSUME NEW k \in S PROVE k + 1 \in S
  <2>1. ASSUME k + 1 <= C PROVE Walk[k + 1] = f[k + 1]
    <3>1. k + 1 \in 0 .. C /\ k + 1 # 0 /\ k + 1 - 1 = k /\ Walk[k] = f[k]
      BY <2>1
    <3>2. /\ Walk[k + 1] = (IF Walk[k] = NULL THEN NULL ELSE next[Walk[k]])
          /\ f[k + 1] = (IF f[k] = NULL THEN NULL ELSE next[f[k]])
      BY <1>4, <1>8, <3>1
    <3> QED BY <3>1, <3>2
  <2> QED BY <2>1
<1>11. S = Nat
  <2>1. S \in SUBSET Nat
    OBVIOUS
  <2> HIDE DEF S
  <2> QED BY <1>9, <1>10, <2>1, NatSubset
<1>12. \A k \in 0 .. C : Walk[k] = f[k]
  BY <1>11
<1>13. Walk = [k \in 0 .. C |-> Walk[k]]
  BY <1>7
<1>14. f = [k \in 0 .. C |-> f[k]]
  BY DEF f
<1> QED BY <1>12, <1>13, <1>14 DEF f, n

\* A sequence of different nodes is not longer than there are nodes.
LEMMA NotTooLong ==
    ASSUME NEW s, Linked(s)
    PROVE  Cardinality(Node) \in Nat /\ Len(s) \in 0 .. Cardinality(Node)
<1>1. Cardinality(Node) \in Nat
  BY NodeAssumption, FS_CardinalityType
<1> DEFINE n == Len(s)
<1>2. n \in Nat /\ s \in Seq(Node)
  BY DEF Linked
<1>3. IsFiniteSet(1 .. n) /\ Cardinality(1 .. n) = n
  <2>1. 1 \in Int /\ n \in Int
    BY <1>2
  <2>2. IsFiniteSet(1 .. n) /\ Cardinality(1 .. n) = IF 1 > n THEN 0 ELSE n - 1 + 1
    BY <2>1, FS_Interval
  <2> QED BY <1>2, <2>2
<1>4. s \in Injection(1 .. n, Node)
  <2>1. s \in [1 .. n -> Node]
    BY <1>2
  <2>2. \A i, j \in 1 .. n : s[i] = s[j] => i = j
    BY DEF Linked
  <2> HIDE DEF n
  <2> QED BY <2>1, <2>2 DEF Injection, IsInjective
<1>5. n <= Cardinality(Node)
  BY <1>3, <1>4, NodeAssumption, FS_Injection
<1> QED BY <1>1, <1>2, <1>5

\* The sequence is the order of the list, and its nodes are those listed.
LEMMA OrderOf ==
    \A s : Linked(s) => s = Order /\ Listed = Nodes(s)
<1> SUFFICES ASSUME NEW s, Linked(s) PROVE s = Order /\ Listed = Nodes(s)
  OBVIOUS
<1> DEFINE C == Cardinality(Node)
           n == Len(s)
<1>1. C \in Nat /\ n \in 0 .. C
  BY NotTooLong
<1>2. Walk = [k \in 0 .. C |-> IF k < n THEN s[k + 1] ELSE NULL]
  BY <1>1, WalkFollows
<1>3. s \in Seq(Node) /\ \A i \in 1 .. n : s[i] \in Node /\ s[i] # NULL
  BY NULLAssumption DEF Linked
<1> HIDE DEF C, n
<1>4. {j \in 0 .. C : Walk[j] # NULL} = 0 .. n - 1
  <2>1. \A j \in 0 .. n - 1 : j + 1 \in 1 .. n /\ j \in 0 .. C /\ j < n
    BY <1>1
  <2>2. \A j \in 0 .. C : j < n => j \in 0 .. n - 1
    BY <1>1
  <2>3. \A j \in 0 .. C : Walk[j] = IF j < n THEN s[j + 1] ELSE NULL
    BY <1>2
  <2> QED BY <1>3, <2>1, <2>2, <2>3
<1>5. Cardinality(0 .. n - 1) = n
  <2>1. 0 \in Int /\ n - 1 \in Int
    BY <1>1
  <2>2. Cardinality(0 .. n - 1) = IF 0 > n - 1 THEN 0 ELSE n - 1 - 0 + 1
    BY <2>1, FS_Interval
  <2> QED BY <1>1, <2>2
<1>6. \A k \in 1 .. n : Walk[k - 1] = s[k]
  <2>1. \A k \in 1 .. n : k - 1 \in 0 .. C /\ k - 1 < n /\ k - 1 + 1 = k
    BY <1>1
  <2> QED BY <1>2, <2>1
<1>7. Order = [k \in 1 .. n |-> Walk[k - 1]]
  BY <1>4, <1>5 DEF Order, C
<1>8. s = [k \in 1 .. n |-> s[k]]
  BY <1>3 DEF n
<1>9. s = Order
  BY <1>6, <1>7, <1>8
<1>10. Listed = Nodes(s)
  <2>1. ASSUME NEW x \in Listed PROVE x \in Nodes(s)
    <3>1. PICK k \in 0 .. C : x = Walk[k] /\ x # NULL
      BY DEF Listed, C
    <3>2. k < n /\ k + 1 \in 1 .. n /\ x = s[k + 1]
      BY <1>1, <1>2, <3>1
    <3> QED BY <3>2 DEF Nodes, n
  <2>2. ASSUME NEW x \in Nodes(s) PROVE x \in Listed
    <3>1. PICK i \in 1 .. n : x = s[i]
      BY DEF Nodes, n
    <3>2. i - 1 \in 0 .. C /\ x = Walk[i - 1] /\ x # NULL
      BY <1>1, <1>3, <1>6, <3>1
    <3> QED BY <3>2 DEF Listed, C
  <2> QED BY <2>1, <2>2
<1> QED BY <1>9, <1>10

\* The same of the list that a step leaves.
LEMMA OrderOfNext ==
    \A s : Linked(s)' => s = Order' /\ Listed' = Nodes(s)
<1>1. \A s : Linked(s) => s = Order /\ Listed = Nodes(s)
  BY OrderOf
<1>2. (\A s : Linked(s) => s = Order /\ Listed = Nodes(s))'
  BY <1>1, PTL
<1> QED BY <1>2

\* A sequence without its i-th element.
LEMMA Removed ==
    ASSUME NEW S, NEW s \in Seq(S), NEW i \in 1 .. Len(s)
    PROVE  /\ Peers!RemoveAt(s, i) \in Seq(S)
           /\ Len(Peers!RemoveAt(s, i)) = Len(s) - 1
           /\ \A k \in 1 .. Len(s) - 1 :
                 Peers!RemoveAt(s, i)[k] = IF k < i THEN s[k] ELSE s[k + 1]
<1> DEFINE n == Len(s)
           a == SubSeq(s, 1, i - 1)
           b == SubSeq(s, i + 1, n)
<1>1. n \in Nat /\ i \in 1 .. n /\ \A k \in 1 .. n : s[k] \in S
  OBVIOUS
<1> HIDE DEF n
<1>2. a \in Seq(S) /\ Len(a) = i - 1 /\ \A k \in 1 .. i - 1 : a[k] = s[k]
  <2>1. 1 \in Int /\ i - 1 \in Int /\ \A k \in 1 .. i - 1 : s[k] \in S
    BY <1>1
  <2>2. /\ a \in Seq(S) /\ Len(a) = IF 1 <= i - 1 THEN i - 1 - 1 + 1 ELSE 0
        /\ \A k \in 1 .. i - 1 - 1 + 1 : a[k] = s[1 + k - 1]
    BY <2>1, SubSeqProperties
  <2> HIDE DEF a
  <2> QED BY <1>1, <2>2
<1>3. b \in Seq(S) /\ Len(b) = n - i /\ \A k \in 1 .. n - i : b[k] = s[i + k]
  <2>1. i + 1 \in Int /\ n \in Int /\ \A k \in i + 1 .. n : s[k] \in S
    BY <1>1
  <2>2. /\ b \in Seq(S) /\ Len(b) = IF i + 1 <= n THEN n - (i + 1) + 1 ELSE 0
        /\ \A k \in 1 .. n - (i + 1) + 1 : b[k] = s[i + 1 + k - 1]
    BY <2>1, SubSeqProperties
  <2> HIDE DEF b
  <2> QED BY <1>1, <2>2
<1>4. Peers!RemoveAt(s, i) = a \o b
  BY DEF Peers!RemoveAt, n
<1> HIDE DEF a, b
<1>5. /\ a \o b \in Seq(S) /\ Len(a \o b) = Len(a) + Len(b)
      /\ \A k \in 1 .. Len(a) + Len(b) : (a \o b)[k] = IF k <= Len(a) THEN a[k] ELSE b[k - Len(a)]
  BY <1>2, <1>3, ConcatProperties
<1> DEFINE c == a \o b
<1>6. /\ c \in Seq(S) /\ Len(c) = n - 1
      /\ \A k \in 1 .. n - 1 : c[k] = IF k <= i - 1 THEN a[k] ELSE b[k - (i - 1)]
  <2>1. i - 1 + (n - i) = n - 1
    BY <1>1
  <2> QED BY <1>2, <1>3, <1>5, <2>1
<1> HIDE DEF c
<1>7. ASSUME NEW k \in 1 .. n - 1 PROVE c[k] = IF k < i THEN s[k] ELSE s[k + 1]
  <2>1. CASE k < i
    <3>1. k \in 1 .. i - 1 /\ k <= i - 1
      BY <1>1, <2>1
    <3> QED BY <1>2, <1>6, <2>1, <3>1
  <2>2. CASE ~(k < i)
    <3>1. ~(k <= i - 1) /\ k - (i - 1) \in 1 .. n - i /\ i + (k - (i - 1)) = k + 1
      BY <1>1, <2>2
    <3> QED BY <1>3, <1>6, <2>2, <3>1
  <2> QED BY <2>1, <2>2
<1> QED BY <1>4, <1>6, <1>7 DEF c, n

-----------------------------------------------------------------------------
LEMMA InitHolds == ListInit => LinksInv
<1> SUFFICES ASSUME ListInit PROVE LinksInv
  OBVIOUS
<1> USE DEF ListInit
<1>1. Linked(<<>>) /\ Nodes(<<>>) = {} /\ <<>> \in Seq(Node)
  BY DEF Linked, Nodes
<1>2. Listed = {}
  BY <1>1, OrderOf
<1>3. ListTypeOK
  <2>1. 0 \in 0 .. MaxRequests
    BY MaxRequestsAssumption
  <2>2. requests \in [Node -> 0 .. MaxRequests] /\ next \in [Node -> Node \cup {NULL}]
    BY <2>1
  <2> QED BY <2>2 DEF ListTypeOK
<1>4. BuffersAreOwned /\ RequestsAreOwned
  BY <1>2 DEF BuffersAreOwned, RequestsAreOwned
<1> QED BY <1>1, <1>3, <1>4 DEF LinksInv, ListInv, IsList

\* What the invariant says of the list before a step.
LEMMA ListFacts ==
    ASSUME LinksInv
    PROVE  /\ Linked(Order) /\ Order \in Seq(Node)
           /\ Listed = Nodes(Order)
           /\ Listed \subseteq allocated /\ Listed \subseteq Node
<1>1. PICK s \in Seq(Node) : Linked(s) /\ Nodes(s) \subseteq allocated
  BY DEF LinksInv, IsList
<1>2. s = Order /\ Listed = Nodes(s)
  BY <1>1, OrderOf
<1>3. Nodes(s) \subseteq Node
  BY DEF Nodes
<1> QED BY <1>1, <1>2, <1>3

\* A step that changes no link keeps the list as it is.
LEMMA LinksKept ==
    ASSUME LinksInv, UNCHANGED <<peer_head, next, allocated>>
    PROVE  Order' = Order /\ Listed' = Listed /\ IsList'
<1>1. PICK s \in Seq(Node) : Linked(s) /\ Nodes(s) \subseteq allocated
  BY DEF LinksInv, IsList
<1>2. Linked(s)'
  BY <1>1 DEF Linked
<1>3. s = Order /\ Listed = Nodes(s) /\ s = Order' /\ Listed' = Nodes(s)
  BY <1>1, <1>2, OrderOf, OrderOfNext
<1> QED BY <1>1, <1>2, <1>3 DEF IsList

\* The last node of the list is the only one whose link is NULL.
LEMMA LastIsLast ==
    ASSUME LinksInv, Len(Order) # 0
    PROVE  Last = Order[Len(Order)] /\ Last \in Node
<1> DEFINE s == Order
           n == Len(s)
<1>1. Linked(s) /\ Listed = Nodes(s) /\ s \in Seq(Node)
  BY ListFacts
<1> HIDE DEF s
<1>2. n \in Nat /\ n \in 1 .. n /\ \A i \in 1 .. n : s[i] \in Node /\ s[i] # NULL
  BY <1>1, NULLAssumption DEF s
<1>3. \A i \in 1 .. n : next[s[i]] = IF i = n THEN NULL ELSE s[i + 1]
  BY <1>1 DEF Linked
<1>4. \A p \in Listed : \E i \in 1 .. n : p = s[i]
  BY <1>1 DEF Nodes
<1>5. s[n] \in Listed /\ next[s[n]] = NULL
  BY <1>1, <1>2, <1>3 DEF Nodes
<1>6. ASSUME NEW p \in Listed, next[p] = NULL PROVE p = s[n]
  <2>1. PICK i \in 1 .. n : p = s[i]
    BY <1>4
  <2>2. i = n
    <3>1. CASE i # n
      <4>1. i + 1 \in 1 .. n /\ next[s[i]] = s[i + 1]
        BY <1>2, <1>3, <3>1
      <4> QED BY <1>2, <1>6, <2>1, <4>1
    <3> QED BY <3>1
  <2> QED BY <2>1, <2>2
<1>7. Last = s[n]
  BY <1>5, <1>6 DEF Last
<1> QED BY <1>2, <1>7 DEF s

\* add_peer_node puts a node that is not in the list behind its last.
LEMMA AddKeeps == LinksInv /\ add_peer_node => LinksInv' /\ Peers!Add
<1> SUFFICES ASSUME LinksInv, add_peer_node PROVE LinksInv' /\ Peers!Add
  OBVIOUS
<1>0. PICK s : s = Order
  OBVIOUS
<1> DEFINE n == Len(s)
<1>1. PICK node \in Node \ allocated :
        /\ allocated' = allocated \cup {node}
        /\ buffers' = buffers \cup {node} \X Buffers
        /\ requests' = [requests EXCEPT ![node] = 0]
        /\ IF peer_head = NULL
           THEN peer_head' = node /\ next' = [next EXCEPT ![node] = InitialNext]
           ELSE /\ next' = [next EXCEPT ![Last] = node, ![node] = InitialNext]
                /\ UNCHANGED peer_head
  BY DEF add_peer_node
<1>2. ~released /\ ~released'
  BY DEF add_peer_node
<1>3. Linked(s) /\ Listed = Nodes(s) /\ s \in Seq(Node) /\ Listed \subseteq allocated
  BY <1>0, ListFacts
<1>4. ListTypeOK /\ BuffersAreOwned /\ RequestsAreOwned
  BY DEF LinksInv, ListInv
<1>5. n = 0 <=> peer_head = NULL
  BY <1>3, NULLAssumption DEF Linked
<1>6. n # 0 => Last = s[n] /\ Last \in Node
  BY <1>0, LastIsLast
<1>7. /\ n \in Nat
      /\ \A i \in 1 .. n : s[i] \in Node /\ s[i] # node /\ s[i] \in allocated
  <2>1. \A i \in 1 .. n : s[i] \in Listed
    BY <1>3 DEF Nodes
  <2> QED BY <1>1, <1>3, <2>1
<1>8. PICK t : /\ t = Append(s, node)
               /\ t \in Seq(Node) /\ Len(t) = n + 1 /\ t[n + 1] = node
               /\ \A i \in 1 .. n : t[i] = s[i]
  <2> DEFINE a == Append(s, node)
  <2>1. /\ a = Append(s, node)
        /\ a \in Seq(Node) /\ Len(a) = n + 1 /\ a[n + 1] = node
        /\ \A i \in 1 .. n : a[i] = s[i]
    BY <1>1, <1>3, AppendProperties
  <2> HIDE DEF a
  <2> QED BY <2>1
<1>9. Linked(t)'
  <2>1. \A i, j \in 1 .. n + 1 : t[i] = t[j] => i = j
    <3>1. \A i, j \in 1 .. n : s[i] = s[j] => i = j
      BY <1>3 DEF Linked
    <3>2. \A i \in 1 .. n + 1 : i \in 1 .. n \/ i = n + 1
      BY <1>7
    <3> QED BY <1>7, <1>8, <3>1, <3>2
  <2>2. /\ peer_head = IF n = 0 THEN NULL ELSE s[1]
        /\ \A i \in 1 .. n : next[s[i]] = IF i = n THEN NULL ELSE s[i + 1]
    BY <1>3 DEF Linked
  <2>3. peer_head' = t[1]
    <3>1. CASE n = 0
      BY <1>1, <1>5, <1>8, <3>1
    <3>2. CASE n # 0
      <4>1. 1 \in 1 .. n
        BY <1>7, <3>2
      <4> QED BY <1>1, <1>5, <1>8, <2>2, <3>2, <4>1
    <3> QED BY <3>1, <3>2
  <2>4. ASSUME NEW i \in 1 .. n + 1
        PROVE  next'[t[i]] = IF i = n + 1 THEN NULL ELSE t[i + 1]
    <3>1. next \in [Node -> Node \cup {NULL}] /\ InitialNext = NULL /\ node \in Node
      BY <1>4 DEF ListTypeOK, InitialNext
    <3>2. CASE i = n + 1
      <4>1. next'[node] = NULL
        <5>1. CASE n = 0
          BY <1>1, <1>5, <3>1, <5>1
        <5>2. CASE n # 0
          BY <1>1, <1>5, <3>1, <5>2
        <5> QED BY <5>1, <5>2
      <4> QED BY <1>8, <3>2, <4>1
    <3>3. CASE i # n + 1
      <4>1. i \in 1 .. n /\ n # 0 /\ t[i] = s[i] /\ n \in 1 .. n
        BY <1>7, <1>8, <3>3
      <4>2. next' = [next EXCEPT ![s[n]] = node, ![node] = NULL]
        BY <1>1, <1>5, <1>6, <3>1, <4>1
      <4>3. CASE i = n
        <5>1. next'[s[n]] = node
          BY <1>7, <3>1, <4>1, <4>2
        <5> QED BY <1>8, <3>3, <4>1, <4>3, <5>1
      <4>4. CASE i # n
        <5>1. i + 1 \in 1 .. n /\ s[i] # s[n] /\ s[i] # node /\ s[i] \in Node
          BY <1>3, <1>7, <4>1, <4>4 DEF Linked
        <5>2. next'[s[i]] = next[s[i]]
          BY <3>1, <4>2, <5>1
        <5> QED BY <1>8, <2>2, <3>3, <4>1, <4>4, <5>1, <5>2
      <4> QED BY <4>3, <4>4
    <3> QED BY <3>2, <3>3
  <2>5. n + 1 # 0
    BY <1>7
  <2> QED BY <1>8, <2>1, <2>3, <2>4, <2>5 DEF Linked
<1>10. t = Order' /\ Listed' = Nodes(t)
  BY <1>9, OrderOfNext
<1>11. Nodes(t) = Nodes(s) \cup {node}
  <2>1. ASSUME NEW x \in Nodes(t) PROVE x \in Nodes(s) \cup {node}
    <3>1. PICK i \in 1 .. n + 1 : x = t[i]
      BY <1>8 DEF Nodes
    <3>2. i \in 1 .. n \/ i = n + 1
      BY <1>7, <3>1
    <3> QED BY <1>8, <3>1, <3>2 DEF Nodes
  <2>2. ASSUME NEW x \in Nodes(s) PROVE x \in Nodes(t)
    <3>1. PICK i \in 1 .. n : x = s[i]
      BY DEF Nodes
    <3>2. i \in 1 .. n + 1 /\ x = t[i]
      BY <1>7, <1>8, <3>1
    <3> QED BY <1>8, <3>2 DEF Nodes
  <2>3. n + 1 \in 1 .. n + 1
    BY <1>7
  <2>4. node \in Nodes(t)
    BY <1>8, <2>3 DEF Nodes
  <2> QED BY <2>1, <2>2, <2>4
<1>12. IsList'
  BY <1>1, <1>3, <1>8, <1>9, <1>11 DEF IsList
<1>13. ListTypeOK'
  <2>1. next' \in [Node -> Node \cup {NULL}] /\ peer_head' \in Node \cup {NULL}
    BY <1>1, <1>4 DEF ListTypeOK, InitialNext
  <2>2. requests' \in [Node -> 0 .. MaxRequests]
    BY <1>1, <1>4, MaxRequestsAssumption DEF ListTypeOK
  <2>3. buffers' \subseteq Node \X Buffers /\ allocated' \subseteq Node
    <3>1. buffers \subseteq Node \X Buffers /\ allocated \subseteq Node
      BY <1>4 DEF ListTypeOK
    <3>2. {node} \X Buffers \subseteq Node \X Buffers
      BY <1>1
    <3> DEFINE own == {node} \X Buffers
               all == Node \X Buffers
    <3>3. buffers' = buffers \cup own /\ allocated' = allocated \cup {node} /\ node \in Node
      BY <1>1
    <3>4. buffers \subseteq all /\ own \subseteq all
      BY <3>1, <3>2
    <3> HIDE DEF own, all
    <3>5. buffers' \subseteq all
      BY ONLY <3>3, <3>4
    <3>6. allocated' \subseteq Node
      <4>1. allocated \subseteq Node
        BY <3>1
      <4> QED BY ONLY <3>3, <4>1
    <3> QED BY <3>5, <3>6 DEF all
  <2>4. released' \in BOOLEAN
    BY <1>4 DEF ListTypeOK, add_peer_node
  <2> QED BY <2>1, <2>2, <2>3, <2>4 DEF ListTypeOK
<1>14. BuffersAreOwned'
  <2>1. buffers = Nodes(s) \X Buffers
    BY <1>2, <1>3, <1>4 DEF BuffersAreOwned
  <2>2. buffers' = (Nodes(s) \cup {node}) \X Buffers
    BY <1>1, <2>1
  <2> QED BY <1>2, <1>10, <1>11, <2>2 DEF BuffersAreOwned, Buffers
<1>15. RequestsAreOwned'
  <2>1. \A m \in Node : requests'[m] > 0 => requests[m] > 0
    BY <1>1, <1>4 DEF ListTypeOK
  <2> QED BY <1>2, <1>3, <1>4, <1>10, <1>11, <2>1 DEF RequestsAreOwned
<1>16. Peers!Add
  <2>1. node \notin Peers!ToSet(Order)
    <3>1. Peers!ToSet(s) = Nodes(s)
      BY <1>3 DEF Peers!ToSet, Nodes
    <3> QED BY <1>0, <1>1, <1>3, <3>1
  <2>2. Order' = Append(Order, node)
    BY <1>0, <1>8, <1>10
  <2> QED BY <1>1, <2>1, <2>2 DEF Peers!Add
<1> QED BY <1>12, <1>13, <1>14, <1>15, <1>16 DEF LinksInv, ListInv

\* del_peer_node takes one node out and leaves the others in their order.
LEMMA DelKeeps == LinksInv /\ del_peer_node => LinksInv' /\ Peers!Delete
<1> SUFFICES ASSUME LinksInv, del_peer_node PROVE LinksInv' /\ Peers!Delete
  OBVIOUS
<1>0. PICK s : s = Order
  OBVIOUS
<1> DEFINE n == Len(s)
<1>1. PICK peer \in Listed :
        /\ IF peer = peer_head
           THEN peer_head' = next[peer] /\ UNCHANGED next
           ELSE next' = Unlink(peer) /\ UNCHANGED peer_head
        /\ buffers' = buffers \ ({peer} \X Buffers)
        /\ requests' = [requests EXCEPT ![peer] = RequestsLeft(peer)]
  BY DEF del_peer_node
<1>2. ~released /\ ~released' /\ UNCHANGED <<allocated, released>>
  BY DEF del_peer_node
<1>3. Linked(s) /\ Listed = Nodes(s) /\ s \in Seq(Node) /\ Listed \subseteq allocated
  BY <1>0, ListFacts
<1>4. ListTypeOK /\ BuffersAreOwned /\ RequestsAreOwned
  BY DEF LinksInv, ListInv
<1>5. /\ n \in Nat
      /\ \A k \in 1 .. n : s[k] \in Node /\ s[k] # NULL /\ s[k] \in Listed
      /\ \A k, j \in 1 .. n : s[k] = s[j] => k = j
      /\ peer_head = IF n = 0 THEN NULL ELSE s[1]
      /\ \A k \in 1 .. n : next[s[k]] = IF k = n THEN NULL ELSE s[k + 1]
  BY <1>3, NULLAssumption DEF Linked, Nodes
<1>6. PICK i \in 1 .. n : peer = s[i]
  BY <1>3 DEF Nodes
<1>7. peer = peer_head <=> i = 1
  <2>1. 1 \in 1 .. n /\ n # 0
    BY <1>5, <1>6
  <2> QED BY <1>5, <1>6, <2>1
<1>8. PICK t : /\ t = Peers!RemoveAt(s, i)
               /\ t \in Seq(Node) /\ Len(t) = n - 1
               /\ \A k \in 1 .. n - 1 : t[k] = IF k < i THEN s[k] ELSE s[k + 1]
  <2> DEFINE a == Peers!RemoveAt(s, i)
  <2>1. /\ a = Peers!RemoveAt(s, i)
        /\ a \in Seq(Node) /\ Len(a) = n - 1
        /\ \A k \in 1 .. n - 1 : a[k] = IF k < i THEN s[k] ELSE s[k + 1]
    BY <1>3, <1>6, Removed
  <2> HIDE DEF a
  <2> QED BY <2>1
<1>9. \A k \in 1 .. n - 1 : k \in 1 .. n /\ k + 1 \in 1 .. n
  BY <1>5
<1>10. \A k, j \in 1 .. n - 1 : t[k] = t[j] => k = j
  <2> SUFFICES ASSUME NEW k \in 1 .. n - 1, NEW j \in 1 .. n - 1, t[k] = t[j] PROVE k = j
    OBVIOUS
  <2> DEFINE kk == IF k < i THEN k ELSE k + 1
             jj == IF j < i THEN j ELSE j + 1
  <2>1. kk \in 1 .. n /\ jj \in 1 .. n /\ t[k] = s[kk] /\ t[j] = s[jj]
    BY <1>8, <1>9
  <2>2. kk = jj
    <3> HIDE DEF kk, jj
    <3> QED BY <1>5, <2>1
  <2> QED BY <1>6, <2>2
\* The links: that of the node before goes to the node behind.
<1>11. \A k \in 1 .. n : k # i =>
          next'[s[k]] = IF k = i - 1 THEN next[s[i]] ELSE next[s[k]]
  <2> SUFFICES ASSUME NEW k \in 1 .. n, k # i
               PROVE  next'[s[k]] = IF k = i - 1 THEN next[s[i]] ELSE next[s[k]]
    OBVIOUS
  <2>1. CASE i = 1
    <3>1. k # i - 1 /\ next' = next
      BY <1>1, <1>7, <2>1
    <3> QED BY <3>1
  <2>2. CASE i # 1
    <3>1. next' = Unlink(s[i])
      BY <1>1, <1>6, <1>7, <2>2
    <3>2. next'[s[k]] = IF next[s[k]] = s[i] THEN next[s[i]] ELSE next[s[k]]
      BY <1>5, <3>1 DEF Unlink
    <3>3. next[s[k]] = s[i] <=> k = i - 1
      <4>1. CASE k = n
        BY <1>5, <1>6, <4>1
      <4>2. CASE k # n
        <5>1. k + 1 \in 1 .. n /\ next[s[k]] = s[k + 1]
          BY <1>5, <4>2
        <5>2. s[k + 1] = s[i] <=> k + 1 = i
          BY <1>5, <5>1
        <5> QED BY <5>1, <5>2
      <4> QED BY <4>1, <4>2
    <3> QED BY <3>2, <3>3
  <2> QED BY <2>1, <2>2
<1>12. ASSUME NEW k \in 1 .. n - 1
       PROVE  next'[t[k]] = IF k = n - 1 THEN NULL ELSE t[k + 1]
  <2>1. CASE k < i - 1
    <3>1. /\ t[k] = s[k] /\ k # i /\ k # i - 1 /\ k # n /\ k # n - 1
          /\ k + 1 \in 1 .. n - 1 /\ k + 1 < i
      BY <1>5, <1>6, <1>8, <2>1
    <3>2. t[k + 1] = s[k + 1] /\ next'[s[k]] = next[s[k]] /\ next[s[k]] = s[k + 1]
      BY <1>5, <1>8, <1>9, <1>11, <3>1
    <3> QED BY <3>1, <3>2
  <2>2. CASE k = i - 1
    <3>1. t[k] = s[k] /\ k # i /\ next'[s[k]] = next[s[i]] /\ (i = n <=> k = n - 1)
      <4>1. k < i /\ k # i /\ k \in 1 .. n
        BY <1>5, <1>6, <1>9, <2>2
      <4>2. t[k] = s[k]
        BY <1>8, <4>1
      <4>3. next'[s[k]] = next[s[i]]
        BY <1>11, <2>2, <4>1
      <4> QED BY ONLY <1>5, <1>6, <2>2, <4>1, <4>2, <4>3
    <3>2. CASE i = n
      BY <1>5, <1>6, <3>1, <3>2
    <3>3. CASE i # n
      <4>1. k + 1 \in 1 .. n - 1 /\ ~(k + 1 < i) /\ k + 1 + 1 = i + 1
        BY <1>5, <1>6, <2>2, <3>3
      <4>2. t[k + 1] = s[i + 1] /\ next[s[i]] = s[i + 1]
        BY <1>5, <1>6, <1>8, <3>3, <4>1
      <4> QED BY <3>1, <3>3, <4>2
    <3> QED BY <3>2, <3>3
  <2>3. CASE k >= i
    <3>1. /\ t[k] = s[k + 1] /\ k + 1 # i /\ k + 1 # i - 1 /\ (k + 1 = n <=> k = n - 1)
          /\ k + 1 \in 1 .. n
      BY <1>5, <1>6, <1>8, <1>9, <2>3
    <3>2. next'[s[k + 1]] = next[s[k + 1]]
      BY <1>11, <3>1
    <3>3. CASE k = n - 1
      BY <1>5, <3>1, <3>2, <3>3
    <3>4. CASE k # n - 1
      <4>1. k + 1 \in 1 .. n - 1 /\ ~(k + 1 < i) /\ k + 1 # n
        BY <1>5, <1>6, <2>3, <3>4
      <4>2. t[k + 1] = s[k + 1 + 1] /\ next[s[k + 1]] = s[k + 1 + 1]
        BY <1>5, <1>8, <3>1, <4>1
      <4> QED BY <3>1, <3>2, <3>4, <4>2
    <3> QED BY <3>3, <3>4
  <2> QED BY <1>6, <2>1, <2>2, <2>3
<1>13. peer_head' = IF n - 1 = 0 THEN NULL ELSE t[1]
  <2>1. CASE i = 1
    <3>1. peer_head' = next[s[1]] /\ 1 \in 1 .. n
      BY <1>1, <1>6, <1>7, <2>1
    <3>2. CASE n = 1
      BY <1>5, <3>1, <3>2
    <3>3. CASE n # 1
      <4>1. 1 \in 1 .. n - 1 /\ 1 # n /\ n - 1 # 0 /\ ~(1 < i)
        <5>1. n \in Nat /\ 1 \in 1 .. n
          BY <1>5, <3>1
        <5> HIDE DEF n
        <5>2. 1 \in 1 .. n - 1 /\ 1 # n /\ n - 1 # 0
          BY <3>3, <5>1
        <5>3. ~(1 < i)
          BY <2>1
        <5> QED BY <5>2, <5>3
      <4>2. t[1] = s[1 + 1] /\ next[s[1]] = s[1 + 1]
        BY <1>5, <1>8, <3>1, <4>1
      <4> QED BY <3>1, <4>1, <4>2
    <3> QED BY <3>2, <3>3
  <2>2. CASE i # 1
    <3>1. peer_head' = peer_head /\ 1 \in 1 .. n - 1 /\ 1 < i /\ n # 0 /\ n - 1 # 0
      BY <1>1, <1>5, <1>6, <1>7, <2>2
    <3> QED BY <1>5, <1>8, <3>1
  <2> QED BY <2>1, <2>2
<1>14. Linked(t)'
  BY <1>8, <1>10, <1>12, <1>13 DEF Linked
<1>15. t = Order' /\ Listed' = Nodes(t)
  BY <1>14, OrderOfNext
<1>16. Nodes(t) = Nodes(s) \ {peer}
  <2>1. ASSUME NEW x \in Nodes(t) PROVE x \in Nodes(s) \ {peer}
    <3>1. PICK k \in 1 .. n - 1 : x = t[k]
      BY <1>8 DEF Nodes
    <3> DEFINE j == IF k < i THEN k ELSE k + 1
    <3>2. j \in 1 .. n /\ j # i /\ x = s[j]
      BY <1>6, <1>8, <1>9, <3>1
    <3> HIDE DEF j
    <3> QED BY <1>5, <1>6, <3>2 DEF Nodes
  <2>2. ASSUME NEW x \in Nodes(s) \ {peer} PROVE x \in Nodes(t)
    <3>1. PICK j \in 1 .. n : x = s[j]
      BY DEF Nodes
    <3>2. j # i
      BY <1>6, <3>1
    <3> DEFINE k == IF j < i THEN j ELSE j - 1
    <3>3. k \in 1 .. n - 1 /\ (IF k < i THEN k ELSE k + 1) = j
      BY <1>5, <1>6, <3>2
    <3> HIDE DEF k
    <3>4. x = t[k]
      BY <1>8, <3>1, <3>3
    <3> QED BY <1>8, <3>3, <3>4 DEF Nodes
  <2> QED BY <2>1, <2>2
<1>17. IsList'
  BY <1>2, <1>3, <1>8, <1>14, <1>16 DEF IsList
<1>18. ListTypeOK'
  <2>1. next' \in [Node -> Node \cup {NULL}] /\ peer_head' \in Node \cup {NULL}
    BY <1>1, <1>4, <1>5, <1>6 DEF ListTypeOK, Unlink
  <2>2. requests' \in [Node -> 0 .. MaxRequests]
    <3>1. 0 \in 0 .. MaxRequests
      BY MaxRequestsAssumption
    <3> QED BY <1>1, <1>4, <3>1 DEF ListTypeOK, RequestsLeft
  <2>3. buffers' \subseteq buffers
    BY <1>1
  <2>4. released' \in BOOLEAN /\ allocated' \subseteq Node /\ buffers \subseteq Node \X Buffers
    BY <1>2, <1>4 DEF ListTypeOK
  <2>5. buffers' \subseteq Node \X Buffers
    BY ONLY <2>3, <2>4
  <2> QED BY <2>1, <2>2, <2>4, <2>5 DEF ListTypeOK
<1>19. BuffersAreOwned'
  <2>1. buffers = Nodes(s) \X Buffers
    BY <1>2, <1>3, <1>4 DEF BuffersAreOwned
  <2>2. buffers' = (Nodes(s) \X Buffers) \ ({peer} \X Buffers)
    BY <1>1, <2>1
  <2>3. (Nodes(s) \X Buffers) \ ({peer} \X Buffers) = (Nodes(s) \ {peer}) \X Buffers
    OBVIOUS
  <2> QED BY <1>2, <1>15, <1>16, <2>2, <2>3 DEF BuffersAreOwned, Buffers
<1>20. RequestsAreOwned'
  <2>1. \A m \in Node : requests'[m] > 0 => requests[m] > 0 /\ m # peer
    BY <1>1, <1>4 DEF ListTypeOK, RequestsLeft
  <2> QED BY <1>2, <1>3, <1>4, <1>15, <1>16, <2>1 DEF RequestsAreOwned
<1>21. Peers!Delete
  <2>1. Order' = Peers!RemoveAt(Order, i) /\ i \in 1 .. Len(Order)
    BY <1>0, <1>6, <1>8, <1>15
  <2> QED BY <2>1 DEF Peers!Delete
<1> QED BY <1>17, <1>18, <1>19, <1>20, <1>21 DEF LinksInv, ListInv

\* The other calls leave the list as it is.
LEMMA OthersKeep ==
    LinksInv /\ (AddFails \/ DelMisses \/ Request \/ cancel_request_list
                \/ release_memory_in_peer \/ UNCHANGED listVars)
        => LinksInv' /\ UNCHANGED Order
<1> SUFFICES ASSUME LinksInv,
                    \/ AddFails \/ DelMisses \/ Request \/ cancel_request_list
                    \/ release_memory_in_peer \/ UNCHANGED listVars
             PROVE  LinksInv' /\ UNCHANGED Order
  OBVIOUS
<1>1. ListTypeOK /\ BuffersAreOwned /\ RequestsAreOwned
  BY DEF LinksInv, ListInv
<1>2. UNCHANGED <<peer_head, next, allocated>>
  BY DEF AddFails, DelMisses, Request, cancel_request_list, release_memory_in_peer, listVars
<1>3. UNCHANGED Order /\ Listed' = Listed /\ IsList'
  BY <1>2, LinksKept
<1>4. Listed \subseteq Node
  BY ListFacts
<1>5. CASE AddFails \/ DelMisses \/ UNCHANGED listVars
  <2>1. UNCHANGED <<requests, released>> /\ UNCHANGED buffers
    BY <1>5 DEF AddFails, DelMisses, listVars, KeptOnFailure
  <2> QED BY <1>1, <1>2, <1>3, <2>1
          DEF LinksInv, ListInv, ListTypeOK, BuffersAreOwned, RequestsAreOwned
<1>6. CASE Request
  <2>1. PICK peer \in Listed : /\ requests[peer] < MaxRequests
                               /\ requests' = [requests EXCEPT ![peer] = @ + 1]
    BY <1>6 DEF Request
  <2>2. UNCHANGED <<buffers, released>> /\ ~released
    BY <1>6 DEF Request
  <2>3. requests' \in [Node -> 0 .. MaxRequests]
    <3>1. requests \in [Node -> 0 .. MaxRequests] /\ peer \in Node
      BY <1>1, <1>4, <2>1 DEF ListTypeOK
    <3>2. requests[peer] + 1 \in 0 .. MaxRequests
      BY <2>1, <3>1, MaxRequestsAssumption
    <3> QED BY <2>1, <3>1, <3>2
  <2>4. \A m \in Node : requests'[m] > 0 => requests[m] > 0 \/ m \in Listed
    BY <1>1, <2>1 DEF ListTypeOK
  <2>5. ListTypeOK'
    BY <1>1, <1>2, <2>2, <2>3 DEF ListTypeOK
  <2>6. BuffersAreOwned' /\ RequestsAreOwned'
    BY <1>1, <1>3, <2>2, <2>4 DEF BuffersAreOwned, RequestsAreOwned
  <2> QED BY <1>3, <2>5, <2>6 DEF LinksInv, ListInv
<1>7. CASE cancel_request_list
  <2>1. PICK peer \in Listed : requests' = [requests EXCEPT ![peer] = 0]
    BY <1>7 DEF cancel_request_list, RequestsLeft
  <2>2. UNCHANGED <<buffers, released>>
    BY <1>7 DEF cancel_request_list
  <2>3. requests' \in [Node -> 0 .. MaxRequests]
    <3>1. 0 \in 0 .. MaxRequests
      BY MaxRequestsAssumption
    <3> QED BY <1>1, <2>1, <3>1 DEF ListTypeOK
  <2>4. \A m \in Node : requests'[m] > 0 => requests[m] > 0
    BY <1>1, <2>1 DEF ListTypeOK
  <2>5. ListTypeOK'
    BY <1>1, <1>2, <2>2, <2>3 DEF ListTypeOK
  <2>6. BuffersAreOwned' /\ RequestsAreOwned'
    BY <1>1, <1>3, <2>2, <2>4 DEF BuffersAreOwned, RequestsAreOwned
  <2> QED BY <1>3, <2>5, <2>6 DEF LinksInv, ListInv
<1>8. CASE release_memory_in_peer
  <2>1. /\ ~released /\ released' = TRUE
        /\ buffers' = buffers \ (Listed \X Buffers)
        /\ requests' = [m \in Node |-> IF m \in Listed THEN 0 ELSE requests[m]]
    BY <1>8 DEF release_memory_in_peer, RequestsLeft
  <2>2. requests' \in [Node -> 0 .. MaxRequests]
    <3>1. 0 \in 0 .. MaxRequests
      BY MaxRequestsAssumption
    <3> QED BY <1>1, <2>1, <3>1 DEF ListTypeOK
  <2>3. buffers' = {}
    BY <1>1, <2>1 DEF BuffersAreOwned
  <2>4. \A m \in Node : ~(requests'[m] > 0)
    <3> SUFFICES ASSUME NEW m \in Node PROVE ~(requests'[m] > 0)
      OBVIOUS
    <3>1. CASE m \in Listed
      BY <2>1, <3>1
    <3>2. CASE m \notin Listed
      BY <1>1, <2>1, <3>2 DEF RequestsAreOwned
    <3> QED BY <3>1, <3>2
  <2>5. ListTypeOK'
    BY <1>1, <1>2, <2>1, <2>2, <2>3 DEF ListTypeOK
  <2>6. BuffersAreOwned' /\ RequestsAreOwned'
    BY <2>1, <2>3, <2>4 DEF BuffersAreOwned, RequestsAreOwned
  <2> QED BY <1>3, <2>5, <2>6 DEF LinksInv, ListInv
<1> QED BY <1>5, <1>6, <1>7, <1>8

-----------------------------------------------------------------------------
LEMMA StepKeeps ==
    LinksInv /\ [ListNext]_listVars => LinksInv' /\ [Peers!Add \/ Peers!Delete]_Order
<1> SUFFICES ASSUME LinksInv, [ListNext]_listVars
             PROVE  LinksInv' /\ (Peers!Add \/ Peers!Delete \/ UNCHANGED Order)
  OBVIOUS
<1>1. CASE add_peer_node
  BY <1>1, AddKeeps
<1>2. CASE del_peer_node
  BY <1>2, DelKeeps
<1>3. CASE AddFails \/ DelMisses \/ Request \/ cancel_request_list
              \/ release_memory_in_peer \/ UNCHANGED listVars
  BY <1>3, OthersKeep
<1> QED BY <1>1, <1>2, <1>3 DEF ListNext

\* Whatever peers are added and deleted, and wherever malloc fails, until the
\* end a peer in the list has its three buffers and nothing else has one, and
\* only peers in the list have requests.
THEOREM ListIsKept == ListSpec => []ListInv
<1>1. LinksInv /\ [ListNext]_listVars => LinksInv'
  BY StepKeeps
<1>2. LinksInv => ListInv
  BY DEF LinksInv
<1> QED BY <1>1, <1>2, InitHolds, PTL DEF ListSpec

\* The linked list of peer.c implements the sequence of peers: a new one comes
\* last, and a deletion takes one out and keeps the order of the others.
THEOREM ImplementsSequence == ListSpec => SequenceSpec
<1>1. ListInit => Peers!Init
  <2> SUFFICES ASSUME ListInit PROVE Order = <<>>
    BY DEF Peers!Init
  <2>1. Linked(<<>>)
    BY DEF ListInit, Linked
  <2> QED BY <2>1, OrderOf
<1>2. LinksInv /\ [ListNext]_listVars => LinksInv' /\ [Peers!Add \/ Peers!Delete]_Order
  BY StepKeeps
<1> QED BY <1>1, <1>2, InitHolds, PTL DEF ListSpec, SequenceSpec, Peers!Spec

-----------------------------------------------------------------------------
(***************************************************************************)
(* The messages to a peer.                                                 *)
(***************************************************************************)
Byte == 0 .. 255

\* What four bytes can tell.
NumberLimit == 256 * 16777216

\* The messages, kind by kind.
LEMMA Kinds ==
    ASSUME NEW m \in Message
    PROVE  \/ m.kind = "handshake"
           \/ m.kind = "keep_alive"
           \/ m.kind = "state" /\ m.type \in 0 .. 3
           \/ m.kind = "have" /\ m.index \in 0 .. INT_MAX
           \/ m.kind = "bitfield" /\ m.length \in Nat
           \/ /\ m.kind = "request" /\ m.index \in 0 .. INT_MAX /\ m.begin \in 0 .. INT_MAX
              /\ m.length \in Nat
           \/ /\ m.kind = "piece" /\ m.index \in 0 .. INT_MAX /\ m.begin \in 0 .. INT_MAX
              /\ m.length \in Nat
<1>1. \/ m \in [kind : {"handshake", "keep_alive"}]
      \/ m \in [kind : {"state"}, type : 0 .. 3]
      \/ m \in [kind : {"have"}, index : Index]
      \/ m \in [kind : {"bitfield"}, length : BitfieldLength]
      \/ m \in [kind : {"request", "piece"}, index : Index, begin : Begin, length : BlockLength]
  BY DEF Message
<1>2. /\ \A i \in Index : i \in 0 .. INT_MAX
      /\ \A b \in Begin : b \in 0 .. INT_MAX
      /\ \A l \in BitfieldLength : l \in Nat
      /\ \A l \in BlockLength : l \in Nat
  BY NumberAssumption
<1>3. CASE m \in [kind : {"handshake", "keep_alive"}]
  BY <1>3
<1>4. CASE m \in [kind : {"state"}, type : 0 .. 3]
  BY <1>4
<1>5. CASE m \in [kind : {"have"}, index : Index]
  BY <1>2, <1>5
<1>6. CASE m \in [kind : {"bitfield"}, length : BitfieldLength]
  BY <1>2, <1>6
<1>7. CASE m \in [kind : {"request", "piece"}, index : Index, begin : Begin, length : BlockLength]
  BY <1>2, <1>7
<1> QED BY <1>1, <1>3, <1>4, <1>5, <1>6, <1>7

\* c is a followed by b, which have n and l bytes.
Joined(c, a, b, n, l) ==
    /\ c \in Seq(Byte) /\ Len(c) = n + l
    /\ \A k \in 1 .. n : c[k] = a[k]
    /\ \A k \in 1 .. l : c[n + k] = b[k]

\* Two sequences of bytes end to end.
LEMMA EndToEnd ==
    ASSUME NEW a \in Seq(Byte), NEW b \in Seq(Byte), NEW n, NEW l,
           Len(a) = n, Len(b) = l
    PROVE  Joined(a \o b, a, b, n, l)
<1>1. n \in Nat /\ l \in Nat
  OBVIOUS
<1>2. \A k \in 1 .. l : n + k \in 1 .. n + l /\ ~(n + k <= n) /\ n + k - n = k
  BY <1>1
<1>3. \A k \in 1 .. n : k \in 1 .. n + l /\ k <= n
  BY <1>1
<1>4. /\ a \o b \in Seq(Byte) /\ Len(a \o b) = n + l
      /\ \A k \in 1 .. n + l : (a \o b)[k] = IF k <= n THEN a[k] ELSE b[k - n]
  BY ConcatProperties
<1> DEFINE c == a \o b
<1>5. /\ c \in Seq(Byte) /\ Len(c) = n + l
      /\ \A k \in 1 .. n + l : c[k] = IF k <= n THEN a[k] ELSE b[k - n]
  BY <1>4
<1> HIDE DEF c
<1>6. \A k \in 1 .. n : c[k] = a[k]
  BY <1>3, <1>5
<1>7. ASSUME NEW k \in 1 .. l PROVE c[n + k] = b[k]
  <2> DEFINE j == n + k
  <2>1. j \in 1 .. n + l /\ ~(j <= n) /\ j - n = k
    BY <1>2
  <2> HIDE DEF j
  <2>2. c[j] = b[j - n]
    BY <1>5, <2>1
  <2> QED BY <2>1, <2>2 DEF j
<1> QED BY <1>5, <1>6, <1>7 DEF c, Joined

\* A number is four bytes, and the reader puts them together again.
LEMMA IntToChar ==
    ASSUME NEW i \in Nat
    PROVE  /\ int_to_char(i) \in Seq(Byte) /\ Len(int_to_char(i)) = 4
           /\ \A k \in 1 .. 4 : int_to_char(i)[k] \in Byte
           /\ i < NumberLimit =>
                ((int_to_char(i)[1] * 256 + int_to_char(i)[2]) * 256 + int_to_char(i)[3]) * 256
                    + int_to_char(i)[4] = i
           /\ i < Ambiguous => int_to_char(i)[1] < 19
<1> DEFINE a == (i \div 16777216) % 256
           b == (i \div 65536) % 256
           c == (i \div 256) % 256
           d == i % 256
<1>1. a \in Byte /\ b \in Byte /\ c \in Byte /\ d \in Byte
  BY SMT DEF Byte
<1>2. i < NumberLimit => ((a * 256 + b) * 256 + c) * 256 + d = i
  BY SMT DEF NumberLimit
<1>3. i < Ambiguous => a < 19
  BY SMT DEF Ambiguous
<1>4. int_to_char(i) = <<a, b, c, d>>
  BY SMT DEF int_to_char
<1> HIDE DEF a, b, c, d
<1> QED BY <1>1, <1>2, <1>3, <1>4

\* The same byte n times.
LEMMA Filled ==
    ASSUME NEW n \in Nat, NEW b \in Byte
    PROVE  /\ Fill(n, b) \in Seq(Byte) /\ Len(Fill(n, b)) = n
           /\ \A k \in 1 .. n : Fill(n, b)[k] = b
<1>1. Fill(n, b) \in [1 .. n -> Byte]
  BY DEF Fill
<1> QED BY <1>1 DEF Fill


\* What the messages look like: how many bytes, and those that the reader
\* looks at.
LEMMA HandshakeBytes ==
    ASSUME NEW m, m.kind = "handshake"
    PROVE  /\ Bytes(m) \in Seq(Byte) /\ Len(Bytes(m)) = 68 /\ Bytes(m)[1] = 19
           /\ \A k \in 28 .. 47 : Bytes(m)[k + 1] = HashByte
           /\ \A k \in 48 .. 67 : Bytes(m)[k + 1] = IdByte
<1> DEFINE a  == <<19>>
           f1 == Fill(19, Letter)
           f2 == Fill(8, 0)
           f3 == Fill(20, HashByte)
           f4 == Fill(20, IdByte)
           c1 == a \o f1
           c2 == c1 \o f2
           c3 == c2 \o f3
           c4 == c3 \o f4
<1>1. Bytes(m) = c4
  BY DEF Bytes
<1>2. a \in Seq(Byte) /\ Len(a) = 1 /\ a[1] = 19
  BY DEF Byte
<1>3. Letter \in Byte /\ 0 \in Byte /\ HashByte \in Byte /\ IdByte \in Byte
  BY DEF Letter, HashByte, IdByte, Byte
<1>4. 19 \in Nat /\ 8 \in Nat /\ 20 \in Nat
  OBVIOUS
<1>5. f1 \in Seq(Byte) /\ Len(f1) = 19
  BY ONLY <1>3, <1>4, Filled
<1>6. f2 \in Seq(Byte) /\ Len(f2) = 8
  BY <1>3, <1>4, Filled
<1>7. f3 \in Seq(Byte) /\ Len(f3) = 20 /\ \A k \in 1 .. 20 : f3[k] = HashByte
  BY ONLY <1>3, <1>4, Filled
<1>8. f4 \in Seq(Byte) /\ Len(f4) = 20 /\ \A k \in 1 .. 20 : f4[k] = IdByte
  BY ONLY <1>3, <1>4, Filled
<1> HIDE DEF a, f1, f2, f3, f4
<1>9. Joined(c1, a, f1, 1, 19)
  BY <1>2, <1>5, EndToEnd
<1> HIDE DEF c1
<1>10. c1 \in Seq(Byte) /\ Len(c1) = 20
  BY <1>9 DEF Joined
<1>11. Joined(c2, c1, f2, 20, 8)
  BY <1>6, <1>10, EndToEnd
<1> HIDE DEF c2
<1>12. c2 \in Seq(Byte) /\ Len(c2) = 28
  BY <1>11 DEF Joined
<1>13. Joined(c3, c2, f3, 28, 20)
  BY <1>7, <1>12, EndToEnd
<1> HIDE DEF c3
<1>14. c3 \in Seq(Byte) /\ Len(c3) = 48
  BY <1>13 DEF Joined
<1>15. Joined(c4, c3, f4, 48, 20)
  BY <1>8, <1>14, EndToEnd
<1> HIDE DEF c4
<1>16. c4 \in Seq(Byte) /\ Len(c4) = 68
  BY <1>15 DEF Joined
<1>17. c4[1] = 19
  BY <1>2, <1>9, <1>11, <1>13, <1>15 DEF Joined
<1>18. ASSUME NEW k \in 28 .. 47 PROVE c4[k + 1] = HashByte
  <2>1. PICK j \in 1 .. 20 : k + 1 = 28 + j
    <3>1. k - 27 \in 1 .. 20 /\ k + 1 = 28 + (k - 27)
      OBVIOUS
    <3> QED BY <3>1
  <2>2. c3[28 + j] = HashByte
    BY <1>7, <1>13 DEF Joined
  <2>3. 28 + j \in 1 .. 48
    OBVIOUS
  <2> QED BY <1>15, <2>1, <2>2, <2>3 DEF Joined
<1>19. ASSUME NEW k \in 48 .. 67 PROVE c4[k + 1] = IdByte
  <2>1. PICK j \in 1 .. 20 : k + 1 = 48 + j
    <3>1. k - 47 \in 1 .. 20 /\ k + 1 = 48 + (k - 47)
      OBVIOUS
    <3> QED BY <3>1
  <2> QED BY <1>8, <1>15, <2>1 DEF Joined
<1> QED BY <1>1, <1>16, <1>17, <1>18, <1>19

LEMMA ShortBytes ==
    ASSUME NEW m
    PROVE  /\ m.kind = "keep_alive" =>
                /\ Bytes(m) \in Seq(Byte) /\ Len(Bytes(m)) = 4
                /\ \A k \in 1 .. 4 : Bytes(m)[k] = 0
           /\ m.kind = "state" /\ m.type \in 0 .. 3 =>
                /\ Bytes(m) \in Seq(Byte) /\ Len(Bytes(m)) = 5
                /\ \A k \in 1 .. 3 : Bytes(m)[k] = 0
                /\ Bytes(m)[4] = 1 /\ Bytes(m)[5] = m.type
<1>1. ASSUME m.kind = "keep_alive"
      PROVE  /\ Bytes(m) \in Seq(Byte) /\ Len(Bytes(m)) = 4
             /\ \A k \in 1 .. 4 : Bytes(m)[k] = 0
  <2>1. Bytes(m) = Fill(4, 0)
    BY <1>1 DEF Bytes
  <2>2. 4 \in Nat /\ 0 \in Byte
    BY DEF Byte
  <2> QED BY <2>1, <2>2, Filled
<1>2. ASSUME m.kind = "state", m.type \in 0 .. 3
      PROVE  /\ Bytes(m) \in Seq(Byte) /\ Len(Bytes(m)) = 5
             /\ \A k \in 1 .. 3 : Bytes(m)[k] = 0
             /\ Bytes(m)[4] = 1 /\ Bytes(m)[5] = m.type
  <2>1. Bytes(m) = <<0, 0, 0, 1, m.type>>
    BY <1>2 DEF Bytes
  <2> QED BY <1>2, <2>1 DEF Byte
<1> QED BY <1>1, <1>2

LEMMA HaveBytes ==
    ASSUME NEW m, m.kind = "have", m.index \in Nat
    PROVE  /\ Bytes(m) \in Seq(Byte) /\ Len(Bytes(m)) = 9
           /\ \A k \in 1 .. 3 : Bytes(m)[k] = 0
           /\ Bytes(m)[4] = 5 /\ Bytes(m)[5] = 4
           /\ \A k \in 1 .. 4 : Bytes(m)[5 + k] = int_to_char(m.index)[k]
<1> DEFINE a == <<0, 0, 0, 5, 4>>
           i == int_to_char(m.index)
           c == a \o i
<1>1. Bytes(m) = c
  BY DEF Bytes
<1>2. a \in Seq(Byte) /\ Len(a) = 5 /\ (\A k \in 1 .. 3 : a[k] = 0) /\ a[4] = 5 /\ a[5] = 4
  BY DEF Byte
<1>3. i \in Seq(Byte) /\ Len(i) = 4
  BY IntToChar
<1> HIDE DEF a, i
<1>4. Joined(c, a, i, 5, 4)
  BY <1>2, <1>3, EndToEnd
<1> HIDE DEF c
<1>5. /\ c \in Seq(Byte) /\ Len(c) = 9
      /\ \A k \in 1 .. 5 : c[k] = a[k]
      /\ \A k \in 1 .. 4 : c[5 + k] = i[k]
  BY <1>4 DEF Joined
<1>6. (\A k \in 1 .. 3 : c[k] = 0) /\ c[4] = 5 /\ c[5] = 4
  BY <1>2, <1>5
<1> QED BY <1>1, <1>5, <1>6 DEF i

LEMMA BitfieldBytes ==
    ASSUME NEW m, m.kind = "bitfield", m.length \in Nat
    PROVE  Bytes(m) \in Seq(Byte) /\ Len(Bytes(m)) = 5 + m.length
<1> DEFINE l == m.length
           b == int_to_char(l + 1)
           s == <<5>>
           f == Fill(l, Bits)
           a == b \o s
           c == a \o f
<1>1. Bytes(m) = c
  BY DEF Bytes
<1>2. b \in Seq(Byte) /\ Len(b) = 4
  <2>1. l + 1 \in Nat
    OBVIOUS
  <2> QED BY <2>1, IntToChar
<1>3. s \in Seq(Byte) /\ Len(s) = 1
  BY DEF Byte
<1>4. f \in Seq(Byte) /\ Len(f) = l
  <2>1. Bits \in Byte
    BY DEF Bits, Byte
  <2> QED BY <2>1, Filled
<1>5. l \in Nat
  OBVIOUS
<1> HIDE DEF l, b, s, f
<1>6. Joined(a, b, s, 4, 1)
  BY <1>2, <1>3, EndToEnd
<1> HIDE DEF a
<1>7. a \in Seq(Byte) /\ Len(a) = 5
  BY <1>6 DEF Joined
<1>8. Joined(c, a, f, 5, l)
  BY <1>4, <1>7, EndToEnd
<1> HIDE DEF c
<1>9. c \in Seq(Byte) /\ Len(c) = 5 + l
  BY <1>8 DEF Joined
<1> QED BY <1>1, <1>9 DEF l

\* Numbers joined to the five bytes of a request or a piece: where they are.
LEMMA ThreeNumbers ==
    ASSUME NEW a \in Seq(Byte), Len(a) = 5,
           NEW i \in Seq(Byte), Len(i) = 4, NEW j \in Seq(Byte), Len(j) = 4
    PROVE  LET c == a \o i \o j \o j
           IN  /\ c \in Seq(Byte) /\ Len(c) = 17
               /\ \A k \in 1 .. 5 : c[k] = a[k]
               /\ \A k \in 1 .. 4 : c[5 + k] = i[k] /\ c[9 + k] = j[k] /\ c[13 + k] = j[k]
<1> DEFINE c1 == a \o i
           c2 == c1 \o j
           c3 == c2 \o j
<1>1. Joined(c1, a, i, 5, 4)
  BY EndToEnd
<1> HIDE DEF c1
<1>2. c1 \in Seq(Byte) /\ Len(c1) = 9
  BY <1>1 DEF Joined
<1>3. Joined(c2, c1, j, 9, 4)
  BY <1>2, EndToEnd
<1> HIDE DEF c2
<1>4. c2 \in Seq(Byte) /\ Len(c2) = 13
  BY <1>3 DEF Joined
<1>5. Joined(c3, c2, j, 13, 4)
  BY <1>4, EndToEnd
<1> HIDE DEF c3
<1>6. c3 \in Seq(Byte) /\ Len(c3) = 17
  BY <1>5 DEF Joined
<1>7. ASSUME NEW k \in 1 .. 5 PROVE c3[k] = a[k]
  <2>1. c1[k] = a[k]
    BY ONLY <1>1 DEF Joined
  <2>2. c2[k] = c1[k]
    BY ONLY <1>3 DEF Joined
  <2>3. c3[k] = c2[k]
    BY ONLY <1>5 DEF Joined
  <2> QED BY ONLY <2>1, <2>2, <2>3
<1>8. \A k \in 1 .. 4 : 5 + k \in 1 .. 9 /\ 5 + k \in 1 .. 13 /\ 9 + k \in 1 .. 13
  OBVIOUS
<1>9. ASSUME NEW k \in 1 .. 4
      PROVE  c3[5 + k] = i[k] /\ c3[9 + k] = j[k] /\ c3[13 + k] = j[k]
  <2>1. c1[5 + k] = i[k]
    BY ONLY <1>1 DEF Joined
  <2>2. c2[5 + k] = c1[5 + k] /\ c2[9 + k] = j[k]
    BY ONLY <1>3, <1>8 DEF Joined
  <2>3. c3[5 + k] = c2[5 + k] /\ c3[9 + k] = c2[9 + k] /\ c3[13 + k] = j[k]
    BY ONLY <1>5, <1>8 DEF Joined
  <2> QED BY ONLY <2>1, <2>2, <2>3
<1> QED BY <1>6, <1>7, <1>9 DEF c1, c2, c3

LEMMA RequestBytes ==
    ASSUME NEW m, m.kind = "request", m.index \in Nat, m.begin \in Nat
    PROVE  /\ Bytes(m) \in Seq(Byte) /\ Len(Bytes(m)) = 17
           /\ \A k \in 1 .. 3 : Bytes(m)[k] = 0
           /\ Bytes(m)[4] = 13 /\ Bytes(m)[5] = 6
           /\ \A k \in 1 .. 4 : /\ Bytes(m)[5 + k] = int_to_char(m.index)[k]
                                /\ Bytes(m)[9 + k] = int_to_char(m.begin)[k]
                                /\ Bytes(m)[13 + k] = int_to_char(m.begin)[k]
<1> DEFINE a == <<0, 0, 0, 13, 6>>
           i == int_to_char(m.index)
           j == int_to_char(m.begin)
<1>1. Bytes(m) = a \o i \o j \o j
  BY DEF Bytes
<1>2. a \in Seq(Byte) /\ Len(a) = 5 /\ (\A k \in 1 .. 3 : a[k] = 0) /\ a[4] = 13 /\ a[5] = 6
  BY DEF Byte
<1>3. i \in Seq(Byte) /\ Len(i) = 4 /\ j \in Seq(Byte) /\ Len(j) = 4
  BY IntToChar
<1> HIDE DEF a, i, j
<1> DEFINE c == a \o i \o j \o j
<1>4. /\ c \in Seq(Byte) /\ Len(c) = 17
      /\ \A k \in 1 .. 5 : c[k] = a[k]
      /\ \A k \in 1 .. 4 : c[5 + k] = i[k] /\ c[9 + k] = j[k] /\ c[13 + k] = j[k]
  BY <1>2, <1>3, ThreeNumbers
<1>5. Bytes(m) = c
  BY <1>1
<1> HIDE DEF c
<1>6. (\A k \in 1 .. 3 : c[k] = 0) /\ c[4] = 13 /\ c[5] = 6
  BY <1>2, <1>4
<1> QED BY <1>4, <1>5, <1>6 DEF i, j

LEMMA PieceBytes ==
    ASSUME NEW m, m.kind = "piece", m.index \in Nat, m.length \in Nat
    PROVE  /\ Bytes(m) \in Seq(Byte) /\ Len(Bytes(m)) = 17
           /\ \A k \in 1 .. 4 : Bytes(m)[k] = int_to_char(m.length + 9)[k]
           /\ Bytes(m)[5] = 7
           /\ \A k \in 1 .. 4 : /\ Bytes(m)[5 + k] = int_to_char(m.index)[k]
                                /\ Bytes(m)[9 + k] = int_to_char(m.index)[k]
                                /\ Bytes(m)[13 + k] = int_to_char(m.index)[k]
<1> DEFINE b == int_to_char(m.length + 9)
           i == int_to_char(m.index)
           j == i
           s == <<7>>
           a == b \o s
<1>1. Bytes(m) = a \o i \o j \o j
  BY DEF Bytes
<1>2. /\ b \in Seq(Byte) /\ Len(b) = 4
      /\ i \in Seq(Byte) /\ Len(i) = 4 /\ j \in Seq(Byte) /\ Len(j) = 4
  <2>1. m.length + 9 \in Nat
    OBVIOUS
  <2> QED BY <2>1, IntToChar
<1>3. s \in Seq(Byte) /\ Len(s) = 1 /\ s[1] = 7
  BY DEF Byte
<1> HIDE DEF b, i, j, s
<1>4. Joined(a, b, s, 4, 1)
  BY <1>2, <1>3, EndToEnd
<1> HIDE DEF a
<1>5. a \in Seq(Byte) /\ Len(a) = 5 /\ (\A k \in 1 .. 4 : a[k] = b[k]) /\ a[5] = 7
  BY <1>3, <1>4 DEF Joined
<1> DEFINE c == a \o i \o j \o j
<1>6. /\ c \in Seq(Byte) /\ Len(c) = 17
      /\ \A k \in 1 .. 5 : c[k] = a[k]
      /\ \A k \in 1 .. 4 : c[5 + k] = i[k] /\ c[9 + k] = j[k] /\ c[13 + k] = j[k]
  <2>1. /\ a \in Seq(Byte) /\ Len(a) = 5
        /\ i \in Seq(Byte) /\ Len(i) = 4 /\ j \in Seq(Byte) /\ Len(j) = 4
    BY <1>2, <1>5
  <2> QED BY ONLY <2>1, ThreeNumbers
<1>7. Bytes(m) = c
  BY <1>1
<1> HIDE DEF c
<1>8. \A k \in 1 .. 4 : c[k] = b[k]
  <2>1. \A k \in 1 .. 4 : k \in 1 .. 5
    OBVIOUS
  <2> QED BY ONLY <2>1, <1>5, <1>6
<1>9. c[5] = 7
  <2>1. 5 \in 1 .. 5
    OBVIOUS
  <2> QED BY ONLY <2>1, <1>5, <1>6
<1>10. /\ c \in Seq(Byte) /\ Len(c) = 17
       /\ \A k \in 1 .. 4 : c[5 + k] = i[k] /\ c[9 + k] = j[k] /\ c[13 + k] = j[k]
  BY ONLY <1>6
<1> QED BY ONLY <1>7, <1>8, <1>9, <1>10 DEF b, i, j


\* What a create function asks for is enough for how far it moves msg_len, and
\* for its bytes, but for those of a short piece; no message but a bitfield
\* moves msg_len less, and each at least behind the bytes that its reader looks
\* at.
LEMMA Room ==
    ASSUME NEW m \in Message
    PROVE  /\ Bytes(m) \in Seq(Byte) /\ Len(Bytes(m)) \in Nat
           /\ m.kind # "piece" => Len(Bytes(m)) <= Needed(m)
           /\ Needed(m) \in Nat /\ Advance(m) \in Nat /\ Advance(m) <= Needed(m)
           /\ m.kind # "bitfield" => Advance(m) = Needed(m) /\ Len(Bytes(m)) >= 4
           /\ m.kind = "handshake" => Advance(m) = 68
           /\ m.kind = "keep_alive" => Advance(m) = 4
           /\ m.kind = "state" => Advance(m) = 5
           /\ m.kind = "have" => Advance(m) = 9
           /\ m.kind = "request" => Advance(m) = 17
           /\ m.kind = "piece" => /\ m.length \in Nat /\ Advance(m) = m.length + 13
                                  /\ Len(Bytes(m)) = 17
<1>1. CASE m.kind = "handshake"
  <2>1. Bytes(m) \in Seq(Byte) /\ Len(Bytes(m)) = 68
    BY <1>1, HandshakeBytes
  <2> QED BY <1>1, <2>1 DEF Needed, Advance
<1>2. CASE m.kind = "keep_alive"
  BY <1>2, ShortBytes DEF Needed, Advance
<1>3. CASE m.kind = "state" /\ m.type \in 0 .. 3
  BY <1>3, ShortBytes DEF Needed, Advance
<1>4. CASE m.kind = "have" /\ m.index \in 0 .. INT_MAX
  <2>1. m.index \in Nat
    BY <1>4
  <2> QED BY <1>4, <2>1, HaveBytes DEF Needed, Advance
<1>5. CASE m.kind = "bitfield" /\ m.length \in Nat
  BY <1>5, BitfieldBytes DEF Needed, Advance
<1>6. CASE m.kind = "request" /\ m.index \in 0 .. INT_MAX /\ m.begin \in 0 .. INT_MAX
  <2>1. m.index \in Nat /\ m.begin \in Nat
    BY <1>6
  <2>2. Bytes(m) \in Seq(Byte) /\ Len(Bytes(m)) = 17
    BY <1>6, <2>1, RequestBytes
  <2> QED BY <1>6, <2>2 DEF Needed, Advance
<1>7. CASE m.kind = "piece" /\ m.index \in 0 .. INT_MAX /\ m.length \in Nat
  <2>1. m.index \in Nat
    BY <1>7
  <2>2. Bytes(m) \in Seq(Byte) /\ Len(Bytes(m)) = 17
    BY <1>7, <2>1, PieceBytes
  <2> QED BY <1>7, <2>2 DEF Needed, Advance
<1> QED BY <1>1, <1>2, <1>3, <1>4, <1>5, <1>6, <1>7, Kinds

-----------------------------------------------------------------------------
\* How the memory is after a message was created.
LEMMA Written ==
    ASSUME NEW m \in Message, MessagesTypeOK, Create(m)
    PROVE  /\ out_msg' \in [Memory -> 0 .. Heap]
           /\ msg_len \in Nat /\ msg_len + Needed(m) <= MSG_SIZE
           /\ msg_len' = msg_len + Advance(m)
           /\ \A k \in 1 .. Len(Bytes(m)) : out_msg'[msg_len + (k - 1)] = Bytes(m)[k]
           /\ \A k \in 0 .. msg_len - 1 : out_msg'[k] = out_msg[k]
           /\ \A k \in Memory :
                k >= MSG_SIZE => \/ out_msg'[k] = out_msg[k]
                                 \/ m.kind = "piece" /\ k < MSG_SIZE + 4 - m.length
<1> DEFINE b == Bytes(m)
           l == Len(b)
           n == Needed(m)
<1>1. /\ b \in Seq(Byte) /\ l \in Nat /\ n \in Nat /\ l <= n + 4
      /\ l <= n \/ (m.kind = "piece" /\ m.length \in Nat /\ l = 17 /\ n = m.length + 13)
  <2>1. b \in Seq(Byte) /\ l \in Nat /\ n \in Nat
    BY Room
  <2>2. CASE m.kind # "piece"
    BY <2>1, <2>2, Room
  <2>3. CASE m.kind = "piece"
    <3>1. n = m.length + 13
      BY <2>3 DEF Needed
    <3>2. m.length \in Nat /\ l = 17
      BY <2>3, Room
    <3> QED BY <2>1, <2>3, <3>1, <3>2
  <2> QED BY <2>2, <2>3
<1>2. /\ MSG_SIZE \in Nat /\ msg_len \in Nat
      /\ out_msg \in [Memory -> 0 .. Heap]
  BY SizeAssumption DEF MessagesTypeOK
<1>3. MSG_SIZE - msg_len >= n
  BY DEF Create
<1>4. out_msg' = [k \in Memory |-> IF k - msg_len \in 0 .. l - 1
                                   THEN b[k - msg_len + 1] ELSE out_msg[k]]
  BY DEF Create, buffer
<1>5. msg_len' = msg_len + Advance(m)
  BY DEF Create
<1> HIDE DEF b, l, n
<1>6. msg_len + n <= MSG_SIZE
  BY <1>1, <1>2, <1>3
<1>7. ASSUME NEW k \in Memory, k - msg_len \in 0 .. l - 1
      PROVE  b[k - msg_len + 1] \in Byte
  <2>1. k - msg_len + 1 \in 1 .. l
    BY <1>1, <1>2, <1>7 DEF Memory
  <2> QED BY <1>1, <2>1 DEF l
<1>8. out_msg' \in [Memory -> 0 .. Heap]
  BY <1>2, <1>4, <1>7 DEF Byte, Heap
<1>9. ASSUME NEW k \in 1 .. l PROVE out_msg'[msg_len + (k - 1)] = b[k]
  <2>1. PICK j \in Int : j = msg_len + (k - 1)
    BY <1>2
  <2>2. j \in Memory
    BY <1>1, <1>2, <1>6, <2>1 DEF Memory
  <2>3. j - msg_len \in 0 .. l - 1 /\ j - msg_len + 1 = k
    BY <1>1, <1>2, <2>1
  <2>4. out_msg'[j] = b[k]
    BY <1>4, <2>2, <2>3
  <2> QED BY <2>1, <2>4
<1>10. ASSUME NEW k \in 0 .. msg_len - 1 PROVE out_msg'[k] = out_msg[k]
  <2>1. k \in Memory /\ k - msg_len \notin 0 .. l - 1
    BY <1>1, <1>2, <1>6 DEF Memory
  <2> QED BY <1>4, <2>1
<1>11. ASSUME NEW k \in Memory, k >= MSG_SIZE, out_msg'[k] # out_msg[k]
       PROVE  m.kind = "piece" /\ k < MSG_SIZE + 4 - m.length
  <2>1. k - msg_len \in 0 .. l - 1
    BY <1>4, <1>11
  <2>2. k \in Int /\ k < msg_len + l
    BY <1>1, <1>2, <2>1 DEF Memory
  <2>3. ~(l <= n)
    BY <1>1, <1>2, <1>6, <1>11, <2>2
  <2>4. m.kind = "piece" /\ m.length \in Nat /\ l = 17 /\ n = m.length + 13
    BY <1>1, <2>3
  <2> QED BY <1>2, <1>6, <2>2, <2>4
<1> QED BY <1>2, <1>5, <1>6, <1>8, <1>9, <1>10, <1>11 DEF b, l, n

LEMMA MessagesInitHolds == MessagesInit => MessagesInv
  BY SizeAssumption
  DEF MessagesInit, MessagesInv, MessagesTypeOK, InsideBuffer, Memory, Heap

LEMMA CreateKeeps ==
    ASSUME NEW m \in Message, MessagesInv, Create(m)
    PROVE  MessagesInv'
<1>1. MessagesTypeOK
  BY DEF MessagesInv
<1>2. msg_len' \in 0 .. MSG_SIZE
  <2>1. /\ msg_len \in Nat /\ msg_len + Needed(m) <= MSG_SIZE
        /\ msg_len' = msg_len + Advance(m)
    BY <1>1, Written
  <2>2. Needed(m) \in Nat /\ Advance(m) \in Nat /\ Advance(m) <= Needed(m)
    BY Room
  <2> QED BY <2>1, <2>2, SizeAssumption
<1>3. out_msg' \in [Memory -> 0 .. Heap]
  BY <1>1, Written
<1>4. queued' \in Seq(Message)
  BY <1>1 DEF Create, MessagesTypeOK
<1>5. InsideBuffer'
  <2> SUFFICES ASSUME NEW k \in Memory, k >= MSG_SIZE, out_msg'[k] # Heap
               PROVE  \E i \in 1 .. Len(queued') :
                          queued'[i].kind = "piece" /\ k < MSG_SIZE + 4 - queued'[i].length
    BY DEF InsideBuffer
  <2>1. /\ Len(queued) \in Nat /\ Len(queued') = Len(queued) + 1
        /\ queued'[Len(queued) + 1] = m
        /\ \A i \in 1 .. Len(queued) : queued'[i] = queued[i]
    BY <1>1 DEF Create, MessagesTypeOK
  <2>2. CASE out_msg'[k] = out_msg[k]
    <3>1. PICK i \in 1 .. Len(queued) :
              queued[i].kind = "piece" /\ k < MSG_SIZE + 4 - queued[i].length
      BY <2>2 DEF InsideBuffer, MessagesInv
    <3>2. i \in 1 .. Len(queued')
      BY <2>1
    <3> QED BY <2>1, <3>1, <3>2
  <2>3. CASE m.kind = "piece" /\ k < MSG_SIZE + 4 - m.length
    <3>1. Len(queued) + 1 \in 1 .. Len(queued')
      BY <2>1
    <3> QED BY <2>1, <2>3, <3>1
  <2> QED BY <1>1, <2>2, <2>3, Written
<1> QED BY <1>2, <1>3, <1>4, <1>5 DEF MessagesInv, MessagesTypeOK

LEMMA MessagesKept == MessagesInv /\ [MessagesNext]_messageVars => MessagesInv'
<1> SUFFICES ASSUME MessagesInv, [MessagesNext]_messageVars PROVE MessagesInv'
  OBVIOUS
<1>1. CASE \E m \in Message : Create(m)
  BY <1>1, CreateKeeps
<1>2. CASE UNCHANGED messageVars
  BY <1>2 DEF messageVars, MessagesInv, MessagesTypeOK, InsideBuffer
<1> QED BY <1>1, <1>2 DEF MessagesNext, Refuse

\* The create functions of Test/message.c never move msg_len beyond out_msg,
\* whatever its size is and whatever is asked of them; and none writes behind it
\* but create_piece_msg, up to four bytes for a slice of less than four.
THEOREM MessagesAreKept == MessagesSpec => []MessagesInv
  BY MessagesInitHolds, MessagesKept, PTL DEF MessagesSpec


-----------------------------------------------------------------------------
\* How four bytes of the memory o read, from position p on.
NumberAt(o, p) == ((o[p] * 256 + o[p + 1]) * 256 + o[p + 2]) * 256 + o[p + 3]

\* The four bytes of i are there, and in a message behind its first d bytes.
NumberHeld(o, p, i) == \A k \in 1 .. 4 : o[p + (k - 1)] = int_to_char(i)[k]
NumberIn(m, d, i)   == \A k \in 1 .. 4 : Bytes(m)[d + k] = int_to_char(i)[k]

LEMMA Limits == INT_MAX \in Nat /\ INT_MAX < NumberLimit /\ Ambiguous \in Nat /\ Ambiguous < INT_MAX
  BY SMT DEF INT_MAX, NumberLimit, Ambiguous

LEMMA IntsAreTold == \A i \in 0 .. INT_MAX : i \in Nat /\ i < NumberLimit
<1>1. NumberLimit \in Nat
  BY SMT DEF NumberLimit
<1> QED BY <1>1, Limits

LEMMA NumberIs ==
    ASSUME NEW o, NEW p \in Nat, NEW i \in 0 .. INT_MAX, NumberHeld(o, p, i)
    PROVE  NumberAt(o, p) = i
<1> DEFINE c == int_to_char(i)
<1>1. ((c[1] * 256 + c[2]) * 256 + c[3]) * 256 + c[4] = i
  BY IntsAreTold, IntToChar
<1>2. \A k \in 1 .. 4 : o[p + (k - 1)] = c[k]
  BY DEF NumberHeld
<1> HIDE DEF c
<1>3. o[p] = c[1] /\ o[p + 1] = c[2] /\ o[p + 2] = c[3] /\ o[p + 3] = c[4]
  <2>1. /\ p + (1 - 1) = p /\ p + (2 - 1) = p + 1
        /\ p + (3 - 1) = p + 2 /\ p + (4 - 1) = p + 3
    OBVIOUS
  <2>2. /\ o[p + (1 - 1)] = c[1] /\ o[p + (2 - 1)] = c[2]
        /\ o[p + (3 - 1)] = c[3] /\ o[p + (4 - 1)] = c[4]
    BY <1>2
  <2> QED BY <2>1, <2>2
<1> QED BY <1>1, <1>3 DEF NumberAt

\* The bytes of a message in the memory o, from position p on.
Holds(o, p, m) == \A k \in 1 .. Len(Bytes(m)) : o[p + (k - 1)] = Bytes(m)[k]

\* One of them.
LEMMA HeldByte ==
    ASSUME NEW o, NEW p \in Nat, NEW m, Holds(o, p, m), Len(Bytes(m)) \in Nat,
           NEW d \in 0 .. Len(Bytes(m)) - 1
    PROVE  o[p + d] = Bytes(m)[d + 1]
<1>1. d + 1 \in 1 .. Len(Bytes(m)) /\ p + ((d + 1) - 1) = p + d
  OBVIOUS
<1>2. o[p + ((d + 1) - 1)] = Bytes(m)[d + 1]
  BY <1>1 DEF Holds
<1> QED BY <1>1, <1>2

\* The number behind the first d of them.
LEMMA HeldNumber ==
    ASSUME NEW o, NEW p \in Nat, NEW m, Holds(o, p, m), Len(Bytes(m)) \in Nat,
           NEW d \in Nat, d + 4 <= Len(Bytes(m)), NEW i \in 0 .. INT_MAX, NumberIn(m, d, i)
    PROVE  NumberAt(o, p + d) = i
<1>1. ASSUME NEW k \in 1 .. 4 PROVE o[(p + d) + (k - 1)] = int_to_char(i)[k]
  <2>1. PICK e \in Nat : e = d + (k - 1)
    OBVIOUS
  <2>2. e \in 0 .. Len(Bytes(m)) - 1 /\ p + e = (p + d) + (k - 1) /\ e + 1 = d + k
    BY <2>1
  <2>3. o[p + e] = Bytes(m)[e + 1]
    BY <2>2, HeldByte
  <2>4. Bytes(m)[d + k] = int_to_char(i)[k]
    BY DEF NumberIn
  <2> QED BY <2>2, <2>3, <2>4
<1>2. PICK q \in Nat : q = p + d
  OBVIOUS
<1>3. NumberHeld(o, q, i)
  BY <1>1, <1>2 DEF NumberHeld
<1>4. NumberAt(o, q) = i
  BY <1>3, NumberIs
<1> QED BY <1>2, <1>4

\* Reads and FrameLength, for any memory.
FrameAt(o, p) == IF o[p] = 19 THEN 68 ELSE 4 + NumberAt(o, p)

ReadsAt(o, m, p) ==
    CASE m.kind = "handshake"  -> /\ o[p] = 19
                                  /\ \A k \in 28 .. 47 : o[p + k] = HashByte
                                  /\ \A k \in 48 .. 67 : o[p + k] = IdByte
      [] m.kind = "keep_alive" -> NumberAt(o, p) = 0
      [] m.kind = "state"      -> NumberAt(o, p) = 1 /\ o[p + 4] = m.type
      [] m.kind = "have"       -> /\ NumberAt(o, p) = 5 /\ o[p + 4] = 4
                                  /\ NumberAt(o, p + 5) = m.index
      [] m.kind = "request"    -> /\ NumberAt(o, p) = 13 /\ o[p + 4] = 6
                                  /\ NumberAt(o, p + 5) = m.index
                                  /\ NumberAt(o, p + 9) = m.begin
                                  /\ NumberAt(o, p + 13) = m.begin
      [] m.kind = "piece"      -> /\ NumberAt(o, p) = m.length + 9 /\ o[p + 4] = 7
                                  /\ NumberAt(o, p + 5) = m.index
                                  /\ NumberAt(o, p + 9) = m.index
                                  /\ \A k \in 1 .. 4 : k <= m.length =>
                                        o[p + 12 + k] = int_to_char(m.index)[k]

LEMMA ReadsIs ==
    ASSUME NEW m, NEW p
    PROVE  /\ Reads(m, p) = ReadsAt(out_msg, m, p) /\ Reads(m, p)' = ReadsAt(out_msg', m, p)
           /\ FrameLength(p) = FrameAt(out_msg, p) /\ FrameLength(p)' = FrameAt(out_msg', p)
  BY DEF Reads, ReadsAt, Number, NumberAt, FrameLength, FrameAt

\* A message other than a bitfield is read as it was written.
LEMMA IsReadBack ==
    ASSUME NumbersAreTold, NEW m \in Message, m.kind # "bitfield", Needed(m) <= MSG_SIZE,
           NEW o, NEW p \in Nat, Holds(o, p, m)
    PROVE  FrameAt(o, p) = Advance(m) /\ ReadsAt(o, m, p)
<1>1. ASSUME m.kind = "handshake" PROVE FrameAt(o, p) = 68 /\ ReadsAt(o, m, p)
  <2>1. /\ Len(Bytes(m)) = 68 /\ Bytes(m)[1] = 19
        /\ \A k \in 28 .. 47 : Bytes(m)[k + 1] = HashByte
        /\ \A k \in 48 .. 67 : Bytes(m)[k + 1] = IdByte
    BY <1>1, HandshakeBytes
  <2>2. ASSUME NEW k \in 0 .. 67 PROVE o[p + k] = Bytes(m)[k + 1]
    <3>1. Len(Bytes(m)) \in Nat /\ k \in 0 .. Len(Bytes(m)) - 1
      BY <2>1
    <3> QED BY <3>1, HeldByte
  <2>3. o[p] = 19
    <3>1. o[p + 0] = Bytes(m)[0 + 1]
      BY <2>2
    <3> QED BY <2>1, <3>1
  <2>4. (\A k \in 28 .. 47 : o[p + k] = HashByte) /\ (\A k \in 48 .. 67 : o[p + k] = IdByte)
    BY <2>1, <2>2
  <2> QED BY <1>1, <2>3, <2>4 DEF FrameAt, ReadsAt
<1>2. ASSUME m.kind = "keep_alive" PROVE FrameAt(o, p) = 4 /\ ReadsAt(o, m, p)
  <2>1. Len(Bytes(m)) = 4 /\ \A k \in 1 .. 4 : Bytes(m)[k] = 0
    BY <1>2, ShortBytes
  <2>2. ASSUME NEW k \in 0 .. 3 PROVE o[p + k] = 0
    <3>1. /\ Len(Bytes(m)) \in Nat /\ k \in 0 .. Len(Bytes(m)) - 1 /\ k + 1 \in 1 .. 4
      BY <2>1
    <3>2. o[p + k] = Bytes(m)[k + 1]
      BY <3>1, HeldByte
    <3> QED BY <2>1, <3>1, <3>2
  <2>3. o[p] = 0 /\ o[p + 1] = 0 /\ o[p + 2] = 0 /\ o[p + 3] = 0
    <3>1. o[p + 0] = 0
      BY <2>2
    <3> QED BY <2>2, <3>1
  <2>4. NumberAt(o, p) = 0
    BY <2>3 DEF NumberAt
  <2> QED BY <1>2, <2>3, <2>4 DEF FrameAt, ReadsAt
<1>3. ASSUME m.kind = "state", m.type \in 0 .. 3
      PROVE  FrameAt(o, p) = 5 /\ ReadsAt(o, m, p)
  <2>1. /\ Len(Bytes(m)) = 5 /\ \A k \in 1 .. 3 : Bytes(m)[k] = 0
        /\ Bytes(m)[4] = 1 /\ Bytes(m)[5] = m.type
    BY <1>3, ShortBytes
  <2>2. ASSUME NEW k \in 0 .. 4 PROVE o[p + k] = Bytes(m)[k + 1]
    <3>1. Len(Bytes(m)) \in Nat /\ k \in 0 .. Len(Bytes(m)) - 1
      BY <2>1
    <3> QED BY <3>1, HeldByte
  <2>3. o[p] = 0 /\ o[p + 1] = 0 /\ o[p + 2] = 0 /\ o[p + 3] = 1 /\ o[p + 4] = m.type
    <3>1. o[p + 0] = Bytes(m)[0 + 1]
      BY <2>2
    <3> QED BY <2>1, <2>2, <3>1
  <2>4. NumberAt(o, p) = 1
    BY <2>3 DEF NumberAt
  <2> QED BY <1>3, <2>3, <2>4 DEF FrameAt, ReadsAt
<1>4. ASSUME m.kind = "have", m.index \in 0 .. INT_MAX
      PROVE  FrameAt(o, p) = 9 /\ ReadsAt(o, m, p)
  <2>1. /\ Len(Bytes(m)) = 9 /\ \A k \in 1 .. 3 : Bytes(m)[k] = 0
        /\ Bytes(m)[4] = 5 /\ Bytes(m)[5] = 4
        /\ \A k \in 1 .. 4 : Bytes(m)[5 + k] = int_to_char(m.index)[k]
    BY <1>4, HaveBytes
  <2>2. ASSUME NEW k \in 0 .. 8 PROVE o[p + k] = Bytes(m)[k + 1]
    <3>1. Len(Bytes(m)) \in Nat /\ k \in 0 .. Len(Bytes(m)) - 1
      BY <2>1
    <3> QED BY <3>1, HeldByte
  <2>3. o[p] = 0 /\ o[p + 1] = 0 /\ o[p + 2] = 0 /\ o[p + 3] = 5 /\ o[p + 4] = 4
    <3>1. o[p + 0] = Bytes(m)[0 + 1]
      BY <2>2
    <3> QED BY <2>1, <2>2, <3>1
  <2>4. NumberAt(o, p) = 5
    BY <2>3 DEF NumberAt
  <2>5. NumberAt(o, p + 5) = m.index
    <3>1. Len(Bytes(m)) \in Nat /\ 5 \in Nat /\ 5 + 4 <= Len(Bytes(m))
      BY <2>1
    <3>2. NumberIn(m, 5, m.index)
      BY <2>1 DEF NumberIn
    <3> QED BY <1>4, <3>1, <3>2, HeldNumber
  <2> QED BY <1>4, <2>3, <2>4, <2>5 DEF FrameAt, ReadsAt
<1>5. ASSUME m.kind = "request", m.index \in 0 .. INT_MAX, m.begin \in 0 .. INT_MAX
      PROVE  FrameAt(o, p) = 17 /\ ReadsAt(o, m, p)
  <2>1. /\ Len(Bytes(m)) = 17 /\ \A k \in 1 .. 3 : Bytes(m)[k] = 0
        /\ Bytes(m)[4] = 13 /\ Bytes(m)[5] = 6
        /\ \A k \in 1 .. 4 : Bytes(m)[5 + k] = int_to_char(m.index)[k]
        /\ \A k \in 1 .. 4 : Bytes(m)[9 + k] = int_to_char(m.begin)[k]
        /\ \A k \in 1 .. 4 : Bytes(m)[13 + k] = int_to_char(m.begin)[k]
    <3>1. m.index \in Nat /\ m.begin \in Nat
      BY <1>5
    <3> QED BY <1>5, <3>1, RequestBytes
  <2>2. ASSUME NEW k \in 0 .. 16 PROVE o[p + k] = Bytes(m)[k + 1]
    <3>1. Len(Bytes(m)) \in Nat /\ k \in 0 .. Len(Bytes(m)) - 1
      BY <2>1
    <3> QED BY <3>1, HeldByte
  <2>3. o[p] = 0 /\ o[p + 1] = 0 /\ o[p + 2] = 0 /\ o[p + 3] = 13 /\ o[p + 4] = 6
    <3>1. o[p + 0] = Bytes(m)[0 + 1]
      BY <2>2
    <3> QED BY <2>1, <2>2, <3>1
  <2>4. NumberAt(o, p) = 13
    BY <2>3 DEF NumberAt
  <2>5. NumberAt(o, p + 5) = m.index
    <3>1. Len(Bytes(m)) \in Nat /\ 5 \in Nat /\ 5 + 4 <= Len(Bytes(m))
      BY <2>1
    <3>2. NumberIn(m, 5, m.index)
      BY <2>1 DEF NumberIn
    <3> QED BY <1>5, <3>1, <3>2, HeldNumber
  <2>6. NumberAt(o, p + 9) = m.begin
    <3>1. Len(Bytes(m)) \in Nat /\ 9 \in Nat /\ 9 + 4 <= Len(Bytes(m))
      BY <2>1
    <3>2. NumberIn(m, 9, m.begin)
      BY <2>1 DEF NumberIn
    <3> QED BY <1>5, <3>1, <3>2, HeldNumber
  <2>7. NumberAt(o, p + 13) = m.begin
    <3>1. Len(Bytes(m)) \in Nat /\ 13 \in Nat /\ 13 + 4 <= Len(Bytes(m))
      BY <2>1
    <3>2. NumberIn(m, 13, m.begin)
      BY <2>1 DEF NumberIn
    <3> QED BY <1>5, <3>1, <3>2, HeldNumber
  <2> QED BY <1>5, <2>3, <2>4, <2>5, <2>6, <2>7 DEF FrameAt, ReadsAt
<1>6. ASSUME m.kind = "piece", m.index \in 0 .. INT_MAX, m.length \in Nat
      PROVE  FrameAt(o, p) = m.length + 13 /\ ReadsAt(o, m, p)
  <2> DEFINE n == m.length + 9
  <2>1. /\ Len(Bytes(m)) = 17 /\ Bytes(m)[5] = 7
        /\ \A k \in 1 .. 4 : Bytes(m)[k] = int_to_char(n)[k]
        /\ \A k \in 1 .. 4 : Bytes(m)[5 + k] = int_to_char(m.index)[k]
        /\ \A k \in 1 .. 4 : Bytes(m)[9 + k] = int_to_char(m.index)[k]
        /\ \A k \in 1 .. 4 : Bytes(m)[13 + k] = int_to_char(m.index)[k]
    <3>1. m.index \in Nat
      BY <1>6
    <3> QED BY <1>6, <3>1, PieceBytes
  <2>2. n \in Nat /\ n < Ambiguous /\ n \in 0 .. INT_MAX
    <3>1. m.length + 13 <= MSG_SIZE
      BY <1>6 DEF Needed
    <3>2. MSG_SIZE \in Nat /\ MSG_SIZE < Ambiguous
      BY SizeAssumption DEF NumbersAreTold
    <3>3. Ambiguous \in Nat /\ \A i \in Nat : i < Ambiguous => i \in 0 .. INT_MAX
      BY Limits
    <3>4. n \in Nat /\ n < Ambiguous
      BY <1>6, <3>1, <3>2, <3>3
    <3> QED BY <3>3, <3>4
  <2>3. n + 4 = m.length + 13
    BY <1>6
  <2>4. m.length + 9 = n
    OBVIOUS
  <2> HIDE DEF n
  <2>5. ASSUME NEW k \in 0 .. 16 PROVE o[p + k] = Bytes(m)[k + 1]
    <3>1. Len(Bytes(m)) \in Nat /\ k \in 0 .. Len(Bytes(m)) - 1
      BY <2>1
    <3> QED BY <3>1, HeldByte
  <2>6. o[p] # 19
    <3>1. int_to_char(n)[1] < 19 /\ int_to_char(n)[1] \in Byte
      BY <2>2, IntToChar
    <3>2. o[p + 0] = Bytes(m)[0 + 1]
      BY <2>5
    <3>3. o[p] = int_to_char(n)[1]
      BY <2>1, <3>2
    <3> QED BY <3>1, <3>3 DEF Byte
  <2>7. o[p + 4] = 7
    BY <2>1, <2>5
  <2>8. NumberAt(o, p) = n
    <3>1. Len(Bytes(m)) \in Nat /\ 0 \in Nat /\ 0 + 4 <= Len(Bytes(m))
      BY <2>1
    <3>2. NumberIn(m, 0, n)
      BY <2>1 DEF NumberIn
    <3>3. NumberAt(o, p + 0) = n
      BY <2>2, <3>1, <3>2, HeldNumber
    <3>4. p + 0 = p
      OBVIOUS
    <3> QED BY <3>3, <3>4
  <2>9. NumberAt(o, p + 5) = m.index
    <3>1. Len(Bytes(m)) \in Nat /\ 5 \in Nat /\ 5 + 4 <= Len(Bytes(m))
      BY <2>1
    <3>2. NumberIn(m, 5, m.index)
      BY <2>1 DEF NumberIn
    <3> QED BY <1>6, <3>1, <3>2, HeldNumber
  <2>10. FrameAt(o, p) = m.length + 13
    BY <2>2, <2>3, <2>6, <2>8 DEF FrameAt
  <2>11. NumberAt(o, p + 9) = m.index
    <3>1. Len(Bytes(m)) \in Nat /\ 9 \in Nat /\ 9 + 4 <= Len(Bytes(m))
      BY <2>1
    <3>2. NumberIn(m, 9, m.index)
      BY <2>1 DEF NumberIn
    <3> QED BY <1>6, <3>1, <3>2, HeldNumber
  <2>12. ASSUME NEW k \in 1 .. 4 PROVE o[p + 12 + k] = int_to_char(m.index)[k]
    <3>1. PICK d \in Nat : d = 12 + k
      OBVIOUS
    <3>2. d \in 0 .. 16 /\ p + d = p + 12 + k /\ d + 1 = 13 + k
      BY <3>1
    <3>3. o[p + d] = Bytes(m)[d + 1]
      BY <2>5, <3>2
    <3> QED BY <2>1, <3>2, <3>3
  <2> QED BY <1>6, <2>4, <2>7, <2>8, <2>9, <2>10, <2>11, <2>12 DEF ReadsAt
<1> QED BY <1>1, <1>2, <1>3, <1>4, <1>5, <1>6, Kinds, Room


-----------------------------------------------------------------------------
\* The recursive definition of StartOf defines what it says.
LEMMA StartsExist ==
    ASSUME NEW N \in Nat
    PROVE  \E g : g = [k \in 1 .. N + 1 |->
                          IF k = 1 THEN 0 ELSE g[k - 1] + FrameLength(g[k - 1])]
<1> DEFINE Starts(n, g) == g = [k \in 1 .. n + 1 |->
                                  IF k = 1 THEN 0 ELSE g[k - 1] + FrameLength(g[k - 1])]
           S == {n \in Nat : \E g : Starts(n, g)}
<1>1. 0 \in S
  <2>1. Starts(0, [k \in 1 .. 1 |-> 0])
    OBVIOUS
  <2> QED BY <2>1
<1>2. ASSUME NEW n \in S PROVE n + 1 \in S
  <2>1. PICK g : Starts(n, g)
    OBVIOUS
  <2> DEFINE h == [k \in 1 .. n + 2 |-> IF k = n + 2 THEN g[n + 1] + FrameLength(g[n + 1])
                                                     ELSE g[k]]
  <2>2. Starts(n + 1, h)
    <3>1. \A k \in 1 .. n + 1 : g[k] = IF k = 1 THEN 0 ELSE g[k - 1] + FrameLength(g[k - 1])
      BY <2>1
    <3>2. \A k \in 1 .. n + 2 : h[k] = IF k = 1 THEN 0 ELSE h[k - 1] + FrameLength(h[k - 1])
      BY <3>1
    <3>3. n + 1 + 1 = n + 2
      OBVIOUS
    <3>4. h = [k \in 1 .. n + 2 |-> h[k]]
      OBVIOUS
    <3> HIDE DEF h
    <3> QED BY <3>2, <3>3, <3>4
  <2>3. \E k : Starts(n + 1, k)
    <3> HIDE DEF h, Starts
    <3> QED BY <2>2
  <2> HIDE DEF h, Starts
  <2> QED BY <2>3
<1>3. S \in SUBSET Nat
  OBVIOUS
<1>4. S = Nat
  <2> HIDE DEF S
  <2> QED BY <1>1, <1>2, <1>3, NatSubset
<1> QED BY <1>4

LEMMA StartsFollow ==
    /\ StartOf[1] = 0
    /\ \A k \in 1 .. MaxMessages : StartOf[k + 1] = StartOf[k] + FrameLength(StartOf[k])
<1> DEFINE Starts(g) == g = [k \in 1 .. MaxMessages + 1 |->
                               IF k = 1 THEN 0 ELSE g[k - 1] + FrameLength(g[k - 1])]
<1>1. \E g : Starts(g)
  BY SizeAssumption, StartsExist
<1>2. StartOf = CHOOSE g : Starts(g)
  BY DEF StartOf
<1>3. Starts(CHOOSE g : Starts(g))
  <2> HIDE DEF Starts
  <2> QED BY <1>1
<1> DEFINE f == StartOf
<1>4. Starts(f)
  BY <1>2, <1>3
<1>5. f = [k \in 1 .. MaxMessages + 1 |->
             IF k = 1 THEN 0 ELSE f[k - 1] + FrameLength(f[k - 1])]
  BY <1>4
<1> HIDE DEF f
<1>6. f[1] = 0
  BY <1>5, SizeAssumption
<1>7. ASSUME NEW k \in 1 .. MaxMessages PROVE f[k + 1] = f[k] + FrameLength(f[k])
  <2>1. k + 1 \in 1 .. MaxMessages + 1 /\ k + 1 # 1 /\ (k + 1) - 1 = k
    BY SizeAssumption
  <2> QED BY <1>5, <2>1
<1> QED BY <1>6, <1>7 DEF f

-----------------------------------------------------------------------------
\* In the memory o a message is read at p, inside the first l bytes.
Framed(o, l, m, p) ==
    /\ p \in Nat /\ p + Advance(m) <= l
    /\ FrameAt(o, p) = Advance(m) /\ ReadsAt(o, m, p)

NoBitfield == \A k \in 1 .. Len(queued) : queued[k].kind # "bitfield"

\* The inductive invariant: beside MessagesInv, the reader finds each message
\* where it was written, inside what was written, and its end with it.
StreamInv ==
    /\ MessagesInv
    /\ Len(queued) <= MaxMessages
    /\ NoBitfield =>
          /\ \A k \in 1 .. Len(queued) : Framed(out_msg, msg_len, queued[k], StartOf[k])
          /\ StartOf[Len(queued) + 1] = msg_len

LEMMA StreamInitHolds == MessagesInit => StreamInv
<1> SUFFICES ASSUME MessagesInit PROVE StreamInv
  OBVIOUS
<1>1. Len(queued) = 0 /\ msg_len = 0 /\ 0 \in Nat
  BY DEF MessagesInit
<1>2. StartOf[0 + 1] = 0
  BY StartsFollow
<1>3. \A k \in 1 .. Len(queued) : Framed(out_msg, msg_len, queued[k], StartOf[k])
  BY <1>1
<1> QED BY <1>1, <1>2, <1>3, MessagesInitHolds, SizeAssumption DEF StreamInv

\* What is read inside the written bytes stays there.
LEMMA FramedStays ==
    ASSUME NEW m \in Message, m.kind # "bitfield", NEW p,
           Framed(out_msg, msg_len, m, p), MessagesTypeOK,
           \A k \in 0 .. msg_len - 1 : out_msg'[k] = out_msg[k],
           msg_len' \in Nat, msg_len <= msg_len'
    PROVE  Framed(out_msg', msg_len', m, p) /\ FrameAt(out_msg', p) = FrameAt(out_msg, p)
<1>1. /\ p \in Nat /\ msg_len \in Nat /\ Advance(m) \in Nat /\ p + Advance(m) <= msg_len
      /\ FrameAt(out_msg, p) = Advance(m) /\ ReadsAt(out_msg, m, p)
  BY Room DEF Framed, MessagesTypeOK
<1>2. ASSUME NEW d \in Nat, d < Advance(m) PROVE out_msg'[p + d] = out_msg[p + d]
  <2>1. p + d \in 0 .. msg_len - 1
    BY <1>1, <1>2
  <2> QED BY <2>1
<1>3. Advance(m) >= 4
  BY Room, Kinds
<1>4. ASSUME NEW d \in Nat, d + 4 <= Advance(m)
      PROVE  NumberAt(out_msg', p + d) = NumberAt(out_msg, p + d)
  <2>1. /\ out_msg'[p + d] = out_msg[p + d]
        /\ out_msg'[p + (d + 1)] = out_msg[p + (d + 1)]
        /\ out_msg'[p + (d + 2)] = out_msg[p + (d + 2)]
        /\ out_msg'[p + (d + 3)] = out_msg[p + (d + 3)]
    BY <1>1, <1>2, <1>4
  <2>2. p + (d + 1) = p + d + 1 /\ p + (d + 2) = p + d + 2 /\ p + (d + 3) = p + d + 3
    BY <1>1
  <2> QED BY <2>1, <2>2 DEF NumberAt
<1>5. NumberAt(out_msg', p) = NumberAt(out_msg, p) /\ out_msg'[p] = out_msg[p]
  <2>1. p + 0 = p /\ 0 \in Nat /\ 0 + 4 <= Advance(m) /\ 0 < Advance(m)
    BY <1>1, <1>3
  <2>2. NumberAt(out_msg', p + 0) = NumberAt(out_msg, p + 0) /\ out_msg'[p + 0] = out_msg[p + 0]
    BY <1>2, <1>4, <2>1
  <2> QED BY <2>1, <2>2
<1>6. FrameAt(out_msg', p) = FrameAt(out_msg, p)
  BY <1>5 DEF FrameAt
<1>7. ReadsAt(out_msg', m, p)
  <2>1. CASE m.kind = "handshake"
    <3>1. \A k \in 28 .. 47 : out_msg'[p + k] = out_msg[p + k]
      BY <1>2, <2>1, Room
    <3>2. \A k \in 48 .. 67 : out_msg'[p + k] = out_msg[p + k]
      BY <1>2, <2>1, Room
    <3> QED BY <1>1, <1>5, <2>1, <3>1, <3>2 DEF ReadsAt
  <2>2. CASE m.kind = "keep_alive"
    BY <1>1, <1>5, <2>2 DEF ReadsAt
  <2>3. CASE m.kind = "state"
    <3>1. out_msg'[p + 4] = out_msg[p + 4]
      BY <1>2, <2>3, Room
    <3> QED BY <1>1, <1>5, <2>3, <3>1 DEF ReadsAt
  <2>4. CASE m.kind = "have"
    <3>1. Advance(m) >= 9
      BY <2>4, Room
    <3>2. out_msg'[p + 4] = out_msg[p + 4] /\ NumberAt(out_msg', p + 5) = NumberAt(out_msg, p + 5)
      BY <1>1, <1>2, <1>4, <3>1
    <3> QED BY <1>1, <1>5, <2>4, <3>2 DEF ReadsAt
  <2>5. CASE m.kind = "request"
    <3>1. Advance(m) = 17
      BY <2>5, Room
    <3>2. /\ out_msg'[p + 4] = out_msg[p + 4]
          /\ NumberAt(out_msg', p + 5) = NumberAt(out_msg, p + 5)
          /\ NumberAt(out_msg', p + 9) = NumberAt(out_msg, p + 9)
          /\ NumberAt(out_msg', p + 13) = NumberAt(out_msg, p + 13)
      BY <1>1, <1>2, <1>4, <3>1
    <3> QED BY <1>1, <1>5, <2>5, <3>2 DEF ReadsAt
  <2>6. CASE m.kind = "piece"
    <3>1. m.length \in Nat /\ Advance(m) = m.length + 13
      BY <2>6, Room
    <3>2. /\ out_msg'[p + 4] = out_msg[p + 4]
          /\ NumberAt(out_msg', p + 5) = NumberAt(out_msg, p + 5)
          /\ NumberAt(out_msg', p + 9) = NumberAt(out_msg, p + 9)
      BY <1>1, <1>2, <1>4, <3>1
    <3>3. ASSUME NEW k \in 1 .. 4, k <= m.length
          PROVE  out_msg'[p + 12 + k] = out_msg[p + 12 + k]
      <4>1. PICK d \in Nat : d = 12 + k
        OBVIOUS
      <4>2. d < Advance(m) /\ p + d = p + 12 + k
        BY <1>1, <3>1, <3>3, <4>1
      <4>3. out_msg'[p + d] = out_msg[p + d]
        BY <1>2, <4>2
      <4> QED BY <4>2, <4>3
    <3> QED BY <1>1, <1>5, <2>6, <3>2, <3>3 DEF ReadsAt
  <2> QED BY <2>1, <2>2, <2>3, <2>4, <2>5, <2>6, Kinds
<1>8. p + Advance(m) <= msg_len'
  BY <1>1
<1> QED BY <1>1, <1>6, <1>7, <1>8 DEF Framed

\* StartsFollow, for any memory: each message starts where the one before ends.
StartsWhereOthersEnd ==
    /\ StartOf[1] = 0
    /\ \A k \in 1 .. MaxMessages :
          StartOf[k + 1] = StartOf[k] + FrameAt(out_msg, StartOf[k])

LEMMA Starts == StartsWhereOthersEnd
  BY StartsFollow DEF StartsWhereOthersEnd, FrameLength, FrameAt, Number, NumberAt

\* Messages whose lengths are read as before start where they did.
LEMMA StartsStay ==
    ASSUME NEW n \in 0 .. MaxMessages,
           \A k \in 1 .. n : FrameAt(out_msg', StartOf[k]) = FrameAt(out_msg, StartOf[k])
    PROVE  \A k \in 1 .. n + 1 : StartOf'[k] = StartOf[k]
<1>1. /\ StartOf[1] = 0 /\ StartOf'[1] = 0
      /\ \A k \in 1 .. MaxMessages :
            /\ StartOf[k + 1] = StartOf[k] + FrameAt(out_msg, StartOf[k])
            /\ StartOf'[k + 1] = StartOf'[k] + FrameAt(out_msg', StartOf'[k])
  <2>1. StartsWhereOthersEnd
    BY Starts
  <2>2. StartsWhereOthersEnd'
    BY Starts, PTL
  <2> QED BY <2>1, <2>2 DEF StartsWhereOthersEnd
<1> DEFINE S == {i \in Nat : i <= n => StartOf'[i + 1] = StartOf[i + 1]}
<1>2. 0 \in S
  BY <1>1
<1>3. ASSUME NEW i \in S PROVE i + 1 \in S
  <2>1. ASSUME i + 1 <= n PROVE StartOf'[(i + 1) + 1] = StartOf[(i + 1) + 1]
    <3>1. i + 1 \in 1 .. n /\ i + 1 \in 1 .. MaxMessages /\ i <= n
      BY <2>1, SizeAssumption
    <3>2. StartOf'[i + 1] = StartOf[i + 1]
      BY <3>1
    <3> QED BY <1>1, <3>1, <3>2
  <2> QED BY <2>1
<1>4. S = Nat
  <2>1. S \in SUBSET Nat
    OBVIOUS
  <2> HIDE DEF S
  <2> QED BY <1>2, <1>3, <2>1, NatSubset
<1>5. ASSUME NEW k \in 1 .. n + 1 PROVE StartOf'[k] = StartOf[k]
  <2>1. k - 1 \in Nat /\ k - 1 <= n /\ (k - 1) + 1 = k
    OBVIOUS
  <2>2. StartOf'[(k - 1) + 1] = StartOf[(k - 1) + 1]
    BY <1>4, <2>1
  <2> QED BY <2>1, <2>2
<1> QED BY <1>5

LEMMA CreateKeepsStream ==
    ASSUME NumbersAreTold, NEW m \in Message, StreamInv, Create(m)
    PROVE  StreamInv'
<1> DEFINE L == Len(queued)
<1>1. MessagesInv /\ MessagesTypeOK /\ MessagesInv' /\ MessagesTypeOK'
  BY CreateKeeps DEF StreamInv, MessagesInv
<1>2. queued \in Seq(Message) /\ L \in Nat /\ L < MaxMessages /\ queued' = Append(queued, m)
  BY <1>1 DEF MessagesTypeOK, Create
<1>3. /\ Len(queued') = L + 1 /\ queued'[L + 1] = m
      /\ \A k \in 1 .. L : queued'[k] = queued[k] /\ queued[k] \in Message
  BY <1>2
<1>4. Len(queued') <= MaxMessages
  BY <1>2, <1>3, SizeAssumption
<1>5. SUFFICES ASSUME NoBitfield'
               PROVE  /\ \A k \in 1 .. L + 1 : Framed(out_msg', msg_len', queued'[k], StartOf'[k])
                      /\ StartOf'[L + 2] = msg_len'
  <2>1. L + 1 + 1 = L + 2
    BY <1>2
  <2> QED BY <1>1, <1>3, <1>4, <2>1 DEF StreamInv
<1>6. m.kind # "bitfield" /\ NoBitfield
  BY <1>2, <1>3, <1>5 DEF NoBitfield
<1>7. /\ \A k \in 1 .. L : Framed(out_msg, msg_len, queued[k], StartOf[k])
      /\ StartOf[L + 1] = msg_len
  BY <1>6 DEF StreamInv
<1>8. /\ msg_len \in Nat /\ msg_len' \in Nat /\ msg_len' = msg_len + Advance(m)
      /\ Advance(m) \in Nat /\ msg_len <= msg_len'
      /\ Needed(m) <= MSG_SIZE /\ Holds(out_msg', msg_len, m)
      /\ \A k \in 0 .. msg_len - 1 : out_msg'[k] = out_msg[k]
  <2>1. /\ msg_len \in Nat /\ msg_len + Needed(m) <= MSG_SIZE
        /\ msg_len' = msg_len + Advance(m)
        /\ \A k \in 1 .. Len(Bytes(m)) : out_msg'[msg_len + (k - 1)] = Bytes(m)[k]
        /\ \A k \in 0 .. msg_len - 1 : out_msg'[k] = out_msg[k]
    BY <1>1, Written
  <2>2. Needed(m) \in Nat /\ Advance(m) \in Nat
    BY Room
  <2> QED BY <2>1, <2>2, SizeAssumption DEF Holds
\* The messages that were there stay, and stay where they were.
<1>9. ASSUME NEW k \in 1 .. L
      PROVE  /\ Framed(out_msg', msg_len', queued'[k], StartOf[k])
             /\ FrameAt(out_msg', StartOf[k]) = FrameAt(out_msg, StartOf[k])
  <2>1. queued'[k] = queued[k] /\ queued[k] \in Message /\ queued[k].kind # "bitfield"
    BY <1>3, <1>6 DEF NoBitfield
  <2> QED BY <1>1, <1>7, <1>8, <2>1, FramedStays
<1>10. \A k \in 1 .. L + 1 : StartOf'[k] = StartOf[k]
  <2>1. L \in 0 .. MaxMessages
    BY <1>2, SizeAssumption
  <2> HIDE DEF L
  <2> QED BY <1>9, <2>1, StartsStay
\* The new one is read where they end, and ends where the bytes do.
<1>11. StartOf'[L + 1] = msg_len
  BY <1>2, <1>7, <1>10
<1>12. FrameAt(out_msg', msg_len) = Advance(m) /\ ReadsAt(out_msg', m, msg_len)
  BY <1>6, <1>8, IsReadBack
<1>13. StartOf'[L + 2] = msg_len'
  <2>1. L + 1 \in 1 .. MaxMessages /\ (L + 1) + 1 = L + 2
    BY <1>2, SizeAssumption
  <2>2. StartsWhereOthersEnd'
    BY Starts, PTL
  <2>3. StartOf'[(L + 1) + 1] = StartOf'[L + 1] + FrameAt(out_msg', StartOf'[L + 1])
    BY <2>1, <2>2 DEF StartsWhereOthersEnd
  <2> QED BY <1>8, <1>11, <1>12, <2>1, <2>3
<1>14. Framed(out_msg', msg_len', queued'[L + 1], StartOf'[L + 1])
  BY <1>3, <1>8, <1>11, <1>12 DEF Framed
<1>15. ASSUME NEW k \in 1 .. L + 1
       PROVE  Framed(out_msg', msg_len', queued'[k], StartOf'[k])
  <2>1. k \in 1 .. L \/ k = L + 1
    BY <1>2
  <2> QED BY <1>9, <1>10, <1>14, <2>1
<1> QED BY <1>13, <1>15

LEMMA StreamKept ==
    NumbersAreTold /\ StreamInv /\ [MessagesNext]_messageVars => StreamInv'
<1> SUFFICES ASSUME NumbersAreTold, StreamInv, [MessagesNext]_messageVars PROVE StreamInv'
  OBVIOUS
<1>1. CASE \E m \in Message : Create(m)
  BY <1>1, CreateKeepsStream
<1>2. CASE UNCHANGED messageVars
  <2>1. MessagesInv'
    BY <1>2, MessagesKept DEF StreamInv
  <2>2. out_msg' = out_msg /\ msg_len' = msg_len /\ queued' = queued
    BY <1>2 DEF messageVars
  <2>3. Len(queued) \in 0 .. MaxMessages
    BY SizeAssumption DEF StreamInv, MessagesInv, MessagesTypeOK
  <2>4. \A k \in 1 .. Len(queued) + 1 : StartOf'[k] = StartOf[k]
    <3> DEFINE L == Len(queued)
    <3>1. /\ L \in 0 .. MaxMessages
          /\ \A k \in 1 .. L : FrameAt(out_msg', StartOf[k]) = FrameAt(out_msg, StartOf[k])
      BY <2>2, <2>3
    <3> HIDE DEF L
    <3>2. \A k \in 1 .. L + 1 : StartOf'[k] = StartOf[k]
      BY <3>1, StartsStay
    <3> QED BY <3>2 DEF L
  <2>5. /\ Len(queued) + 1 \in 1 .. Len(queued) + 1
        /\ \A k \in 1 .. Len(queued) : k \in 1 .. Len(queued) + 1
    BY <2>3
  <2> QED BY <2>1, <2>2, <2>4, <2>5 DEF StreamInv, NoBitfield
<1> QED BY <1>1, <1>2 DEF MessagesNext, Refuse

\* Whoever reads the bytes of out_msg as the protocol says finds every message
\* that a create function of Test/message.c took, in order, and then the end:
\* as long as no bitfield is among them, whose length is forgotten, and for any
\* buffer of less than 19 * 2^24 bytes.  A request's length and a piece's begin
\* are found only where the number written in their place is the same.
THEOREM StreamIsReadBack ==
    ASSUME NumbersAreTold PROVE MessagesSpec => []StreamReadsBack
<1>1. MessagesInit => StreamInv
  BY StreamInitHolds
<1>2. StreamInv /\ [MessagesNext]_messageVars => StreamInv'
  BY StreamKept
<1>3. ASSUME NEW m, NEW p, Reads(m, p) PROVE AllIsTold(m, p) <=> ~Mistold(m)
  BY <1>3 DEF Reads, AllIsTold, Mistold
<1>4. StreamInv => StreamReadsBack
  BY <1>3, ReadsIs DEF StreamInv, NoBitfield, Framed, StreamReadsBack
<1> QED BY <1>1, <1>2, <1>4, PTL DEF MessagesSpec

-----------------------------------------------------------------------------
(***************************************************************************)
(* The answers of is_interested.                                           *)
(***************************************************************************)
\* The bytes of a bitmap hold its pieces, and all but the last byte hold
\* nothing else.
LEMMA BitmapLengths ==
    /\ bitfield_length \in Nat \ {0}
    /\ 8 * WholeBytes < valid_length
    /\ valid_length <= 8 * bitfield_length
BY PieceCountAssumption, SMT DEF bitfield_length, valid_length, WholeBytes

LEMMA WholeBytesAreOwned ==
    ASSUME NEW b \in Bit, InWholeBytes(b)
    PROVE  Owned(b)
<1>1. b \in Nat BY BitmapLengths, SMT DEF Bit
<1>2. WholeBytes \in Int BY BitmapLengths DEF WholeBytes
<1>3. b < 8 * WholeBytes BY <1>1, <1>2, SMT DEF InWholeBytes
<1>4. valid_length \in Nat BY PieceCountAssumption DEF valid_length
<1> QED BY <1>1, <1>2, <1>3, <1>4, BitmapLengths DEF Owned

AnswerInv == InterestTypeOK /\ InterestIsJustified /\ WholeBytesAreSeen

\* The types and both properties of the answers are kept by every step.
LEMMA AnswersAreKept == InterestSpec => []AnswerInv
<1>1. InterestInit => AnswerInv
  BY PositionAssumption DEF InterestInit, AnswerInv, InterestTypeOK, InterestIsJustified, WholeBytesAreSeen
<1>2. AnswerInv /\ [InterestNext]_interestVars => AnswerInv'
  <2> SUFFICES ASSUME AnswerInv, [InterestNext]_interestVars PROVE AnswerInv'
    OBVIOUS
  <2> USE DEF AnswerInv
  <2>1. CASE is_interested
    <3>1. InterestTypeOK'
      BY <2>1 DEF InterestTypeOK, is_interested
    <3>2. InterestIsJustified'
      <4> SUFFICES ASSUME answer' = "yes" PROVE \E b \in dst \ src : Owned(b)
        BY <2>1 DEF is_interested, InterestIsJustified, Owned
      <4>1. Finds
        BY <2>1 DEF is_interested
      <4>2. PICK b \in Bit : InWholeBytes(b) /\ Wanted(b)
        BY <4>1 DEF Finds, WantedInLastByte
      <4> QED BY <4>2, WholeBytesAreOwned DEF Wanted
    <3>3. WholeBytesAreSeen'
      <4> SUFFICES ASSUME answer' = "no", NEW b \in dst \ src
                   PROVE  b \div 8 >= WholeBytes
        BY <2>1 DEF is_interested, WholeBytesAreSeen
      <4>1. ~Finds
        BY <2>1 DEF is_interested
      <4>2. b \in Bit /\ Wanted(b)
        BY DEF InterestTypeOK, Wanted
      <4>3. ~InWholeBytes(b)
        BY <4>1, <4>2 DEF Finds
      <4>4. b \in Nat /\ WholeBytes \in Int
        BY <4>2, BitmapLengths, SMT DEF Bit, WholeBytes
      <4> QED BY <4>3, <4>4, SMT DEF InWholeBytes
    <3> QED BY <3>1, <3>2, <3>3
  <2>2. CASE Have
    BY <2>2, PositionAssumption
    DEF Have, InterestTypeOK, InterestIsJustified, WholeBytesAreSeen
  <2>3. CASE all_zero \/ all_set
    BY <2>3 DEF all_zero, all_set, InterestTypeOK, InterestIsJustified, WholeBytesAreSeen
  <2>4. CASE UNCHANGED interestVars
    BY <2>4 DEF interestVars, InterestTypeOK, InterestIsJustified, WholeBytesAreSeen
  <2> QED BY <2>1, <2>2, <2>3, <2>4 DEF InterestNext
<1> QED BY <1>1, <1>2, PTL DEF InterestSpec

\* Interest is justified, whatever a peer sends after its last piece, and a
\* piece of the bytes before the last is never overlooked.
THEOREM InterestHolds == InterestSpec => []InterestIsRight
<1>1. AnswerInv => InterestIsRight BY DEF AnswerInv, InterestIsRight
<1> QED BY <1>1, AnswersAreKept, PTL

-----------------------------------------------------------------------------
(***************************************************************************)
(* EventLoop, for any number of trackers and peers and any intervals that  *)
(* satisfy TimeAssumption and LagAssumption.                               *)
(*                                                                         *)
(* The argument: between two rounds one of connect_tracker and             *)
(* connect_peer is set, and the next turn acts on it (RoundBegins), so     *)
(* last_time[2] is never older than one round and the turn before it       *)
(* (RoundLasts), and the interval timer never starts a round inside        *)
(* another.  When no round is under way every open socket of a tracker is  *)
(* one of a failed connection (Idle).                                      *)
(***************************************************************************)

\* An age that saturates lies between 0 and the exact one, and the order of
\* two ages up to the distance m survives a turn.
LEMMA OlderIsAge ==
    ASSUME NEW a \in Age, NEW d \in Nat
    PROVE  Older(a, d) \in Age /\ Older(a, d) <= a + d
BY TimeAssumption DEF Age, AgeLimit, Older

LEMMA ZeroIsAge == 0 \in Age
BY TimeAssumption DEF Age, AgeLimit

LEMMA OlderKeepsDistance ==
    ASSUME NEW a \in Age, NEW b \in Age, NEW d \in Nat, NEW m \in Nat, a <= b + m
    PROVE  Older(a, d) <= Older(b, d) + m
BY TimeAssumption DEF Age, AgeLimit, Older

\* The unchoke timers leave the timer of the trackers alone.
LEMMA UnchokedTimers ==
    ASSUME NEW s \in [0 .. 2 -> Age]
    PROVE  Unchoked(s) \in [0 .. 2 -> Age] /\ Unchoked(s)[2] = s[2]
BY TimeAssumption DEF Unchoked, Age, AgeLimit

LEMMA InitInv == Init => IInv
<1> SUFFICES ASSUME Init PROVE IInv
  OBVIOUS
<1>1. TypeOK
  BY ZeroIsAge DEF Init, TypeOK
<1>2. OneRound /\ PeersDue /\ RoundBegins /\ RoundLasts /\ Idle /\ NoLiveSocketLost
  BY TimeAssumption
     DEF Init, OneRound, PeersDue, RoundBegins, RoundLasts, Idle, NoLiveSocketLost
<1> QED BY <1>1, <1>2 DEF IInv

LEMMA TopInv ==
    ASSUME IInv, NEW d \in 0 .. MaxLag, Top(d)
    PROVE  IInv'
<1> DEFINE aged == [i \in 0 .. 2 |-> Older(since[i], d)]
<1>1. d \in Nat /\ MaxLag \in Nat /\ d <= MaxLag /\ connect_timeout \in Nat
  BY TimeAssumption
<1>2. aged \in [0 .. 2 -> Age] /\ aged[2] = Older(since[2], d)
  BY <1>1, OlderIsAge DEF IInv, TypeOK
<1>3. since' \in [0 .. 2 -> Age] /\ since'[2] = Older(since[2], d)
  <2>1. since' = Unchoked(aged)
    BY DEF Top
  <2> HIDE DEF aged
  <2> QED BY <2>1, <1>2, UnchokedTimers
<1>4. tracker_age' = Older(tracker_age, d) /\ peer_age' = Older(peer_age, d)
  BY DEF Top
<1>5. /\ since[2] \in Age /\ tracker_age \in Age /\ peer_age \in Age
      /\ since[2] \in Int /\ tracker_age \in Int
  BY TimeAssumption DEF IInv, TypeOK, Age, AgeLimit
<1>6. /\ Older(since[2], d) <= since[2] + d
      /\ tracker_age' \in Age /\ peer_age' \in Age
      /\ tracker_age' <= tracker_age + d
  BY <1>1, <1>4, <1>5, OlderIsAge
<1>7. since'[2] \in Int /\ tracker_age' \in Int
  BY <1>3, <1>6, TimeAssumption DEF Age, AgeLimit
<1>8. pc = "top" /\ pc' = "tracker" /\ UNCHANGED <<loop, trackers, peers, world>>
  BY DEF Top
<1>9. TypeOK'
  BY <1>3, <1>6, <1>8 DEF IInv, TypeOK, loop, trackers, peers
<1>10. OneRound' /\ PeersDue' /\ Idle' /\ NoLiveSocketLost'
  BY <1>8 DEF IInv, OneRound, PeersDue, Idle, NoLiveSocketLost, loop, trackers
<1>11. RoundBegins'
  BY <1>1, <1>3, <1>6, <1>7, <1>8 DEF IInv, RoundBegins, loop
<1>12. RoundLasts'
  <2> SUFFICES ASSUME connecting_tracker PROVE RoundLasts'
    BY <1>8 DEF RoundLasts, loop
  <2>1. ~connect_tracker /\ since[2] <= tracker_age + MaxLag /\ tracker_age <= connect_timeout
    BY <1>8 DEF IInv, RoundLasts
  <2>2. since'[2] <= tracker_age' + MaxLag
    BY <2>1, <1>1, <1>3, <1>4, <1>5, OlderKeepsDistance
  <2> QED BY <2>1, <2>2, <1>1, <1>5, <1>6, <1>7, <1>8 DEF RoundLasts, loop
<1> QED BY <1>9, <1>10, <1>11, <1>12 DEF IInv

\* A round begins only when none is under way: with one at a tracker the timer
\* is not due, by LagAssumption.
LEMMA NotDueInRound ==
    ASSUME IInv, pc = "tracker", TrackerDue
    PROVE  ~connecting_tracker /\ ~connecting_peer /\ ~connect_peer
<1>1. since[2] \in Int /\ tracker_age \in Int
  BY TimeAssumption DEF IInv, TypeOK, Age, AgeLimit
<1>2. ~connecting_tracker
  BY <1>1, TimeAssumption, LagAssumption DEF IInv, RoundLasts, TrackerDue, TrackerDue_AnyTime
<1>3. ~connecting_peer
  BY DEF TrackerDue
<1>4. ~connect_peer
  BY <1>1, <1>2, <1>3, TimeAssumption, LagAssumption
     DEF IInv, RoundBegins, PeersDue, TrackerDue, TrackerDue_AnyTime
<1> QED BY <1>2, <1>3, <1>4

LEMMA ConnectTrackerInv ==
    ASSUME IInv, ConnectTracker
    PROVE  IInv'
<1>1. pc = "tracker" /\ TrackerDue /\ pc' = "peer"
  BY DEF ConnectTracker
<1>2. ~connecting_tracker /\ ~connecting_peer /\ ~connect_peer
  BY <1>1, NotDueInRound
<1>3. /\ connect_tracker' = FALSE /\ connecting_tracker' = TRUE
      /\ UNCHANGED <<connect_peer, connecting_peer, since, peer_age, peers, world>>
      /\ tracker_age' = 0
      /\ OpenTrackers
  BY DEF ConnectTracker, RestartTrackerAge
<1>4. lost' \subseteq {"failed", "live"} /\ "live" \notin lost'
  <2>1. \A t \in Trackers : sock[t] = "open" => valid[t] = 0
    BY <1>2 DEF IInv, Idle
  <2>2. Overwritten \subseteq {"failed"}
    BY <2>1 DEF Overwritten
  <2>3. lost' = lost \cup Overwritten
    BY <1>3 DEF OpenTrackers
  <2>4. lost \subseteq {"failed", "live"} /\ "live" \notin lost
    BY DEF IInv, TypeOK, NoLiveSocketLost
  <2> QED BY <2>2, <2>3, <2>4
<1>5. since[2] \in Int /\ since[2] <= MaxLag
  BY <1>1, <1>2, TimeAssumption DEF IInv, TypeOK, RoundBegins, Age, AgeLimit
<1>6. TypeOK'
  <2>1. sock' \in [Trackers -> {"none", "open", "closed"}]
    BY <1>3 DEF OpenTrackers
  <2>2. valid' \in [Trackers -> {-1, 0, 1}]
    BY <1>3 DEF OpenTrackers
  <2>3. tracker_age' \in Age
    BY <1>3, TimeAssumption DEF Age, AgeLimit
  <2> QED BY <1>1, <1>3, <1>4, <2>1, <2>2, <2>3 DEF IInv, TypeOK, peers
<1>7. OneRound' /\ PeersDue' /\ RoundBegins' /\ Idle' /\ NoLiveSocketLost'
  BY <1>2, <1>3, <1>4
     DEF OneRound, PeersDue, RoundBegins, Idle, NoLiveSocketLost
<1>8. RoundLasts'
  BY <1>1, <1>3, <1>5, TimeAssumption DEF RoundLasts
<1> QED BY <1>6, <1>7, <1>8 DEF IInv

\* A failure ends the loop and changes nothing else.
LEMMA FailureInv ==
    ASSUME IInv, ConnectTrackerFails \/ ConnectPeerFails
    PROVE  IInv'
<1>1. pc' \in {"returned", "crashed"} /\ UNCHANGED <<loop, ages, trackers, peers, world>>
  BY DEF ConnectTrackerFails, ConnectPeerFails
<1>2. TypeOK'
  BY <1>1 DEF IInv, TypeOK, loop, ages, trackers, peers
<1>3. OneRound' /\ PeersDue' /\ RoundBegins' /\ RoundLasts' /\ Idle' /\ NoLiveSocketLost'
  BY <1>1 DEF IInv, OneRound, PeersDue, RoundBegins, RoundLasts, Idle, NoLiveSocketLost,
              loop, ages, trackers
<1> QED BY <1>2, <1>3 DEF IInv

\* The stages that find nothing to do only move on.
LEMMA PassInv ==
    ASSUME IInv, NoTracker \/ NoPeer \/ KeepTrackerRound \/ KeepPeerRound
    PROVE  IInv'
<1>1. /\ UNCHANGED <<loop, ages, trackers, peers, world>>
      /\ pc' \in {"peer", "check_tracker", "check_peer", "top"}
  BY DEF NoTracker, NoPeer, KeepTrackerRound, KeepPeerRound
<1>2. TypeOK'
  BY <1>1 DEF IInv, TypeOK, loop, ages, trackers, peers
<1>3. OneRound' /\ Idle' /\ NoLiveSocketLost'
  BY <1>1 DEF IInv, OneRound, Idle, NoLiveSocketLost, loop, trackers
<1>4. tracker_age \in Int
  BY TimeAssumption DEF IInv, TypeOK, Age, AgeLimit
<1>5. PeersDue' /\ RoundBegins' /\ RoundLasts'
  <2>1. CASE NoTracker
    BY <2>1, <1>1 DEF NoTracker, TrackerDue, TrackerDue_AnyTime, IInv, PeersDue, RoundBegins,
                      RoundLasts, loop, ages
  <2>2. CASE NoPeer
    BY <2>2, <1>1 DEF NoPeer, IInv, PeersDue, RoundBegins, RoundLasts, loop, ages
  <2>3. CASE KeepTrackerRound
    BY <2>3, <1>1, <1>4, TimeAssumption
       DEF KeepTrackerRound, TrackerRoundOver, TrackerTimedOut, IInv, PeersDue,
           RoundBegins, RoundLasts, loop, ages
  <2>4. CASE KeepPeerRound
    BY <2>4, <1>1 DEF KeepPeerRound, IInv, PeersDue, RoundBegins, RoundLasts, loop, ages
  <2> QED BY <2>1, <2>2, <2>3, <2>4 DEF NoTracker, NoPeer, KeepTrackerRound, KeepPeerRound
<1> QED BY <1>2, <1>3, <1>5 DEF IInv

LEMMA ConnectPeerInv ==
    ASSUME IInv, ConnectPeer
    PROVE  IInv'
<1>1. /\ pc = "peer" /\ connect_peer /\ pc' = "check_tracker"
      /\ connect_peer' = FALSE /\ connecting_peer' = TRUE /\ peer_age' = 0
      /\ UNCHANGED <<connect_tracker, connecting_tracker, since, tracker_age, sock, lost, world>>
  BY DEF ConnectPeer
<1>2. ~connecting_tracker
  BY <1>1 DEF IInv, PeersDue
<1>3. PICK n \in 0 .. PeerSlots : OpenPeers(n)
  BY DEF ConnectPeer
<1>4. PICK outcome \in [Trackers -> {"refused", "made", "in progress"}] :
        valid' = [t \in Trackers |->
            IF t > n \/ t > world.peer_addrs \/ valid[t] = 0 \/ outcome[t] = "in progress"
            THEN valid[t] ELSE IF outcome[t] = "made" THEN 1 ELSE 0]
  BY <1>3 DEF OpenPeers
<1>5. valid' \in [Trackers -> {-1, 0, 1}] /\ \A t \in Trackers : valid[t] = 0 => valid'[t] = 0
  BY <1>4 DEF IInv, TypeOK
<1>6. TypeOK'
  <2>1. peer_sock' \in [Slots -> {"none", "open", "foreign", "closed"}]
    BY <1>3 DEF OpenPeers
  <2>2. peer_valid' \in [Slots -> {-1, 0, 1}]
    BY <1>3 DEF OpenPeers
  <2>3. peer_age' = 0
    BY <1>1
  <2> QED BY <1>1, <1>5, <2>1, <2>2, <2>3, ZeroIsAge DEF IInv, TypeOK
<1>7. OneRound' /\ PeersDue' /\ RoundBegins' /\ RoundLasts' /\ NoLiveSocketLost'
  BY <1>1, <1>2 DEF IInv, OneRound, PeersDue, RoundBegins, RoundLasts, NoLiveSocketLost
<1>8. Idle'
  BY <1>1, <1>2, <1>5 DEF IInv, Idle
<1> QED BY <1>6, <1>7, <1>8 DEF IInv

LEMMA EndTrackerRoundInv ==
    ASSUME IInv, EndTrackerRound
    PROVE  IInv'
<1>1. /\ pc = "check_tracker" /\ connecting_tracker /\ TrackerRoundOver /\ pc' = "top"
      /\ connecting_tracker' = FALSE /\ since' = [since EXCEPT ![2] = 0]
      /\ NextPhase
      /\ UNCHANGED <<connecting_peer, tracker_age, peer_age, valid, lost, peers, world>>
  BY DEF EndTrackerRound
<1>2. sock' = Closed
  BY DEF EndTrackerRound
<1>3. ~connecting_peer /\ ~connect_peer
  BY <1>1 DEF IInv, OneRound, PeersDue
<1>4. since' \in [0 .. 2 -> Age] /\ since'[2] = 0
  BY <1>1, TimeAssumption DEF IInv, TypeOK, Age, AgeLimit
<1>5. sock' \in [Trackers -> {"none", "open", "closed"}]
  BY <1>2 DEF Closed, IInv, TypeOK
<1>6. \A t \in Trackers : sock'[t] = "open" => valid[t] = 0
  BY <1>1, <1>2 DEF Closed, TrackerRoundOver
<1>8. TypeOK'
  <2>1. connect_tracker' \in BOOLEAN /\ connect_peer' \in BOOLEAN
    BY <1>1 DEF NextPhase, IInv, TypeOK
  <2> QED BY <1>1, <1>4, <1>5, <2>1 DEF IInv, TypeOK, peers
<1>9. OneRound' /\ RoundLasts' /\ Idle' /\ NoLiveSocketLost'
  BY <1>1, <1>6 DEF IInv, OneRound, RoundLasts, Idle, NoLiveSocketLost
<1>10. PeersDue' /\ RoundBegins'
  BY <1>1, <1>3, <1>4 DEF PeersDue, RoundBegins, NextPhase
<1> QED BY <1>8, <1>9, <1>10 DEF IInv

LEMMA EndPeerRoundInv ==
    ASSUME IInv, EndPeerRound
    PROVE  IInv'
<1>1. /\ connecting_peer /\ pc' = "top" /\ connect_peer' = FALSE
      /\ connect_tracker' = (connect_tracker \/ ~world.peer_head)
      /\ UNCHANGED <<connecting_tracker, connecting_peer, ages, trackers, peer_valid, world>>
  BY DEF EndPeerRound
<1>2. peer_sock' = ClosedPeers
  BY DEF EndPeerRound
<1>3. ~connecting_tracker
  BY <1>1 DEF IInv, OneRound
<1>4. peer_sock' \in [Slots -> {"none", "open", "foreign", "closed"}]
  BY <1>2 DEF ClosedPeers, IInv, TypeOK
<1>5. connect_tracker' \in BOOLEAN
  BY <1>1
<1>6. TypeOK'
  BY <1>1, <1>4, <1>5 DEF IInv, TypeOK, ages, trackers
<1>7. OneRound' /\ PeersDue' /\ RoundBegins' /\ RoundLasts' /\ Idle' /\ NoLiveSocketLost'
  BY <1>1, <1>3 DEF IInv, OneRound, PeersDue, RoundBegins, RoundLasts, Idle, NoLiveSocketLost,
                    trackers
<1> QED BY <1>6, <1>7 DEF IInv

-----------------------------------------------------------------------------
LEMMA NextInv ==
    ASSUME IInv, [Next]_vars
    PROVE  IInv'
<1>1. ASSUME NEW d \in 0 .. MaxLag, Top(d) PROVE IInv'
  BY <1>1, TopInv
<1>2. CASE ConnectTracker
  BY <1>2, ConnectTrackerInv
<1>3. CASE ConnectTrackerFails \/ ConnectPeerFails
  BY <1>3, FailureInv
<1>4. CASE NoTracker \/ NoPeer \/ KeepTrackerRound \/ KeepPeerRound
  BY <1>4, PassInv
<1>5. CASE ConnectPeer
  BY <1>5, ConnectPeerInv
<1>6. CASE EndTrackerRound
  BY <1>6, EndTrackerRoundInv
<1>7. CASE EndPeerRound
  BY <1>7, EndPeerRoundInv
<1>8. CASE UNCHANGED vars
  <2>1. UNCHANGED <<pc, loop, ages, trackers, peers, world>>
    BY <1>8 DEF vars
  <2>2. TypeOK'
    BY <2>1 DEF IInv, TypeOK, loop, ages, trackers, peers
  <2>3. OneRound' /\ PeersDue' /\ RoundBegins' /\ RoundLasts' /\ Idle' /\ NoLiveSocketLost'
    BY <2>1 DEF IInv, OneRound, PeersDue, RoundBegins, RoundLasts, Idle, NoLiveSocketLost,
                loop, ages, trackers
  <2> QED BY <2>2, <2>3 DEF IInv
<1> QED BY <1>1, <1>2, <1>3, <1>4, <1>5, <1>6, <1>7, <1>8 DEF Next, Ended

\* IInv is an invariant of the loop.
THEOREM Invariance == Spec => []IInv
<1>1. Init => IInv
  BY InitInv
<1>2. IInv /\ [Next]_vars => IInv'
  BY NextInv
<1> QED BY <1>1, <1>2, PTL DEF Spec

\* Every turn of the loop keeps the types of its variables.
THEOREM TypeCorrect == Spec => []TypeOK
<1>1. IInv => TypeOK
  BY DEF IInv
<1> QED BY <1>1, Invariance, PTL

\* The loop is never in a round with the trackers and one with the peers.
THEOREM OneRoundHolds == Spec => []OneRound
<1>1. IInv => OneRound
  BY DEF IInv
<1> QED BY <1>1, Invariance, PTL

\* A round with the trackers is given up in the first turn after the timeout.
THEOREM TrackerRoundIsBounded == Spec => []TrackerGivenUp
<1>1. IInv => TrackerGivenUp
  BY DEF IInv, RoundLasts, TrackerGivenUp
<1> QED BY <1>1, Invariance, PTL

\* Only sockets of failed connections are overwritten while open.
THEOREM LiveSocketsAreClosed == Spec => []NoLiveSocketLost
<1>1. IInv => NoLiveSocketLost
  BY DEF IInv
<1> QED BY <1>1, Invariance, PTL

=============================================================================
