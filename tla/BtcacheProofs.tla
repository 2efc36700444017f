--------------------------- MODULE BtcacheProofs ---------------------------
(***************************************************************************)
(* Proofs about Btcache: the invariant IInv is inductive, and with it the  *)
(* disk only ever gets slices that a hash vouched for, and changes as      *)
(* PieceStore says.                                                        *)
(***************************************************************************)
EXTENDS Btcache, FiniteSetTheorems, TLAPS

-----------------------------------------------------------------------------
(***************************************************************************)
(* The constants.                                                          *)
(***************************************************************************)
\* The last piece and the first slot exist, and right contents are contents.
LEMMA ConstantFacts ==
    /\ LastPiece \in Piece
    /\ 0 \in Slot
    /\ RightContents \subseteq Content /\ Zero \in Content /\ Bad \in Content
    /\ \A i \in Piece, k \in Slot : <<i, k>> \in Place /\ Original[<<i, k>>] \in Content
BY PieceCountAssumption, SizeAssumption, ContentAssumption
   DEF LastPiece, Piece, Slot, Place, Content

\* A finite number of pieces is counted.
LEMMA CountedType == ASSUME NEW F \in SUBSET Group PROVE Counted(F) \in Nat
<1>1. IsFiniteSet(Group)
  BY SizeAssumption, FS_Interval DEF Group
<1>2. IsFiniteSet(F)
  BY <1>1, FS_Subset
<1> QED BY <1>2, FS_CardinalityType DEF Counted

LEMMA CountBitsType == ASSUME NEW B \in SUBSET Bit PROVE CountBits(B, 0) \in Nat
<1> DEFINE C == {b \in B : b \div 8 < bitfield_length - 1}
<1>1. bitfield_length \in Int
  BY PieceCountAssumption DEF bitfield_length
<1>2. IsFiniteSet(Bit)
  BY <1>1, FS_Interval DEF Bit
<1>3. IsFiniteSet(C)
  BY <1>2, FS_Subset
<1>4. Cardinality(C) \in Nat
  BY <1>3, FS_CardinalityType
<1> QED BY <1>4 DEF CountBits

-----------------------------------------------------------------------------
(***************************************************************************)
(* The steps inside a call keep CacheInv.                                  *)
(***************************************************************************)
\* A slice stored in the group that holds its piece.
LEMMA StoreKeeps ==
    ASSUME CacheInv(cache, disk),
           NEW i \in Piece, NEW k \in Slot, NEW x \in Content, NEW g \in Group,
           i # LastPiece, g \in Holding(cache, i)
    PROVE  CacheInv(StoreReceived(i, k, x, g), disk)
<1> DEFINE c == StoreReceived(i, k, x, g)
           n == ReceivedNode(i, k, x)
<1>1. n \in Node /\ n.index = i /\ n.begin = k /\ n.in_use /\ n.is_full
      /\ n.read_write = "write" /\ n.buff = x
  BY ConstantFacts DEF ReceivedNode, Node, Piece
<1>2. c \in [Group -> [Slot -> Node]]
  BY <1>1 DEF CacheInv, StoreReceived
<1>3. c[g][k] = n
  BY DEF CacheInv, StoreReceived
<1>4. \A h \in Group, l \in Slot : h # g \/ l # k => c[h][l] = cache[h][l]
  BY DEF CacheInv, StoreReceived
<1> HIDE DEF c, n
<1>5. NodeShape(c)
  BY <1>1, <1>3, <1>4 DEF CacheInv, NodeShape
<1>6. Coherent(c, disk)
  BY <1>1, <1>3, <1>4 DEF CacheInv, Coherent
<1>7. OneGroup(c)
  <2> SUFFICES ASSUME NEW h1 \in Group, NEW h2 \in Group, NEW l1 \in Slot, NEW l2 \in Slot,
                      c[h1][l1].in_use, c[h2][l2].in_use,
                      c[h1][l1].index = c[h2][l2].index
               PROVE  h1 = h2
    BY DEF OneGroup
  <2>1. PICK m \in Slot : cache[g][m].index = i /\ cache[g][m].in_use
    BY DEF Holding
  <2>2. CASE h1 = g /\ l1 = k
    BY <2>1, <2>2, <1>1, <1>3, <1>4 DEF CacheInv, OneGroup
  <2>3. CASE h2 = g /\ l2 = k
    BY <2>1, <2>3, <1>1, <1>3, <1>4 DEF CacheInv, OneGroup
  <2>4. CASE ~(h1 = g /\ l1 = k) /\ ~(h2 = g /\ l2 = k)
    BY <2>4, <1>4 DEF CacheInv, OneGroup
  <2> QED BY <2>2, <2>3, <2>4
<1> QED BY <1>2, <1>5, <1>6, <1>7 DEF CacheInv, c

-----------------------------------------------------------------------------
(***************************************************************************)
(* Writing verified groups to disk.                                        *)
(***************************************************************************)
\* All the nodes of the groups G were filled by peers: what is_a_complete_piece
\* and write_btcache_to_harddisk check before they call.
AllReceived(c, G) == \A g \in G, k \in Slot : c[g][k].read_write = "write"

\* The buffers of a verified group are the right contents of one piece.  Its
\* labels need not be: each node has a slot of its own, of any piece but the last.
LEMMA VerifiedGroup ==
    ASSUME NEW c, NEW d, CacheInv(c, d), NEW G \in SUBSET Group, AllReceived(c, G),
           NEW g \in Verified(c, G), NEW k \in Slot
    PROVE  /\ g \in G /\ g \in Group
           /\ c[g][0].index \in Piece \ {LastPiece}
           /\ c[g][k].in_use
           /\ c[g][k].index \in Piece \ {LastPiece}
           /\ c[g][k].begin = k
           /\ c[g][k].buff = Original[<<c[g][0].index, k>>]
<1>1. g \in G /\ g \in Group /\ c[g][k].buff = Original[<<c[g][0].index, k>>]
  BY DEF Verified, HashMatches
<1>2. \A l \in Slot : /\ c[g][l].read_write = "write"
                      /\ c[g][l].in_use /\ c[g][l].index \in Piece \ {LastPiece}
                      /\ c[g][l].begin = l
  BY <1>1 DEF CacheInv, NodeShape, AllReceived
<1> QED BY <1>1, <1>2, ConstantFacts

\* The places that the labels of the nodes W name.
NamedBy(c, W) == {<<c[w[1]][w[2]].index, w[2]>> : w \in W}

\* The place that node w of W names has the content that the hash of its group
\* vouched for.
HasVouched(c, W, w) ==
    DiskAfter(c, W)[c[w[1]][w[2]].index][w[2]] = Original[<<c[w[1]][0].index, w[2]>>]

\* What a set of nodes of verified groups leaves on disk: the places they name
\* get what the hash vouched for, all others stay as they are.
LEMMA DiskAfterValue ==
    ASSUME NEW c, CacheInv(c, disk), NEW G \in SUBSET Group, AllReceived(c, G),
           NEW W \in SUBSET (Verified(c, G) \X Slot)
    PROVE  /\ \A w \in W : HasVouched(c, W, w)
           /\ \A i \in Piece, k \in Slot :
                 <<i, k>> \notin NamedBy(c, W) => DiskAfter(c, W)[i][k] = disk[i][k]
<1>1. \A w \in W : /\ w = <<w[1], w[2]>> /\ w[1] \in Verified(c, G) /\ w[1] \in Group
                   /\ w[2] \in Slot
  BY DEF Verified
<1>2. \A w \in W : /\ NodeAt(c, w) = c[w[1]][w[2]]
                   /\ NodeAt(c, w).in_use
                   /\ NodeAt(c, w).index \in Piece
                   /\ NodeAt(c, w).begin = w[2]
                   /\ NodeAt(c, w).buff = Original[<<c[w[1]][0].index, w[2]>>]
  BY <1>1, VerifiedGroup DEF NodeAt
<1>3. \A v, w \in W :
         NodeAt(c, v).index = NodeAt(c, w).index /\ NodeAt(c, v).begin = NodeAt(c, w).begin
         => v = w
  <2> SUFFICES ASSUME NEW v \in W, NEW w \in W, NodeAt(c, v).index = NodeAt(c, w).index,
                      NodeAt(c, v).begin = NodeAt(c, w).begin
               PROVE  v = w
    OBVIOUS
  <2>1. v[2] = w[2]
    BY <1>2
  <2>2. /\ v[1] \in Group /\ v[2] \in Slot /\ c[v[1]][v[2]].in_use
        /\ w[1] \in Group /\ w[2] \in Slot /\ c[w[1]][w[2]].in_use
        /\ c[v[1]][v[2]].index = c[w[1]][w[2]].index
    BY <1>1, <1>2
  <2>3. OneGroup(c)
    BY DEF CacheInv
  <2>4. v[1] = w[1]
    BY <2>2, <2>3 DEF OneGroup
  <2> QED BY <2>1, <2>4, <1>1
<1>4. \A i \in Piece, k \in Slot :
        DiskAfter(c, W)[i][k] =
          IF WritersOf(c, W, i, k) = {} THEN disk[i][k]
          ELSE NodeAt(c, CHOOSE w \in WritersOf(c, W, i, k) :
                           \A v \in WritersOf(c, W, i, k) : v = w \/ Later(w, v)).buff
  BY DEF DiskAfter
<1>5. ASSUME NEW w \in W
      PROVE  HasVouched(c, W, w)
  <2> DEFINE i == NodeAt(c, w).index
             k == w[2]
             ws == WritersOf(c, W, i, k)
             last(u) == \A v \in ws : v = u \/ Later(u, v)
  <2>1. i \in Piece /\ k \in Slot
    BY <1>1, <1>2
  <2>2. ws = {w}
    BY <1>2, <1>3 DEF WritersOf
  <2>3. last(w)
    BY <2>2
  <2>4. (CHOOSE u \in ws : last(u)) = w
    BY <2>2, <2>3
  <2>5. DiskAfter(c, W)[i][k] = IF ws = {} THEN disk[i][k]
                                ELSE NodeAt(c, CHOOSE u \in ws : last(u)).buff
    BY <1>4, <2>1
  <2> HIDE DEF last, ws
  <2>6. DiskAfter(c, W)[i][k] = NodeAt(c, w).buff
    BY <2>2, <2>4, <2>5
  <2> QED BY <2>6, <1>2 DEF HasVouched
<1>6. ASSUME NEW i \in Piece, NEW k \in Slot, <<i, k>> \notin NamedBy(c, W)
      PROVE  DiskAfter(c, W)[i][k] = disk[i][k]
  <2>1. \A w \in W : ~(c[w[1]][w[2]].index = i /\ w[2] = k)
    BY <1>6 DEF NamedBy
  <2>2. WritersOf(c, W, i, k) = {}
    BY <1>2, <2>1 DEF WritersOf
  <2> QED BY <1>4, <2>2
<1> QED BY <1>5, <1>6

\* Node k of the verified group g wrote place k of piece i.
WrittenFrom(c, G, W, i, k, g) ==
    /\ g \in Verified(c, G) /\ <<g, k>> \in W /\ c[g][k].index = i /\ i # LastPiece
    /\ c[g][0].index \in Piece \ {LastPiece}
    /\ DiskAfter(c, W)[i][k] = Original[<<c[g][0].index, k>>]

\* The same for one place: it is as before, or a node of the set names it.
LEMMA PlaceAfter ==
    ASSUME NEW c, CacheInv(c, disk), NEW G \in SUBSET Group, AllReceived(c, G),
           NEW W \in SUBSET (Verified(c, G) \X Slot), NEW i \in Piece, NEW k \in Slot,
           DiskAfter(c, W)[i][k] # disk[i][k]
    PROVE  \E g : WrittenFrom(c, G, W, i, k, g)
<1>1. <<i, k>> \in NamedBy(c, W)
  BY DiskAfterValue
<1>2. PICK w \in W : <<i, k>> = <<c[w[1]][w[2]].index, w[2]>>
  BY <1>1 DEF NamedBy
<1>3. PICK g \in Verified(c, G) : g = w[1] /\ w = <<g, k>>
  BY <1>2
<1>4. HasVouched(c, W, w)
  BY DiskAfterValue, Zenon
<1>5. c[g][k].index = i
  BY <1>2, <1>3
<1>6. c[g][k].index \in Piece \ {LastPiece} /\ c[g][0].index \in Piece \ {LastPiece}
  BY VerifiedGroup, Zenon
<1>7. DiskAfter(c, W)[i][k] = Original[<<c[g][0].index, k>>]
  BY <1>2, <1>3, <1>4 DEF HasVouched
<1>8. <<g, k>> \in W
  BY <1>3
<1> QED BY <1>5, <1>6, <1>7, <1>8 DEF WrittenFrom

\* Whatever part of the verified groups is written, the disk stays right.
LEMMA DiskAfterKeeps ==
    ASSUME NEW c, CacheInv(c, disk), NEW G \in SUBSET Group, AllReceived(c, G),
           NEW W \in SUBSET (Verified(c, G) \X Slot)
    PROVE  /\ DiskAfter(c, W) \in [Piece -> [Slot -> Content]]
           /\ Integrity(DiskAfter(c, W))
<1>1. ASSUME NEW i \in Piece, NEW k \in Slot, DiskAfter(c, W)[i][k] # disk[i][k]
      PROVE  DiskAfter(c, W)[i][k] \in Vouched(k) /\ i # LastPiece
  <2>1. PICK g : WrittenFrom(c, G, W, i, k, g)
    BY <1>1, PlaceAfter
  <2> QED BY <2>1 DEF WrittenFrom, Vouched
<1>2. \A i \in Piece, k \in Slot : disk[i][k] \in Content
  BY DEF CacheInv
<1>3. \A k \in Slot : Vouched(k) \subseteq Content
  BY ConstantFacts DEF Vouched
<1>4. \A i \in Piece, k \in Slot : DiskAfter(c, W)[i][k] \in Content
  BY <1>1, <1>2, <1>3
<1>5. DiskAfter(c, W) = [i \in Piece |-> [k \in Slot |-> DiskAfter(c, W)[i][k]]]
  BY DEF DiskAfter
<1>6. DiskAfter(c, W) \in [Piece -> [Slot -> Content]]
  BY <1>4, <1>5
<1>7. Integrity(DiskAfter(c, W))
  BY <1>1 DEF CacheInv, Integrity
<1> QED BY <1>6, <1>7

\* Groups that are emptied disturb nothing.
LEMMA ResetKeeps ==
    ASSUME NEW c, NEW d, CacheInv(c, d), NEW F \in SUBSET Group
    PROVE  CacheInv(Reset(c, F), d)
<1>1. ResetNode \in Node /\ ~ResetNode.in_use /\ ~ResetNode.is_full
      /\ ResetNode.read_write = "none"
  BY ConstantFacts DEF ResetNode, initialize_btcache_node, Node
<1>2. \A g \in Group, k \in Slot :
        Reset(c, F)[g][k] = IF g \in F THEN ResetNode ELSE c[g][k]
  BY DEF Reset
<1>3. Reset(c, F) \in [Group -> [Slot -> Node]]
  BY <1>1 DEF CacheInv, Reset
<1>4. NodeShape(Reset(c, F))
  BY <1>1, <1>2 DEF CacheInv, NodeShape
<1>5. OneGroup(Reset(c, F))
  BY <1>1, <1>2 DEF CacheInv, OneGroup
<1>6. Coherent(Reset(c, F), d)
  BY <1>1, <1>2 DEF CacheInv, Coherent
<1> QED BY <1>3, <1>4, <1>5, <1>6 DEF CacheInv

\* The verified groups are written and emptied.  No node read from disk goes
\* stale: a node of a piece that is written is in the group that is emptied.
LEMMA WriteKeeps ==
    ASSUME NEW c, CacheInv(c, disk), NEW G \in SUBSET Group, AllReceived(c, G)
    PROVE  CacheInv(Reset(c, Verified(c, G)), DiskAfter(c, Verified(c, G) \X Slot))
<1> DEFINE F  == Verified(c, G)
           W  == F \X Slot
           c2 == Reset(c, F)
           d2 == DiskAfter(c, W)
<1>1. F \in SUBSET Group
  BY DEF Verified
<1>2. CacheInv(c2, disk)
  BY <1>1, ResetKeeps
<1>3. d2 \in [Piece -> [Slot -> Content]] /\ Integrity(d2)
  BY DiskAfterKeeps
<1>4. Coherent(c2, d2)
  <2> SUFFICES ASSUME NEW g \in Group, NEW k \in Slot,
                      c2[g][k].in_use, c2[g][k].read_write = "read"
               PROVE  c2[g][k].buff = d2[c2[g][k].index][k]
    BY DEF Coherent
  <2> DEFINE i == c2[g][k].index
  <2>1. c2[g][k].buff = disk[i][k] /\ i \in Piece
    BY <1>2 DEF CacheInv, Coherent, NodeShape
  <2>2. g \notin F /\ c2[g][k] = c[g][k]
    BY <1>1 DEF Reset, ResetNode, initialize_btcache_node
  <2>3. ASSUME d2[i][k] # disk[i][k] PROVE FALSE
    <3>1. W \in SUBSET (Verified(c, G) \X Slot)
      OBVIOUS
    <3> HIDE DEF W
    <3>2. PICK h \in Verified(c, G) : c[h][k].index = i
      <4>1. i \in Piece /\ DiskAfter(c, W)[i][k] # disk[i][k]
        BY <2>1, <2>3
      <4> HIDE DEF d2, i
      <4>2. \E h : WrittenFrom(c, G, W, i, k, h)
        BY <3>1, <4>1, PlaceAfter
      <4> QED BY <4>2 DEF WrittenFrom
    <3>3. c[h][k].in_use /\ h \in Group
      BY <3>2, VerifiedGroup
    <3>4. h = g
      BY <3>2, <3>3, <2>2 DEF CacheInv, OneGroup
    <3> QED BY <3>2, <3>4, <2>2
  <2> QED BY <2>1, <2>3
<1> QED BY <1>2, <1>3, <1>4 DEF CacheInv

-----------------------------------------------------------------------------
(***************************************************************************)
(* Starting.                                                               *)
(***************************************************************************)
\* The byte written at the end of the file is in the last piece, of which
\* nothing is stored.
LEMMA CreateFilesSame ==
    ASSUME NEW d \in [Piece -> [Slot -> Content]], Integrity(d)
    PROVE  create_files(d) = d
<1>1. d[LastPiece][LastSlot] = Zero
  BY ConstantFacts, SizeAssumption DEF Integrity
<1>2. create_files(d) =
        [d EXCEPT ![LastPiece] =
            [d[LastPiece] EXCEPT ![LastSlot] =
                IF d[LastPiece][LastSlot] = Zero THEN Zero ELSE Bad]]
  BY DEF create_files
<1>3. d[LastPiece] \in [Slot -> Content]
  BY ConstantFacts
<1>4. [d[LastPiece] EXCEPT ![LastSlot] = Zero] = d[LastPiece]
  BY <1>1, <1>3
<1> QED BY <1>1, <1>2, <1>4

\* A fresh cache satisfies the invariant, whatever index its nodes start with.
LEMMA FreshCache ==
    ASSUME NEW h \in [Group -> [Slot -> HeapGarbage]],
           NEW d \in [Piece -> [Slot -> Content]], Integrity(d)
    PROVE  CacheInv(create_btcache(h), d)
<1>1. \A g \in Group, k \in Slot :
         /\ create_btcache(h)[g][k] = initialize_btcache_node(h[g][k])
         /\ h[g][k] \in Int
  BY LimitAssumption DEF create_btcache
<1>2. \A x \in Int : /\ initialize_btcache_node(x) \in Node
                     /\ ~initialize_btcache_node(x).in_use
                     /\ ~initialize_btcache_node(x).is_full
                     /\ initialize_btcache_node(x).read_write = "none"
  BY ConstantFacts DEF initialize_btcache_node, Node
<1>3. create_btcache(h) \in [Group -> [Slot -> Node]]
  BY <1>1, <1>2 DEF create_btcache
<1>4. /\ NodeShape(create_btcache(h)) /\ OneGroup(create_btcache(h))
      /\ Coherent(create_btcache(h), d)
  BY <1>1, <1>2 DEF NodeShape, OneGroup, Coherent
<1> QED BY <1>3, <1>4 DEF CacheInv

\* What the bitmap file gives is a bitmap.
LEMMA LoadBitsType == ASSUME NEW f PROVE LoadBits(f) \subseteq Bit
BY DEF LoadBits

-----------------------------------------------------------------------------
(***************************************************************************)
(* Every action keeps the invariant.                                       *)
(***************************************************************************)
\* The groups verified are written, emptied and counted.
LEMMA WriteStep ==
    ASSUME IInv, NEW c, CacheInv(c, disk), NEW G \in SUBSET Group, AllReceived(c, G),
           NEW p \in Peers, write_piece_to_harddisk(c, G, p)
    PROVE  IInv'
<1> DEFINE F == Verified(c, G)
<1>1. CacheInv(cache, disk)'
  BY WriteKeeps DEF write_piece_to_harddisk
<1>2. bitmap' \subseteq Bit
  BY DEF write_piece_to_harddisk, SetBitOutcomes, IInv, TypeOK
<1>3. bitmap_file' \in BitmapFile
  BY DEF write_piece_to_harddisk, restore_bitmap, RestoredFile, IInv, TypeOK
<1>4. download_piece_num' \in Nat
  <2>1. F \in SUBSET Group
    BY DEF Verified
  <2>2. Counted(F) \in Nat
    BY <2>1, CountedType
  <2> QED BY <2>2 DEF write_piece_to_harddisk, IInv, TypeOK
<1>5. requests' \in [Peers -> SUBSET Place]
  BY DEF write_piece_to_harddisk, IInv, TypeOK
<1>6. restarts' \in 0 .. MaxRestarts
  BY DEF write_piece_to_harddisk, IInv, TypeOK
<1> QED BY <1>1, <1>2, <1>3, <1>4, <1>5, <1>6 DEF IInv, TypeOK, CacheInv

\* The program starts again over a disk that is right.
LEMMA StartStep ==
    ASSUME IInv, NEW d \in [Piece -> [Slot -> Content]], Integrity(d), StartAgain(d)
    PROVE  IInv'
<1>1. CacheInv(cache, disk)'
  BY FreshCache, CreateFilesSame DEF StartAgain
<1>2. bitmap' \subseteq Bit
  BY LoadBitsType DEF StartAgain
<1>3. download_piece_num' \in Nat
  BY <1>2, CountBitsType DEF StartAgain
<1>4. requests' \in [Peers -> SUBSET Place]
  BY DEF StartAgain, NoRequests
<1>5. restarts' \in 0 .. MaxRestarts /\ bitmap_file' \in BitmapFile
  BY LimitAssumption DEF StartAgain, IInv, TypeOK
<1> QED BY <1>1, <1>2, <1>3, <1>4, <1>5 DEF IInv, TypeOK, CacheInv

\* A slice is stored over a slice of a group that is fully in use: its node
\* keeps begin, which is its slot, and no other node has the piece.
LEMMA OverUsedStep ==
    ASSUME IInv, NEW i \in Piece, NEW k \in Slot, NEW x \in Content, NEW g \in Group,
           StoreOverUsedGroup(i, k, x, g)
    PROVE  CacheInv(cache', disk)
<1> DEFINE n == OverwrittenNode(cache[g][k], i, x)
<1>1. /\ i # LastPiece /\ cache[g][k].in_use /\ cache[g][k].begin = k
      /\ cache[g][k] \in Node
      /\ \A h \in Group, l \in Slot : ~(cache[h][l].index = i /\ cache[h][l].in_use)
  BY DEF StoreOverUsedGroup, Taken, IsFirst, FullyUsed, Holding, IInv, CacheInv, NodeShape
<1>2. i \in Int /\ x \in Content
  BY ConstantFacts DEF Piece
<1>3. n \in Node /\ n.index = i /\ n.begin = k /\ n.in_use /\ n.is_full
      /\ n.read_write = "write" /\ n.buff = x
  BY <1>1, <1>2 DEF Node, OverwrittenNode
<1>4. cache' \in [Group -> [Slot -> Node]]
  BY <1>3 DEF StoreOverUsedGroup, IInv, CacheInv
<1>5. cache'[g][k] = n
  BY DEF StoreOverUsedGroup, IInv, CacheInv
<1>6. \A h \in Group, l \in Slot : h # g \/ l # k => cache'[h][l] = cache[h][l]
  BY DEF StoreOverUsedGroup, IInv, CacheInv
<1> HIDE DEF n
<1>7. NodeShape(cache')
  BY <1>1, <1>3, <1>5, <1>6 DEF IInv, CacheInv, NodeShape
<1>8. OneGroup(cache')
  BY <1>1, <1>3, <1>5, <1>6 DEF IInv, CacheInv, OneGroup
<1>9. Coherent(cache', disk)
  BY <1>3, <1>5, <1>6 DEF IInv, CacheInv, Coherent
<1> QED BY <1>4, <1>7, <1>8, <1>9 DEF IInv, CacheInv

\* A piece no group holds is read into a group that is not in use, up to the
\* slot at which the read fails.
LEMMA ReadStep ==
    ASSUME IInv, NEW g \in Group, NEW i \in Piece, NEW n \in 0 .. SliceCount,
           read_piece_from_harddisk(g, i, n)
    PROVE  CacheInv(cache', disk)
<1>1. /\ \A l \in Slot : ~cache[g][l].in_use
      /\ \A h \in Group, l \in Slot : ~(cache[h][l].index = i /\ cache[h][l].in_use)
  BY DEF read_piece_from_harddisk, AllUnused, Holding
<1>2. ASSUME NEW l \in Slot
      PROVE  /\ cache'[g][l] \in Node
             /\ \/ /\ cache'[g][l].in_use /\ cache'[g][l].is_full
                   /\ cache'[g][l].index = i /\ cache'[g][l].begin = l
                   /\ cache'[g][l].read_write = "read" /\ cache'[g][l].buff = disk[i][l]
                \/ /\ ~cache'[g][l].in_use /\ ~cache'[g][l].is_full
                   /\ cache'[g][l].read_write = "none"
  <2>1. /\ cache[g][l] \in Node /\ ~cache[g][l].in_use /\ ~cache[g][l].is_full
        /\ cache[g][l].read_write = "none"
    BY <1>1 DEF IInv, CacheInv, NodeShape
  <2>2. disk[i][l] \in Content /\ i \in Int
    BY DEF IInv, CacheInv, Piece
  <2>3. CASE l < n
    <3>1. cache'[g][l] = ReadNode(i, l, disk[i][l])
      BY <2>3 DEF read_piece_from_harddisk, ReadPiece, IInv, CacheInv
    <3> QED BY <3>1, <2>2 DEF ReadNode, Node
  <2>4. CASE l = n
    <3>1. cache'[g][l] = UnreadNode(cache[g][l], i, l)
      BY <2>4 DEF read_piece_from_harddisk, ReadPiece, IInv, CacheInv, Slot
    <3> QED BY <3>1, <2>1, <2>2 DEF UnreadNode, Node
  <2>5. CASE ~(l < n) /\ l # n
    <3>1. cache'[g][l] = cache[g][l]
      BY <2>5 DEF read_piece_from_harddisk, ReadPiece, IInv, CacheInv
    <3> QED BY <3>1, <2>1
  <2> QED BY <2>3, <2>4, <2>5
<1>3. \A h \in Group : h # g => cache'[h] = cache[h]
  BY DEF read_piece_from_harddisk, ReadPiece, IInv, CacheInv
<1>4. cache' \in [Group -> [Slot -> Node]]
  <2>1. cache' = [cache EXCEPT ![g] = cache'[g]]
    BY DEF read_piece_from_harddisk, ReadPiece, IInv, CacheInv
  <2>2. cache'[g] = [l \in Slot |-> cache'[g][l]]
    BY DEF read_piece_from_harddisk, ReadPiece, IInv, CacheInv
  <2>3. cache'[g] \in [Slot -> Node]
    BY <1>2, <2>2
  <2> QED BY <2>1, <2>3 DEF IInv, CacheInv
<1>5. NodeShape(cache')
  BY <1>2, <1>3 DEF IInv, CacheInv, NodeShape
<1>6. OneGroup(cache')
  BY <1>1, <1>2, <1>3 DEF IInv, CacheInv, OneGroup
<1>7. Coherent(cache', disk)
  BY <1>2, <1>3 DEF IInv, CacheInv, Coherent
<1> QED BY <1>4, <1>5, <1>6, <1>7 DEF IInv, CacheInv

\* A node read from disk is counted as accessed once more.
LEMMA AccessStep ==
    ASSUME IInv, NEW g \in Group, NEW k \in Slot, CountAccess(g, k)
    PROVE  CacheInv(cache', disk)
<1> DEFINE n == AccessedNode(cache[g][k])
<1>1. cache[g][k] \in Node
  BY DEF IInv, CacheInv
<1>2. /\ n \in Node /\ n.index = cache[g][k].index /\ n.begin = cache[g][k].begin
      /\ n.in_use = cache[g][k].in_use /\ n.is_full = cache[g][k].is_full
      /\ n.read_write = cache[g][k].read_write /\ n.buff = cache[g][k].buff
  BY <1>1 DEF Node, AccessedNode
<1>3. cache' \in [Group -> [Slot -> Node]]
  BY <1>2 DEF CountAccess, IInv, CacheInv
<1>4. cache'[g][k] = n /\ \A h \in Group, l \in Slot : h # g \/ l # k => cache'[h][l] = cache[h][l]
  BY DEF CountAccess, IInv, CacheInv
<1> HIDE DEF n
<1>5. NodeShape(cache')
  BY <1>2, <1>4 DEF IInv, CacheInv, NodeShape
<1>6. OneGroup(cache')
  BY <1>2, <1>4 DEF IInv, CacheInv, OneGroup
<1>7. Coherent(cache', disk)
  BY <1>2, <1>4 DEF IInv, CacheInv, Coherent
<1> QED BY <1>3, <1>5, <1>6, <1>7 DEF IInv, CacheInv

-----------------------------------------------------------------------------
(***************************************************************************)
(* The invariant.                                                          *)
(***************************************************************************)
LEMMA InitInv == Init => IInv
<1> SUFFICES ASSUME Init PROVE IInv
  OBVIOUS
<1>1. NewFile \in [Piece -> [Slot -> Content]] /\ Integrity(NewFile)
  BY ConstantFacts DEF NewFile, Integrity
<1>2. CacheInv(cache, disk)
  BY <1>1, CreateFilesSame, FreshCache DEF Init
<1>3. bitmap \subseteq Bit /\ bitmap_file \in BitmapFile
  BY LoadBitsType, LimitAssumption DEF Init
<1>4. download_piece_num \in Nat
  BY <1>3, CountBitsType DEF Init
<1>5. requests \in [Peers -> SUBSET Place] /\ restarts \in 0 .. MaxRestarts
  BY LimitAssumption DEF Init, NoRequests
<1> QED BY <1>2, <1>3, <1>4, <1>5 DEF IInv, TypeOK, CacheInv

\* The caches that reach write_piece_to_harddisk, and the groups it is called
\* for: all of its nodes were received.
LEMMA ReadyReceived == IInv => /\ CacheInv(cache, disk)
                               /\ Ready(cache) \in SUBSET Group
                               /\ AllReceived(cache, Ready(cache))
BY DEF IInv, Ready, AllReceived

LEMMA CompletesReceived ==
    ASSUME IInv, NEW i \in Piece, NEW k \in Slot, NEW x \in Content,
           NEW g \in Group, NEW h \in Group, Completes(i, k, x, g, h)
    PROVE  /\ CacheInv(StoreReceived(i, k, x, g), disk)
           /\ {h} \in SUBSET Group
           /\ AllReceived(StoreReceived(i, k, x, g), {h})
<1>1. i # LastPiece /\ g \in Holding(cache, i)
  BY DEF Completes, Taken, IsFirst
<1> QED BY <1>1, StoreKeeps DEF IInv, Completes, is_a_complete_piece, AllReceived

\* An action that leaves all but the cache alone.
LEMMA OnlyCache ==
    ASSUME IInv, CacheInv(cache', disk),
           UNCHANGED <<disk, bitmap, bitmap_file, download_piece_num, requests, restarts>>
    PROVE  IInv'
BY DEF IInv, TypeOK, CacheInv

LEMMA SliceStep ==
    ASSUME IInv, NEW i \in Piece, NEW k \in Slot, NEW x \in Content, NEW p \in Peers,
           write_slice_to_btcache(i, k, x, p)
    PROVE  IInv'
<1>1. ASSUME NEW g \in Group, StoreInHeldGroup(i, k, x, g) PROVE IInv'
  <2>1. i # LastPiece /\ g \in Holding(cache, i)
    BY <1>1 DEF StoreInHeldGroup, Taken, IsFirst
  <2>2. CacheInv(cache', disk)
    BY <1>1, <2>1, StoreKeeps DEF StoreInHeldGroup, IInv
  <2> QED BY <1>1, <2>2, OnlyCache DEF StoreInHeldGroup
<1>2. ASSUME NEW g \in Group, StoreOverUsedGroup(i, k, x, g) PROVE IInv'
  <2>1. CacheInv(cache', disk)
    BY <1>2, OverUsedStep
  <2> QED BY <1>2, <2>1, OnlyCache DEF StoreOverUsedGroup
<1>3. ASSUME NEW g \in Group, NEW h \in Group, StoreAndFlush(i, k, x, g, h, p) PROVE IInv'
  <2>1. /\ Completes(i, k, x, g, h)
        /\ write_piece_to_harddisk(StoreReceived(i, k, x, g), {h}, p)
    BY <1>3 DEF StoreAndFlush
  <2> QED BY <2>1, CompletesReceived, WriteStep
<1>4. ASSUME DropEverything(i) PROVE IInv'
  <2>1. CacheInv(cache', disk)
    BY <1>4, ResetKeeps DEF DropEverything, IInv
  <2> QED BY <1>4, <2>1, OnlyCache DEF DropEverything
<1> QED BY <1>1, <1>2, <1>3, <1>4 DEF write_slice_to_btcache

\* The disk that a crash leaves is right.
LEMMA CrashStep ==
    ASSUME IInv, NEW c, CacheInv(c, disk), NEW G \in SUBSET Group, AllReceived(c, G),
           NEW cut, DieWriting(c, G, cut)
    PROVE  IInv'
<1> DEFINE W == {w \in Verified(c, G) \X Slot : ~Later(w, cut)}
<1>1. W \in SUBSET (Verified(c, G) \X Slot)
  OBVIOUS
<1>2. StartAgain(DiskAfter(c, W))
  BY DEF DieWriting
<1> HIDE DEF W
<1>3. DiskAfter(c, W) \in [Piece -> [Slot -> Content]] /\ Integrity(DiskAfter(c, W))
  BY <1>1, DiskAfterKeeps
<1> QED BY <1>2, <1>3, StartStep

LEMMA NextInv == IInv /\ [Next]_vars => IInv'
<1> SUFFICES ASSUME IInv, [Next]_vars PROVE IInv'
  OBVIOUS
<1>1. CASE SliceArrives
  BY <1>1, SliceStep DEF SliceArrives
<1>2. CASE Flush
  BY <1>2, ReadyReceived, WriteStep DEF Flush, write_btcache_to_harddisk
<1>3. CASE Release
  <2>1. PICK base \in 0 .. MaxAccess : release_read_btcache_node(base)
    BY <1>3 DEF Release
  <2>2. CacheInv(cache', disk)
    BY <2>1, ResetKeeps DEF release_read_btcache_node, IInv
  <2> QED BY <2>1, <2>2, OnlyCache DEF release_read_btcache_node
<1>4. CASE Load
  <2>1. PICK g \in Group, i \in Piece, n \in 0 .. SliceCount : read_piece_from_harddisk(g, i, n)
    BY <1>4 DEF Load
  <2>2. CacheInv(cache', disk)
    BY <2>1, ReadStep
  <2> QED BY <2>1, <2>2, OnlyCache DEF read_piece_from_harddisk, ReadPiece
<1>5. CASE Access
  <2>1. PICK g \in Group, k \in Slot : CountAccess(g, k)
    BY <1>5 DEF Access
  <2>2. CacheInv(cache', disk)
    BY <2>1, AccessStep
  <2> QED BY <2>1, <2>2, OnlyCache DEF CountAccess
<1>6. CASE Ask
  <2>1. PICK p \in Peers, i \in Piece, k \in Slot : Request(p, i, k)
    BY <1>6 DEF Ask
  <2> QED BY <2>1, ConstantFacts DEF Request, IInv, TypeOK, CacheInv
<1>7. CASE Restart
  BY <1>7, StartStep DEF Restart, IInv, CacheInv
<1>8. CASE Crash
  <2>1. PICK cut \in Group \X Slot :
          \/ CrashInFlush(cut)
          \/ \E i \in Piece, k \in Slot, x \in Content, g, h \in Group :
                 CrashInSlice(i, k, x, g, h, cut)
    BY <1>8 DEF Crash
  <2>2. CASE CrashInFlush(cut)
    BY <2>2, ReadyReceived, CrashStep DEF CrashInFlush
  <2>3. ASSUME NEW i \in Piece, NEW k \in Slot, NEW g \in Group, NEW h \in Group,
               NEW x \in Content, CrashInSlice(i, k, x, g, h, cut)
        PROVE  IInv'
    BY <2>3, CompletesReceived, CrashStep DEF CrashInSlice
  <2> QED BY <2>1, <2>2, <2>3
<1>9. CASE UNCHANGED vars
  BY <1>9 DEF vars, IInv, TypeOK, CacheInv
<1> QED BY <1>1, <1>2, <1>3, <1>4, <1>5, <1>6, <1>7, <1>8, <1>9 DEF Next

\* IInv holds in every state, for every size of the cache and of the download
\* and for every bound.
THEOREM Invariance == Spec => []IInv
BY InitInv, NextInv, PTL DEF Spec

\* The variables keep their types.
THEOREM TypeCorrect == Spec => []TypeOK
<1>1. IInv => TypeOK
  BY DEF IInv
<1> QED BY <1>1, Invariance, PTL

\* A piece is never spread over two groups.
THEOREM OneGroupHolds == Spec => []OneGroupPerPiece
<1>1. IInv => OneGroupPerPiece
  BY DEF IInv, CacheInv, OneGroupPerPiece
<1> QED BY <1>1, Invariance, PTL

\* A cached read is never stale.
THEOREM ReadsAreFresh == Spec => []ReadCoherent
<1>1. IInv => ReadCoherent
  BY DEF IInv, CacheInv, ReadCoherent
<1> QED BY <1>1, Invariance, PTL

------------------------------------------------------

-----------------------------------------------------------------------------
(***************************************************************************)
(* The disk gets what a hash vouched for.                                  *)
(***************************************************************************)
\* Nothing rides in the groups a write is called for but what Mislaid names.
LEMMA ReadyRiders == Riders(cache, Ready(cache)) \subseteq Mislaid(cache)
BY DEF Mislaid

LEMMA CompletesRiders ==
    ASSUME NEW i \in Piece, NEW k \in Slot, NEW x \in Content,
           NEW g \in Group, NEW h \in Group, Completes(i, k, x, g, h)
    PROVE  Riders(StoreReceived(i, k, x, g), {h}) \subseteq Mislaid(cache)
<1> DEFINE c == StoreReceived(i, k, x, g)
<1>1. \A l \in Slot : c[h][l].index = i
  BY DEF Completes, is_a_complete_piece
<1> HIDE DEF c
<1>2. Riders(c, {h}) = {}
  BY <1>1, ConstantFacts DEF Riders
<1> QED BY <1>2 DEF c

\* Whatever part of the verified groups is written.
LEMMA WriteVouched ==
    ASSUME NEW c, CacheInv(c, disk), NEW G \in SUBSET Group, AllReceived(c, G),
           Riders(c, G) \subseteq Mislaid(cache),
           NEW W \in SUBSET (Verified(c, G) \X Slot)
    PROVE  VouchedWritten(DiskAfter(c, W))
<1> DEFINE d2 == DiskAfter(c, W)
<1>1. ASSUME NEW i \in Piece, NEW k \in Slot, d2[i][k] # disk[i][k]
      PROVE  \/ d2[i][k] = Original[<<i, k>>]
             \/ <<i, k>> \in Mislaid(cache) /\ d2[i][k] \in Vouched(k)
  <2>1. PICK g : WrittenFrom(c, G, W, i, k, g)
    BY <1>1, PlaceAfter
  <2>2. CASE c[g][0].index = i
    BY <2>1, <2>2 DEF WrittenFrom
  <2>3. CASE c[g][0].index # i
    <3>1. <<g, k>> \in G \X Slot /\ c[g][k].index = i
      BY <2>1 DEF WrittenFrom, Verified
    <3>2. <<i, k>> \in Riders(c, G)
      BY <2>3, <3>1 DEF Riders
    <3>3. d2[i][k] \in Vouched(k)
      BY <2>1 DEF WrittenFrom, Vouched
    <3> QED BY <3>2, <3>3
  <2> QED BY <2>2, <2>3
<1> HIDE DEF d2
<1>2. \A r \in Place : r = <<r[1], r[2]>> /\ r[1] \in Piece /\ r[2] \in Slot
  BY DEF Place
<1>3. VouchedWritten(d2)
  BY <1>1, <1>2 DEF VouchedWritten
<1> QED BY <1>3 DEF d2

\* A disk that stays the same.
LEMMA SameVouched == VouchedWritten(disk)
BY DEF VouchedWritten

\* A crash leaves what was written so far, and create_files changes nothing.
LEMMA CrashVouched ==
    ASSUME IInv, NEW c, CacheInv(c, disk), NEW G \in SUBSET Group, AllReceived(c, G),
           Riders(c, G) \subseteq Mislaid(cache), NEW cut, DieWriting(c, G, cut)
    PROVE  VouchedWritten(disk')
<1> DEFINE W == {w \in Verified(c, G) \X Slot : ~Later(w, cut)}
<1>1. W \in SUBSET (Verified(c, G) \X Slot)
  OBVIOUS
<1>2. StartAgain(DiskAfter(c, W))
  BY DEF DieWriting
<1> HIDE DEF W
<1>3. create_files(DiskAfter(c, W)) = DiskAfter(c, W)
  BY <1>1, DiskAfterKeeps, CreateFilesSame
<1>4. disk' = DiskAfter(c, W)
  BY <1>2, <1>3 DEF StartAgain
<1>5. VouchedWritten(DiskAfter(c, W))
  BY <1>1, WriteVouched
<1> QED BY <1>4, <1>5

LEMMA FlushVouched ==
    ASSUME NEW c, CacheInv(c, disk), NEW G \in SUBSET Group, AllReceived(c, G),
           Riders(c, G) \subseteq Mislaid(cache), NEW p \in Peers,
           write_piece_to_harddisk(c, G, p)
    PROVE  VouchedWritten(disk')
<1> DEFINE W == Verified(c, G) \X Slot
<1>1. disk' = DiskAfter(c, W) /\ W \in SUBSET (Verified(c, G) \X Slot)
  BY DEF write_piece_to_harddisk
<1> HIDE DEF W
<1>2. VouchedWritten(DiskAfter(c, W))
  BY <1>1, WriteVouched
<1> QED BY <1>1, <1>2

LEMMA NextVouched == IInv /\ [Next]_vars => VouchedWritten(disk')
<1> SUFFICES ASSUME IInv, [Next]_vars PROVE VouchedWritten(disk')
  OBVIOUS
<1>1. CASE UNCHANGED disk
  BY <1>1, SameVouched
<1>2. ASSUME NEW i \in Piece, NEW k \in Slot, NEW x \in Content, NEW p \in Peers,
             write_slice_to_btcache(i, k, x, p)
      PROVE  VouchedWritten(disk')
  <2>1. ASSUME NEW g \in Group, NEW h \in Group, StoreAndFlush(i, k, x, g, h, p)
        PROVE  VouchedWritten(disk')
    BY <2>1, CompletesReceived, CompletesRiders, FlushVouched DEF StoreAndFlush
  <2> QED BY <1>1, <1>2, <2>1 DEF write_slice_to_btcache, StoreInHeldGroup,
                                  StoreOverUsedGroup, DropEverything
<1>3. CASE Flush
  BY <1>3, ReadyReceived, ReadyRiders, FlushVouched DEF Flush, write_btcache_to_harddisk
<1>4. CASE Release \/ Load \/ Access \/ Ask \/ UNCHANGED vars
  <2>1. UNCHANGED disk
    BY <1>4 DEF Release, release_read_btcache_node, Load, read_piece_from_harddisk, ReadPiece,
                Access, CountAccess, Ask, Request, vars
  <2> QED BY <1>1, <2>1
<1>5. CASE Restart
  <2>1. disk' = disk
    BY <1>5, CreateFilesSame DEF Restart, StartAgain, IInv, CacheInv
  <2> QED BY <1>1, <2>1
<1>6. CASE Crash
  <2>1. ASSUME NEW cut, CrashInFlush(cut) PROVE VouchedWritten(disk')
    BY <2>1, ReadyReceived, ReadyRiders, CrashVouched DEF CrashInFlush
  <2>2. ASSUME NEW cut, NEW i \in Piece, NEW k \in Slot, NEW g \in Group, NEW h \in Group,
               NEW x \in Content, CrashInSlice(i, k, x, g, h, cut)
        PROVE  VouchedWritten(disk')
    BY <2>2, CompletesReceived, CompletesRiders, CrashVouched DEF CrashInSlice
  <2> QED BY <1>6, <2>1, <2>2 DEF Crash
<1> QED BY <1>2, <1>3, <1>4, <1>5, <1>6 DEF Next, SliceArrives

\* What changes on disk becomes right, but for the slices that ride in a group
\* of another piece, and these get what the hash of that piece vouched for; no
\* sequence of calls of the cache, no label or content of a received slice and
\* no crash writes anything else.
THEOREM VouchedIsWritten == Spec => OnlyVouchedWritten
BY Invariance, NextVouched, PTL DEF Spec, OnlyVouchedWritten

-----------------------------------------------------------------------------
(***************************************************************************)
(* The disk implements PieceStore.                                         *)
(***************************************************************************)
\* The slices stored on a disk.
StoredOn(d) == {r \in Storable : d[r[1]][r[2]] = Original[r]}

\* The places that the nodes W name, if they have the label of the first node.
OwnBy(c, W) == {<<c[w[1]][w[2]].index, w[2]>> :
                  w \in {v \in W : c[v[1]][v[2]].index = c[v[1]][0].index}}

\* Writing the nodes W of verified groups stores those that have the label of
\* their first node, and touches no place that no node names.
LEMMA StoredAfter ==
    ASSUME NEW c, CacheInv(c, disk), NEW G \in SUBSET Group, AllReceived(c, G),
           NEW W \in SUBSET (Verified(c, G) \X Slot)
    PROVE  /\ OwnBy(c, W) \subseteq StoredOn(DiskAfter(c, W))
           /\ StoredOn(disk) \ NamedBy(c, W) \subseteq StoredOn(DiskAfter(c, W))
           /\ StoredOn(DiskAfter(c, W)) \subseteq
                 (StoredOn(disk) \cup NamedBy(c, W)) \cup OwnBy(c, W)
<1>1. ASSUME NEW w \in W, c[w[1]][w[2]].index = c[w[1]][0].index
      PROVE  <<c[w[1]][w[2]].index, w[2]>> \in StoredOn(DiskAfter(c, W))
  <2>1. PICK g \in Verified(c, G), k \in Slot : g = w[1] /\ k = w[2]
    OBVIOUS
  <2>2. c[g][k].index \in Piece \ {LastPiece}
    BY VerifiedGroup, Zenon
  <2>3. HasVouched(c, W, w)
    BY DiskAfterValue, Zenon
  <2>4. <<c[g][k].index, k>> \in Storable
    BY <2>2 DEF Storable
  <2>5. DiskAfter(c, W)[c[g][k].index][k] = Original[<<c[g][k].index, k>>]
    BY <1>1, <2>1, <2>3 DEF HasVouched
  <2>6. <<c[g][k].index, k>> \in StoredOn(DiskAfter(c, W))
    BY <2>4, <2>5 DEF StoredOn
  <2> QED BY <2>1, <2>6
<1>2. ASSUME NEW r \in Storable, r \notin NamedBy(c, W)
      PROVE  DiskAfter(c, W)[r[1]][r[2]] = disk[r[1]][r[2]]
  <2>1. r = <<r[1], r[2]>> /\ r[1] \in Piece /\ r[2] \in Slot
    BY DEF Storable
  <2>2. PICK i \in Piece, k \in Slot : i = r[1] /\ k = r[2] /\ r = <<i, k>>
    BY <2>1
  <2>3. DiskAfter(c, W)[i][k] = disk[i][k]
    BY <1>2, <2>2, DiskAfterValue
  <2> QED BY <2>2, <2>3
<1>3. OwnBy(c, W) \subseteq StoredOn(DiskAfter(c, W))
  BY <1>1 DEF OwnBy
<1>4. \A r \in Storable : r \notin NamedBy(c, W) =>
         (r \in StoredOn(DiskAfter(c, W)) <=> r \in StoredOn(disk))
  BY <1>2 DEF StoredOn
<1>5. StoredOn(DiskAfter(c, W)) \subseteq Storable /\ StoredOn(disk) \subseteq Storable
  BY DEF StoredOn
<1> QED BY <1>3, <1>4, <1>5

\* The labels of a group.
LabelsOf(c, g) == [k \in Store!StoreSlot |-> c[g][k].index]

LEMMA SameSlots == /\ Store!StoreSlot = Slot
                   /\ SliceCount \in 0 .. SliceCount /\ 0 .. SliceCount - 1 = Slot
BY SizeAssumption DEF Store!StoreSlot, Slot

LEMMA LabelsType ==
    ASSUME NEW c, NEW d, CacheInv(c, d), NEW G \in SUBSET Group, AllReceived(c, G),
           NEW g \in Verified(c, G)
    PROVE  LabelsOf(c, g) \in Store!Labels
<1>1. \A k \in Slot : c[g][k].index \in Piece \ {LastPiece}
  BY VerifiedGroup, Zenon
<1> QED BY <1>1, SameSlots DEF LabelsOf, Store!Labels

\* The first n nodes of a group name what PieceStore says of its labels.
LEMMA LabelsNamed ==
    ASSUME NEW c, NEW g, NEW n \in 0 .. SliceCount
    PROVE  /\ Store!Named(LabelsOf(c, g), n) = NamedBy(c, {g} \X (0 .. n - 1))
           /\ Store!Own(LabelsOf(c, g), n) = OwnBy(c, {g} \X (0 .. n - 1))
<1> DEFINE L == LabelsOf(c, g)
           W == {g} \X (0 .. n - 1)
<1>1. \A k \in 0 .. n - 1 : k \in Slot /\ L[k] = c[g][k].index
  BY SameSlots, SizeAssumption DEF LabelsOf, Slot
<1>2. L[0] = c[g][0].index
  BY SameSlots, ConstantFacts DEF LabelsOf
<1> HIDE DEF L
<1>3. Store!Named(L, n) = {<<c[g][k].index, k>> : k \in 0 .. n - 1}
  BY <1>1 DEF Store!Named
<1>4. Store!Own(L, n) = {<<c[g][k].index, k>> :
                           k \in {l \in 0 .. n - 1 : c[g][l].index = c[g][0].index}}
  BY <1>1, <1>2 DEF Store!Own
<1>5. \A k \in 0 .. n - 1 : <<g, k>> \in W
  OBVIOUS
<1>6. \A w \in W : w = <<g, w[2]>> /\ w[1] = g /\ w[2] \in 0 .. n - 1
  OBVIOUS
<1> HIDE DEF W
<1>7. NamedBy(c, W) = {<<c[g][k].index, k>> : k \in 0 .. n - 1}
  BY <1>5, <1>6 DEF NamedBy
<1>8. OwnBy(c, W) = {<<c[g][k].index, k>> :
                       k \in {l \in 0 .. n - 1 : c[g][l].index = c[g][0].index}}
  BY <1>5, <1>6 DEF OwnBy
<1> QED BY <1>3, <1>4, <1>7, <1>8 DEF L, W

\* What whole groups H name.
LEMMA GroupsNamed ==
    ASSUME NEW c, NEW H
    PROVE  LET S == {LabelsOf(c, g) : g \in H}
           IN  /\ UNION {Store!Named(L, SliceCount) : L \in S} = NamedBy(c, H \X Slot)
               /\ UNION {Store!Own(L, SliceCount) : L \in S} = OwnBy(c, H \X Slot)
<1>1. \A g : /\ Store!Named(LabelsOf(c, g), SliceCount) = NamedBy(c, {g} \X Slot)
             /\ Store!Own(LabelsOf(c, g), SliceCount) = OwnBy(c, {g} \X Slot)
  BY SameSlots, LabelsNamed
<1>2. NamedBy(c, H \X Slot) = UNION {NamedBy(c, {g} \X Slot) : g \in H}
  BY DEF NamedBy
<1>3. OwnBy(c, H \X Slot) = UNION {OwnBy(c, {g} \X Slot) : g \in H}
  BY DEF OwnBy
<1>4. UNION {Store!Named(L, SliceCount) : L \in {LabelsOf(c, g) : g \in H}} =
      UNION {NamedBy(c, {g} \X Slot) : g \in H}
  BY <1>1
<1>5. UNION {Store!Own(L, SliceCount) : L \in {LabelsOf(c, g) : g \in H}} =
      UNION {OwnBy(c, {g} \X Slot) : g \in H}
  BY <1>1
<1> QED BY <1>2, <1>3, <1>4, <1>5


\* A call of write_piece_to_harddisk writes groups.
LEMMA WriteStores ==
    ASSUME IInv, NEW c, CacheInv(c, disk), NEW G \in SUBSET Group, AllReceived(c, G),
           NEW p \in Peers, write_piece_to_harddisk(c, G, p)
    PROVE  Store!Next
<1> DEFINE F == Verified(c, G)
           W == F \X Slot
           S == {LabelsOf(c, g) : g \in F}
<1>1. disk' = DiskAfter(c, W) /\ W \in SUBSET (Verified(c, G) \X Slot) /\ restarts' = restarts
  BY DEF write_piece_to_harddisk
<1>2. S \in SUBSET Store!Labels
  BY LabelsType
<1>3. /\ UNION {Store!Named(L, SliceCount) : L \in S} = NamedBy(c, W)
      /\ UNION {Store!Own(L, SliceCount) : L \in S} = OwnBy(c, W)
  BY GroupsNamed
<1> HIDE DEF W, S
<1>4. /\ OwnBy(c, W) \subseteq StoredOn(disk')
      /\ StoredOn(disk) \ NamedBy(c, W) \subseteq StoredOn(disk')
      /\ StoredOn(disk') \subseteq (StoredOn(disk) \cup NamedBy(c, W)) \cup OwnBy(c, W)
  BY <1>1, StoredAfter
<1>5. Store!WriteGroups(S)
  BY <1>1, <1>3, <1>4 DEF Store!WriteGroups, Store!Writes, Stored, StoredOn
<1> QED BY <1>2, <1>5 DEF Store!Next

\* A crash while groups are written stores those before the cut, and the first
\* slices of the one at the cut.
LEMMA CrashStores ==
    ASSUME IInv, NEW c, CacheInv(c, disk), NEW G \in SUBSET Group, AllReceived(c, G),
           NEW cut, DieWriting(c, G, cut)
    PROVE  Store!Next
<1> DEFINE F == Verified(c, G)
           W == {w \in F \X Slot : ~Later(w, cut)}
           H == {h \in F : h < cut[1]}
           S == {LabelsOf(c, g) : g \in H}
           M == LabelsOf(c, cut[1])
           n == cut[2] + 1
           V == {cut[1]} \X (0 .. n - 1)
<1>0. StartAgain(DiskAfter(c, W))
  BY DEF DieWriting
<1>1. cut = <<cut[1], cut[2]>> /\ cut[1] \in F /\ cut[2] \in Slot
  <2>1. cut \in F \X Slot
    BY DEF DieWriting
  <2> QED BY <2>1
<1>2. F \subseteq Group /\ Group \subseteq Int /\ Slot \subseteq Int
  <2>1. F \subseteq Group
    BY DEF Verified
  <2>2. Group \subseteq Int
    BY SizeAssumption DEF Group
  <2>3. Slot \subseteq Int
    BY SizeAssumption DEF Slot
  <2> QED BY <2>1, <2>2, <2>3
<1>3. W \in SUBSET (Verified(c, G) \X Slot)
  OBVIOUS
<1>4. create_files(DiskAfter(c, W)) = DiskAfter(c, W)
  <2> HIDE DEF W
  <2> QED BY <1>3, DiskAfterKeeps, CreateFilesSame
<1>5. disk' = DiskAfter(c, W) /\ restarts' = restarts + 1
  BY <1>0, <1>4 DEF StartAgain
<1>6. W = (H \X Slot) \cup V
  <2>1. \A w \in F \X Slot :
           w \in W <=> (w[1] < cut[1] \/ (w[1] = cut[1] /\ w[2] <= cut[2]))
    BY <1>1, <1>2 DEF Later
  <2>2. \A k \in Slot : k <= cut[2] <=> k \in 0 .. n - 1
    BY <1>1, SizeAssumption DEF Slot
  <2>3. \A k \in 0 .. n - 1 : k \in Slot
    BY <1>1, SizeAssumption DEF Slot
  <2>4. ASSUME NEW w \in W PROVE w \in (H \X Slot) \cup V
    <3>1. w = <<w[1], w[2]>> /\ w[1] \in F /\ w[2] \in Slot
      OBVIOUS
    <3> QED BY <2>1, <2>2, <3>1
  <2>5. ASSUME NEW w \in (H \X Slot) \cup V PROVE w \in W
    <3>1. w = <<w[1], w[2]>> /\ w[1] \in F /\ w[2] \in Slot
      BY <1>1, <2>3
    <3>2. w[1] < cut[1] \/ (w[1] = cut[1] /\ w[2] <= cut[2])
      BY <2>2, <2>3
    <3> QED BY <2>1, <3>1, <3>2
  <2> QED BY <2>4, <2>5
<1>7. S \in SUBSET Store!Labels /\ M \in Store!Labels
  BY <1>1, LabelsType
<1>8. n \in 0 .. SliceCount
  BY <1>1, SizeAssumption DEF Slot
<1>9. /\ UNION {Store!Named(L, SliceCount) : L \in S} = NamedBy(c, H \X Slot)
      /\ UNION {Store!Own(L, SliceCount) : L \in S} = OwnBy(c, H \X Slot)
  BY GroupsNamed
<1>10. Store!Named(M, n) = NamedBy(c, V) /\ Store!Own(M, n) = OwnBy(c, V)
  BY <1>8, LabelsNamed
<1> HIDE DEF F, W, H, S, M, n, V
<1>11. /\ NamedBy(c, W) = NamedBy(c, H \X Slot) \cup NamedBy(c, V)
       /\ OwnBy(c, W) = OwnBy(c, H \X Slot) \cup OwnBy(c, V)
  BY <1>6 DEF NamedBy, OwnBy
<1>12. /\ OwnBy(c, W) \subseteq StoredOn(disk')
       /\ StoredOn(disk) \ NamedBy(c, W) \subseteq StoredOn(disk')
       /\ StoredOn(disk') \subseteq (StoredOn(disk) \cup NamedBy(c, W)) \cup OwnBy(c, W)
  BY <1>3, <1>5, StoredAfter
<1>13. Store!DieWriting(S, M, n)
  BY <1>5, <1>9, <1>10, <1>11, <1>12 DEF Store!DieWriting, Store!Writes, Stored, StoredOn
<1> QED BY <1>7, <1>8, <1>13 DEF Store!Next

LEMMA NextStores == IInv /\ [Next]_vars => [Store!Next]_<<Stored, restarts>>
<1> SUFFICES ASSUME IInv, [Next]_vars PROVE [Store!Next]_<<Stored, restarts>>
  OBVIOUS
<1>1. ASSUME NEW i \in Piece, NEW k \in Slot, NEW x \in Content, NEW p \in Peers,
             write_slice_to_btcache(i, k, x, p)
      PROVE  [Store!Next]_<<Stored, restarts>>
  <2>1. ASSUME NEW g \in Group, NEW h \in Group, StoreAndFlush(i, k, x, g, h, p)
        PROVE  Store!Next
    BY <2>1, CompletesReceived, WriteStores DEF StoreAndFlush
  <2>2. CASE UNCHANGED <<disk, restarts>>
    BY <2>2 DEF Stored
  <2> QED BY <1>1, <2>1, <2>2 DEF write_slice_to_btcache, StoreInHeldGroup,
                                  StoreOverUsedGroup, DropEverything
<1>2. CASE Flush
  BY <1>2, ReadyReceived, WriteStores DEF Flush, write_btcache_to_harddisk
<1>3. CASE Release \/ Load \/ Access \/ Ask \/ UNCHANGED vars
  <2>1. UNCHANGED <<disk, restarts>>
    BY <1>3 DEF Release, release_read_btcache_node, Load, read_piece_from_harddisk, ReadPiece,
                Access, CountAccess, Ask, Request, vars
  <2> QED BY <2>1 DEF Stored
<1>4. CASE Restart
  <2>1. disk' = disk /\ restarts' = restarts + 1
    BY <1>4, CreateFilesSame DEF Restart, StartAgain, IInv, CacheInv
  <2> QED BY <2>1 DEF Stored, Store!Next, Store!StartAgain
<1>5. CASE Crash
  <2>1. ASSUME NEW cut, CrashInFlush(cut) PROVE Store!Next
    BY <2>1, ReadyReceived, CrashStores DEF CrashInFlush
  <2>2. ASSUME NEW cut, NEW i \in Piece, NEW k \in Slot, NEW g \in Group, NEW h \in Group,
               NEW x \in Content, CrashInSlice(i, k, x, g, h, cut)
        PROVE  Store!Next
    BY <2>2, CompletesReceived, CrashStores DEF CrashInSlice
  <2> QED BY <1>5, <2>1, <2>2 DEF Crash
<1> QED BY <1>1, <1>2, <1>3, <1>4, <1>5 DEF Next, SliceArrives

LEMMA InitStores == Init => Store!Init
<1> SUFFICES ASSUME Init PROVE Store!Init
  OBVIOUS
<1>1. NewFile \in [Piece -> [Slot -> Content]] /\ Integrity(NewFile)
  BY ConstantFacts DEF NewFile, Integrity
<1>2. disk = NewFile
  BY <1>1, CreateFilesSame DEF Init
<1>3. \A r \in Storable : disk[r[1]][r[2]] = Zero
  BY <1>2 DEF NewFile, Storable
<1>4. Stored = {r \in Storable : Original[r] = Zero}
  BY <1>3 DEF Stored
<1> QED BY <1>4 DEF Init, Store!Init

\* The download on disk changes by groups of one slice per slot: those with the
\* label of the first are stored, others may be stored or lost, and no other
\* place is touched.  Only a crash tears a group, and only one.
THEOREM ImplementsPieceStore == Spec => StoreSpec
BY Invariance, InitStores, NextStores, PTL DEF Spec, StoreSpec, Store!Spec

-----------------------------------------------------------------------------
(***************************************************************************)
(* What no step of the cache does.                                         *)
(***************************************************************************)
\* Emptying groups replaces no slice.
LEMMA ResetKeepsCopies ==
    ASSUME NEW c, SameFirstCopy(cache, c), NEW F \in SUBSET Group
    PROVE  SameFirstCopy(cache, Reset(c, F))
<1>1. ~ResetNode.in_use
  BY DEF ResetNode, initialize_btcache_node
<1>2. \A g \in Group, k \in Slot :
        Reset(c, F)[g][k] = IF g \in F THEN ResetNode ELSE c[g][k]
  BY DEF Reset
<1> QED BY <1>1, <1>2 DEF SameFirstCopy

\* Nor does storing a slice that is not there yet: a node in use that a peer
\* filled is the slice of its slot, so AlreadyExists finds it.
LEMMA StoreKeepsCopies ==
    ASSUME IInv, NEW i \in Piece, NEW k \in Slot, NEW x \in Content, NEW g \in Group,
           ~AlreadyExists(cache[g][k], k)
    PROVE  SameFirstCopy(cache, StoreReceived(i, k, x, g))
<1>1. \A h \in Group, l \in Slot :
         h # g \/ l # k => StoreReceived(i, k, x, g)[h][l] = cache[h][l]
  BY DEF IInv, CacheInv, StoreReceived
<1>2. ~(cache[g][k].in_use /\ cache[g][k].read_write = "write")
  BY DEF IInv, CacheInv, NodeShape, AlreadyExists
<1> QED BY <1>1, <1>2 DEF SameFirstCopy

LEMMA SliceKeepsCopies ==
    ASSUME IInv, NEW i \in Piece, NEW k \in Slot, NEW x \in Content, NEW p \in Peers,
           write_slice_to_btcache(i, k, x, p)
    PROVE  SameFirstCopy(cache, cache')
<1>1. ASSUME NEW g \in Group, StoreInHeldGroup(i, k, x, g)
      PROVE  SameFirstCopy(cache, cache')
  BY <1>1, StoreKeepsCopies DEF StoreInHeldGroup
<1>2. ASSUME NEW g \in Group, StoreOverUsedGroup(i, k, x, g)
      PROVE  SameFirstCopy(cache, cache')
  <2>1. \A h \in Group, l \in Slot : h # g \/ l # k => cache'[h][l] = cache[h][l]
    BY <1>2 DEF StoreOverUsedGroup, IInv, CacheInv
  <2>2. cache'[g][k] = OverwrittenNode(cache[g][k], i, x)
    BY <1>2 DEF StoreOverUsedGroup, IInv, CacheInv
  <2>3. cache'[g][k].index = i
    BY <2>2 DEF OverwrittenNode
  <2>4. ~(cache[g][k].in_use /\ cache[g][k].index = i)
    BY <1>2 DEF StoreOverUsedGroup, Holding
  <2> QED BY <2>1, <2>3, <2>4 DEF SameFirstCopy
<1>3. ASSUME NEW g \in Group, NEW h \in Group, StoreAndFlush(i, k, x, g, h, p)
      PROVE  SameFirstCopy(cache, cache')
  <2> DEFINE c == StoreReceived(i, k, x, g)
  <2>1. SameFirstCopy(cache, c)
    BY <1>3, StoreKeepsCopies DEF StoreAndFlush, Completes
  <2>2. cache' = Reset(c, Verified(c, {h})) /\ Verified(c, {h}) \in SUBSET Group
    BY <1>3 DEF StoreAndFlush, write_piece_to_harddisk, Verified
  <2> HIDE DEF c
  <2> QED BY <2>1, <2>2, ResetKeepsCopies
<1>4. CASE DropEverything(i)
  <2>1. SameFirstCopy(cache, cache)
    BY DEF SameFirstCopy
  <2> QED BY <1>4, <2>1, ResetKeepsCopies DEF DropEverything
<1> QED BY <1>1, <1>2, <1>3, <1>4 DEF write_slice_to_btcache

\* A program that starts again has no node in use.
LEMMA StartKeepsCopies ==
    ASSUME NEW d, StartAgain(d) PROVE SameFirstCopy(cache, cache')
<1>1. PICK h \in [Group -> [Slot -> HeapGarbage]] : cache' = create_btcache(h)
  BY DEF StartAgain
<1>2. \A g \in Group, k \in Slot : ~cache'[g][k].in_use
  BY <1>1 DEF create_btcache, initialize_btcache_node
<1> QED BY <1>2 DEF SameFirstCopy

LEMMA NextKeepsCopies == IInv /\ [Next]_vars => SameFirstCopy(cache, cache')
<1> SUFFICES ASSUME IInv, [Next]_vars PROVE SameFirstCopy(cache, cache')
  OBVIOUS
<1>1. SameFirstCopy(cache, cache)
  BY DEF SameFirstCopy
<1>2. CASE SliceArrives
  BY <1>2, SliceKeepsCopies DEF SliceArrives
<1>3. CASE Flush
  <2>1. cache' = Reset(cache, Verified(cache, Ready(cache)))
    BY <1>3 DEF Flush, write_btcache_to_harddisk, write_piece_to_harddisk
  <2>2. Verified(cache, Ready(cache)) \in SUBSET Group
    BY DEF Verified, Ready
  <2> QED BY <1>1, <2>1, <2>2, ResetKeepsCopies
<1>4. CASE Release
  BY <1>1, <1>4, ResetKeepsCopies DEF Release, release_read_btcache_node
<1>5. CASE Load
  <2>1. PICK g \in Group, i \in Piece, n \in 0 .. SliceCount : read_piece_from_harddisk(g, i, n)
    BY <1>5 DEF Load
  <2>2. \A k \in Slot : ~cache[g][k].in_use
    BY <2>1 DEF read_piece_from_harddisk, AllUnused
  <2>3. \A h \in Group : h # g => cache'[h] = cache[h]
    BY <2>1 DEF read_piece_from_harddisk, ReadPiece, IInv, CacheInv
  <2> QED BY <2>2, <2>3 DEF SameFirstCopy
<1>6. CASE Access
  <2>1. PICK g \in Group, k \in Slot : CountAccess(g, k)
    BY <1>6 DEF Access
  <2>2. \A h \in Group, l \in Slot : h # g \/ l # k => cache'[h][l] = cache[h][l]
    BY <2>1 DEF CountAccess, IInv, CacheInv
  <2>3. cache'[g][k].buff = cache[g][k].buff
    BY <2>1 DEF CountAccess, AccessedNode, IInv, CacheInv
  <2> QED BY <2>2, <2>3 DEF SameFirstCopy
<1>7. CASE Ask \/ UNCHANGED vars
  BY <1>1, <1>7 DEF Ask, Request, vars
<1>8. CASE Restart \/ Crash
  BY <1>8, StartKeepsCopies DEF Restart, Crash, CrashInFlush, CrashInSlice, DieWriting
<1> QED BY <1>2, <1>3, <1>4, <1>5, <1>6, <1>7, <1>8 DEF Next

\* A second copy of a slice never replaces the first.
THEOREM FirstCopyIsKept == Spec => FirstCopyKept
BY Invariance, NextKeepsCopies, PTL DEF Spec, FirstCopyKept

\* The requests that a write answers are for slices it puts on disk, or for
\* slices that ride in a group of another piece.
LEMMA WriteWithdraws ==
    ASSUME IInv, NEW c, CacheInv(c, disk), NEW G \in SUBSET Group, AllReceived(c, G),
           Riders(c, G) \subseteq Mislaid(cache),
           NEW p \in Peers, write_piece_to_harddisk(c, G, p)
    PROVE  OnlyStoredWithdrawn
<1> SUFFICES ASSUME NEW q \in Peers, NEW r \in requests[q] \ requests'[q]
             PROVE  disk'[r[1]][r[2]] = Original[r] \/ r \in Mislaid(cache)
  BY DEF OnlyStoredWithdrawn
<1> DEFINE W == Verified(c, G) \X Slot
<1>1. r \in Answered(c, W)
  BY DEF write_piece_to_harddisk, IInv, TypeOK
<1>2. PICK w \in W : r = <<NodeAt(c, w).index, NodeAt(c, w).begin>>
  BY <1>1 DEF Answered
<1>3. w[1] \in Verified(c, G) /\ w[1] \in G /\ w[2] \in Slot
  BY <1>2 DEF Verified
<1>4. PICK g \in Verified(c, G), k \in Slot : g = w[1] /\ k = w[2]
  BY <1>3
<1>5. c[g][k].begin = k
  <2>1. c[g][k].read_write = "write"
    BY DEF AllReceived, Verified
  <2> QED BY <2>1 DEF CacheInv, NodeShape, Verified
<1>6. r = <<c[w[1]][w[2]].index, w[2]>>
  BY <1>2, <1>4, <1>5 DEF NodeAt
<1>7. disk' = DiskAfter(c, W) /\ W \in SUBSET (Verified(c, G) \X Slot)
  BY DEF write_piece_to_harddisk
<1> HIDE DEF W
<1>8. CASE c[w[1]][w[2]].index = c[w[1]][0].index
  <2>1. r \in OwnBy(c, W)
    BY <1>2, <1>6, <1>8 DEF OwnBy
  <2>2. OwnBy(c, W) \subseteq StoredOn(DiskAfter(c, W))
    BY <1>7, StoredAfter
  <2> QED BY <1>7, <2>1, <2>2 DEF StoredOn
<1>9. CASE c[w[1]][w[2]].index # c[w[1]][0].index
  <2>1. <<g, k>> \in G \X Slot
    BY <1>3, <1>4
  <2>2. r \in Riders(c, G)
    BY <1>4, <1>6, <1>9, <2>1 DEF Riders
  <2> QED BY <2>2
<1> QED BY <1>8, <1>9

LEMMA NextWithdraws == IInv /\ [Next]_vars => OnlyStoredWithdrawn
<1> SUFFICES ASSUME IInv, [Next]_vars PROVE OnlyStoredWithdrawn
  OBVIOUS
<1>1. CASE UNCHANGED requests
  BY <1>1 DEF OnlyStoredWithdrawn
<1>2. ASSUME NEW i \in Piece, NEW k \in Slot, NEW x \in Content, NEW p \in Peers,
             write_slice_to_btcache(i, k, x, p)
      PROVE  OnlyStoredWithdrawn
  <2>1. ASSUME NEW g \in Group, NEW h \in Group, StoreAndFlush(i, k, x, g, h, p)
        PROVE  OnlyStoredWithdrawn
    BY <2>1, CompletesReceived, CompletesRiders, WriteWithdraws DEF StoreAndFlush
  <2> QED BY <1>1, <1>2, <2>1 DEF write_slice_to_btcache, StoreInHeldGroup,
                                  StoreOverUsedGroup, DropEverything
<1>3. CASE Flush
  BY <1>3, ReadyReceived, ReadyRiders, WriteWithdraws DEF Flush, write_btcache_to_harddisk
<1>4. CASE Release \/ Load \/ Access \/ UNCHANGED vars
  <2>1. UNCHANGED requests
    BY <1>4 DEF Release, release_read_btcache_node, Load, read_piece_from_harddisk, ReadPiece,
                Access, CountAccess, vars
  <2> QED BY <1>1, <2>1
<1>5. CASE Ask
  <2>1. \A q \in Peers : requests[q] \subseteq requests'[q]
    BY <1>5 DEF Ask, Request, IInv, TypeOK
  <2> QED BY <2>1 DEF OnlyStoredWithdrawn
<1>6. CASE Restart \/ Crash
  <2>1. \E d : StartAgain(d)
    BY <1>6 DEF Restart, Crash, CrashInFlush, CrashInSlice, DieWriting
  <2>2. restarts' = restarts + 1
    BY <2>1 DEF StartAgain
  <2>3. restarts \in Nat
    BY LimitAssumption DEF IInv, TypeOK
  <2> QED BY <2>2, <2>3 DEF OnlyStoredWithdrawn
<1> QED BY <1>2, <1>3, <1>4, <1>5, <1>6 DEF Next, SliceArrives

\* A request is withdrawn only when its slice is right on disk, or rides in a
\* group of another piece.
THEOREM WithdrawnIsStored == Spec => WithdrawnOnlyWhenStored
BY Invariance, NextWithdraws, PTL DEF Spec, WithdrawnOnlyWhenStored

\* The pieces that become whole in a write without riding in the group of
\* another are those of the groups written, and each group is counted once.
LEMMA WriteCounts ==
    ASSUME IInv, NEW c, CacheInv(c, disk), NEW G \in SUBSET Group, AllReceived(c, G),
           Riders(c, G) \subseteq Mislaid(cache),
           NEW p \in Peers, write_piece_to_harddisk(c, G, p)
    PROVE  NewPiecesCounted
<1> DEFINE F == Verified(c, G)
           W == F \X Slot
           P == {c[g][0].index : g \in F}
           N == (StoredPieces(disk') \ StoredPieces(disk)) \ RidingPieces(cache)
<1>1. disk' = DiskAfter(c, W) /\ W \in SUBSET (Verified(c, G) \X Slot)
  BY DEF write_piece_to_harddisk
<1>2. F \subseteq G
  BY DEF Verified
<1>3. ASSUME NEW i \in N PROVE i \in P
  <2>1. i \in Piece /\ i \notin RidingPieces(cache)
        /\ \E k \in Slot : disk[i][k] # Original[<<i, k>>] /\ disk'[i][k] = Original[<<i, k>>]
    BY DEF StoredPieces
  <2>2. PICK k \in Slot : disk[i][k] # disk'[i][k]
    BY <2>1
  <2> HIDE DEF W, N
  <2>3. PICK g : WrittenFrom(c, G, W, i, k, g)
    <3>1. DiskAfter(c, W)[i][k] # disk[i][k]
      BY <1>1, <2>2
    <3> QED BY <1>1, <2>1, <3>1, PlaceAfter
  <2>4. g \in F /\ c[g][k].index = i
    BY <2>3 DEF WrittenFrom
  <2>5. CASE c[g][0].index # i
    <3>1. <<i, k>> \in Riders(c, G)
      <4>1. <<g, k>> \in G \X Slot
        BY <1>2, <2>4
      <4> QED BY <2>4, <2>5, <4>1 DEF Riders
    <3> QED BY <2>1, <3>1 DEF RidingPieces
  <2> QED BY <2>4, <2>5
<1>4. IsFiniteSet(Group)
  BY SizeAssumption, FS_Interval DEF Group
<1>5. F \in SUBSET Group
  BY DEF Verified
<1>6. IsFiniteSet(F) /\ Cardinality(F) \in Nat
  BY <1>4, <1>5, FS_Subset, FS_CardinalityType
<1>7. IsFiniteSet(P) /\ Cardinality(P) <= Cardinality(F)
  <2> DEFINE f == [g \in F |-> c[g][0].index]
  <2>1. f \in Surjection(F, P)
    BY DEF Surjection
  <2> HIDE DEF f, P, F
  <2> QED BY <1>6, <2>1, FS_Surjection
<1>8. IsFiniteSet(N) /\ Cardinality(N) <= Cardinality(P)
  <2>1. N \in SUBSET P
    BY <1>3
  <2> HIDE DEF N, P
  <2> QED BY <1>7, <2>1, FS_Subset
<1>9. Cardinality(N) \in Nat /\ Cardinality(P) \in Nat
  BY <1>7, <1>8, FS_CardinalityType
<1>10. download_piece_num' - download_piece_num = Cardinality(F)
  BY <1>6 DEF write_piece_to_harddisk, Counted, IInv, TypeOK
<1> HIDE DEF F, P, N
<1>11. Cardinality(N) <= Cardinality(F)
  BY <1>6, <1>7, <1>8, <1>9
<1> QED BY <1>10, <1>11 DEF NewPiecesCounted, N

LEMMA NextCounts == IInv /\ [Next]_vars => NewPiecesCounted
<1> SUFFICES ASSUME IInv, [Next]_vars PROVE NewPiecesCounted
  OBVIOUS
<1>1. ASSUME UNCHANGED <<disk, download_piece_num>> PROVE NewPiecesCounted
  <2>1. (StoredPieces(disk') \ StoredPieces(disk)) \ RidingPieces(cache) = {}
    BY <1>1
  <2>2. download_piece_num' - download_piece_num = 0
    BY <1>1 DEF IInv, TypeOK
  <2>3. Cardinality({}) = 0
    BY FS_EmptySet
  <2> QED BY <2>1, <2>2, <2>3 DEF NewPiecesCounted
<1>2. ASSUME NEW i \in Piece, NEW k \in Slot, NEW x \in Content, NEW p \in Peers,
             write_slice_to_btcache(i, k, x, p)
      PROVE  NewPiecesCounted
  <2>1. ASSUME NEW g \in Group, NEW h \in Group, StoreAndFlush(i, k, x, g, h, p)
        PROVE  NewPiecesCounted
    BY <2>1, CompletesReceived, CompletesRiders, WriteCounts DEF StoreAndFlush
  <2> QED BY <1>1, <1>2, <2>1 DEF write_slice_to_btcache, StoreInHeldGroup,
                                  StoreOverUsedGroup, DropEverything
<1>3. CASE Flush
  BY <1>3, ReadyReceived, ReadyRiders, WriteCounts DEF Flush, write_btcache_to_harddisk
<1>4. CASE Release \/ Load \/ Access \/ Ask \/ UNCHANGED vars
  <2>1. UNCHANGED <<disk, download_piece_num>>
    BY <1>4 DEF Release, release_read_btcache_node, Load, read_piece_from_harddisk, ReadPiece,
                Access, CountAccess, Ask, Request, vars
  <2> QED BY <1>1, <2>1
<1>5. CASE Restart \/ Crash
  <2>1. \E d : StartAgain(d)
    BY <1>5 DEF Restart, Crash, CrashInFlush, CrashInSlice, DieWriting
  <2>2. restarts' = restarts + 1
    BY <2>1 DEF StartAgain
  <2>3. restarts \in Nat
    BY LimitAssumption DEF IInv, TypeOK
  <2> QED BY <2>2, <2>3 DEF NewPiecesCounted
<1> QED BY <1>2, <1>3, <1>4, <1>5 DEF Next, SliceArrives

\* The count never falls behind the pieces that reach the disk in groups of
\* their own.
THEOREM CountIsKept == Spec => CountKeepsUp
BY Invariance, NextCounts, PTL DEF Spec, CountKeepsUp

=============================================================================
