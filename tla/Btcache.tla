------------------------------ MODULE Btcache ------------------------------
(***************************************************************************)
(* The piece cache of Test/data.c and the download file behind it.         *)
(*                                                                         *)
(* The list btcache_head is cut into groups of SliceCount nodes, and node  *)
(* k of a group keeps slice k of a piece: cache[g][k].  (btcache_len is    *)
(* 1024, a multiple of piece_length/16K for every power of two piece size  *)
(* up to 16M, so no group is cut short.)  The right content of slice k of  *)
(* piece i is Original[<<i, k>>]; slices may be equal, and equal to Zero,  *)
(* the content of a slice that was never written.  Bad stands for every    *)
(* content that is right for no slice.                                     *)
(*                                                                         *)
(* A received slice has any content under any label; it is taken to be     *)
(* whole, as create_req_slice_msg would ask for it: begin is a multiple of *)
(* 16K and length is 16K, which write_slice_to_btcache does not check.     *)
(*                                                                         *)
(* Left out: is_writed, which is 0 in every node in use; length, which is  *)
(* written together with begin; have_piece_index, which is never filled    *)
(* since no entry of the zeroed array is -1; the list last_piece, which    *)
(* nothing reads.  The file on disk is the single-file one, DiskLayout     *)
(* has the split over several files.                                       *)
(***************************************************************************)
EXTENDS BitfieldOps, FiniteSetsExt

CONSTANTS
    GroupCount,     \* btcache_len divided by the slices of a piece
    SliceCount,     \* piece_length/(16*1024)
    Peers,          \* the peers that send slices
    FlushLimit,     \* 10: below it a piece is written once it is complete
    SaveEvery,      \* 10: the bitmap is saved after so many pieces
    EndMode,        \* end_mode
    HeapGarbage,    \* what the index of a node just allocated can hold
    LastWhole,      \* how many slices of the last piece are 16K long
    LastSlot,       \* the slice with the last byte of the file
    StartFiles,     \* the bitmap files there may be at the first start
    RightContents,  \* the contents of the slices of the torrent
    Original,       \* the right content of each slice
    Zero, Bad,      \* an unwritten content, and one that is never right
    MaxDownloads,   \* bound on download_piece_num
    MaxAccess,      \* bound on access_count
    MaxRequests,    \* bound on the requests a peer has outstanding
    MaxRestarts     \* bound on the number of restarts

Piece     == 0 .. PieceCount - 1
LastPiece == PieceCount - 1             \* last_piece_index
Slot      == 0 .. SliceCount - 1
Group     == 0 .. GroupCount - 1
Place     == Piece \X Slot
Content   == RightContents \cup {Zero, Bad}

ASSUME SizeAssumption ==
    /\ GroupCount \in Nat \ {0}
    /\ SliceCount \in Nat \ {0}
    /\ LastWhole \in 0 .. SliceCount
    /\ LastSlot \in Slot
ASSUME LimitAssumption ==
    /\ FlushLimit \in Nat
    /\ SaveEvery \in Nat \ {0}
    /\ EndMode \in BOOLEAN
    /\ HeapGarbage \subseteq Int
    /\ StartFiles \subseteq BitmapFile
    /\ {MaxDownloads, MaxAccess, MaxRequests, MaxRestarts} \subseteq Nat
ASSUME ContentAssumption ==
    /\ Original \in [Place -> RightContents]
    /\ Bad \notin RightContents /\ Zero # Bad

VARIABLES
    cache,               \* the nodes of btcache_head
    disk,                \* the slices in the download file
    bitmap,              \* the bits of the bitmap that are 1
    bitmap_file,         \* the file create_bitfield reads
    download_piece_num,  \* pieces downloaded
    requests,            \* the Request_piece list of each peer
    restarts             \* how often the program was started again

vars == <<cache, disk, bitmap, bitmap_file, download_piece_num, requests,
          restarts>>

-----------------------------------------------------------------------------
(***************************************************************************)
(* Nodes and groups.                                                       *)
(***************************************************************************)
Node == [index : Int, begin : {-1} \cup Slot, in_use : BOOLEAN,
         read_write : {"none", "read", "write"}, is_full : BOOLEAN,
         access_count : Nat, buff : Content]

\* A node from malloc: everything is assigned but the index.
initialize_btcache_node(garbage) ==
    [index |-> garbage, begin |-> -1, in_use |-> FALSE,
     read_write |-> "none", is_full |-> FALSE, access_count |-> 0,
     buff |-> Bad]

\* The eight assignments that empty a node.  Its buffer keeps its bytes, but
\* no branch reads the buffer of a node that is not in use.
ResetNode == initialize_btcache_node(-1)

\* Variants with a bug, for the mutation of the definition that follows: begin
\* counted from one, and the missing assignment of read_write.
ReceivedNode_FromOne(i, k, x) ==
    [index |-> i, begin |-> k + 1, in_use |-> TRUE, read_write |-> "write",
     is_full |-> TRUE, access_count |-> 0, buff |-> x]

ReceivedNode_StillRead(i, k, x) ==
    [index |-> i, begin |-> k, in_use |-> TRUE, read_write |-> "read",
     is_full |-> TRUE, access_count |-> 0, buff |-> x]

ReceivedNode(i, k, x) ==
    [index |-> i, begin |-> k, in_use |-> TRUE, read_write |-> "write",
     is_full |-> TRUE, access_count |-> 0, buff |-> x]

ReadNode(i, k, x) ==
    [index |-> i, begin |-> k, in_use |-> TRUE, read_write |-> "read",
     is_full |-> TRUE, access_count |-> 0, buff |-> x]

\* A node that a slice is stored over without setting begin and in_use, one
\* whose read failed after it was labelled, and one accessed once more.
OverwrittenNode(n, i, x) ==
    [index |-> i, begin |-> n.begin, in_use |-> n.in_use, read_write |-> "write",
     is_full |-> TRUE, access_count |-> 0, buff |-> x]

UnreadNode(n, i, k) ==
    [index |-> i, begin |-> k, in_use |-> n.in_use, read_write |-> n.read_write,
     is_full |-> n.is_full, access_count |-> n.access_count, buff |-> n.buff]

AccessedNode(n) ==
    [index |-> n.index, begin |-> n.begin, in_use |-> n.in_use, read_write |-> n.read_write,
     is_full |-> n.is_full, access_count |-> n.access_count + 1, buff |-> n.buff]

\* The walks over the list stop at the first group of G.
IsFirst(g, G) == g \in G /\ \A h \in G : g <= h

\* Variant: only the first node of a group is compared.
Holding_FirstNode(c, i) == {g \in Group : c[g][0].index = i /\ c[g][0].in_use}

Holding(c, i) == {g \in Group : \E k \in Slot : c[g][k].index = i /\ c[g][k].in_use}

FullyUsed(c) == {g \in Group : \A k \in Slot : c[g][k].in_use}

AllUnused(c) == {g \in Group : \A k \in Slot : ~c[g][k].in_use}

\* The test of write_btcache_to_harddisk on a group.
Ready(c) == {g \in Group : \A k \in Slot : /\ c[g][k].in_use
                                           /\ c[g][k].read_write = "write"
                                           /\ c[g][k].is_full}

\* is_a_complete_piece(i, &sequence) returns 1 with sequence at group g: only
\* the first group whose first node has index i is looked at, in use or not.
is_a_complete_piece(c, i, g) ==
    /\ IsFirst(g, {h \in Group : c[h][0].index = i})
    /\ \A k \in Slot : /\ c[g][k].index = i
                       /\ c[g][k].read_write = "write"
                       /\ c[g][k].is_full

\* Variant: the node read from disk is taken for the slice received.
AlreadyExists_Read(n, k) ==
    n.begin = k /\ n.in_use /\ n.read_write = "read" /\ n.is_full

AlreadyExists(n, k) ==
    n.begin = k /\ n.in_use /\ n.read_write = "write" /\ n.is_full

\* Variant: the hash stops one slice early.
HashMatches_StopsEarly(grp) ==
    \A k \in Slot : k < SliceCount - 1 => grp[k].buff = Original[<<grp[0].index, k>>]

\* The SHA1 over the buffers of the group is the one the torrent has for the
\* piece of its first node; the labels of the other nodes are not looked at.
HashMatches(grp) == \A k \in Slot : grp[k].buff = Original[<<grp[0].index, k>>]

-----------------------------------------------------------------------------
(***************************************************************************)
(* Writing groups to disk.                                                 *)
(***************************************************************************)
\* Nodes are named by <<group, slot>>; w comes after v in the list.
Later(w, v) == w[1] > v[1] \/ (w[1] = v[1] /\ w[2] > v[2])

NodeAt(c, w) == c[w[1]][w[2]]

WritersOf(c, W, i, k) == {w \in W : NodeAt(c, w).index = i /\ NodeAt(c, w).begin = k}

\* The disk once write_btcache_node_to_harddisk has written the nodes W, each
\* at the position its own index and begin give.
DiskAfter(c, W) ==
    [i \in Piece |-> [k \in Slot |->
        LET ws == WritersOf(c, W, i, k)
        IN  IF ws = {} THEN disk[i][k]
            ELSE NodeAt(c, CHOOSE w \in ws : \A v \in ws : v = w \/ Later(w, v)).buff]]

\* Variant: the request is compared by its begin alone.
Answered_AnyPiece(c, W) == Piece \X {NodeAt(c, w).begin : w \in W}

\* The requests of the peer at hand that its nodes W answer.
Answered(c, W) == {<<NodeAt(c, w).index, NodeAt(c, w).begin>> : w \in W}

Verified(c, G) == {g \in G : HashMatches(c[g])}

Reset(c, G) == [g \in Group |-> IF g \in G THEN [k \in Slot |-> ResetNode] ELSE c[g]]

\* download_piece_num++, once for each group written; and the variant that
\* counts only in the branch of write_slice_to_btcache below the limit.
Counted_BelowLimit(F) == IF download_piece_num < FlushLimit THEN Cardinality(F) ELSE 0
Counted(F) == Cardinality(F)

\* restore_bitmap is called whenever the count reaches a multiple of SaveEvery;
\* there is always a bitmap once create_bitfield has run.
restore_bitmap(before, after) ==
    IF \E n \in before + 1 .. after : n % SaveEvery = 0
    THEN RestoredFile(TRUE, TRUE, bitmap_file) ELSE bitmap_file

\* write_piece_to_harddisk on the groups G of c, one after the other: a group
\* whose hash is wrong stays as it is.
write_piece_to_harddisk(c, G, p) ==
    LET F == Verified(c, G)
        W == F \X Slot
    IN  /\ download_piece_num + Counted(F) <= MaxDownloads
        /\ disk' = DiskAfter(c, W)
        /\ requests' = [requests EXCEPT ![p] = @ \ Answered(c, W)]
        /\ cache' = Reset(c, F)
        /\ bitmap' \in SetBitOutcomes(bitmap, {c[g][0].index : g \in F})
        /\ download_piece_num' = download_piece_num + Counted(F)
        /\ bitmap_file' = restore_bitmap(download_piece_num, download_piece_num')
        /\ UNCHANGED restarts

-----------------------------------------------------------------------------
(***************************************************************************)
(* A slice arrives: write_slice_to_btcache(i, k*16K, 16K, x, p).  The call *)
(* does nothing (a stuttering step) for a slice of the last piece, in end  *)
(* mode for a piece the bitmap has, and for a slice that already exists.   *)
(***************************************************************************)
Taken(i) == i # LastPiece /\ ~(EndMode /\ get_bit_value(bitmap, i) = 1)

StoreReceived(i, k, x, g) == [cache EXCEPT ![g][k] = ReceivedNode(i, k, x)]

\* A group has a node in use for piece i: the slice takes its slot there, and
\* if g is not a complete piece now, or enough were written, that is all.
StoreInHeldGroup(i, k, x, g) ==
    LET c == StoreReceived(i, k, x, g)
    IN  /\ Taken(i)
        /\ IsFirst(g, Holding(cache, i))
        /\ ~AlreadyExists(cache[g][k], k)
        /\ download_piece_num < FlushLimit => \A h \in Group : ~is_a_complete_piece(c, i, h)
        /\ cache' = c
        /\ UNCHANGED <<disk, bitmap, bitmap_file, download_piece_num, requests, restarts>>

\* The guard of the flush that a slice triggers: it completed group h.
Completes(i, k, x, g, h) ==
    /\ Taken(i)
    /\ IsFirst(g, Holding(cache, i))
    /\ ~AlreadyExists(cache[g][k], k)
    /\ download_piece_num < FlushLimit
    /\ is_a_complete_piece(StoreReceived(i, k, x, g), i, h)

StoreAndFlush(i, k, x, g, h, p) ==
    /\ Completes(i, k, x, g, h)
    /\ write_piece_to_harddisk(StoreReceived(i, k, x, g), {h}, p)

\* No group holds the piece: the slice goes into the first group whose nodes
\* are all in use, over the slice there.  begin and in_use stay as they are.
StoreOverUsedGroup(i, k, x, g) ==
    /\ Taken(i)
    /\ Holding(cache, i) = {}
    /\ IsFirst(g, FullyUsed(cache))
    /\ cache' = [cache EXCEPT ![g][k] = OverwrittenNode(@, i, x)]
    /\ UNCHANGED <<disk, bitmap, bitmap_file, download_piece_num, requests, restarts>>

\* No group holds the piece and none is fully used.  Then no group is Ready,
\* the four rounds of write_btcache_to_harddisk and release_read_btcache_node
\* find no group for the slice, and clear_btcache resets every node.
DropEverything(i) ==
    /\ Taken(i)
    /\ Holding(cache, i) = {}
    /\ FullyUsed(cache) = {}
    /\ cache' = Reset(cache, Group)
    /\ UNCHANGED <<disk, bitmap, bitmap_file, download_piece_num, requests, restarts>>

write_slice_to_btcache(i, k, x, p) ==
    \/ \E g \in Group : \/ StoreInHeldGroup(i, k, x, g)
                       \/ StoreOverUsedGroup(i, k, x, g)
                       \/ \E h \in Group : StoreAndFlush(i, k, x, g, h, p)
    \/ DropEverything(i)

-----------------------------------------------------------------------------
(***************************************************************************)
(* The other entries of data.c.                                            *)
(***************************************************************************)
write_btcache_to_harddisk(p) == write_piece_to_harddisk(cache, Ready(cache), p)

\* The sum of the access counts of the nodes read from disk, up to node k.
UsedCount(grp, k) ==
    MapThenSumSet(LAMBDA j : IF grp[j].in_use /\ grp[j].read_write = "read"
                             THEN grp[j].access_count ELSE 0, 0 .. k)

\* The first group in which the running sum meets the base is reset, whatever
\* else it holds.
release_read_btcache_node(base) ==
    \E g \in Group :
        /\ IsFirst(g, {h \in Group : \E k \in Slot : UsedCount(cache[h], k) = base})
        /\ cache' = Reset(cache, {g})
        /\ UNCHANGED <<disk, bitmap, bitmap_file, download_piece_num, requests, restarts>>

\* The slices of piece i that read_slice_from_hardisk can read: those of the
\* last piece that are shorter than 16K give a short read, which is an error.
Readable(i) == IF i = LastPiece THEN {k \in Slot : k < LastWhole} ELSE Slot

\* read_piece_from_harddisk reads the slices before slot n into group g; if n
\* is not SliceCount the read at slot n fails, and leaves the node's labels.
ReadPiece(g, i, n) ==
    /\ \A k \in Slot : k < n => k \in Readable(i)
    /\ cache' = [cache EXCEPT ![g] = [k \in Slot |->
                    IF k < n THEN ReadNode(i, k, disk[i][k])
                    ELSE IF k = n THEN UnreadNode(cache[g][k], i, k)
                    ELSE cache[g][k]]]
    /\ UNCHANGED <<disk, bitmap, bitmap_file, download_piece_num, requests, restarts>>

\* read_slice_for_send, declared in data.h and not written yet, is to read the
\* piece a peer asks for: into a group that is not in use, and only if no
\* group holds the piece.
read_piece_from_harddisk(g, i, n) ==
    /\ g \in AllUnused(cache)
    /\ Holding(cache, i) = {}
    /\ ReadPiece(g, i, n)

\* ... and to count the access to a slice it found.
CountAccess(g, k) ==
    /\ cache[g][k].in_use /\ cache[g][k].read_write = "read"
    /\ cache[g][k].access_count < MaxAccess
    /\ cache' = [cache EXCEPT ![g][k] = AccessedNode(@)]
    /\ UNCHANGED <<disk, bitmap, bitmap_file, download_piece_num, requests, restarts>>

\* create_req_slice_msg of policy.c is to ask a peer for slices.
Request(p, i, k) ==
    /\ Cardinality(requests[p]) < MaxRequests
    /\ requests' = [requests EXCEPT ![p] = @ \cup {<<i, k>>}]
    /\ UNCHANGED <<cache, disk, bitmap, bitmap_file, download_piece_num, restarts>>

-----------------------------------------------------------------------------
(***************************************************************************)
(* Start, restart and crash.  There is no main: the three create functions *)
(* are taken in the order create_files, create_btcache, create_bitfield.   *)
(***************************************************************************)
create_btcache(h) == [g \in Group |-> [k \in Slot |-> initialize_btcache_node(h[g][k])]]

NewFile == [i \in Piece |-> [k \in Slot |-> Zero]]

\* Variant: the file is opened with O_TRUNC.
create_files_Truncating(d) == NewFile

\* A 0 byte goes to the end of the file, also when the file is there already.
create_files(d) ==
    [d EXCEPT ![LastPiece][LastSlot] = IF @ = Zero THEN Zero ELSE Bad]

NoRequests == [p \in Peers |-> {}]

Init ==
    /\ \E h \in [Group -> [Slot -> HeapGarbage]] : cache = create_btcache(h)
    /\ disk = create_files(NewFile)
    /\ bitmap_file \in StartFiles
    /\ bitmap = LoadBits(bitmap_file)
    /\ download_piece_num = CountBits(bitmap, 0)
    /\ requests = NoRequests
    /\ restarts = 0

\* The program dies, leaving d on disk, and is started again.
StartAgain(d) ==
    /\ restarts < MaxRestarts
    /\ restarts' = restarts + 1
    /\ \E h \in [Group -> [Slot -> HeapGarbage]] : cache' = create_btcache(h)
    /\ disk' = create_files(d)
    /\ bitmap' = LoadBits(bitmap_file)
    /\ download_piece_num' = CountBits(bitmap', 0)
    /\ requests' = NoRequests
    /\ UNCHANGED bitmap_file

Restart == StartAgain(disk)

\* It dies in write_piece_to_harddisk, after writing the nodes up to cut.
DieWriting(c, G, cut) ==
    LET F == Verified(c, G)
    IN  /\ cut \in F \X Slot
        /\ StartAgain(DiskAfter(c, {w \in F \X Slot : ~Later(w, cut)}))

CrashInFlush(cut) == DieWriting(cache, Ready(cache), cut)

CrashInSlice(i, k, x, g, h, cut) ==
    /\ Completes(i, k, x, g, h)
    /\ DieWriting(StoreReceived(i, k, x, g), {h}, cut)

Crash ==
    \E cut \in Group \X Slot :
        \/ CrashInFlush(cut)
        \/ \E i \in Piece, k \in Slot, x \in Content, g, h \in Group :
               CrashInSlice(i, k, x, g, h, cut)

-----------------------------------------------------------------------------
SliceArrives ==
    \E i \in Piece, k \in Slot, x \in Content, p \in Peers :
        write_slice_to_btcache(i, k, x, p)

Flush == \E p \in Peers : write_btcache_to_harddisk(p)

Release == \E base \in 0 .. MaxAccess : release_read_btcache_node(base)

Load == \E g \in Group, i \in Piece, n \in 0 .. SliceCount : read_piece_from_harddisk(g, i, n)

Access == \E g \in Group, k \in Slot : CountAccess(g, k)

Ask == \E p \in Peers, i \in Piece, k \in Slot : Request(p, i, k)

Next == SliceArrives \/ Flush \/ Release \/ Load \/ Access \/ Ask \/ Restart \/ Crash

Spec == Init /\ [][Next]_vars

-----------------------------------------------------------------------------
(***************************************************************************)
(* Properties.                                                             *)
(***************************************************************************)
TypeOK ==
    /\ cache \in [Group -> [Slot -> Node]]
    /\ disk \in [Piece -> [Slot -> Content]]
    /\ bitmap \subseteq Bit
    /\ bitmap_file \in BitmapFile
    /\ download_piece_num \in Nat
    /\ requests \in [Peers -> SUBSET Place]
    /\ restarts \in 0 .. MaxRestarts

\* The contents a hash can vouch for in slot k.
Vouched(k) == {Original[<<i, k>>] : i \in Piece \ {LastPiece}}

\* A slice on disk is unwritten or was vouched for by a hash; and nothing is
\* ever written to the last piece.
Integrity(d) ==
    \A i \in Piece, k \in Slot :
        d[i][k] = Zero \/ (d[i][k] \in Vouched(k) /\ i # LastPiece)

\* The slices that ride in a group of G under the hash of another piece: a
\* slice stored over a used group leaves such groups, and the hash does not
\* tell them from others if the bytes fit.
Riders(c, G) ==
    {<<c[w[1]][w[2]].index, w[2]>> :
        w \in {v \in G \X Slot : c[v[1]][v[2]].index # c[v[1]][0].index}}

\* Those that write_btcache_to_harddisk would write now.  A piece written by
\* write_slice_to_btcache has none: is_a_complete_piece compares the labels.
Mislaid(c) == Riders(c, Ready(c))

VouchedWritten(new) ==
    \A r \in Place :
        new[r[1]][r[2]] # disk[r[1]][r[2]] =>
            \/ new[r[1]][r[2]] = Original[r]
            \/ r \in Mislaid(cache) /\ new[r[1]][r[2]] \in Vouched(r[2])

\* What changes on disk becomes right, whatever the peers send under whatever
\* label, whichever groups are overwritten, loaded or released, and wherever
\* a crash cuts a flush short.  The one exception is a slice that rides in a
\* group of another piece, in a call of write_btcache_to_harddisk: it gets the
\* slice of that piece which the hash vouched for.
OnlyVouchedWritten == [][VouchedWritten(disk')]_vars

\* The lookup of write_slice_to_btcache takes the first group that holds a
\* piece; there is never a second one, so no slice of a piece is stranded in
\* another group than the one its next slices go to.
OneGroup(c) ==
    \A g, h \in Group : \A k, l \in Slot :
        c[g][k].in_use /\ c[h][l].in_use /\ c[g][k].index = c[h][l].index => g = h

OneGroupPerPiece == OneGroup(cache)

\* What a node read from disk offers to a peer is what the disk has: a flush
\* never makes a cached read stale, although it does not look for one.
Coherent(c, d) ==
    \A g \in Group, k \in Slot :
        LET n == c[g][k]
        IN  n.in_use /\ n.read_write = "read" => n.buff = d[n.index][k]

ReadCoherent == Coherent(cache, disk)

\* A node in use is labelled with the slot it sits in; all others are empty.
\* A slice stored over a used group keeps this although begin is not assigned
\* there.
NodeShape(c) ==
    \A g \in Group, k \in Slot :
        LET n == c[g][k]
        IN  /\ ~n.in_use => n.read_write = "none" /\ ~n.is_full
            /\ n.in_use => n.index \in Piece /\ n.begin = k /\ n.is_full
            /\ n.in_use => n.read_write \in {"read", "write"}
            /\ n.read_write = "write" => n.index # LastPiece

CacheShape == NodeShape(cache)

\* The inductive invariant, for the cache and the disk of a state or for those
\* in the middle of a call.
CacheInv(c, d) ==
    /\ c \in [Group -> [Slot -> Node]]
    /\ d \in [Piece -> [Slot -> Content]]
    /\ NodeShape(c) /\ OneGroup(c) /\ Coherent(c, d) /\ Integrity(d)

IInv == TypeOK /\ CacheInv(cache, disk)

\* The slice a peer filled in c is still the same in d, if a peer filled it
\* there too and for the same piece.
SameFirstCopy(c, d) ==
    \A g \in Group, k \in Slot :
        LET n == c[g][k]
            m == d[g][k]
        IN  n.in_use /\ m.in_use /\ n.read_write = "write"
              /\ m.read_write = "write" /\ n.index = m.index
            => n.buff = m.buff

\* A second copy of a slice never replaces the first while that is cached:
\* the peer that answers late cannot change what will be hashed.
FirstCopyKept == [][SameFirstCopy(cache, cache')]_vars

\* A request is withdrawn only when its slice is right on disk, so a slice that
\* is dropped with the cache, or whose piece fails its hash, stays requested.
\* Again a slice that rides in a group of another piece is the one exception.
OnlyStoredWithdrawn ==
    restarts' = restarts =>
        \A p \in Peers : \A r \in requests[p] \ requests'[p] :
            disk'[r[1]][r[2]] = Original[r] \/ r \in Mislaid(cache)

WithdrawnOnlyWhenStored == [][OnlyStoredWithdrawn]_vars

\* The pieces that are whole on the disk d.
StoredPieces(d) == {i \in Piece : \A k \in Slot : d[i][k] = Original[<<i, k>>]}

\* The pieces that have a slice riding in a group of another piece.
RidingPieces(c) == {r[1] : r \in Mislaid(c)}

NewPiecesCounted ==
    restarts' = restarts =>
        Cardinality((StoredPieces(disk') \ StoredPieces(disk)) \ RidingPieces(cache))
            <= download_piece_num' - download_piece_num

\* The count grows with every piece that reaches the disk, so it is never
\* behind the pieces stored since the start.  A piece made whole by slices
\* that ride in groups of other pieces is not counted for itself.
CountKeepsUp == [][NewPiecesCounted]_vars

\* The slices stored on disk change as PieceStore says: they grow by groups of
\* one slice per slot, whole pieces if nothing rides in them, torn only by a
\* crash; and a stored slice is lost only to another that rides in a group.
Storable == (Piece \ {LastPiece}) \X Slot
Stored   == {r \in Storable : disk[r[1]][r[2]] = Original[r]}

Store == INSTANCE PieceStore WITH
             StorePiece <- Piece \ {LastPiece}, SlotCount <- SliceCount,
             Blank <- {r \in Storable : Original[r] = Zero},
             stored <- Stored, boots <- restarts

StoreSpec == Store!Spec

\* The last branch of write_slice_to_btcache reports "write a slice to
\* btcache" (line 770), as if the slice were in the cache when it returns.
\* The code does not keep this.
WrittenSliceIsCached ==
    [][\A i \in Piece : DropEverything(i) => Holding(cache, i)' # {}]_vars

=============================================================================
