------------------------------ MODULE PeerList -----------------------------
(***************************************************************************)
(* The list of peers, Test/peer.c: a linked list of nodes that own three   *)
(* buffers each and a list of requests.                                    *)
(*                                                                         *)
(* A node is the address that malloc returned for it.  The list of the     *)
(* requests that came from the peer, Requested_piece_head, is left out:    *)
(* nothing in the repository puts an entry in it.                          *)
(***************************************************************************)
EXTENDS Integers, FiniteSets

CONSTANTS
    Node,               \* the addresses malloc can return for a node
    NULL,
    MaxRequests         \* bound: requests outstanding at a peer

ASSUME NULLAssumption == NULL \notin Node
ASSUME NodeAssumption == IsFiniteSet(Node)
ASSUME MaxRequestsAssumption == MaxRequests \in Nat

VARIABLES
    peer_head, next,
    allocated,          \* the nodes that malloc returned and free did not get
    buffers,            \* the same, of the buffers of a node
    requests,           \* how many entries Request_piece_head has
    released            \* release_memory_in_peer ran

listVars == <<peer_head, next, allocated, buffers, requests, released>>

Buffers == {"in_buff", "out_msg", "out_msg_copy"}

ListInit ==
    /\ peer_head = NULL
    /\ next = [n \in Node |-> NULL]
    /\ allocated = {} /\ buffers = {}
    /\ requests = [n \in Node |-> 0]
    /\ released = FALSE

-----------------------------------------------------------------------------
\* The nodes that a walk along next meets, in its order; NULL after them.
Walk[k \in 0 .. Cardinality(Node)] ==
    IF k = 0 THEN peer_head
    ELSE IF Walk[k - 1] = NULL THEN NULL ELSE next[Walk[k - 1]]

Listed == {Walk[k] : k \in 0 .. Cardinality(Node)} \ {NULL}

\* Variant: the new node is linked behind the first one.
Last_First == peer_head
Last == CHOOSE p \in Listed : next[p] = NULL

\* Variant: initialize_peer leaves next as malloc returned it.
InitialNext_Garbage == "garbage"
InitialNext == NULL

\* Variant: the buffers stay when a later one cannot be had.
KeptOnFailure_All(got) == got
KeptOnFailure(got) == {}

\* add_peer_node gets a node and its buffers and links it behind the last.
add_peer_node ==
    /\ ~released
    /\ \E node \in Node \ allocated :
        /\ allocated' = allocated \cup {node}
        /\ buffers' = buffers \cup {node} \X Buffers
        /\ requests' = [requests EXCEPT ![node] = 0]
        /\ IF peer_head = NULL
           THEN peer_head' = node /\ next' = [next EXCEPT ![node] = InitialNext]
           ELSE /\ next' = [next EXCEPT ![Last] = node, ![node] = InitialNext]
                /\ UNCHANGED peer_head
    /\ UNCHANGED released

\* malloc fails for the node, or for a buffer after others were had.
AddFails ==
    /\ ~released
    /\ \E node \in Node \ allocated,
          got \in {{}, {"in_buff"}, {"in_buff", "out_msg"}} :
        buffers' = buffers \cup {node} \X KeptOnFailure(got)
    /\ UNCHANGED <<peer_head, next, allocated, requests, released>>

\* What next becomes when the node is not the first; q is the one before it.
Unlink(peer) == [q \in Node |-> IF q \in Listed /\ next[q] = peer THEN next[peer] ELSE next[q]]

\* Variant: only the first of the requests is freed.
RequestsLeft_First(node) == IF requests[node] = 0 THEN 0 ELSE requests[node] - 1
\* cancel_request_list
RequestsLeft(node) == 0

\* del_peer_node unlinks the node; free_peer_node frees its buffers and its
\* requests, and not the node.
del_peer_node ==
    /\ ~released
    /\ \E peer \in Listed :
        /\ IF peer = peer_head
           THEN peer_head' = next[peer] /\ UNCHANGED next
           ELSE next' = Unlink(peer) /\ UNCHANGED peer_head
        /\ buffers' = buffers \ ({peer} \X Buffers)
        /\ requests' = [requests EXCEPT ![peer] = RequestsLeft(peer)]
    /\ UNCHANGED <<allocated, released>>

\* del_peer_node of no peer, or of one that is no longer in the list.
DelMisses ==
    /\ ~released
    /\ \E peer \in (allocated \ Listed) \cup {NULL} : UNCHANGED listVars

cancel_request_list ==
    /\ ~released
    /\ \E peer \in Listed : requests' = [requests EXCEPT ![peer] = RequestsLeft(peer)]
    /\ UNCHANGED <<peer_head, next, allocated, buffers, released>>

\* create_req_slice_msg, which the repository has yet to write, adds a request.
Request ==
    /\ ~released
    /\ \E peer \in Listed :
        /\ requests[peer] < MaxRequests
        /\ requests' = [requests EXCEPT ![peer] = @ + 1]
    /\ UNCHANGED <<peer_head, next, allocated, buffers, released>>

\* release_memory_in_peer frees what the nodes own and leaves peer_head; the
\* model takes it for the last call.
release_memory_in_peer ==
    /\ ~released
    /\ released' = TRUE
    /\ buffers' = buffers \ (Listed \X Buffers)
    /\ requests' = [n \in Node |-> IF n \in Listed THEN RequestsLeft(n) ELSE requests[n]]
    /\ UNCHANGED <<peer_head, next, allocated>>

ListNext ==
    \/ add_peer_node \/ AddFails
    \/ del_peer_node \/ DelMisses
    \/ Request \/ cancel_request_list
    \/ release_memory_in_peer

ListSpec == ListInit /\ [][ListNext]_listVars

-----------------------------------------------------------------------------
ListTypeOK ==
    /\ peer_head \in Node \cup {NULL}
    /\ next \in [Node -> Node \cup {NULL}]
    /\ allocated \subseteq Node
    /\ buffers \subseteq Node \X Buffers
    /\ requests \in [Node -> 0 .. MaxRequests]
    /\ released \in BOOLEAN

\* Until the end a peer in the list has its three buffers, and no buffer
\* belongs to anything else: none is lost by a deletion or a failed addition,
\* and none is freed under a peer that is still there.
BuffersAreOwned ==
    buffers = IF released THEN {} ELSE Listed \X Buffers

\* Only peers in the list have requests; at the end nobody has.
RequestsAreOwned ==
    \A n \in Node : requests[n] > 0 => n \in Listed /\ ~released

\* The types of the list, and what belongs to its peers.
ListInv == ListTypeOK /\ BuffersAreOwned /\ RequestsAreOwned

\* The list is a sequence: a deletion keeps the order of the others, and a new
\* peer comes last.
Order == [k \in 1 .. Cardinality({j \in 0 .. Cardinality(Node) : Walk[j] # NULL})
            |-> Walk[k - 1]]
Peers == INSTANCE PeerSequence WITH peers <- Order
SequenceSpec == Peers!Spec

=============================================================================
