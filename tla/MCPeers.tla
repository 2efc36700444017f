------------------------------ MODULE MCPeers ------------------------------
(***************************************************************************)
(* The work with peers for TLC: is_interested, the list of peers and the   *)
(* messages to one of them.  Nothing in the repository calls one of these  *)
(* parts from another yet, so a behaviour is about one of them: part says  *)
(* which, and the other two stay as they began.                            *)
(***************************************************************************)
EXTENDS Interest, PeerList, OutMessages

CONSTANTS n1, n2, n3, n4

\* Eleven pieces in two bytes; the first and the last bit of each byte, the
\* last piece and the first bit that no piece owns.
MCPosition == {0, 7, 8, 10, 11, 15}

\* Four nodes, so that a list of three can be reordered around a deletion in
\* its middle.
MCNode == {n1, n2, n3, n4}

\* After a handshake there is room for just the shortest piece, and after two
\* long pieces for the numbers of a shorter one but two bytes; an index and a
\* begin that take two bytes.
MCIndex    == {0, 258}
MCBegin    == {0, 258}
MCBlock    == {0, 2, 20}
MCBitfield == {2}

VARIABLE part

PeersInit ==
    /\ part \in {"interest", "list", "messages"}
    /\ InterestInit /\ ListInit /\ MessagesInit
    /\ part # "interest" => src = {} /\ dst = {} /\ dst_length = 0

PeersNext ==
    /\ UNCHANGED part
    /\ \/ part = "interest" /\ InterestNext /\ UNCHANGED <<listVars, messageVars>>
       \/ part = "list" /\ ListNext /\ UNCHANGED <<interestVars, messageVars>>
       \/ part = "messages" /\ MessagesNext /\ UNCHANGED <<interestVars, listVars>>

PeersSpec == PeersInit /\ [][PeersNext]_<<part, interestVars, listVars, messageVars>>

=============================================================================
