----------------------------- MODULE EventLoop -----------------------------
(***************************************************************************)
(* The loop of download_upload_with_peers in Test/torrent.c, with          *)
(* prepare_connect_tracker and prepare_connect_peer of Test/tracker.c.     *)
(*                                                                         *)
(* One turn of the loop reads the clock once (Top) and then goes through   *)
(* four stages.  Times are kept as ages, now_time - last_time[i] and       *)
(* now_time - start_connect_..., which saturate at AgeLimit: no comparison *)
(* tells larger ages apart.                                                *)
(*                                                                         *)
(* What no code in the loop sets is fixed by Init: the announce list, the  *)
(* peer addresses of the tracker's answer, peer_head, download_piece_num,  *)
(* and whether the caller allocated tracker[] and valid[], which nothing   *)
(* in the repository does.  The clear_... functions have empty bodies, and *)
(* compute_rate and the unchoke functions are commented out.               *)
(***************************************************************************)
EXTENDS Integers

CONSTANTS
    TrackerCount,       \* the entries of the announce list
    PeerSlots,          \* bound on the entries of the peer arrays
    MaxLag,             \* the longest time between two turns
    unchoke_interval,   \* 10
    optimistic_interval,\* 30
    tracker_interval,   \* 300
    connect_timeout     \* 10

ASSUME TimeAssumption ==
    /\ {unchoke_interval, optimistic_interval, connect_timeout, MaxLag} \subseteq Nat
    /\ tracker_interval \in Nat
    /\ unchoke_interval <= optimistic_interval
    /\ optimistic_interval <= tracker_interval
    /\ PeerSlots \in Nat /\ TrackerCount \in Nat

\* A round at the tracker, with the turn before it, is over before the tracker
\* is due again: 10 + 2 * lag < 300.
ASSUME LagAssumption == connect_timeout + 2 * MaxLag < tracker_interval

VARIABLES
    pc,                 \* the stage of the turn; "returned" or "crashed"
    since,              \* now_time - last_time[i]
    connect_tracker, connecting_tracker,
    connect_peer, connecting_peer,
    tracker_age,        \* now_time - start_connect_tracker
    peer_age,           \* now_time - start_connect_peer
    sock, valid,        \* the socket of a tracker and the state of its connection
    lost,               \* sockets of trackers overwritten while open
    peer_sock, peer_valid,
    world               \* what Init fixes

loop == <<connect_tracker, connecting_tracker, connect_peer, connecting_peer>>
ages == <<since, tracker_age, peer_age>>
trackers == <<sock, valid, lost>>
peers == <<peer_sock, peer_valid>>
vars == <<pc, loop, ages, trackers, peers, world>>

Trackers == 1 .. TrackerCount
Slots    == 1 .. PeerSlots
AgeLimit == tracker_interval
Age      == 0 .. AgeLimit

\* Variant: the operands of the difference swapped.
Older_Swapped(a, d) == a - d
Older(a, d) == IF a + d > AgeLimit THEN AgeLimit ELSE a + d

World == [allocated : BOOLEAN, peer_addrs : 0 .. PeerSlots,
          peer_head : BOOLEAN, downloaded : BOOLEAN]

Rechokes == world.downloaded /\ world.peer_head

Init ==
    /\ pc = "top"
    /\ since = [i \in 0 .. 2 |-> 0]
    /\ connect_tracker = TRUE /\ connecting_tracker = FALSE
    /\ connect_peer = FALSE /\ connecting_peer = FALSE
    /\ tracker_age = 0 /\ peer_age = 0
    /\ sock = [t \in Trackers |-> "none"] /\ valid = [t \in Trackers |-> 0]
    /\ lost = {}
    /\ peer_sock = [i \in Slots |-> "none"] /\ peer_valid = [i \in Slots |-> 0]
    /\ world \in World

-----------------------------------------------------------------------------
\* last_time[0] is reset before it is compared with the longer interval.
Unchoked(s) ==
    LET a == IF Rechokes /\ s[0] >= unchoke_interval THEN 0 ELSE s[0]
        b == IF Rechokes /\ a >= optimistic_interval THEN 0 ELSE s[1]
    IN  [s EXCEPT ![0] = a, ![1] = b]

\* A turn begins d seconds after the one before.
Top(d) ==
    /\ pc = "top"
    /\ since' = Unchoked([i \in 0 .. 2 |-> Older(since[i], d)])
    /\ tracker_age' = Older(tracker_age, d)
    /\ peer_age' = Older(peer_age, d)
    /\ pc' = "tracker"
    /\ UNCHANGED <<loop, trackers, peers, world>>

\* Variant: the tracker is prepared during a round with the peers, too.
TrackerDue_AnyTime == since[2] >= tracker_interval \/ connect_tracker
TrackerDue == TrackerDue_AnyTime /\ ~connecting_peer

\* What a socket overwritten while open was: a live connection or a failed one.
Overwritten == {IF valid[t] = 0 THEN "failed" ELSE "live" :
                    t \in {u \in Trackers : sock[u] = "open"}}

\* Each tracker gets a socket, if there is one left, and a connection that is
\* under way, refused or never tried since the name is unknown, or made.  A
\* socket that could not be created counts as refused.
OpenTrackers ==
    /\ sock' \in [Trackers -> {"open", "none"}]
    /\ valid' \in [Trackers -> {-1, 0, 1}]
    /\ \A t \in Trackers : sock'[t] = "none" => valid'[t] = 0
    /\ lost' = lost \cup Overwritten

\* Variant: start_connect_tracker keeps its old value.
RestartTrackerAge_Not == UNCHANGED tracker_age
RestartTrackerAge == tracker_age' = 0

ConnectTracker ==
    /\ pc = "tracker" /\ TrackerDue
    /\ world.allocated \/ Trackers = {}
    /\ OpenTrackers
    /\ connect_tracker' = FALSE /\ connecting_tracker' = TRUE
    /\ RestartTrackerAge
    /\ pc' = "peer"
    /\ UNCHANGED <<connect_peer, connecting_peer, since, peer_age, peers, world>>

\* The array of sockets cannot be allocated, and the loop returns -1; or valid
\* is the null pointer it is initialized to, and its first use ends the program.
ConnectTrackerFails ==
    /\ pc = "tracker" /\ TrackerDue
    /\ \/ pc' = "returned"
       \/ pc' = "crashed" /\ ~world.allocated /\ Trackers # {}
    /\ UNCHANGED <<loop, ages, trackers, peers, world>>

NoTracker ==
    /\ pc = "tracker" /\ ~TrackerDue
    /\ pc' = "peer"
    /\ UNCHANGED <<loop, ages, trackers, peers, world>>

-----------------------------------------------------------------------------
\* count is not initialized, so the arrays get any number n of entries; those
\* after the last address keep what malloc left in them.  Every other entry is
\* -1.  connect is called on the sockets of the trackers, as far as there are
\* any, and its outcome goes to valid, their array.
OpenPeers(n) ==
    /\ peer_sock' = [i \in Slots |-> IF i > n THEN "none"
                                     ELSE IF i > world.peer_addrs THEN "foreign" ELSE "open"]
    /\ peer_valid' \in [Slots -> {-1, 0, 1}]
    /\ \A i \in Slots : i <= n /\ i <= world.peer_addrs => peer_valid'[i] = -1
    /\ \A i \in Slots : i > n => peer_valid'[i] = 0
    /\ \E outcome \in [Trackers -> {"refused", "made", "in progress"}] :
          valid' = [t \in Trackers |->
              IF t > n \/ t > world.peer_addrs \/ valid[t] = 0 \/ outcome[t] = "in progress"
              THEN valid[t] ELSE IF outcome[t] = "made" THEN 1 ELSE 0]

ConnectPeer ==
    /\ pc = "peer" /\ connect_peer
    /\ \E n \in 0 .. PeerSlots :
          /\ world.allocated \/ n = 0 \/ world.peer_addrs = 0
          /\ OpenPeers(n)
    /\ connect_peer' = FALSE /\ connecting_peer' = TRUE
    /\ peer_age' = 0
    /\ pc' = "check_tracker"
    /\ UNCHANGED <<connect_tracker, connecting_tracker, since, tracker_age, sock, lost, world>>

\* The arrays cannot be allocated, as when count is negative, or valid is null.
ConnectPeerFails ==
    /\ pc = "peer" /\ connect_peer
    /\ \/ pc' = "returned"
       \/ pc' = "crashed" /\ ~world.allocated /\ world.peer_addrs > 0
    /\ UNCHANGED <<loop, ages, trackers, peers, world>>

NoPeer ==
    /\ pc = "peer" /\ ~connect_peer
    /\ pc' = "check_tracker"
    /\ UNCHANGED <<loop, ages, trackers, peers, world>>

-----------------------------------------------------------------------------
TrackerTimedOut == tracker_age > connect_timeout

\* flag stays 1: the time is over, or no connection is under way or made.
\* Variant: flag is cleared in the turn of the timeout, too.
TrackerRoundOver_Answered == \A t \in Trackers : valid[t] = 0
TrackerRoundOver == TrackerTimedOut \/ \A t \in Trackers : valid[t] = 0

\* Variant: only the connections that were made are closed.
Closed_Made == [t \in Trackers |->
    IF sock[t] = "open" /\ TrackerTimedOut /\ valid[t] = 1 THEN "closed" ELSE sock[t]]
Closed == [t \in Trackers |->
    IF sock[t] = "open" /\ TrackerTimedOut /\ valid[t] # 0 THEN "closed" ELSE sock[t]]

\* Where the loop goes after a round: to the peers if it got addresses, else to
\* the tracker again.  Variant: the branches swapped.
NextPhase_Swapped ==
    \/ world.peer_addrs > 0 /\ connect_tracker' = TRUE /\ UNCHANGED connect_peer
    \/ world.peer_addrs = 0 /\ connect_tracker' = FALSE /\ connect_peer' = TRUE

NextPhase ==
    \/ world.peer_addrs = 0 /\ connect_tracker' = TRUE /\ UNCHANGED connect_peer
    \/ world.peer_addrs > 0 /\ connect_tracker' = FALSE /\ connect_peer' = TRUE

EndTrackerRound ==
    /\ pc = "check_tracker" /\ connecting_tracker /\ TrackerRoundOver
    /\ sock' = Closed
    /\ connecting_tracker' = FALSE
    /\ since' = [since EXCEPT ![2] = 0]
    /\ NextPhase
    /\ pc' = "top"
    /\ UNCHANGED <<connecting_peer, tracker_age, peer_age, valid, lost, peers, world>>

KeepTrackerRound ==
    /\ pc = "check_tracker" /\ ~(connecting_tracker /\ TrackerRoundOver)
    /\ pc' = "check_peer"
    /\ UNCHANGED <<loop, ages, trackers, peers, world>>

PeerTimedOut == peer_age > connect_timeout

PeerRoundOver == PeerTimedOut \/ \A i \in Slots : peer_valid[i] # -1

\* Variant: the connections that were made are closed instead.
ClosedPeers_Made == [i \in Slots |->
    IF peer_sock[i] # "none" /\ PeerTimedOut /\ peer_valid[i] = 1 THEN "closed" ELSE peer_sock[i]]
ClosedPeers == [i \in Slots |->
    IF peer_sock[i] # "none" /\ PeerTimedOut /\ peer_valid[i] # 1 THEN "closed" ELSE peer_sock[i]]

\* connecting_peer is not reset.
EndPeerRound ==
    /\ pc = "check_peer" /\ connecting_peer /\ PeerRoundOver
    /\ peer_sock' = ClosedPeers
    /\ connect_peer' = FALSE
    /\ connect_tracker' = (connect_tracker \/ ~world.peer_head)
    /\ pc' = "top"
    /\ UNCHANGED <<connecting_tracker, connecting_peer, ages, trackers, peer_valid, world>>

KeepPeerRound ==
    /\ pc = "check_peer" /\ ~(connecting_peer /\ PeerRoundOver)
    /\ pc' = "top"
    /\ UNCHANGED <<loop, ages, trackers, peers, world>>

\* After a return or a crash there are no more turns.
Ended == pc \in {"returned", "crashed"} /\ UNCHANGED vars

Next ==
    \/ \E d \in 0 .. MaxLag : Top(d)
    \/ ConnectTracker \/ ConnectTrackerFails \/ NoTracker
    \/ ConnectPeer \/ ConnectPeerFails \/ NoPeer
    \/ EndTrackerRound \/ KeepTrackerRound
    \/ EndPeerRound \/ KeepPeerRound
    \/ Ended

\* Nothing in the loop blocks for ever, and the clock goes on.
Fairness == WF_vars(Next) /\ SF_vars(\E d \in 1 .. MaxLag : Top(d))

Spec == Init /\ [][Next]_vars /\ Fairness

-----------------------------------------------------------------------------
Running == pc \notin {"returned", "crashed"}

TypeOK ==
    /\ pc \in {"top", "tracker", "peer", "check_tracker", "check_peer", "returned", "crashed"}
    /\ since \in [0 .. 2 -> Age] /\ tracker_age \in Age /\ peer_age \in Age
    /\ {connect_tracker, connecting_tracker, connect_peer, connecting_peer} \subseteq BOOLEAN
    /\ sock \in [Trackers -> {"none", "open", "closed"}]
    /\ valid \in [Trackers -> {-1, 0, 1}]
    /\ lost \subseteq {"failed", "live"}
    /\ peer_sock \in [Slots -> {"none", "open", "foreign", "closed"}]
    /\ peer_valid \in [Slots -> {-1, 0, 1}]
    /\ world \in World

\* The loop is never in a round with the trackers and in one with the peers at
\* once, although the interval timer can call for a tracker in any turn.
OneRound == ~(connecting_tracker /\ connecting_peer)

\* A round with the trackers is given up in the first turn after the timeout.
TrackerGivenUp == connecting_tracker => tracker_age <= connect_timeout + MaxLag

\* The socket of a connection that is made or under way is closed before its
\* place in sock[] is used again: only those of failed connections leak.
NoLiveSocketLost == "live" \notin lost

\* Every round with the trackers ends.
TrackerRoundEnds == connecting_tracker /\ Running ~> ~connecting_tracker \/ ~Running

\* If the tracker gave addresses, the loop comes to connect to the peers.
PeersAreTried == []Running /\ world.peer_addrs > 0 => <>connecting_peer

\* The sockets of peers that do not answer are closed in the end.
PeersGivenUp ==
    \A i \in Slots : peer_sock[i] = "open" ~> peer_sock[i] # "open" \/ ~Running

\* Nobody who does not answer is waited for for ever: a round with the trackers
\* ends, and the sockets to such peers are closed in the end.  The round with the
\* peers does not end itself: connecting_peer, once set, is never reset.
SilentAreGivenUp == TrackerRoundEnds /\ PeersGivenUp

-----------------------------------------------------------------------------
\* The inductive invariant of PeerProofs.

\* connect_peer is set between two turns and reset in the next.
PeersDue ==
    connect_peer =>
        /\ world.peer_addrs > 0
        /\ ~connect_tracker /\ ~connecting_tracker /\ ~connecting_peer
        /\ pc \notin {"check_tracker", "check_peer"}

\* Between two rounds the loop knows what to do next, and does it in the turn
\* that begins now: the interval timer never gets to call for a tracker.
RoundBegins ==
    ~connecting_tracker /\ ~connecting_peer =>
        /\ connect_tracker \/ connect_peer
        /\ pc \notin {"check_tracker", "check_peer"}
        /\ pc = "top" => since[2] = 0
        /\ pc = "tracker" => since[2] <= MaxLag
        /\ pc = "peer" => connect_peer

RoundLasts ==
    connecting_tracker =>
        /\ ~connect_tracker
        /\ since[2] <= tracker_age + MaxLag
        /\ tracker_age <= connect_timeout + MaxLag
        /\ pc \in {"top", "check_peer"} => tracker_age <= connect_timeout

Idle == ~connecting_tracker =>
    \A t \in Trackers : sock[t] = "open" => valid[t] = 0

IInv == TypeOK /\ OneRound /\ PeersDue /\ RoundBegins /\ RoundLasts /\ Idle /\ NoLiveSocketLost

=============================================================================
