---------------------------- MODULE MCEventLoop ----------------------------
(***************************************************************************)
(* EventLoop for TLC.  MCEventLoop.cfg takes two trackers, at most two     *)
(* entries in the peer arrays and the intervals scaled down in their       *)
(* order; every choice of Init's world is explored.                        *)
(***************************************************************************)
EXTENDS EventLoop

=============================================================================
