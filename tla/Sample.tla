------------------------------- MODULE Sample ------------------------------
(***************************************************************************)
(* The small programs under netSample/ and Demo/ that talk over pipes,     *)
(* datagrams and streams have nothing in common at run time: a behaviour   *)
(* is one of one of them, and sample says of which.  It never changes.     *)
(***************************************************************************)

VARIABLE sample

=============================================================================
