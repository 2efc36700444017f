----------------------------- MODULE MCSamples -----------------------------
(***************************************************************************)
(* The small programs for TLC: a behaviour is one of the program that      *)
(* sample names, and the parts of the others stay as they began.           *)
(***************************************************************************)
EXTENDS PipeTalk, StoreServer, Datagrams, TrackerClient

CONSTANTS c1, c2

MCClient == {c1, c2}

\* Protocols of two and three letters, and names of one, two and four; with
\* and without a port, and with and without a path.
Letters(n) == [k \in 1 .. n |-> "x"]
MCUrls ==
    [scheme : {Letters(2), Letters(3)}, host : {Letters(n) : n \in {1, 2, 4}},
     port : {<<>>, <<"8", "0">>}, path : {<<>>, <<"/", "p", "q">>}]

AnUrl == [scheme |-> Letters(2), host |-> Letters(4), port |-> <<"8", "0">>, path |-> <<>>]

\* Every url in any memory; every byte, next to one or another.
MCGivens ==
    [url : MCUrls, fill : {NUL, "x", "/", ":"}, tmp : {0, 7}, info_hash : {<<255>>}]
        \cup [url : {AnUrl}, fill : {NUL}, tmp : {0}, info_hash : {<<b, 255 - b>> : b \in 0 .. 255}]

\* Without a NUL, with one inside and with one at the end; in clean memory and
\* in memory that is not.
MCTexts  == {<<1, 2, 3>>, <<1, 0, 2>>, <<1, 0>>}
MCMemory == {<<0, 0, 0>>, <<9, 8, 7, 0>>}

\* Every url and hash with one answer, and one with every answer.
SamplesInit ==
    /\ sample \in {"pipe2", "echo_storeserv", "udp", "bound_udp"} \cup StreamProgram
    /\ TalkInit /\ StoreInit /\ DatagramsInit /\ TrackerInit
    /\ sample # "net_client" => url = AnUrl /\ info_hash = <<255, 0>> /\ fill = NUL /\ tmp = 0
    /\ url # AnUrl \/ info_hash # <<255, 0>> \/ fill # NUL \/ sample \notin StreamProgram
        => answer = <<1, 0>> /\ msg = <<0, 0, 0>>

SamplesNext ==
    \/ TalkNext /\ UNCHANGED <<storeVars, netVars, trackerVars>>
    \/ StoreNext /\ UNCHANGED <<talkVars, netVars, trackerVars>>
    \/ DatagramsNext /\ UNCHANGED <<talkVars, storeVars, trackerVars>>
    \/ TrackerNext /\ UNCHANGED <<talkVars, storeVars, netVars>>

SamplesSpec ==
    /\ SamplesInit
    /\ [][SamplesNext]_<<sample, talkVars, storeVars, netVars, trackerVars>>
    /\ TalkFairness /\ StoreFairness /\ DatagramsFairness /\ TrackerFairness

\* The processes on a pipe end, but for those that wait for what was read by
\* another or for room in the pipe.
ProcessesEnd == TalkEnds /\ ChildrenEnd

=============================================================================
