----------------------------- MODULE StoreServer ---------------------------
(***************************************************************************)
(* echo_storeserv.c: the server forks a logger, and a child for each       *)
(* client that it accepts.  A child sends back what it reads and writes it *)
(* into the pipe from which the logger fills a file, with a fixed number   *)
(* of reads.  What the number of bytes is assigned is whether the read     *)
(* returned something: of each read one byte is echoed and stored.         *)
(*                                                                         *)
(* The file is marked unfinished and two names in it are misspelt; they    *)
(* are read as serv_sock and clnt_sock.  The n-th byte that a client sends *)
(* is n.                                                                   *)
(***************************************************************************)
EXTENDS Sample, Integers, Sequences, SequencesExt

CONSTANTS
    Client,
    MaxSent,            \* bound: the bytes a client sends
    BufSize,            \* BUF_SIZE
    StoreReads,         \* the reads of the logger
    PipeSize            \* the bytes a pipe holds

ASSUME StoreAssumption == {MaxSent, BufSize, StoreReads, PipeSize} \subseteq Nat \ {0}

VARIABLES
    line,               \* of each client: "open", "closed" by it, "reset" by it,
                        \* or "broken" once the reset was reported
    nsent, toChild,     \* the bytes it has sent, and those not yet read
    echoed,             \* the bytes the child sent back, arrived or not
    childAt,            \* "none", a call of Loop, "done", or "killed" by SIGPIPE
    buf,                \* the first byte of the child's buffer, 0 for garbage
    pipe, storeReads,   \* <<client, byte>>, and the reads the logger has done
    echomsg             \* echomsg.txt

storeVars == <<line, nsent, toChild, echoed, childAt, buf, pipe, storeReads, echomsg>>

StoreInit ==
    /\ line = [c \in Client |-> "open"]
    /\ nsent = [c \in Client |-> 0] /\ buf = nsent
    /\ toChild = [c \in Client |-> <<>>] /\ echoed = toChild
    /\ childAt = [c \in Client |-> "none"]
    /\ pipe = <<>> /\ storeReads = 0 /\ echomsg = <<>>

-----------------------------------------------------------------------------
ClientSends(c) ==
    /\ line[c] = "open" /\ nsent[c] < MaxSent
    /\ nsent' = [nsent EXCEPT ![c] = @ + 1]
    /\ toChild' = [toChild EXCEPT ![c] = Append(@, nsent'[c])]
    /\ UNCHANGED <<line, echoed, childAt, buf, pipe, storeReads, echomsg>>

\* A client closes or resets its connection, or is reset when something is
\* sent to it after it closed; some of what it sent may be lost then.
ClientLeaves(c) ==
    /\ \/ line[c] = "open" /\ line' = [line EXCEPT ![c] = "closed"] /\ UNCHANGED toChild
       \/ /\ line[c] \in {"open", "closed"}
          /\ line' = [line EXCEPT ![c] = "reset"]
          /\ \E n \in 0 .. Len(toChild[c]) : toChild' = [toChild EXCEPT ![c] = SubSeq(@, 1, n)]
    /\ UNCHANGED <<nsent, echoed, childAt, buf, pipe, storeReads, echomsg>>

\* The connections wait in the queue of listen; a failing accept is repeated.
Accept(c) ==
    /\ childAt[c] = "none"
    /\ childAt' = [childAt EXCEPT ![c] = "read"]
    /\ UNCHANGED <<line, nsent, toChild, echoed, buf, pipe, storeReads, echomsg>>

\* Variants: the byte is stored before it is echoed; the loop forgets to read.
Loop_NoRead == [read |-> "echo", echo |-> "store", store |-> "echo"]
Loop_StoreFirst == [read |-> "store", store |-> "echo", echo |-> "read"]
\* The call after each call.
Loop == [read |-> "echo", echo |-> "store", store |-> "read"]

ChildGoesOn(c, call) ==
    /\ childAt[c] = call
    /\ childAt' = [childAt EXCEPT ![c] = Loop[call]]

ChildReads(c) ==
    /\ ChildGoesOn(c, "read") /\ toChild[c] # <<>>
    /\ buf' = [buf EXCEPT ![c] = Head(toChild[c])]
    /\ \E n \in 1 .. BufSize :
        /\ n <= Len(toChild[c])
        /\ toChild' = [toChild EXCEPT ![c] = SubSeq(@, n + 1, Len(@))]
    /\ UNCHANGED <<line, nsent, echoed, pipe, storeReads, echomsg>>

\* -1 is not 0: the loop goes on with what is in the buffer.
ChildReadFails(c) ==
    /\ ChildGoesOn(c, "read") /\ line[c] = "reset" /\ toChild[c] = <<>>
    /\ line' = [line EXCEPT ![c] = "broken"]
    /\ UNCHANGED <<nsent, toChild, echoed, buf, pipe, storeReads, echomsg>>

\* Variant: the end of the stream does not end the loop.
LoopEnds_Never(n) == FALSE
LoopEnds(n) == n = 0

ChildEnds(c) ==
    /\ childAt[c] = "read" /\ line[c] \in {"closed", "broken"} /\ LoopEnds(Len(toChild[c]))
    /\ childAt' = [childAt EXCEPT ![c] = "done"]
    /\ UNCHANGED <<line, nsent, toChild, echoed, buf, pipe, storeReads, echomsg>>

\* The first write after a reset fails, which the child does not see.
ChildEchoes(c) ==
    /\ line[c] # "broken" /\ ChildGoesOn(c, "echo")
    /\ echoed' = [echoed EXCEPT ![c] = Append(@, buf[c])]
    /\ line' = [line EXCEPT ![c] = IF @ = "reset" THEN "broken" ELSE @]
    /\ UNCHANGED <<nsent, toChild, buf, pipe, storeReads, echomsg>>

\* The next one is a SIGPIPE.
ChildIsKilled(c) ==
    /\ line[c] = "broken" /\ childAt[c] = "echo"
    /\ childAt' = [childAt EXCEPT ![c] = "killed"]
    /\ UNCHANGED <<line, nsent, toChild, echoed, buf, pipe, storeReads, echomsg>>

\* The server and the children have the reading end open: the write waits
\* while the pipe is full, also when the logger has long ended.
ChildStores(c) ==
    /\ ChildGoesOn(c, "store") /\ Len(pipe) < PipeSize
    /\ pipe' = Append(pipe, <<c, buf[c]>>)
    /\ UNCHANGED <<line, nsent, toChild, echoed, buf, storeReads, echomsg>>

Logs ==
    /\ storeReads < StoreReads /\ pipe # <<>>
    /\ LET n == IF Len(pipe) < BufSize THEN Len(pipe) ELSE BufSize
       IN  echomsg' = echomsg \o SubSeq(pipe, 1, n) /\ pipe' = SubSeq(pipe, n + 1, Len(pipe))
    /\ storeReads' = storeReads + 1
    /\ UNCHANGED <<line, nsent, toChild, echoed, childAt, buf>>

ChildStep(c) ==
    \/ ChildReads(c) \/ ChildReadFails(c) \/ ChildEnds(c)
    \/ ChildEchoes(c) \/ ChildIsKilled(c) \/ ChildStores(c)

StoreNext ==
    /\ sample = "echo_storeserv" /\ UNCHANGED sample
    /\ \/ Logs
       \/ \E c \in Client : ClientSends(c) \/ ClientLeaves(c) \/ Accept(c) \/ ChildStep(c)

\* A sample alone: what its fairness adds is for ChildrenEnd only.
StoreSpec == StoreInit /\ [][StoreNext]_<<sample, storeVars>>

\* The kernel runs the server, its children and the logger; what a client does
\* is its own affair.
StoreFairness ==
    /\ WF_storeVars(sample = "echo_storeserv" /\ Logs)
    /\ \A c \in Client : WF_storeVars(sample = "echo_storeserv" /\ (Accept(c) \/ ChildStep(c)))

-----------------------------------------------------------------------------
\* The bytes of client c among the pairs of s.
BytesOf(c, s) == FlattenSeq([k \in DOMAIN s |-> IF s[k][1] = c THEN <<s[k][2]>> ELSE <<>>])
Stored(c) == BytesOf(c, echomsg \o pipe)

\* The children of all clients write into one pipe.  Of each client the file
\* and the pipe hold what was echoed to it, in that order, but for the last
\* byte while it is on its way; nothing that is left in a buffer is stored.
StoredIsEchoed ==
    \A c \in Client :
        Stored(c) = IF childAt[c] = "store" THEN Front(echoed[c]) ELSE echoed[c]

\* A byte may be swallowed, but none comes back twice or out of order.
EchoIsOrdered ==
    \A c \in Client : \A k \in 2 .. Len(echoed[c]) : echoed[c][k - 1] < echoed[c][k]

\* What was echoed is stored, and is a part of what was sent, in its order.
EchoIsStored == StoredIsEchoed /\ EchoIsOrdered

\* As long as the logger reads, the child of a client that has left ends; after
\* its last read a child waits for ever only for room in the pipe.
ChildrenEnd ==
    \A c \in Client :
        sample = "echo_storeserv" /\ line[c] # "open"
            ~> \/ childAt[c] \in {"done", "killed"}
               \/ storeReads = StoreReads /\ Len(pipe) = PipeSize /\ childAt[c] = "store"

=============================================================================
