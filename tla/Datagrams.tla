------------------------------ MODULE Datagrams ----------------------------
(***************************************************************************)
(* The programs that talk over UDP: udp_client.c and udp_server.c, and     *)
(* bound_udp_send.c with bound_udp_recv.c.  None of them knows a timeout   *)
(* or a retry.                                                             *)
(*                                                                         *)
(* The network holds a bag of datagrams, from which any may be received,   *)
(* lost or received once more.                                             *)
(***************************************************************************)
EXTENDS Sample, Integers, Sequences, Bags

CONSTANTS
    Host,               \* those that run udp_client.c
    MaxLines,           \* bound: the datagrams of a client
    MaxLost, MaxTwice   \* bounds: datagrams lost, and received once more

ASSUME DatagramsAssumption == {MaxLines, MaxLost, MaxTwice} \subseteq Nat /\ "server" \notin Host

VARIABLES
    net, lost, twice,
    clientAt,           \* "input", "wait" for an answer, or "done"
    message,            \* the buffer of each client: its lines are 1, 2, ...
    atEof,              \* the input of the client has ended
    asked, printed,     \* the texts that each client has sent, and printed
    held,               \* the datagram that the server is to send back
    boundSent, boundHeard       \* the messages of bound_udp_send, and those
                                \* that bound_udp_recv has printed

udpVars   == <<clientAt, message, atEof, asked, printed, held>>
boundVars == <<boundSent, boundHeard>>
netVars   == <<net, lost, twice, udpVars, boundVars>>

Server == "server"
Nobody == [from |-> Server, to |-> Server, text |-> 0]
Garbage == 0            \* what a buffer holds at first

DatagramsInit ==
    /\ net = EmptyBag /\ lost = 0 /\ twice = 0
    /\ clientAt = [c \in Host |-> "input"]
    /\ message = [c \in Host |-> Garbage]
    /\ atEof = [c \in Host |-> FALSE]
    /\ asked = [c \in Host |-> <<>>] /\ printed = asked
    /\ held = Nobody
    /\ boundSent = 0 /\ boundHeard = <<>>

-----------------------------------------------------------------------------
Datagram(from, to, text) == [from |-> from, to |-> to, text |-> text]

Sent(d) == net' = net (+) SetToBag({d}) /\ UNCHANGED <<lost, twice>>

\* A datagram stays in the network when it will arrive once more.
Received(d) ==
    /\ BagIn(d, net)
    /\ \/ net' = net (-) SetToBag({d}) /\ UNCHANGED twice
       \/ twice < MaxTwice /\ twice' = twice + 1 /\ UNCHANGED net
    /\ UNCHANGED lost

Lose ==
    /\ lost < MaxLost /\ lost' = lost + 1
    /\ \E d \in BagToSet(net) : net' = net (-) SetToBag({d})
    /\ UNCHANGED <<twice, udpVars, boundVars>>

-----------------------------------------------------------------------------
\* After the end of the input fgets changes nothing: what is sent is what the
\* buffer holds, the last answer.
Ask(c) ==
    /\ clientAt[c] = "input" /\ Len(asked[c]) < MaxLines
    /\ \/ /\ ~atEof[c]
          /\ message' = [message EXCEPT ![c] = Len(asked[c]) + 1]
          /\ UNCHANGED atEof
       \/ atEof' = [atEof EXCEPT ![c] = TRUE] /\ UNCHANGED message
    /\ asked' = [asked EXCEPT ![c] = Append(@, message'[c])]
    /\ Sent(Datagram(c, Server, message'[c]))
    /\ clientAt' = [clientAt EXCEPT ![c] = "wait"]
    /\ UNCHANGED <<printed, held, boundVars>>

\* q: the client ends.
Quit(c) ==
    /\ clientAt[c] = "input" /\ ~atEof[c]
    /\ clientAt' = [clientAt EXCEPT ![c] = "done"]
    /\ UNCHANGED <<net, lost, twice, message, atEof, asked, printed, held, boundVars>>

\* Any datagram to its port is taken for the answer.
Answered(c) ==
    /\ clientAt[c] = "wait"
    /\ \E d \in BagToSet(net) :
        /\ d.to = c /\ Received(d)
        /\ message' = [message EXCEPT ![c] = d.text]
        /\ printed' = [printed EXCEPT ![c] = Append(@, d.text)]
    /\ clientAt' = [clientAt EXCEPT ![c] = "input"]
    /\ UNCHANGED <<atEof, asked, held, boundVars>>

ServerReceives ==
    /\ held = Nobody
    /\ \E d \in BagToSet(net) : d.to = Server /\ Received(d) /\ held' = d
    /\ UNCHANGED <<clientAt, message, atEof, asked, printed, boundVars>>

\* Variant: the answer goes to one address, whoever asked.
AnswerTo_First(d) == CHOOSE c \in Host : TRUE
\* The address that recvfrom left in clnt_adr.
AnswerTo(d) == d.from

ServerSends ==
    /\ held # Nobody
    /\ Sent(Datagram(Server, AnswerTo(held), held.text)) /\ held' = Nobody
    /\ UNCHANGED <<clientAt, message, atEof, asked, printed, boundVars>>

UdpStep == (\E c \in Host : Ask(c) \/ Quit(c) \/ Answered(c)) \/ ServerReceives \/ ServerSends

-----------------------------------------------------------------------------
BoundMessages == <<"HI!", "I'm another UDP host!", "Nice to meet you">>

\* Variant: one read too many.
BoundReads_Four == 4
BoundReads == 3

BoundSends ==
    /\ boundSent < Len(BoundMessages) /\ boundSent' = boundSent + 1
    /\ Sent(Datagram("sender", "bound", BoundMessages[boundSent']))
    /\ UNCHANGED <<udpVars, boundHeard>>

\* Each has its end, so that the buffer needs none.
BoundReceives ==
    /\ Len(boundHeard) < BoundReads
    /\ \E d \in BagToSet(net) : Received(d) /\ boundHeard' = Append(boundHeard, d.text)
    /\ UNCHANGED <<udpVars, boundSent>>

DatagramsNext ==
    /\ UNCHANGED sample
    /\ \/ sample = "udp" /\ UdpStep
       \/ sample = "bound_udp" /\ (BoundSends \/ BoundReceives)
       \/ sample \in {"udp", "bound_udp"} /\ Lose

\* A sample alone: what its fairness adds is for DatagramsArrive only.
DatagramsSpec == DatagramsInit /\ [][DatagramsNext]_<<sample, netVars>>

\* The kernel runs the processes and delivers what is not lost; nobody need
\* type a line.
DatagramsFairness ==
    /\ \A c \in Host : WF_netVars(sample = "udp" /\ Answered(c))
    /\ WF_netVars(sample = "udp" /\ ServerReceives)
    /\ WF_netVars(sample = "udp" /\ ServerSends)
    /\ WF_netVars(sample = "bound_udp" /\ BoundSends)
    /\ WF_netVars(sample = "bound_udp" /\ BoundReceives)

-----------------------------------------------------------------------------
\* With no number in the datagrams a client trusts their order: its kth answer
\* is that to its kth line, until a datagram arrives twice; then it is late,
\* for the rest of the talk.  It never prints what another client asked or
\* what it has not asked yet.
AnswersAreInStep ==
    \A c \in Host : \A k \in DOMAIN printed[c] :
        /\ \E j \in 1 .. k : printed[c][k] = asked[c][j]
        /\ twice = 0 => printed[c][k] = asked[c][k]

\* A client that waits gets its answer as long as no datagram is lost, however
\* many others ask and whatever arrives twice.
AnswersArrive ==
    [](lost = 0) => \A c \in Host : sample = "udp" /\ clientAt[c] = "wait" ~> clientAt[c] = "input"

\* bound_udp_recv, which reads three messages, hears every one if none is lost
\* and none comes twice, in whatever order they arrive.
AllAreHeard ==
    sample = "bound_udp" /\ [](lost = 0 /\ twice = 0)
        => <>(/\ Len(boundHeard) = BoundReads
              /\ \A k \in 1 .. 3 : \E j \in 1 .. 3 : boundHeard[j] = BoundMessages[k])

\* What is not lost is heard, in both pairs of programs.
DatagramsArrive == AnswersArrive /\ AllAreHeard

=============================================================================
