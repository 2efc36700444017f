---------------------------- MODULE StreamClients --------------------------
(***************************************************************************)
(* The clients that talk over a TCP stream: net_client.c with a tracker,   *)
(* connect_http.c with a web server, and hello_client.c with               *)
(* hello_server.c.  They connect, send a request (the first two), read and *)
(* print, and close.                                                       *)
(*                                                                         *)
(* The first two servers are not in the repository: they answer a request  *)
(* that ends with an empty line and then close, may give up waiting for    *)
(* it, and may reset the connection.  A read takes any part of what has    *)
(* arrived, and the print after it all that the buffer holds up to a NUL:  *)
(* nobody ends the text where the read ended, and the buffer begins with   *)
(* what the stack held.  That there is a NUL behind it is assumed.         *)
(***************************************************************************)
EXTENDS Sample, Integers, Sequences, SequencesExt

CONSTANTS
    Texts,              \* that a server may answer with
    Memory,             \* what the stack may hold from the buffer's beginning
                        \* to a NUL behind it
    ReadSize            \* BUFF_SIZE

ASSUME StreamAssumption ==
    /\ Texts \subseteq Seq(0 .. 255) /\ ReadSize \in Nat \ {0}
    /\ \A m \in Memory : m \in Seq(0 .. 255) /\ ReadSize < Len(m) /\ Last(m) = 0

VARIABLES
    streamAt,           \* what the client does next, or "done", or "failed"
    conn,               \* "none", "open", "ended" by the server, "reset" by it,
                        \* or "broken" once the reset was reported
    request,            \* the lines that the server has got
    answer,             \* given, and
    answered, toClient, \* how much of it is sent, and what of that is not read
    msg,                \* the buffer and what is behind it
    got, shown          \* what the client's reads have brought, and its prints

printVars  == <<msg, got, shown>>
streamVars == <<streamAt, conn, request, answer, answered, toClient, printVars>>

StreamProgram == {"net_client", "connect_http", "hello_client"}
EmptyLine == ""

\* What %s takes for the text of a buffer with a NUL in it.
UpToNul(s) == SubSeq(s, 1, SelectInSeq(s, LAMBDA b : b = 0) - 1)

\* hello_server sends a text with the NUL at its end.
MayBeAnswer(text) == sample = "hello_client" => SelectInSeq(text, LAMBDA b : b = 0) = Len(text)

StreamInit ==
    /\ streamAt = IF sample = "net_client" THEN "name" ELSE "connect"
    /\ conn = "none" /\ request = <<>>
    /\ answer \in Texts /\ MayBeAnswer(answer) /\ answered = 0 /\ toClient = <<>>
    /\ msg \in Memory /\ got = <<>> /\ shown = <<>>

-----------------------------------------------------------------------------
\* Variant: no empty line at the end.
Lines_Unfinished(program) == <<"GET", "Host", "User-Agent", "Accept", "Accept-Encoding", "Connection">>
\* That of connect_http.c lacks the empty line.
Lines(program) ==
    IF program = "connect_http"
    THEN <<"GET", "Host", "User-Agent", "Accept-Encodeing", "Accept">>
    ELSE <<"GET", "Host", "User-Agent", "Accept", "Accept-Encoding", "Connection", EmptyLine>>

\* A socket, a name or a connection that cannot be had ends the program.
ConnectFails ==
    /\ streamAt = "connect" /\ streamAt' = "failed"
    /\ UNCHANGED <<conn, request, answered, toClient, printVars>>

Connects ==
    /\ streamAt = "connect"
    /\ streamAt' = IF sample = "hello_client" THEN "read" ELSE "send"
    /\ conn' = "open"
    /\ UNCHANGED <<request, answered, toClient, printVars>>

\* Nobody looks at what write returns.
SendsRequest ==
    /\ streamAt = "send" /\ streamAt' = "read"
    /\ IF conn = "reset"
       THEN conn' = "broken" /\ UNCHANGED request
       ELSE request' = Lines(sample) /\ UNCHANGED conn
    /\ UNCHANGED <<answered, toClient, printVars>>

\* Variant: one read is taken for the whole answer.
AfterRead_Close == "close"
\* hello_client reads once.
AfterRead == IF sample = "hello_client" THEN "close" ELSE "read"

\* Variant: the text is ended at the last byte read, not behind it.
Filled_Ended(part) ==
    IF part = <<>> THEN msg
    ELSE Front(part) \o <<0>> \o SubSeq(msg, Len(part) + 1, Len(msg))
\* A read changes the buffer as far as it goes.
Filled(part) == part \o SubSeq(msg, Len(part) + 1, Len(msg))

Prints(part) ==
    /\ msg' = Filled(part)
    /\ got' = Append(got, part) /\ shown' = Append(shown, UpToNul(msg'))

Reads ==
    /\ streamAt = "read" /\ streamAt' = AfterRead
    /\ \E n \in 1 .. ReadSize :
        /\ n <= Len(toClient)
        /\ Prints(SubSeq(toClient, 1, n))
        /\ toClient' = SubSeq(toClient, n + 1, Len(toClient))
    /\ UNCHANGED <<conn, request, answered>>

\* Of the read's result only 0 is looked at: after -1 the buffer is printed as
\* it is.  hello_client returns.
ReadFails ==
    /\ streamAt = "read" /\ conn = "reset" /\ toClient = <<>>
    /\ conn' = "broken"
    /\ IF sample = "hello_client"
       THEN streamAt' = "failed" /\ UNCHANGED printVars
       ELSE Prints(<<>>) /\ UNCHANGED streamAt
    /\ UNCHANGED <<request, answered, toClient>>

\* hello_client prints what the buffer holds.
ReadsEnd ==
    /\ streamAt = "read" /\ conn \in {"ended", "broken"} /\ toClient = <<>>
    /\ streamAt' = "close"
    /\ IF sample = "hello_client" THEN Prints(<<>>) ELSE UNCHANGED printVars
    /\ UNCHANGED <<conn, request, answered, toClient>>

Closes ==
    /\ streamAt = "close" /\ streamAt' = "done"
    /\ UNCHANGED <<conn, request, answered, toClient, printVars>>

ClientStep ==
    ConnectFails \/ Connects \/ SendsRequest \/ Reads \/ ReadFails \/ ReadsEnd \/ Closes

-----------------------------------------------------------------------------
\* hello_server writes at once; the others have read the whole request.
MayAnswer == sample = "hello_client" \/ (request # <<>> /\ Last(request) = EmptyLine)

Answers ==
    /\ conn = "open" /\ MayAnswer /\ answered < Len(answer)
    /\ answered' = answered + 1
    /\ toClient' = Append(toClient, answer[answered'])
    /\ UNCHANGED <<streamAt, conn, request, printVars>>

ServerCloses ==
    /\ conn = "open" /\ answered = Len(answer) /\ conn' = "ended"
    /\ UNCHANGED <<streamAt, request, answered, toClient, printVars>>

GivesUp ==
    /\ conn = "open" /\ ~MayAnswer /\ conn' = "ended"
    /\ UNCHANGED <<streamAt, request, answered, toClient, printVars>>

\* Some of what is on its way is lost.
Resets ==
    /\ conn \in {"open", "ended"} /\ conn' = "reset"
    /\ \E n \in 0 .. Len(toClient) : toClient' = SubSeq(toClient, 1, n)
    /\ UNCHANGED <<streamAt, request, answered, printVars>>

ServerStep == Answers \/ ServerCloses

StreamNext ==
    /\ sample \in StreamProgram /\ UNCHANGED <<sample, answer>>
    /\ ClientStep \/ ServerStep \/ GivesUp \/ Resets

\* The kernels run the client and the server; a server that waits for the rest
\* of a request need not give up.
StreamFairness ==
    /\ WF_streamVars(sample \in StreamProgram /\ ClientStep /\ UNCHANGED answer)
    /\ WF_streamVars(sample \in StreamProgram /\ ServerStep /\ UNCHANGED answer)

-----------------------------------------------------------------------------
\* No byte of the answer is left out and none comes twice in what the reads
\* bring, and each read is printed from its first byte on, up to the first NUL
\* in it, in a print of its own: one that fails, or finds the end, brings
\* nothing.  What a print shows behind what was read is what the print before
\* showed in the same place, so that a short read shows old bytes again.
AnswerIsPrinted ==
    /\ IsPrefix(FlattenSeq(got), answer) /\ Len(shown) = Len(got)
    /\ \A k \in 1 .. Len(shown) :
        IF 0 \in ToSet(got[k]) THEN shown[k] = UpToNul(got[k]) ELSE IsPrefix(got[k], shown[k])
    /\ \A k \in 2 .. Len(shown) : \A i \in Len(got[k]) + 1 .. Len(shown[k]) :
        i <= Len(shown[k - 1]) => shown[k][i] = shown[k - 1][i]

\* Whatever the server does after it got the request, the client comes to its
\* end; and unless the connection is reset net_client has read all of the answer,
\* or the server gave up before it got the request.  Only connect_http.c,
\* whose request never ends, may wait for ever for a server that waits too.
ClientsEnd ==
    /\ sample \in StreamProgram /\ streamAt = "read"
        ~> \/ streamAt \in {"done", "failed"}
           \/ sample = "connect_http" /\ conn = "open" /\ shown = <<>>
    /\ sample = "net_client" /\ streamAt = "read"
        ~> \/ streamAt = "done" /\ FlattenSeq(got) = answer
           \/ conn \in {"reset", "broken"}
           \/ conn = "ended" /\ answered = 0

=============================================================================
