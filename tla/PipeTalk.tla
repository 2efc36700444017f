------------------------------ MODULE PipeTalk -----------------------------
(***************************************************************************)
(* pipe2.c: a parent and its child talk over one pipe in both directions.  *)
(* What is written is in the pipe at once, and a read takes all there is:  *)
(* the buffer of 30 has room for either message, and both are never in the *)
(* pipe at a time.  Each process holds the writing end itself, so that a   *)
(* read from the empty pipe waits.                                         *)
(***************************************************************************)
EXTENDS Sample, Integers, Sequences, SequencesExt

VARIABLES
    talk,               \* the messages in the pipe
    at,                 \* the call of Calls that each process is at
    heard               \* what each has read and printed

talkVars == <<talk, at, heard>>

Talker == {"child", "parent"}

\* Variants: the parent greets before it listens; the child listens first.
Calls_ParentFirst == [child |-> <<"write", "read">>, parent |-> <<"write", "read">>]
Calls_ChildLast   == [child |-> <<"read", "write">>, parent |-> <<"read", "write">>]
Calls == [child |-> <<"write", "read">>, parent |-> <<"read", "write">>]

Says == [child |-> "Who are you?", parent |-> "Thank you for your message"]

TalkInit ==
    /\ talk = <<>>
    /\ at = [p \in Talker |-> 1]
    /\ heard = [p \in Talker |-> <<>>]

Goes(p, call) ==
    /\ sample = "pipe2"
    /\ at[p] \in DOMAIN Calls[p] /\ Calls[p][at[p]] = call
    /\ at' = [at EXCEPT ![p] = @ + 1]
    /\ UNCHANGED sample

Says_(p) ==
    /\ Goes(p, "write")
    /\ talk' = Append(talk, Says[p])
    /\ UNCHANGED heard

Listens(p) ==
    /\ Goes(p, "read")
    /\ talk # <<>>
    /\ heard' = [heard EXCEPT ![p] = talk]
    /\ talk' = <<>>

TalkStep(p) == Says_(p) \/ Listens(p)
TalkNext    == \E p \in Talker : TalkStep(p)

\* A sample alone: what its fairness adds is for TalkEnds only.
TalkSpec == TalkInit /\ [][TalkNext]_<<sample, talkVars>>

\* The kernel runs both processes.
TalkFairness == \A p \in Talker : WF_talkVars(TalkStep(p))

-----------------------------------------------------------------------------
Hears(p, q) == Says[q] \in ToSet(heard[p])

\* The child is thanked only for a question that the parent has read; whoever
\* reads it takes it from the other, so that one of them hears nothing.
ThanksFollowQuestion ==
    /\ Hears("child", "parent") => Hears("parent", "child")
    /\ Hears("child", "child") => heard["parent"] = <<>> /\ ~Hears("child", "parent")

\* Unless the child reads its own question, both come to their end; if it
\* does, the parent waits for ever.
TalkEnds ==
    IF sample = "pipe2" THEN
        /\ [](~Hears("child", "child")) => <>(\A p \in Talker : at[p] = 3)
        /\ [](Hears("child", "child") => [](at["parent"] = 1))
    ELSE TRUE

=============================================================================
