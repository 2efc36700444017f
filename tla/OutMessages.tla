---------------------------- MODULE OutMessages ----------------------------
(***************************************************************************)
(* The messages to a peer, Test/message.c: each create function appends    *)
(* one to the peer's out_msg if it fits, as bytes that begin with their    *)
(* own number.  Nothing in the repository takes them out yet, and those    *)
(* for cancel and port are still to be written.                            *)
(***************************************************************************)
EXTENDS Integers, Sequences

CONSTANTS
    MSG_SIZE,           \* of out_msg
    Index, Begin,       \* the pieces, and where slices begin in them
    BlockLength,        \* the lengths of slices
    BitfieldLength,     \* the length of bitfields
    MaxMessages         \* bound: messages created

ASSUME SizeAssumption  == MSG_SIZE \in Nat /\ MaxMessages \in Nat
\* The numbers are ints that are not negative, at most 2^31 - 1, and so is the
\* room asked for.
INT_MAX == 127 * 16777216 + 16777215
ASSUME NumberAssumption ==
    /\ Index \subseteq 0 .. INT_MAX /\ Begin \subseteq 0 .. INT_MAX
    /\ BlockLength \subseteq 0 .. INT_MAX - 13
    /\ BitfieldLength \subseteq 0 .. INT_MAX - 5

VARIABLES
    out_msg,            \* and 20 bytes of heap behind it
    msg_len,
    queued              \* what was asked for and not refused

messageVars == <<out_msg, msg_len, queued>>

\* What the heap holds there until it is written: no byte.
Heap      == 256
Memory    == 0 .. MSG_SIZE + 19
Fill(n, byte) == [k \in 1 .. n |-> byte]

Message ==
    [kind : {"handshake", "keep_alive"}]
        \cup [kind : {"state"}, type : 0 .. 3]
        \cup [kind : {"have"}, index : Index]
        \cup [kind : {"bitfield"}, length : BitfieldLength]
        \cup [kind : {"request", "piece"}, index : Index, begin : Begin, length : BlockLength]

\* Variant: the low byte comes first.
int_to_char_Swapped(i) ==
    <<i % 256, (i \div 256) % 256, (i \div 65536) % 256, (i \div 16777216) % 256>>
int_to_char(i) ==
    <<(i \div 16777216) % 256, (i \div 65536) % 256, (i \div 256) % 256, i % 256>>

\* Bytes that stand for the letters of the protocol's name, the info hash, the
\* peer id and a bitfield.
Letter == 66
HashByte == 77
IdByte == 88
Bits == 170

Bytes(m) ==
    CASE m.kind = "handshake"  -> <<19>> \o Fill(19, Letter) \o Fill(8, 0)
                                    \o Fill(20, HashByte) \o Fill(20, IdByte)
      [] m.kind = "keep_alive" -> Fill(4, 0)
      [] m.kind = "state"      -> <<0, 0, 0, 1, m.type>>
      [] m.kind = "have"       -> <<0, 0, 0, 5, 4>> \o int_to_char(m.index)
      [] m.kind = "bitfield"   -> int_to_char(m.length + 1) \o <<5>> \o Fill(m.length, Bits)
      \* The length asked for is not written: begin is, twice.
      [] m.kind = "request"    -> <<0, 0, 0, 13, 6>> \o int_to_char(m.index)
                                    \o int_to_char(m.begin) \o int_to_char(m.begin)
      \* Neither begin nor the block is written: the index is, three times, even
      \* where the block has less than the last four of these bytes.
      [] m.kind = "piece"      -> int_to_char(m.length + 9) \o <<7>> \o int_to_char(m.index)
                                    \o int_to_char(m.index) \o int_to_char(m.index)

\* Variant: the numbers before the block are forgotten.
Needed_Block(m) == IF m.kind = "piece" THEN m.length ELSE Len(Bytes(m))
\* The room a create function asks for.
Needed(m) == IF m.kind = "piece" THEN m.length + 13 ELSE Len(Bytes(m))

\* Variant: the block is not counted.
Advance_Bytes(m) == IF m.kind = "bitfield" THEN m.length ELSE Len(Bytes(m))
\* By how much it moves msg_len; a bitfield's five bytes are forgotten.
Advance(m) == CASE m.kind = "bitfield" -> m.length
                [] m.kind = "piece"    -> m.length + 13
                [] OTHER               -> Len(Bytes(m))

\* Variant: the buffer is the beginning of out_msg.
buffer_First == 0
buffer == msg_len

MessagesInit ==
    /\ out_msg = [k \in Memory |-> IF k < MSG_SIZE THEN 0 ELSE Heap]
    /\ msg_len = 0
    /\ queued = <<>>

Create(m) ==
    /\ Len(queued) < MaxMessages
    /\ MSG_SIZE - msg_len >= Needed(m)
    /\ out_msg' = [k \in Memory |-> IF k - buffer \in 0 .. Len(Bytes(m)) - 1
                                    THEN Bytes(m)[k - buffer + 1] ELSE out_msg[k]]
    /\ msg_len' = msg_len + Advance(m)
    /\ queued' = Append(queued, m)

Refuse(m) ==
    /\ MSG_SIZE - msg_len < Needed(m)
    /\ UNCHANGED messageVars

MessagesNext == \E m \in Message : Create(m) \/ Refuse(m)

MessagesSpec == MessagesInit /\ [][MessagesNext]_messageVars

-----------------------------------------------------------------------------
MessagesTypeOK ==
    /\ out_msg \in [Memory -> 0 .. Heap]
    /\ msg_len \in 0 .. MSG_SIZE
    /\ queued \in Seq(Message)

\* No create function writes behind out_msg but create_piece_msg, for a slice of
\* less than four bytes, and that no further than the slice is short of four.
InsideBuffer ==
    \A k \in Memory : k >= MSG_SIZE /\ out_msg[k] # Heap =>
        \E i \in 1 .. Len(queued) :
            queued[i].kind = "piece" /\ k < MSG_SIZE + 4 - queued[i].length

\* The types, and what is written behind the buffer.
MessagesInv == MessagesTypeOK /\ InsideBuffer

-----------------------------------------------------------------------------
\* How the peer at the other end reads the bytes: a handshake begins with 19,
\* every other message with the number of bytes that follow.
Number(p)      == ((out_msg[p] * 256 + out_msg[p + 1]) * 256 + out_msg[p + 2]) * 256 + out_msg[p + 3]
FrameLength(p) == IF out_msg[p] = 19 THEN 68 ELSE 4 + Number(p)

\* With 19 * 2^24 bytes of buffer the number before a piece can itself begin
\* with 19, and looks like a handshake.  No file of the repository defines
\* MSG_SIZE.
Ambiguous == 19 * 16777216
NumbersAreTold == MSG_SIZE < Ambiguous

\* What it finds of a message.  Where a request has its length, it finds begin
\* again; where a piece has its begin and its block, it finds the index, and of
\* the block behind that whatever out_msg held.
Reads(m, p) ==
    CASE m.kind = "handshake"  -> /\ out_msg[p] = 19
                                  /\ \A k \in 28 .. 47 : out_msg[p + k] = HashByte
                                  /\ \A k \in 48 .. 67 : out_msg[p + k] = IdByte
      [] m.kind = "keep_alive" -> Number(p) = 0
      [] m.kind = "state"      -> Number(p) = 1 /\ out_msg[p + 4] = m.type
      [] m.kind = "have"       -> Number(p) = 5 /\ out_msg[p + 4] = 4 /\ Number(p + 5) = m.index
      [] m.kind = "request"    -> /\ Number(p) = 13 /\ out_msg[p + 4] = 6
                                  /\ Number(p + 5) = m.index /\ Number(p + 9) = m.begin
                                  /\ Number(p + 13) = m.begin
      [] m.kind = "piece"      -> /\ Number(p) = m.length + 9 /\ out_msg[p + 4] = 7
                                  /\ Number(p + 5) = m.index /\ Number(p + 9) = m.index
                                  /\ \A k \in 1 .. 4 : k <= m.length =>
                                        out_msg[p + 12 + k] = int_to_char(m.index)[k]

\* It finds every number that was given, or it does not.
AllIsTold(m, p) ==
    /\ m.kind = "request" => Number(p + 13) = m.length
    /\ m.kind = "piece"   => Number(p + 9) = m.begin
Mistold(m) == \/ m.kind = "request" /\ m.length # m.begin
              \/ m.kind = "piece" /\ m.begin # m.index

\* Where the reader finds the k-th message, as long as it finds the others.
StartOf[k \in 1 .. MaxMessages + 1] ==
    IF k = 1 THEN 0 ELSE StartOf[k - 1] + FrameLength(StartOf[k - 1])

\* As long as no bitfield is among them, the reader finds the messages that
\* were created, one by one, and then the end.  After a bitfield it does not.
\* It is told all their numbers, but a request's length only where that is its
\* begin, and a piece's begin only where that is its index.
StreamReadsBack ==
    (\A k \in 1 .. Len(queued) : queued[k].kind # "bitfield") =>
        /\ \A k \in 1 .. Len(queued) :
              /\ Reads(queued[k], StartOf[k])
              /\ AllIsTold(queued[k], StartOf[k]) <=> ~Mistold(queued[k])
        /\ StartOf[Len(queued) + 1] = msg_len

=============================================================================
