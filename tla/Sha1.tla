-------------------------------- MODULE Sha1 -------------------------------
(***************************************************************************)
(* A context of sha1.c: bytes come in portions of any size, are collected  *)
(* in a block, and the block is processed when it is full.  SHA1Result     *)
(* pads what is left.  hash/ and Demo/trackerDemo/ hold the same file; the *)
(* sha1.c of Test/ is another implementation.                              *)
(*                                                                         *)
(* What SHA1ProcessMessageBlock computes depends on the blocks it was      *)
(* given since SHA1Reset, in their order, and on nothing else: so          *)
(* Intermediate_Hash is the sequence of their bytes.                       *)
(***************************************************************************)
EXTENDS Integers, Sequences

CONSTANTS
    BlockSize,          \* 64
    WordSize,           \* 4, the bytes of each of the two words of the length
    WordLimit,          \* 2^32, what such a word wraps at
    Octet,              \* the bytes
    LengthOctet(_, _),  \* byte k of a word w, 0 the highest: w >> 8 * (3 - k)
    Streams,            \* what callers hash, from its first byte to its last
    Garbage,            \* what Message_Block may hold before it is written
    MaxPortion          \* bound: the bytes of one SHA1Input

LengthAt == BlockSize - 2 * WordSize        \* 56

ASSUME SizeAssumption ==
    /\ BlockSize \in Nat /\ WordSize \in Nat \ {0} /\ LengthAt >= 1
    /\ MaxPortion \in Nat
\* Each byte adds eight to the length, so a word of it is 0 when it wraps.
ASSUME LimitAssumption == WordLimit \in Nat \ {0} /\ WordLimit % 8 = 0
ASSUME OctetAssumption ==
    /\ {0, 128} \subseteq Octet
    /\ \A w \in 0 .. WordLimit - 1, k \in 0 .. WordSize - 1 : LengthOctet(w, k) \in Octet
ASSUME StreamAssumption == Streams \subseteq Seq(Octet)
ASSUME GarbageAssumption == Garbage \subseteq [0 .. BlockSize - 1 -> Octet]

\* The codes of sha1.h.
shaSuccess    == 0
shaNull       == 1
shaStateError == 3

VARIABLES
    Length_Low, Length_High, Message_Block_Index, Message_Block,
    Intermediate_Hash, Computed, Corrupted,
    stream,             \* what is hashed since SHA1Reset
    taken,              \* how many of its bytes the context took
    left,               \* how many the SHA1Input under way has to take
    code                \* what the last call returned

context == <<Length_Low, Length_High, Message_Block_Index, Message_Block,
             Intermediate_Hash, Computed, Corrupted>>
vars    == <<context, stream, taken, left, code>>

Index == 0 .. BlockSize - 1

-----------------------------------------------------------------------------
\* Variant: the next message begins where the last one stopped.
ResetIndex_Kept == Message_Block_Index
ResetIndex == 0

\* SHA1Reset leaves Message_Block as it is.
SHA1Reset ==
    /\ left = 0
    /\ Length_Low' = 0 /\ Length_High' = 0
    /\ Message_Block_Index' = ResetIndex
    /\ Intermediate_Hash' = <<>>
    /\ Computed' = FALSE /\ Corrupted' = 0
    /\ stream' \in Streams /\ taken' = 0
    /\ code' = shaSuccess
    /\ UNCHANGED <<Message_Block, left>>

\* Before the first SHA1Reset the block is what the stack held.
Init ==
    /\ Length_Low = 0 /\ Length_High = 0
    /\ Message_Block_Index = 0
    /\ Message_Block \in Garbage
    /\ Intermediate_Hash = <<>>
    /\ Computed = FALSE /\ Corrupted = 0
    /\ stream \in Streams /\ taken = 0
    /\ left = 0 /\ code = shaSuccess

\* SHA1ProcessMessageBlock, of the block b.
Processed(b) == Intermediate_Hash \o [k \in 1 .. BlockSize |-> b[k - 1]]

\* Variant: input after the result is hashed.
Refused_Corrupted == Corrupted # 0
Refused == Computed \/ Corrupted # 0

\* SHA1Input up to its loop, for a portion of n bytes; a portion of none is
\* a success in any state.
SHA1Input(n) ==
    /\ left = 0
    /\ taken + n <= Len(stream)
    /\ IF n = 0 THEN code' = shaSuccess /\ UNCHANGED <<Corrupted, left>>
       ELSE IF Refused
       THEN /\ Corrupted' = IF Computed THEN shaStateError ELSE Corrupted
            /\ code' = Corrupted'
            /\ UNCHANGED left
       ELSE left' = n /\ UNCHANGED <<Corrupted, code>>
    /\ UNCHANGED <<Length_Low, Length_High, Message_Block_Index, Message_Block,
                   Intermediate_Hash, Computed, stream, taken>>

\* Variant: a block is processed with its first byte of the next.
BlockIsFull_Late(i) == i > BlockSize
BlockIsFull(i) == i = BlockSize

\* Variant: the high word is not touched.
Carry_Forgotten(low) == 0
Carry(low) == IF low = 0 THEN 1 ELSE 0

\* One turn of its loop.  Message too long is reported as 1, and the call
\* itself still returns shaSuccess.
TakeByte ==
    /\ left > 0
    /\ LET byte  == stream[taken + 1]
           low   == (Length_Low + 8) % WordLimit
           high  == (Length_High + Carry(low)) % WordLimit
           wraps == Carry(low) = 1 /\ high = 0
           block == [Message_Block EXCEPT ![Message_Block_Index] = byte]
       IN  /\ Message_Block' = block
           /\ Length_Low' = low /\ Length_High' = high
           /\ Corrupted' = IF wraps THEN 1 ELSE Corrupted
           /\ left' = IF wraps THEN 0 ELSE left - 1
           /\ IF BlockIsFull(Message_Block_Index + 1)
              THEN Intermediate_Hash' = Processed(block) /\ Message_Block_Index' = 0
              ELSE /\ Message_Block_Index' = Message_Block_Index + 1
                   /\ UNCHANGED Intermediate_Hash
    /\ taken' = taken + 1
    /\ code' = shaSuccess
    /\ UNCHANGED <<Computed, stream>>

-----------------------------------------------------------------------------
\* The block from Message_Block_Index on: 0x80, then zeros up to the end.
Filled(end) == [k \in Index |->
    IF k = Message_Block_Index THEN 128
    ELSE IF k \in Message_Block_Index + 1 .. end - 1 THEN 0
    ELSE Message_Block[k]]

\* The last block: its bytes from LengthAt on are the length.
WithLength(b) == [k \in Index |->
    IF k < LengthAt THEN b[k]
    ELSE IF k < LengthAt + WordSize THEN LengthOctet(Length_High, k - LengthAt)
    ELSE LengthOctet(Length_Low, k - LengthAt - WordSize)]

\* Variant: the length needs no byte for 0x80.
NeedsTwoBlocks_Late == Message_Block_Index > LengthAt
NeedsTwoBlocks == Message_Block_Index > LengthAt - 1

SHA1PadMessage ==
    Intermediate_Hash' =
        IF NeedsTwoBlocks
        THEN Processed(Filled(BlockSize))
                \o [k \in 1 .. BlockSize |-> WithLength([j \in Index |-> 0])[k - 1]]
        ELSE Processed(WithLength(Filled(LengthAt)))

\* Variant: a second call pads again.
AlreadyComputed_Never == FALSE
AlreadyComputed == Computed

SHA1Result ==
    /\ left = 0
    /\ IF Corrupted # 0
       THEN code' = Corrupted /\ UNCHANGED context
       ELSE /\ code' = shaSuccess
            /\ IF AlreadyComputed THEN UNCHANGED context
               ELSE /\ SHA1PadMessage
                    /\ Message_Block' = [k \in Index |-> 0]
                    /\ Message_Block_Index' = 0
                    /\ Length_Low' = 0 /\ Length_High' = 0
                    /\ Computed' = TRUE
                    /\ UNCHANGED Corrupted
    /\ UNCHANGED <<stream, taken, left>>

\* Any of the three calls with a pointer that is NULL.
NullPointer == left = 0 /\ code' = shaNull /\ UNCHANGED <<context, stream, taken, left>>

Next ==
    \/ SHA1Reset \/ TakeByte \/ SHA1Result \/ NullPointer
    \/ \E n \in 0 .. MaxPortion : SHA1Input(n)

Spec == Init /\ [][Next]_vars

-----------------------------------------------------------------------------
message == SubSeq(stream, 1, taken)

TypeOK ==
    /\ Length_Low \in 0 .. WordLimit - 1 /\ Length_High \in 0 .. WordLimit - 1
    /\ Message_Block_Index \in Index
    /\ Message_Block \in [Index -> Octet]
    /\ Intermediate_Hash \in Seq(Octet)
    /\ Computed \in BOOLEAN
    /\ Corrupted \in {0, 1, shaStateError}
    /\ stream \in Streams /\ taken \in 0 .. Len(stream)
    /\ left \in 0 .. Len(stream) - taken
    /\ code \in {shaSuccess, shaNull, shaStateError}

\* However a message is cut into portions, each of its bytes is hashed or in
\* the block, once and in its place, until the result is asked for.
NoByteIsLost ==
    ~Computed =>
        /\ Len(Intermediate_Hash) + Message_Block_Index = taken
        /\ \A k \in 1 .. Len(Intermediate_Hash) : Intermediate_Hash[k] = stream[k]
        /\ \A k \in 0 .. Message_Block_Index - 1 :
              Message_Block[k] = stream[Len(Intermediate_Hash) + k + 1]

\* The two words count the bits of the message, up to a message too long.
LengthIsCounted ==
    ~Computed /\ Corrupted = 0 => Length_High * WordLimit + Length_Low = 8 * taken

\* What a context is between two calls.
ContextInv == TypeOK /\ NoByteIsLost /\ LengthIsCounted

\* The padding of the standard: 0x80, as few zeros as make whole blocks of it
\* all, and the length in bits in the last 2 * WordSize bytes.
Padded(m) ==
    LET zeros == CHOOSE z \in 0 .. BlockSize - 1 : (Len(m) + 1 + z + 2 * WordSize) % BlockSize = 0
        bits  == 8 * Len(m)
    IN  m \o <<128>> \o [k \in 1 .. zeros |-> 0]
          \o [k \in 1 .. WordSize |-> LengthOctet(bits \div WordLimit, k - 1)]
          \o [k \in 1 .. WordSize |-> LengthOctet(bits % WordLimit, k - 1)]

TooLong(m) == 8 * Len(m) >= WordLimit * WordLimit

\* The context hashes what the standard says, whatever was in it before, and
\* goes back to nothing only through SHA1Reset: input after the result, or a
\* message too long, is an error for good.
Digest == INSTANCE MessageDigest WITH
    state <- IF Corrupted # 0 THEN "failed" ELSE IF Computed THEN "closed" ELSE "open",
    hashed <- Intermediate_Hash
DigestSpec == Digest!Spec

=============================================================================
