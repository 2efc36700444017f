----------------------------- MODULE Sha1Proofs ----------------------------
(***************************************************************************)
(* For every size of blocks and words, every message and every way to cut  *)
(* it into portions: the context of sha1.c keeps its types, loses no byte, *)
(* counts the bits, and implements MessageDigest.                          *)
(***************************************************************************)
EXTENDS Sha1, SequenceTheorems, TLAPS

\* The length grows by eight, so its low word is a multiple of eight: this is
\* why it is exactly 0 when it wraps, which is all that Carry looks at.
LowIsEights == \E q \in Nat : Length_Low = 8 * q

IInv == ContextInv /\ LowIsEights

-----------------------------------------------------------------------------
\* What the sizes are.
LEMMA Sizes ==
    /\ BlockSize \in Nat \ {0} /\ WordSize \in Nat \ {0}
    /\ LengthAt \in Nat /\ 0 \in Index
    /\ WordLimit \in Nat \ {0} /\ \E w \in Nat : WordLimit = 8 * w
<1>1. BlockSize \in Nat \ {0} /\ WordSize \in Nat \ {0} /\ LengthAt \in Nat
  BY SizeAssumption, SMT DEF LengthAt
<1>2. \E w \in Nat : WordLimit = 8 * w
  <2>1. WordLimit = 8 * (WordLimit \div 8) + (WordLimit % 8) /\ WordLimit \div 8 \in Nat
    BY LimitAssumption, SMT
  <2> QED BY <2>1, LimitAssumption, SMT
<1> QED BY <1>1, <1>2, LimitAssumption, SMT DEF Index

\* A function on the first n numbers is a sequence.
LEMMA FunctionIsSequence ==
    ASSUME NEW S, NEW n \in Nat, NEW f \in [1 .. n -> S]
    PROVE  f \in Seq(S) /\ Len(f) = n
  OBVIOUS

\* A number below the limit is what it is modulo the limit, and the limit is 0.
LEMMA Wraps ==
    ASSUME NEW W \in Nat \ {0}, NEW a \in 0 .. W
    PROVE  (a % W) = IF a = W THEN 0 ELSE a
  BY SMT

\* A block is appended to what was hashed, byte for byte.
LEMMA ProcessedBlock ==
    ASSUME NEW b \in [Index -> Octet], Intermediate_Hash \in Seq(Octet)
    PROVE  /\ Processed(b) \in Seq(Octet)
           /\ Len(Processed(b)) = Len(Intermediate_Hash) + BlockSize
           /\ \A k \in 1 .. Len(Intermediate_Hash) : Processed(b)[k] = Intermediate_Hash[k]
           /\ \A k \in Len(Intermediate_Hash) + 1 .. Len(Processed(b)) :
                 Processed(b)[k] = b[k - Len(Intermediate_Hash) - 1]
<1> DEFINE s == [k \in 1 .. BlockSize |-> b[k - 1]]
<1>1. s \in [1 .. BlockSize -> Octet]
  BY Sizes, SMT DEF Index
<1>2. s \in Seq(Octet) /\ Len(s) = BlockSize
  BY <1>1, Sizes, FunctionIsSequence
<1>3. \A k \in 1 .. BlockSize : s[k] = b[k - 1]
  OBVIOUS
<1>4. Processed(b) = Intermediate_Hash \o s
  BY DEF Processed
<1> HIDE DEF s
<1> DEFINE n == Len(Intermediate_Hash)
<1>5. n \in Nat /\ BlockSize \in Nat
  BY Sizes
<1>6. /\ Processed(b) \in Seq(Octet)
      /\ Len(Processed(b)) = n + BlockSize
  <2>1. /\ Intermediate_Hash \o s \in Seq(Octet)
        /\ Len(Intermediate_Hash \o s) = Len(Intermediate_Hash) + Len(s)
    BY <1>2, ConcatProperties
  <2> QED BY <1>2, <1>4, <2>1
<1>7. \A k \in 1 .. n : Processed(b)[k] = Intermediate_Hash[k]
  BY <1>2, <1>4
<1>8. ASSUME NEW k \in n + 1 .. n + BlockSize
      PROVE  Processed(b)[k] = b[k - n - 1]
  <2>1. k - n \in 1 .. BlockSize
    BY <1>5, SMT
  <2>2. Processed(b)[k] = s[k - n]
    BY <1>2, <1>4, <2>1
  <2> QED BY <1>3, <2>1, <2>2
<1> QED BY <1>5, <1>6, <1>7, <1>8

-----------------------------------------------------------------------------
LEMMA InitHolds == Init => IInv
<1> SUFFICES ASSUME Init PROVE IInv
  OBVIOUS
<1>1. stream \in Seq(Octet) /\ Message_Block \in [Index -> Octet]
  BY StreamAssumption, GarbageAssumption DEF Init, Index
<1>2. TypeOK
  BY <1>1, Sizes DEF Init, TypeOK, shaSuccess
<1>3. NoByteIsLost
  BY DEF Init, NoByteIsLost
<1>4. LengthIsCounted
  BY Sizes DEF Init, LengthIsCounted
<1>5. LowIsEights
  BY DEF Init, LowIsEights
<1> QED BY <1>2, <1>3, <1>4, <1>5 DEF IInv, ContextInv

\* SHA1Reset begins again, with whatever is in the block.
LEMMA ResetKeeps == IInv /\ SHA1Reset => IInv'
<1> SUFFICES ASSUME IInv, SHA1Reset PROVE IInv'
  OBVIOUS
<1> USE DEF IInv, ContextInv, SHA1Reset, ResetIndex
<1>1. stream' \in Seq(Octet)
  BY StreamAssumption
<1>2. TypeOK'
  <2>1. Len(stream') \in Nat /\ taken' = 0 /\ left' = 0
    BY <1>1
  <2>2. taken' \in 0 .. Len(stream') /\ left' \in 0 .. Len(stream') - taken'
    BY <2>1
  <2>3. Message_Block' = Message_Block /\ Intermediate_Hash' = <<>>
    OBVIOUS
  <2>4. Message_Block_Index' \in Index /\ Length_Low' \in 0 .. WordLimit - 1
        /\ Length_High' \in 0 .. WordLimit - 1
    BY Sizes
  <2>5. Computed' = FALSE /\ Corrupted' = 0 /\ stream' \in Streams /\ code' = shaSuccess
    OBVIOUS
  <2>6. Message_Block' \in [Index -> Octet] /\ Intermediate_Hash' \in Seq(Octet)
    BY <2>3 DEF TypeOK
  <2> QED BY ONLY <2>2, <2>4, <2>5, <2>6 DEF TypeOK, shaSuccess
<1>3. NoByteIsLost'
  BY DEF NoByteIsLost
<1>4. LengthIsCounted'
  BY Sizes DEF LengthIsCounted
<1>5. LowIsEights'
  BY DEF LowIsEights
<1> QED BY <1>2, <1>3, <1>4, <1>5

\* Calls up to the loop change only what they return.
LEMMA InputKeeps == IInv /\ (\E n \in 0 .. MaxPortion : SHA1Input(n)) => IInv'
<1> SUFFICES ASSUME IInv, NEW n \in 0 .. MaxPortion, SHA1Input(n) PROVE IInv'
  OBVIOUS
<1> USE DEF IInv, ContextInv
<1>1. stream \in Seq(Octet) /\ n \in Nat
  BY StreamAssumption, SizeAssumption DEF TypeOK
<1>2. TypeOK'
  <2>1. left' \in 0 .. Len(stream) - taken
    BY <1>1 DEF SHA1Input, TypeOK
  <2>2. /\ Corrupted' \in {0, 1, shaStateError}
        /\ code' \in {shaSuccess, shaNull, shaStateError}
    BY DEF SHA1Input, TypeOK, shaSuccess, shaNull, shaStateError
  <2> QED BY <2>1, <2>2 DEF SHA1Input, TypeOK
<1>3. NoByteIsLost'
  BY DEF SHA1Input, NoByteIsLost
<1>4. LengthIsCounted'
  <2>1. Corrupted' = 0 => Corrupted = 0
    BY DEF SHA1Input, TypeOK, shaStateError
  <2> QED BY <2>1 DEF SHA1Input, LengthIsCounted
<1>5. LowIsEights'
  BY DEF SHA1Input, LowIsEights
<1> QED BY <1>2, <1>3, <1>4, <1>5

\* A call with a pointer that is NULL changes nothing else.
LEMMA NullKeeps == IInv /\ (NullPointer \/ UNCHANGED vars) => IInv'
<1> SUFFICES ASSUME IInv, NullPointer \/ UNCHANGED vars PROVE IInv'
  OBVIOUS
<1>1. UNCHANGED <<context, stream, taken, left>> /\ code' \in {code, shaNull}
  BY DEF NullPointer, vars
<1> QED
  BY <1>1 DEF context, IInv, ContextInv, TypeOK, NoByteIsLost, LengthIsCounted, LowIsEights

-----------------------------------------------------------------------------
\* Eight bits more are one byte more.
LEMMA EightMore ==
    ASSUME NEW product \in Int, NEW low \in Int, NEW t \in Int, product + low = 8 * t
    PROVE  product + (low + 8) = 8 * (t + 1)
  BY SMT

\* One byte more: the words are kept in range, the low one a multiple of eight,
\* and they count eight bits more unless both have become 0.
LEMMA Carries ==
    ASSUME TypeOK, LowIsEights, taken \in Nat,
           NEW low, low = (Length_Low + 8) % WordLimit,
           NEW high, high = (Length_High + Carry(low)) % WordLimit
    PROVE  /\ low \in 0 .. WordLimit - 1 /\ high \in 0 .. WordLimit - 1
           /\ \E q \in Nat : low = 8 * q
           /\ Length_High * WordLimit + Length_Low = 8 * taken /\ ~(Carry(low) = 1 /\ high = 0)
                => high * WordLimit + low = 8 * (taken + 1)
<1>1. /\ WordLimit \in Nat \ {0}
      /\ Length_Low \in 0 .. WordLimit - 1 /\ Length_High \in 0 .. WordLimit - 1
  BY Sizes DEF TypeOK
<1>2. PICK q \in Nat : Length_Low = 8 * q
  BY DEF LowIsEights
<1>3. Length_Low + 8 \in 0 .. WordLimit
  <2>1. PICK w \in Nat : WordLimit = 8 * w
    BY Sizes
  <2> QED BY <1>1, <1>2, <2>1, SMT
<1>4. low = IF Length_Low + 8 = WordLimit THEN 0 ELSE Length_Low + 8
  BY <1>1, <1>3, Wraps
<1>5. low \in 0 .. WordLimit - 1
  BY <1>1, <1>3, <1>4, SMT
<1>6. \E r \in Nat : low = 8 * r
  <2>1. low = 8 * 0 \/ low = 8 * (q + 1)
    BY <1>2, <1>4, SMT
  <2>2. 0 \in Nat /\ q + 1 \in Nat
    BY <1>2
  <2> QED BY <2>1, <2>2, Zenon
<1>7. Length_High * WordLimit \in Int /\ (Length_High + 1) * WordLimit = Length_High * WordLimit + WordLimit
  BY <1>1, SMT
<1>8. CASE Length_Low + 8 = WordLimit
  <2>1. low = 0 /\ Carry(low) = 1
    BY <1>4, <1>8 DEF Carry
  <2>2. Length_High + 1 \in 0 .. WordLimit
    BY <1>1, SMT
  <2>3. high = IF Length_High + 1 = WordLimit THEN 0 ELSE Length_High + 1
    BY <1>1, <2>1, <2>2, Wraps
  <2>4. high \in 0 .. WordLimit - 1
    BY <1>1, <2>2, <2>3, SMT
  <2>5. ASSUME Length_High * WordLimit + Length_Low = 8 * taken, high # 0
        PROVE  high * WordLimit + low = 8 * (taken + 1)
    <3>1. high * WordLimit + low = Length_High * WordLimit + (Length_Low + 8)
      BY <1>1, <1>7, <1>8, <2>1, <2>3, <2>5
    <3> QED BY <1>1, <1>7, <2>5, <3>1, EightMore
  <2> QED BY <1>5, <1>6, <2>1, <2>4, <2>5
<1>9. CASE Length_Low + 8 # WordLimit
  <2>1. low = Length_Low + 8 /\ low # 0
    BY <1>1, <1>4, <1>9, SMT
  <2>2. Carry(low) = 0
    BY <2>1 DEF Carry
  <2>3. high = Length_High
    BY <1>1, <2>2, Wraps, SMT
  <2>4. Length_High * WordLimit + Length_Low = 8 * taken
           => high * WordLimit + low = 8 * (taken + 1)
    BY <1>1, <1>7, <2>1, <2>3, EightMore
  <2> QED BY <1>1, <1>5, <1>6, <2>3, <2>4
<1> QED BY <1>8, <1>9

\* One turn of the loop of SHA1Input.
LEMMA ByteKeeps == IInv /\ TakeByte => IInv'
<1> SUFFICES ASSUME IInv, TakeByte PROVE IInv'
  OBVIOUS
<1> USE DEF IInv, ContextInv
<1> DEFINE byte  == stream[taken + 1]
           low   == (Length_Low + 8) % WordLimit
           high  == (Length_High + Carry(low)) % WordLimit
           wraps == Carry(low) = 1 /\ high = 0
           block == [Message_Block EXCEPT ![Message_Block_Index] = byte]
           full  == Message_Block_Index + 1 = BlockSize
<1>1. /\ stream \in Seq(Octet) /\ taken \in Nat /\ taken + 1 \in 1 .. Len(stream)
      /\ left \in Nat \ {0} /\ left <= Len(stream) - taken
  BY StreamAssumption DEF TypeOK, TakeByte
<1>2. byte \in Octet
  BY <1>1
<1>3. block \in [Index -> Octet]
  BY <1>2 DEF TypeOK
<1>4. /\ Message_Block' = block /\ Length_Low' = low /\ Length_High' = high
      /\ Corrupted' = (IF wraps THEN 1 ELSE Corrupted)
      /\ left' = (IF wraps THEN 0 ELSE left - 1)
      /\ taken' = taken + 1 /\ code' = shaSuccess /\ UNCHANGED <<Computed, stream>>
  BY DEF TakeByte
<1>5. /\ full => Intermediate_Hash' = Processed(block) /\ Message_Block_Index' = 0
      /\ ~full => /\ Message_Block_Index' = Message_Block_Index + 1
                  /\ UNCHANGED Intermediate_Hash
  BY DEF TakeByte, BlockIsFull
<1>6. /\ low \in 0 .. WordLimit - 1 /\ high \in 0 .. WordLimit - 1
      /\ \E q \in Nat : low = 8 * q
      /\ Length_High * WordLimit + Length_Low = 8 * taken /\ ~wraps
            => high * WordLimit + low = 8 * (taken + 1)
  <2>1. TypeOK /\ LowIsEights
    OBVIOUS
  <2>2. low = (Length_Low + 8) % WordLimit /\ high = (Length_High + Carry(low)) % WordLimit
    OBVIOUS
  <2>3. wraps <=> Carry(low) = 1 /\ high = 0
    OBVIOUS
  <2> HIDE DEF IInv, ContextInv, byte, low, high, wraps, block, full
  <2> QED BY <1>1, <2>1, <2>2, <2>3, Carries
<1> HIDE DEF byte, low, high, wraps, block, full
<1>7. /\ full <=> Message_Block_Index + 1 = BlockSize
      /\ block = [Message_Block EXCEPT ![Message_Block_Index] = stream[taken + 1]]
  BY DEF full, block, byte
<1>8. TypeOK'
  <2>1. Message_Block_Index' \in Index
    BY <1>5, <1>7, Sizes DEF TypeOK, Index
  <2>2. Intermediate_Hash' \in Seq(Octet)
    BY <1>3, <1>5, ProcessedBlock DEF TypeOK
  <2>3. taken' \in 0 .. Len(stream)' /\ left' \in 0 .. (Len(stream) - taken)'
    BY <1>1, <1>4
  <2>4. Corrupted' \in {0, 1, shaStateError}
    BY <1>4 DEF TypeOK
  <2> QED BY <1>3, <1>4, <1>6, <2>1, <2>2, <2>3, <2>4 DEF TypeOK
<1>9. NoByteIsLost'
  <2> SUFFICES ASSUME ~Computed
               PROVE  /\ Len(Intermediate_Hash') + Message_Block_Index' = taken'
                      /\ \A k \in 1 .. Len(Intermediate_Hash') : Intermediate_Hash'[k] = stream[k]
                      /\ \A k \in 0 .. Message_Block_Index' - 1 :
                            Message_Block'[k] = stream[Len(Intermediate_Hash') + k + 1]
    BY <1>4 DEF NoByteIsLost
  <2> DEFINE n == Len(Intermediate_Hash)
  <2>1. /\ n \in Nat /\ n + Message_Block_Index = taken
        /\ \A k \in 1 .. n : Intermediate_Hash[k] = stream[k]
        /\ \A k \in 0 .. Message_Block_Index - 1 : Message_Block[k] = stream[n + k + 1]
        /\ Message_Block_Index \in Index /\ Index \subseteq Nat
    BY Sizes DEF NoByteIsLost, TypeOK, Index
  <2>2. \A k \in 0 .. Message_Block_Index : block[k] = stream[n + k + 1]
    <3> SUFFICES ASSUME NEW k \in 0 .. Message_Block_Index PROVE block[k] = stream[n + k + 1]
      OBVIOUS
    <3>1. k \in Index
      BY <2>1, Sizes, SMT DEF Index
    <3>2. CASE k = Message_Block_Index
      BY <1>7, <2>1, <3>1, <3>2 DEF TypeOK
    <3>3. CASE k # Message_Block_Index
      BY <1>7, <2>1, <3>1, <3>3 DEF TypeOK
    <3> QED BY <3>2, <3>3
  <2> HIDE DEF n
  <2>3. CASE full
    <3>1. /\ Len(Intermediate_Hash') = n + BlockSize
          /\ \A k \in 1 .. n : Intermediate_Hash'[k] = Intermediate_Hash[k]
          /\ \A k \in n + 1 .. n + BlockSize : Intermediate_Hash'[k] = block[k - n - 1]
      BY <1>3, <1>5, <2>3, ProcessedBlock DEF TypeOK, n
    <3>2. Message_Block_Index' = 0 /\ Len(Intermediate_Hash') = taken + 1
      BY <1>5, <1>7, <2>1, <2>3, <3>1, Sizes
    <3>3. ASSUME NEW k \in n + 1 .. n + BlockSize
          PROVE  Intermediate_Hash'[k] = stream[k]
      <4>1. k - n - 1 \in 0 .. Message_Block_Index /\ n + (k - n - 1) + 1 = k
        BY <1>7, <2>1, <2>3, Sizes, SMT
      <4> QED BY <2>2, <3>1, <4>1
    <3>4. \A k \in 1 .. Len(Intermediate_Hash') : Intermediate_Hash'[k] = stream[k]
      BY <2>1, <3>1, <3>3, Sizes
    <3> QED BY <1>4, <3>2, <3>4
  <2>4. CASE ~full
    <3>1. Intermediate_Hash' = Intermediate_Hash /\ Message_Block_Index' = Message_Block_Index + 1
      BY <1>5, <2>4
    <3>2. Len(Intermediate_Hash') + Message_Block_Index' = taken'
      BY <1>4, <2>1, <3>1 DEF n
    <3>3. \A k \in 0 .. Message_Block_Index' - 1 :
             Message_Block'[k] = stream[Len(Intermediate_Hash') + k + 1]
      BY <1>4, <2>1, <2>2, <3>1 DEF n
    <3> QED BY <2>1, <3>1, <3>2, <3>3 DEF n
  <2> QED BY <2>3, <2>4
<1>10. LengthIsCounted'
  <2>1. ~wraps \/ Corrupted' # 0
    BY <1>4
  <2>2. ~wraps => Corrupted' = Corrupted
    BY <1>4
  <2> QED BY <1>4, <1>6, <2>1, <2>2 DEF LengthIsCounted
<1>11. LowIsEights'
  BY <1>4, <1>6 DEF LowIsEights
<1> QED BY <1>8, <1>9, <1>10, <1>11

-----------------------------------------------------------------------------
\* Padding makes blocks of bytes, whatever is in the block.
LEMMA PaddingIsOctets ==
    ASSUME TypeOK, SHA1PadMessage PROVE Intermediate_Hash' \in Seq(Octet)
<1>1. \A end \in Nat : Filled(end) \in [Index -> Octet]
  BY OctetAssumption DEF TypeOK, Filled
<1>2. \A b \in [Index -> Octet] : WithLength(b) \in [Index -> Octet]
  <2> SUFFICES ASSUME NEW b \in [Index -> Octet], NEW k \in Index
               PROVE  WithLength(b)[k] \in Octet
    BY DEF WithLength
  <2>1. k \in 0 .. LengthAt + 2 * WordSize - 1
    BY Sizes, SMT DEF Index, LengthAt
  <2>2. CASE k < LengthAt
    BY <2>2 DEF WithLength
  <2>3. CASE k >= LengthAt /\ k < LengthAt + WordSize
    <3>1. k - LengthAt \in 0 .. WordSize - 1
      BY <2>1, <2>3, Sizes, SMT
    <3>2. WithLength(b)[k] = LengthOctet(Length_High, k - LengthAt)
      BY <2>1, <2>3, Sizes DEF WithLength
    <3> QED BY <3>1, <3>2, OctetAssumption DEF TypeOK
  <2>4. CASE k >= LengthAt + WordSize
    <3>1. k - LengthAt - WordSize \in 0 .. WordSize - 1
      BY <2>1, <2>4, Sizes, SMT
    <3>2. WithLength(b)[k] = LengthOctet(Length_Low, k - LengthAt - WordSize)
      BY <2>1, <2>4, Sizes DEF WithLength
    <3> QED BY <3>1, <3>2, OctetAssumption DEF TypeOK
  <2> QED BY <2>1, <2>2, <2>3, <2>4, Sizes
<1> DEFINE zeros == [j \in Index |-> 0]
           last  == [k \in 1 .. BlockSize |-> WithLength(zeros)[k - 1]]
<1>3. zeros \in [Index -> Octet]
  BY OctetAssumption
<1>4. WithLength(zeros) \in [Index -> Octet]
  BY <1>2, <1>3
<1>5. last \in [1 .. BlockSize -> Octet]
  BY <1>4, Sizes, SMT DEF Index
<1>6. last \in Seq(Octet)
  BY <1>5, Sizes, FunctionIsSequence
<1>7. CASE NeedsTwoBlocks
  <2>1. Intermediate_Hash' = Processed(Filled(BlockSize)) \o last
    BY <1>7 DEF SHA1PadMessage
  <2>2. Processed(Filled(BlockSize)) \in Seq(Octet)
    BY <1>1, Sizes, ProcessedBlock DEF TypeOK
  <2> HIDE DEF last
  <2> QED BY <1>6, <2>1, <2>2, ConcatProperties
<1>8. CASE ~NeedsTwoBlocks
  <2>1. Intermediate_Hash' = Processed(WithLength(Filled(LengthAt)))
    BY <1>8 DEF SHA1PadMessage
  <2> QED BY <1>1, <1>2, <2>1, Sizes, ProcessedBlock DEF TypeOK
<1> QED BY <1>7, <1>8

\* SHA1Result pads once, and otherwise changes nothing.
LEMMA ResultKeeps == IInv /\ SHA1Result => IInv'
<1> SUFFICES ASSUME IInv, SHA1Result PROVE IInv'
  OBVIOUS
<1> USE DEF IInv, ContextInv
<1>1. code' \in {shaSuccess, shaNull, shaStateError} /\ UNCHANGED <<stream, taken, left>>
  BY DEF SHA1Result, TypeOK, shaSuccess, shaNull, shaStateError
<1>2. CASE UNCHANGED context
  BY <1>1, <1>2 DEF context, TypeOK, NoByteIsLost, LengthIsCounted, LowIsEights
<1>3. CASE ~UNCHANGED context
  <2>1. /\ SHA1PadMessage
        /\ Message_Block' = [k \in Index |-> 0] /\ Message_Block_Index' = 0
        /\ Length_Low' = 0 /\ Length_High' = 0
        /\ Computed' = TRUE /\ UNCHANGED Corrupted
    BY <1>3 DEF SHA1Result, AlreadyComputed
  <2>2. Message_Block' \in [Index -> Octet]
    BY <2>1, OctetAssumption
  <2>3. Intermediate_Hash' \in Seq(Octet)
    BY <2>1, PaddingIsOctets
  <2>4. TypeOK'
    BY <1>1, <2>1, <2>2, <2>3, Sizes DEF TypeOK
  <2>5. NoByteIsLost' /\ LengthIsCounted' /\ LowIsEights'
    BY <2>1 DEF NoByteIsLost, LengthIsCounted, LowIsEights
  <2> QED BY <2>4, <2>5
<1> QED BY <1>2, <1>3

-----------------------------------------------------------------------------
\* However a message is cut into portions and whatever calls are mixed in, the
\* context keeps its types, holds every byte of the message in its place until
\* the result is asked for, and its two words count the bits until they wrap.
THEOREM ContextIsKept == Spec => []ContextInv
<1>1. IInv /\ [Next]_vars => IInv'
  <2> SUFFICES ASSUME IInv, [Next]_vars PROVE IInv'
    OBVIOUS
  <2>1. CASE SHA1Reset BY <2>1, ResetKeeps
  <2>2. CASE TakeByte BY <2>2, ByteKeeps
  <2>3. CASE SHA1Result BY <2>3, ResultKeeps
  <2>4. CASE NullPointer \/ UNCHANGED vars BY <2>4, NullKeeps
  <2>5. CASE \E n \in 0 .. MaxPortion : SHA1Input(n) BY <2>5, InputKeeps
  <2> QED BY <2>1, <2>2, <2>3, <2>4, <2>5 DEF Next
<1>2. IInv => ContextInv
  BY DEF IInv
<1> QED BY <1>1, <1>2, InitHolds, PTL DEF Spec

-----------------------------------------------------------------------------
(***************************************************************************)
(* The context implements MessageDigest.  What it takes beside ContextInv: *)
(* what was hashed are whole blocks, and a loop of SHA1Input that has      *)
(* bytes to take runs on a context that is neither closed nor corrupted,   *)
(* which only the test before the loop makes sure of.                      *)
(***************************************************************************)
HashedInBlocks == ~Computed => \E q \in Nat : Len(Intermediate_Hash) = q * BlockSize

TakesWhenOpen == left > 0 => ~Computed /\ Corrupted = 0

DigestInv == IInv /\ HashedInBlocks /\ TakesWhenOpen

\* A dividend is made of its quotient and its remainder.
LEMMA Division ==
    ASSUME NEW a \in Nat, NEW B \in Nat \ {0}
    PROVE  a = B * (a \div B) + (a % B) /\ a \div B \in Nat /\ a % B \in 0 .. B - 1
  BY SMT

\* One block more.
LEMMA BlocksAscend ==
    ASSUME NEW p \in Nat, NEW q \in Nat, NEW B \in Nat, p < q
    PROVE  p * B + B <= q * B
<1>1. PICK d \in Nat : q = p + 1 + d
  <2>1. q - p - 1 \in Nat /\ q = p + 1 + (q - p - 1)
    BY SMT
  <2> QED BY <2>1
<1>2. q * B = p * B + B + d * B
  BY <1>1, SMT
<1>3. d * B \in Nat /\ p * B \in Nat
  BY SMT
<1> QED BY <1>2, <1>3, SMT

\* And of no other two, the remainder below the divisor.
LEMMA DivisionIsUnique ==
    ASSUME NEW p \in Nat, NEW q \in Nat, NEW B \in Nat \ {0},
           NEW r \in 0 .. B - 1, NEW s \in 0 .. B - 1,
           p * B + r = q * B + s
    PROVE  p = q /\ r = s
<1>1. p * B \in Nat /\ q * B \in Nat
  BY SMT
<1>2. ~(p < q)
  BY <1>1, BlocksAscend, SMT
<1>3. ~(q < p)
  BY <1>1, BlocksAscend, SMT
<1>4. p = q
  BY <1>2, <1>3, SMT
<1> QED BY <1>1, <1>4, SMT

\* What a division gives back.
LEMMA QuotientAndRest ==
    ASSUME NEW a \in Nat, NEW q \in Nat, NEW B \in Nat \ {0}, NEW r \in 0 .. B - 1,
           a = q * B + r
    PROVE  a % B = r /\ a \div B = q
<1>1. a = B * (a \div B) + (a % B) /\ a \div B \in Nat /\ a % B \in 0 .. B - 1
  BY Division
<1> DEFINE d == a \div B
           m == a % B
<1>2. a = B * d + m /\ d \in Nat /\ m \in 0 .. B - 1
  BY <1>1
<1> HIDE DEF d, m
<1>3. B * d = d * B
  BY <1>2, SMT
<1>4. q * B + r = d * B + m
  BY <1>2, <1>3
<1>5. q = d /\ r = m
  BY <1>2, <1>4, DivisionIsUnique
<1> QED BY <1>5 DEF d, m

\* The first t bytes of a stream.
LEMMA FirstBytes ==
    ASSUME NEW s \in Seq(Octet), NEW t \in 0 .. Len(s)
    PROVE  /\ SubSeq(s, 1, t) \in Seq(Octet) /\ Len(SubSeq(s, 1, t)) = t
           /\ \A k \in 1 .. t : SubSeq(s, 1, t)[k] = s[k]
<1>1. \A k \in 1 .. t : s[k] \in Octet
  OBVIOUS
<1>2. t \in Int /\ t - 1 + 1 = t /\ (t < 1 => t = 0) /\ \A k \in 1 .. t : 1 + k - 1 = k
  OBVIOUS
<1>3. /\ SubSeq(s, 1, t) \in Seq(Octet)
      /\ Len(SubSeq(s, 1, t)) = IF 1 <= t THEN t - 1 + 1 ELSE 0
      /\ \A k \in 1 .. t - 1 + 1 : SubSeq(s, 1, t)[k] = s[1 + k - 1]
  BY <1>1, <1>2, SubSeqProperties
<1> QED BY <1>2, <1>3

\* Whole blocks h and the i bytes of the block under way make the message: what
\* was hashed are its full blocks.
LEMMA HashedAreFullBlocks ==
    ASSUME NEW s \in Seq(Octet), NEW t \in 0 .. Len(s), NEW h \in Seq(Octet),
           NEW q \in Nat, Len(h) = q * BlockSize,
           NEW i \in Index, Len(h) + i = t,
           \A k \in 1 .. Len(h) : h[k] = s[k]
    PROVE  h = Digest!FullBlocks(SubSeq(s, 1, t))
<1> DEFINE m == SubSeq(s, 1, t)
           n == Len(h)
<1>1. m \in Seq(Octet) /\ Len(m) = t /\ \A k \in 1 .. t : m[k] = s[k]
  BY FirstBytes
<1>2. n \in Nat /\ n = q * BlockSize /\ t = n + i /\ i \in 0 .. BlockSize - 1 /\ BlockSize \in Nat \ {0}
  BY Sizes DEF Index
<1> HIDE DEF m, n
<1>3. t % BlockSize = i
  <2>1. /\ t \in Nat /\ q \in Nat /\ BlockSize \in Nat \ {0} /\ i \in 0 .. BlockSize - 1
        /\ t = q * BlockSize + i
    BY <1>2
  <2> QED BY ONLY <2>1, QuotientAndRest
<1>4. Len(m) - (Len(m) % BlockSize) = n
  BY <1>1, <1>2, <1>3
<1>5. Digest!FullBlocks(m) = SubSeq(m, 1, n)
  BY <1>4 DEF Digest!FullBlocks
<1>6. n \in 0 .. Len(m)
  BY <1>1, <1>2
<1>7. /\ SubSeq(m, 1, n) \in Seq(Octet) /\ Len(SubSeq(m, 1, n)) = n
      /\ \A k \in 1 .. n : SubSeq(m, 1, n)[k] = m[k]
  BY <1>1, <1>6, FirstBytes
<1>8. \A k \in 1 .. n : SubSeq(m, 1, n)[k] = h[k]
  <2>1. \A k \in 1 .. n : k \in 1 .. t /\ h[k] = s[k]
    BY <1>2 DEF n
  <2> QED BY <1>1, <1>7, <2>1
<1>9. SubSeq(m, 1, n) = h
  BY <1>7, <1>8, SeqEqual DEF n
<1> QED BY <1>5, <1>9 DEF m

\* Two sequences end to end.
LEMMA EndToEnd ==
    ASSUME NEW a \in Seq(Octet), NEW b \in Seq(Octet), NEW n, NEW l, Len(a) = n, Len(b) = l
    PROVE  /\ a \o b \in Seq(Octet) /\ Len(a \o b) = n + l
           /\ \A k \in 1 .. n : (a \o b)[k] = a[k]
           /\ \A k \in 1 .. l : (a \o b)[n + k] = b[k]
<1>1. n \in Nat /\ l \in Nat
  OBVIOUS
<1>2. \A k \in 1 .. l : n + k \in 1 .. n + l /\ ~(n + k <= n) /\ n + k - n = k
  BY <1>1
<1>3. \A k \in 1 .. n : k \in 1 .. n + l /\ k <= n
  BY <1>1
<1>4. /\ a \o b \in Seq(Octet) /\ Len(a \o b) = n + l
      /\ \A k \in 1 .. n + l : (a \o b)[k] = IF k <= n THEN a[k] ELSE b[k - n]
  BY ConcatProperties
<1> DEFINE c == a \o b
<1>5. /\ c \in Seq(Octet) /\ Len(c) = n + l
      /\ \A k \in 1 .. n + l : c[k] = IF k <= n THEN a[k] ELSE b[k - n]
  BY <1>4
<1> HIDE DEF c
<1>6. \A k \in 1 .. n : c[k] = a[k]
  BY <1>3, <1>5
<1>7. ASSUME NEW k \in 1 .. l PROVE c[n + k] = b[k]
  <2> DEFINE j == n + k
  <2>1. j \in 1 .. n + l /\ ~(j <= n) /\ j - n = k
    BY <1>2
  <2> HIDE DEF j
  <2>2. c[j] = b[j - n]
    BY <1>5, <2>1
  <2> QED BY <2>1, <2>2 DEF j
<1> QED BY <1>5, <1>6, <1>7 DEF c

\* The bytes that the standard adds to a message m: its zeros are what a caller
\* claims, if they make whole blocks.
LEMMA PaddedBytes ==
    ASSUME NEW m \in Seq(Octet), NEW z \in 0 .. BlockSize - 1, NEW blocks \in Nat,
           Len(m) + 1 + z + 2 * WordSize = blocks * BlockSize,
           NEW high \in 0 .. WordLimit - 1, NEW low \in 0 .. WordLimit - 1,
           high * WordLimit + low = 8 * Len(m)
    PROVE  /\ Padded(m) \in Seq(Octet)
           /\ Len(Padded(m)) = Len(m) + 1 + z + WordSize + WordSize
           /\ \A k \in 1 .. Len(m) : Padded(m)[k] = m[k]
           /\ Padded(m)[Len(m) + 1] = 128
           /\ \A k \in Len(m) + 2 .. Len(m) + 1 + z : Padded(m)[k] = 0
           /\ \A k \in 1 .. WordSize :
                 Padded(m)[Len(m) + 1 + z + k] = LengthOctet(high, k - 1)
           /\ \A k \in 1 .. WordSize :
                 Padded(m)[Len(m) + 1 + z + WordSize + k] = LengthOctet(low, k - 1)
<1>1. BlockSize \in Nat \ {0} /\ WordSize \in Nat \ {0} /\ WordLimit \in Nat \ {0} /\ Len(m) \in Nat
  BY Sizes
<1> DEFINE Fits(y) == (Len(m) + 1 + y + 2 * WordSize) % BlockSize = 0
           zeros == CHOOSE y \in 0 .. BlockSize - 1 : Fits(y)
           bits == 8 * Len(m)
<1>2. Fits(z)
  <2> DEFINE whole == Len(m) + 1 + z + 2 * WordSize
  <2>1. /\ whole \in Nat /\ blocks \in Nat /\ BlockSize \in Nat \ {0} /\ 0 \in 0 .. BlockSize - 1
        /\ whole = blocks * BlockSize + 0
    BY <1>1
  <2> HIDE DEF whole
  <2>2. whole % BlockSize = 0
    BY ONLY <2>1, QuotientAndRest
  <2> QED BY <2>2 DEF whole
<1>3. ASSUME NEW y \in 0 .. BlockSize - 1, Fits(y) PROVE y = z
  <2> DEFINE c == Len(m) + 1 + 2 * WordSize
             p == (c + y) \div BlockSize
  <2>1. c \in Nat /\ Len(m) + 1 + y + 2 * WordSize = c + y /\ c + z = blocks * BlockSize
    BY <1>1
  <2> HIDE DEF c
  <2>2. (c + y) % BlockSize = 0
    BY <1>3, <2>1
  <2>3. c + y = BlockSize * p + 0 /\ p \in Nat
    <3> DEFINE a == c + y
    <3>1. a \in Nat /\ a % BlockSize = 0
      BY <2>1, <2>2
    <3> HIDE DEF a
    <3>2. a = BlockSize * (a \div BlockSize) + (a % BlockSize) /\ a \div BlockSize \in Nat
      BY <1>1, <3>1, Division
    <3>3. a = BlockSize * (a \div BlockSize) + 0 /\ a \div BlockSize \in Nat
      BY <3>1, <3>2
    <3> QED BY <3>3 DEF a
  <2> HIDE DEF p
  <2>4. BlockSize * p = p * BlockSize
    BY <1>1, <2>3
  <2> DEFINE d == p * BlockSize
             e == blocks * BlockSize
  <2>5. d \in Nat /\ e \in Nat /\ c + y = d /\ c + z = e
    BY <1>1, <2>1, <2>3, <2>4
  <2>6. ~(p < blocks) /\ ~(blocks < p)
    <3>1. p < blocks => d + BlockSize <= e
      BY <1>1, <2>3, BlocksAscend
    <3>2. blocks < p => e + BlockSize <= d
      BY <1>1, <2>3, BlocksAscend
    <3> HIDE DEF d, e
    <3> QED BY <1>1, <2>1, <2>5, <3>1, <3>2
  <2>7. p = blocks
    BY <2>3, <2>6
  <2>8. d = e
    BY <2>7
  <2> HIDE DEF d, e
  <2> QED BY <2>1, <2>5, <2>8
<1>4. zeros = z
  <2>1. \E y \in 0 .. BlockSize - 1 : Fits(y)
    BY <1>2
  <2>2. zeros \in 0 .. BlockSize - 1 /\ Fits(zeros)
    BY <2>1
  <2> HIDE DEF zeros, Fits
  <2> QED BY <1>3, <2>2
<1>5. bits \div WordLimit = high /\ bits % WordLimit = low
  <2>1. high \in Nat /\ bits \in Nat /\ bits = high * WordLimit + low
    BY <1>1
  <2> HIDE DEF bits
  <2> QED BY <1>1, <2>1, QuotientAndRest
<1> DEFINE Z == [k \in 1 .. z |-> 0]
           H == [k \in 1 .. WordSize |-> LengthOctet(high, k - 1)]
           W == [k \in 1 .. WordSize |-> LengthOctet(low, k - 1)]
           c1 == m \o <<128>>
           c2 == c1 \o Z
           c3 == c2 \o H
<1>6. Padded(m) = c3 \o W
  BY <1>4, <1>5 DEF Padded
<1>7. /\ Z \in Seq(Octet) /\ Len(Z) = z /\ \A k \in 1 .. z : Z[k] = 0
      /\ <<128>> \in Seq(Octet) /\ Len(<<128>>) = 1 /\ <<128>>[1] = 128
  <2>1. Z \in [1 .. z -> Octet]
    BY OctetAssumption
  <2>2. Z \in Seq(Octet) /\ Len(Z) = z
    BY <2>1, FunctionIsSequence
  <2>3. <<128>> \in Seq(Octet)
    BY OctetAssumption
  <2> QED BY <2>2, <2>3
<1>8. /\ H \in Seq(Octet) /\ Len(H) = WordSize
      /\ \A k \in 1 .. WordSize : H[k] = LengthOctet(high, k - 1)
  <2>1. \A k \in 1 .. WordSize : LengthOctet(high, k - 1) \in Octet
    BY <1>1, OctetAssumption
  <2>2. H \in [1 .. WordSize -> Octet]
    BY <2>1
  <2> QED BY <1>1, <2>2, FunctionIsSequence
<1>9. /\ W \in Seq(Octet) /\ Len(W) = WordSize
      /\ \A k \in 1 .. WordSize : W[k] = LengthOctet(low, k - 1)
  <2>1. \A k \in 1 .. WordSize : LengthOctet(low, k - 1) \in Octet
    BY <1>1, OctetAssumption
  <2>2. W \in [1 .. WordSize -> Octet]
    BY <2>1
  <2> QED BY <1>1, <2>2, FunctionIsSequence
<1> HIDE DEF Z, H, W
<1> DEFINE L == Len(m)
<1>10. L \in Nat /\ L + 1 \in Nat /\ L + 1 + z \in Nat /\ L + 1 + z + WordSize \in Nat
  BY <1>1
<1>11. /\ c1 \in Seq(Octet) /\ Len(c1) = L + 1
       /\ \A k \in 1 .. L : c1[k] = m[k]
       /\ \A k \in 1 .. 1 : c1[L + k] = <<128>>[k]
  BY <1>7, EndToEnd
<1>12. c1[L + 1] = 128
  BY <1>7, <1>11
<1> HIDE DEF c1
<1>13. /\ c2 \in Seq(Octet) /\ Len(c2) = L + 1 + z
       /\ \A k \in 1 .. L + 1 : c2[k] = c1[k]
       /\ \A k \in 1 .. z : c2[L + 1 + k] = Z[k]
  BY <1>7, <1>11, EndToEnd
<1>14. \A k \in L + 2 .. L + 1 + z : c2[k] = 0
  <2>1. \A k \in L + 2 .. L + 1 + z : k - (L + 1) \in 1 .. z /\ k = L + 1 + (k - (L + 1))
    BY <1>10
  <2> QED BY <1>7, <1>13, <2>1
<1> HIDE DEF c2
<1>15. /\ c3 \in Seq(Octet) /\ Len(c3) = L + 1 + z + WordSize
       /\ \A k \in 1 .. L + 1 + z : c3[k] = c2[k]
       /\ \A k \in 1 .. WordSize : c3[L + 1 + z + k] = H[k]
  <2>1. H \in Seq(Octet) /\ c2 \in Seq(Octet) /\ Len(c2) = L + 1 + z /\ Len(H) = WordSize
    BY <1>8, <1>13
  <2> HIDE DEF L
  <2> DEFINE n == L + 1 + z
  <2>2. Len(c2) = n
    BY <2>1
  <2> HIDE DEF n
  <2>3. /\ c2 \o H \in Seq(Octet) /\ Len(c2 \o H) = n + WordSize
        /\ \A k \in 1 .. n : (c2 \o H)[k] = c2[k]
        /\ \A k \in 1 .. WordSize : (c2 \o H)[n + k] = H[k]
    BY ONLY <2>1, <2>2, EndToEnd
  <2> QED BY <2>3 DEF n
<1> HIDE DEF c3
<1>16. /\ Padded(m) \in Seq(Octet) /\ Len(Padded(m)) = L + 1 + z + WordSize + WordSize
       /\ \A k \in 1 .. L + 1 + z + WordSize : Padded(m)[k] = c3[k]
       /\ \A k \in 1 .. WordSize : Padded(m)[L + 1 + z + WordSize + k] = W[k]
  <2>1. W \in Seq(Octet) /\ c3 \in Seq(Octet) /\ Len(c3) = L + 1 + z + WordSize /\ Len(W) = WordSize
    BY <1>9, <1>15
  <2> HIDE DEF L
  <2> DEFINE n == L + 1 + z + WordSize
  <2>2. Len(c3) = n
    BY <2>1
  <2> HIDE DEF n
  <2>3. /\ c3 \o W \in Seq(Octet) /\ Len(c3 \o W) = n + WordSize
        /\ \A k \in 1 .. n : (c3 \o W)[k] = c3[k]
        /\ \A k \in 1 .. WordSize : (c3 \o W)[n + k] = W[k]
    BY ONLY <2>1, <2>2, EndToEnd
  <2> QED BY <1>6, <2>3 DEF n
<1> HIDE DEF L
<1>17. /\ \A k \in 1 .. L : k \in 1 .. L + 1 /\ k \in 1 .. L + 1 + z /\ k \in 1 .. L + 1 + z + WordSize
       /\ L + 1 \in 1 .. L + 1 /\ L + 1 \in 1 .. L + 1 + z /\ L + 1 \in 1 .. L + 1 + z + WordSize
       /\ \A k \in L + 2 .. L + 1 + z : k \in 1 .. L + 1 + z /\ k \in 1 .. L + 1 + z + WordSize
       /\ \A k \in 1 .. WordSize : L + 1 + z + k \in 1 .. L + 1 + z + WordSize
  BY <1>1, <1>10
<1>18. \A k \in 1 .. L : Padded(m)[k] = m[k]
  BY <1>11, <1>13, <1>15, <1>16, <1>17
<1>19. Padded(m)[L + 1] = 128
  BY <1>12, <1>13, <1>15, <1>16, <1>17
<1>20. \A k \in L + 2 .. L + 1 + z : Padded(m)[k] = 0
  BY <1>14, <1>15, <1>16, <1>17
<1>21. \A k \in 1 .. WordSize : Padded(m)[L + 1 + z + k] = LengthOctet(high, k - 1)
  BY <1>8, <1>15, <1>16, <1>17
<1>22. \A k \in 1 .. WordSize : Padded(m)[L + 1 + z + WordSize + k] = LengthOctet(low, k - 1)
  BY <1>9, <1>16
<1> QED BY <1>16, <1>18, <1>19, <1>20, <1>21, <1>22 DEF L

-----------------------------------------------------------------------------
\* The block under way, filled with zeros up to an end, and with the length.
LEMMA FilledBytes ==
    ASSUME TypeOK, NEW end \in Message_Block_Index + 1 .. BlockSize
    PROVE  /\ Filled(end) \in [Index -> Octet]
           /\ \A k \in 0 .. Message_Block_Index - 1 : Filled(end)[k] = Message_Block[k]
           /\ Filled(end)[Message_Block_Index] = 128
           /\ \A k \in Message_Block_Index + 1 .. end - 1 : Filled(end)[k] = 0
<1> DEFINE i == Message_Block_Index
<1>1. i \in 0 .. BlockSize - 1 /\ BlockSize \in Nat /\ end \in i + 1 .. BlockSize
  BY Sizes DEF TypeOK, Index
<1>2. Filled(end) \in [Index -> Octet]
  BY OctetAssumption DEF TypeOK, Filled
<1>3. \A k \in Index : Filled(end)[k] =
         IF k = i THEN 128 ELSE IF k \in i + 1 .. end - 1 THEN 0 ELSE Message_Block[k]
  BY DEF Filled
<1> HIDE DEF i
<1>4. \A k \in 0 .. i - 1 : k \in Index /\ k # i /\ ~(k \in i + 1 .. end - 1)
  BY <1>1 DEF Index
<1>5. i \in Index /\ \A k \in i + 1 .. end - 1 : k \in Index /\ k # i
  BY <1>1 DEF Index
<1> QED BY <1>2, <1>3, <1>4, <1>5 DEF i

LEMMA WithLengthBytes ==
    ASSUME TypeOK, NEW b \in [Index -> Octet]
    PROVE  /\ WithLength(b) \in [Index -> Octet]
           /\ \A k \in 0 .. LengthAt - 1 : WithLength(b)[k] = b[k]
           /\ \A k \in 1 .. WordSize :
                 WithLength(b)[LengthAt - 1 + k] = LengthOctet(Length_High, k - 1)
           /\ \A k \in 1 .. WordSize :
                 WithLength(b)[LengthAt - 1 + WordSize + k] = LengthOctet(Length_Low, k - 1)
<1>1. /\ LengthAt \in Nat \ {0} /\ WordSize \in Nat \ {0} /\ BlockSize = LengthAt + 2 * WordSize
  BY SizeAssumption, SMT DEF LengthAt
<1>2. \A k \in Index : WithLength(b)[k] =
         IF k < LengthAt THEN b[k]
         ELSE IF k < LengthAt + WordSize THEN LengthOctet(Length_High, k - LengthAt)
         ELSE LengthOctet(Length_Low, k - LengthAt - WordSize)
  BY DEF WithLength
<1>3. \A k \in 0 .. LengthAt - 1 : k \in Index /\ k < LengthAt
  BY <1>1 DEF Index
<1>4. ASSUME NEW k \in 1 .. WordSize
      PROVE  WithLength(b)[LengthAt - 1 + k] = LengthOctet(Length_High, k - 1)
  <2> DEFINE j == LengthAt - 1 + k
  <2>1. j \in Index /\ ~(j < LengthAt) /\ j < LengthAt + WordSize /\ j - LengthAt = k - 1
    BY <1>1 DEF Index
  <2> HIDE DEF j
  <2>2. WithLength(b)[j] = LengthOctet(Length_High, j - LengthAt)
    BY <1>2, <2>1
  <2> QED BY <2>1, <2>2 DEF j
<1>5. ASSUME NEW k \in 1 .. WordSize
      PROVE  WithLength(b)[LengthAt - 1 + WordSize + k] = LengthOctet(Length_Low, k - 1)
  <2> DEFINE j == LengthAt - 1 + WordSize + k
  <2>1. /\ j \in Index /\ ~(j < LengthAt) /\ ~(j < LengthAt + WordSize)
        /\ j - LengthAt - WordSize = k - 1
    BY <1>1 DEF Index
  <2> HIDE DEF j
  <2>2. WithLength(b)[j] = LengthOctet(Length_Low, j - LengthAt - WordSize)
    BY <1>2, <2>1
  <2> QED BY <2>1, <2>2 DEF j
<1>6. WithLength(b) \in [Index -> Octet]
  <2>1. /\ \A k \in 0 .. WordSize - 1 : LengthOctet(Length_High, k) \in Octet
        /\ \A k \in 0 .. WordSize - 1 : LengthOctet(Length_Low, k) \in Octet
    BY OctetAssumption DEF TypeOK
  <2> SUFFICES ASSUME NEW k \in Index PROVE WithLength(b)[k] \in Octet
    BY DEF WithLength
  <2>2. CASE k < LengthAt
    BY <1>2, <2>2
  <2>3. CASE ~(k < LengthAt) /\ k < LengthAt + WordSize
    <3>1. k - LengthAt \in 0 .. WordSize - 1
      BY <1>1, <2>3 DEF Index
    <3>2. LengthOctet(Length_High, k - LengthAt) \in Octet
      BY <2>1, <3>1
    <3> QED BY <1>2, <2>3, <3>2
  <2>4. CASE ~(k < LengthAt + WordSize)
    <3>1. k - LengthAt - WordSize \in 0 .. WordSize - 1 /\ ~(k < LengthAt)
      BY <1>1, <2>4 DEF Index
    <3>2. LengthOctet(Length_Low, k - LengthAt - WordSize) \in Octet
      BY <2>1, <3>1
    <3> QED BY <1>2, <2>4, <3>1, <3>2
  <2> QED BY <2>2, <2>3, <2>4
<1> QED BY <1>2, <1>3, <1>4, <1>5, <1>6

\* What SHA1PadMessage hashes is the message as the standard pads it, whether
\* the length fits in the block under way or takes one more.
LEMMA PadIsStandard ==
    ASSUME TypeOK, NoByteIsLost, LengthIsCounted, HashedInBlocks,
           ~Computed, Corrupted = 0, SHA1PadMessage
    PROVE  Intermediate_Hash' = Padded(message)
<1> DEFINE n == Len(Intermediate_Hash)
           i == Message_Block_Index
<1>1. /\ BlockSize \in Nat \ {0} /\ WordSize \in Nat \ {0} /\ LengthAt \in Nat \ {0}
      /\ BlockSize = LengthAt + WordSize + WordSize /\ LengthAt - 1 \in Nat
  BY SizeAssumption, SMT DEF LengthAt
<1>2. stream \in Seq(Octet) /\ taken \in 0 .. Len(stream) /\ taken \in Nat
  BY StreamAssumption DEF TypeOK
<1>3. /\ message \in Seq(Octet) /\ Len(message) = taken
      /\ \A k \in 1 .. taken : message[k] = stream[k]
  BY <1>2, FirstBytes DEF message
<1>4. /\ n \in Nat /\ i \in 0 .. BlockSize - 1 /\ n + i = taken
      /\ \A k \in 1 .. n : Intermediate_Hash[k] = stream[k]
      /\ \A k \in 0 .. i - 1 : Message_Block[k] = stream[n + k + 1]
  BY DEF NoByteIsLost, TypeOK, Index
<1>5. PICK q \in Nat : n = q * BlockSize
  BY DEF HashedInBlocks
<1>6. /\ Length_High \in 0 .. WordLimit - 1 /\ Length_Low \in 0 .. WordLimit - 1
      /\ Length_High * WordLimit + Length_Low = 8 * Len(message)
  BY <1>3 DEF TypeOK, LengthIsCounted
<1>7. /\ Intermediate_Hash \in Seq(Octet) /\ Message_Block \in [Index -> Octet]
      /\ (q + 1) * BlockSize = n + BlockSize /\ (q + 2) * BlockSize = n + BlockSize + BlockSize
      /\ q + 1 \in Nat /\ q + 2 \in Nat
  BY <1>1, <1>5 DEF TypeOK
<1>8. n \in Nat /\ i \in 0 .. BlockSize - 1 /\ n + i = taken /\ i \in Nat /\ taken \in Nat
  BY <1>1, <1>2, <1>4
<1> HIDE DEF n, i
<1> DEFINE P == Padded(message)
           h == Intermediate_Hash'
<1>9. CASE NeedsTwoBlocks
  <2> DEFINE f == Filled(BlockSize)
             g == [j \in Index |-> 0]
             w == WithLength(g)
             last == [k \in 1 .. BlockSize |-> w[k - 1]]
             z == BlockSize - 1 - i + LengthAt
  <2>1. i \in LengthAt .. BlockSize - 1
    BY <1>1, <1>4, <1>9 DEF NeedsTwoBlocks, i
  <2>2. /\ f \in [Index -> Octet]
        /\ \A k \in 0 .. i - 1 : f[k] = Message_Block[k]
        /\ f[i] = 128
        /\ \A k \in i + 1 .. BlockSize - 1 : f[k] = 0
    <3>1. BlockSize \in i + 1 .. BlockSize
      BY <1>1, <1>4
    <3> QED BY <3>1, FilledBytes DEF i
  <2>3. g \in [Index -> Octet] /\ \A k \in Index : g[k] = 0
    BY OctetAssumption
  <2> HIDE DEF f, g
  <2>4. /\ w \in [Index -> Octet]
        /\ \A k \in 0 .. LengthAt - 1 : w[k] = g[k]
        /\ \A k \in 1 .. WordSize : w[LengthAt - 1 + k] = LengthOctet(Length_High, k - 1)
        /\ \A k \in 1 .. WordSize :
              w[LengthAt - 1 + WordSize + k] = LengthOctet(Length_Low, k - 1)
    BY <2>3, WithLengthBytes
  <2> HIDE DEF w
  <2>5. last \in Seq(Octet) /\ Len(last) = BlockSize /\ \A k \in 1 .. BlockSize : last[k] = w[k - 1]
    <3>1. last \in [1 .. BlockSize -> Octet]
      BY <1>1, <2>4 DEF Index
    <3> QED BY <1>1, <3>1, FunctionIsSequence
  <2>6. h = Processed(f) \o last
    BY <1>9 DEF SHA1PadMessage, f, w, g
  <2> HIDE DEF last
  <2>7. /\ Processed(f) \in Seq(Octet) /\ Len(Processed(f)) = n + BlockSize
        /\ \A k \in 1 .. n : Processed(f)[k] = Intermediate_Hash[k]
        /\ \A k \in n + 1 .. n + BlockSize : Processed(f)[k] = f[k - n - 1]
    BY <1>7, <2>2, ProcessedBlock DEF n
  <2>8. /\ h \in Seq(Octet) /\ Len(h) = n + BlockSize + BlockSize
        /\ \A k \in 1 .. n + BlockSize : h[k] = Processed(f)[k]
        /\ \A k \in 1 .. BlockSize : h[n + BlockSize + k] = last[k]
    BY <2>5, <2>6, <2>7, EndToEnd
  <2>9. /\ z \in 0 .. BlockSize - 1
        /\ taken + 1 + z + 2 * WordSize = (q + 2) * BlockSize
        /\ taken + 1 + z = n + BlockSize + LengthAt
    <3>1. z \in 0 .. BlockSize - 1 /\ taken + 1 + z = n + BlockSize + LengthAt
      BY <1>1, <1>8, <2>1
    <3>2. taken + 1 + z + 2 * WordSize = n + BlockSize + BlockSize
      BY <1>1, <1>8, <3>1
    <3> QED BY <1>7, <3>1, <3>2
  <2> HIDE DEF z
  <2>10. /\ P \in Seq(Octet)
         /\ Len(P) = taken + 1 + z + WordSize + WordSize
         /\ \A k \in 1 .. taken : P[k] = message[k]
         /\ P[taken + 1] = 128
         /\ \A k \in taken + 2 .. taken + 1 + z : P[k] = 0
         /\ \A k \in 1 .. WordSize : P[taken + 1 + z + k] = LengthOctet(Length_High, k - 1)
         /\ \A k \in 1 .. WordSize :
               P[taken + 1 + z + WordSize + k] = LengthOctet(Length_Low, k - 1)
    <3> DEFINE L == Len(message)
    <3>1. L = taken
      BY <1>3
    <3>2. /\ message \in Seq(Octet) /\ z \in 0 .. BlockSize - 1 /\ q + 2 \in Nat
          /\ Len(message) + 1 + z + 2 * WordSize = (q + 2) * BlockSize
          /\ Length_High \in 0 .. WordLimit - 1 /\ Length_Low \in 0 .. WordLimit - 1
          /\ Length_High * WordLimit + Length_Low = 8 * Len(message)
      BY <1>3, <1>6, <1>7, <2>9
    <3>3. /\ P \in Seq(Octet)
          /\ Len(P) = L + 1 + z + WordSize + WordSize
          /\ \A k \in 1 .. L : P[k] = message[k]
          /\ P[L + 1] = 128
          /\ \A k \in L + 2 .. L + 1 + z : P[k] = 0
          /\ \A k \in 1 .. WordSize : P[L + 1 + z + k] = LengthOctet(Length_High, k - 1)
          /\ \A k \in 1 .. WordSize :
                P[L + 1 + z + WordSize + k] = LengthOctet(Length_Low, k - 1)
      BY ONLY <3>2, PaddedBytes
    <3> HIDE DEF L, P
    <3> QED BY <3>1, <3>3
  <2> HIDE DEF P, h
  <2>11. ASSUME NEW k \in 1 .. Len(h) PROVE h[k] = P[k]
    <3>1. CASE k <= n
      <4>1. k \in 1 .. n /\ k \in 1 .. taken /\ k \in 1 .. n + BlockSize
        BY <1>1, <1>8, <3>1
      <4>2. h[k] = stream[k]
        BY <1>4, <2>7, <2>8, <4>1
      <4> QED BY <1>3, <2>10, <4>1, <4>2
    <3>2. CASE k > n /\ k <= n + BlockSize
      <4> DEFINE j == k - n - 1
      <4>1. /\ j \in 0 .. BlockSize - 1 /\ k = n + j + 1
            /\ k \in n + 1 .. n + BlockSize /\ k \in 1 .. n + BlockSize
        BY <1>1, <1>4, <2>8, <3>2
      <4>2. h[k] = f[j]
        BY <2>7, <2>8, <4>1
      <4> HIDE DEF j
      <4>3. CASE j < i
        <5>1. j \in 0 .. i - 1 /\ k \in 1 .. taken
          BY <1>4, <4>1, <4>3
        <5> QED BY <1>3, <1>4, <2>2, <2>10, <4>1, <4>2, <5>1
      <4>4. CASE j = i
        <5>1. k = taken + 1
          BY <1>4, <4>1, <4>4
        <5> QED BY <2>2, <2>10, <4>2, <4>4, <5>1
      <4>5. CASE j > i
        <5>1. j \in i + 1 .. BlockSize - 1 /\ k \in taken + 2 .. taken + 1 + z
          BY <1>1, <1>4, <2>9, <4>1, <4>5
        <5> QED BY <2>2, <2>10, <4>2, <5>1
      <4> QED BY <1>4, <4>1, <4>3, <4>4, <4>5
    <3>3. CASE k > n + BlockSize
      <4> DEFINE j == k - n - BlockSize
      <4>1. j \in 1 .. BlockSize /\ k = n + BlockSize + j
        BY <1>1, <1>4, <2>8, <3>3
      <4>2. h[k] = w[j - 1]
        BY <2>5, <2>8, <4>1
      <4> HIDE DEF j
      <4>3. CASE j <= LengthAt
        <5>1. /\ j - 1 \in 0 .. LengthAt - 1 /\ j - 1 \in Index
              /\ k \in taken + 2 .. taken + 1 + z
          BY <1>1, <1>4, <2>9, <4>1, <4>3 DEF Index
        <5> QED BY <2>3, <2>4, <2>10, <4>2, <5>1
      <4>4. CASE j > LengthAt /\ j <= LengthAt + WordSize
        <5> DEFINE m == j - LengthAt
        <5>1. m \in 1 .. WordSize /\ j - 1 = LengthAt - 1 + m /\ k = taken + 1 + z + m
          BY <1>1, <1>4, <2>9, <4>1, <4>4
        <5> HIDE DEF m
        <5> QED BY <2>4, <2>10, <4>2, <5>1
      <4>5. CASE j > LengthAt + WordSize
        <5> DEFINE m == j - LengthAt - WordSize
        <5>1. /\ m \in 1 .. WordSize /\ j - 1 = LengthAt - 1 + WordSize + m
              /\ k = taken + 1 + z + WordSize + m
          BY <1>1, <1>4, <2>9, <4>1, <4>5
        <5> HIDE DEF m
        <5> QED BY <2>4, <2>10, <4>2, <5>1
      <4> QED BY <1>1, <4>1, <4>3, <4>4, <4>5
    <3> QED BY <1>1, <1>4, <3>1, <3>2, <3>3
  <2>12. Len(P) = Len(h)
    BY <1>1, <1>4, <2>8, <2>9, <2>10
  <2> QED BY <2>8, <2>10, <2>11, <2>12, SeqEqual DEF P, h
<1>10. CASE ~NeedsTwoBlocks
  <2> DEFINE f == Filled(LengthAt)
             w == WithLength(f)
             z == LengthAt - 1 - i
  <2>1. i \in 0 .. LengthAt - 1
    BY <1>1, <1>4, <1>10 DEF NeedsTwoBlocks, i
  <2>2. /\ f \in [Index -> Octet]
        /\ \A k \in 0 .. i - 1 : f[k] = Message_Block[k]
        /\ f[i] = 128
        /\ \A k \in i + 1 .. LengthAt - 1 : f[k] = 0
    <3>1. LengthAt \in i + 1 .. BlockSize
      BY <1>1, <1>4, <2>1
    <3> QED BY <3>1, FilledBytes DEF i
  <2> HIDE DEF f
  <2>3. /\ w \in [Index -> Octet]
        /\ \A k \in 0 .. LengthAt - 1 : w[k] = f[k]
        /\ \A k \in 1 .. WordSize : w[LengthAt - 1 + k] = LengthOctet(Length_High, k - 1)
        /\ \A k \in 1 .. WordSize :
              w[LengthAt - 1 + WordSize + k] = LengthOctet(Length_Low, k - 1)
    BY <2>2, WithLengthBytes
  <2>4. h = Processed(w)
    BY <1>10 DEF SHA1PadMessage, f
  <2> HIDE DEF w
  <2>5. /\ h \in Seq(Octet) /\ Len(h) = n + BlockSize
        /\ \A k \in 1 .. n : h[k] = Intermediate_Hash[k]
        /\ \A k \in n + 1 .. n + BlockSize : h[k] = w[k - n - 1]
    BY <1>7, <2>3, <2>4, ProcessedBlock DEF n
  <2>6. /\ z \in 0 .. BlockSize - 1
        /\ taken + 1 + z + 2 * WordSize = (q + 1) * BlockSize
        /\ taken + 1 + z = n + LengthAt
    <3>1. z \in 0 .. BlockSize - 1 /\ taken + 1 + z = n + LengthAt
      BY <1>1, <1>8, <2>1
    <3>2. taken + 1 + z + 2 * WordSize = n + BlockSize
      BY <1>1, <1>8, <3>1
    <3> QED BY <1>7, <3>1, <3>2
  <2> HIDE DEF z
  <2>7. /\ P \in Seq(Octet)
        /\ Len(P) = taken + 1 + z + WordSize + WordSize
        /\ \A k \in 1 .. taken : P[k] = message[k]
        /\ P[taken + 1] = 128
        /\ \A k \in taken + 2 .. taken + 1 + z : P[k] = 0
        /\ \A k \in 1 .. WordSize : P[taken + 1 + z + k] = LengthOctet(Length_High, k - 1)
        /\ \A k \in 1 .. WordSize :
              P[taken + 1 + z + WordSize + k] = LengthOctet(Length_Low, k - 1)
    <3> DEFINE L == Len(message)
    <3>1. L = taken
      BY <1>3
    <3>2. /\ message \in Seq(Octet) /\ z \in 0 .. BlockSize - 1 /\ q + 1 \in Nat
          /\ Len(message) + 1 + z + 2 * WordSize = (q + 1) * BlockSize
          /\ Length_High \in 0 .. WordLimit - 1 /\ Length_Low \in 0 .. WordLimit - 1
          /\ Length_High * WordLimit + Length_Low = 8 * Len(message)
      BY <1>3, <1>6, <1>7, <2>6
    <3>3. /\ P \in Seq(Octet)
          /\ Len(P) = L + 1 + z + WordSize + WordSize
          /\ \A k \in 1 .. L : P[k] = message[k]
          /\ P[L + 1] = 128
          /\ \A k \in L + 2 .. L + 1 + z : P[k] = 0
          /\ \A k \in 1 .. WordSize : P[L + 1 + z + k] = LengthOctet(Length_High, k - 1)
          /\ \A k \in 1 .. WordSize :
                P[L + 1 + z + WordSize + k] = LengthOctet(Length_Low, k - 1)
      BY ONLY <3>2, PaddedBytes
    <3> HIDE DEF L, P
    <3> QED BY <3>1, <3>3
  <2> HIDE DEF P, h
  <2>8. ASSUME NEW k \in 1 .. Len(h) PROVE h[k] = P[k]
    <3>0. k \in 1 .. n + BlockSize
      BY <2>5
    <3>1. CASE k <= n
      <4>1. k \in 1 .. n /\ k \in 1 .. taken
        BY <1>4, <3>1
      <4> QED BY <1>3, <1>4, <2>5, <2>7, <4>1
    <3>2. CASE k > n
      <4> DEFINE j == k - n - 1
      <4>1. j \in 0 .. BlockSize - 1 /\ k = n + j + 1 /\ k \in n + 1 .. n + BlockSize
        BY <1>1, <1>8, <3>0, <3>2
      <4>2. h[k] = w[j]
        BY <2>5, <4>1
      <4> HIDE DEF j
      <4>3. CASE j < i
        <5>1. j \in 0 .. i - 1 /\ j \in 0 .. LengthAt - 1 /\ k \in 1 .. taken
          BY <1>1, <1>8, <2>1, <4>1, <4>3
        <5>2. h[k] = stream[n + j + 1]
          BY <1>4, <2>2, <2>3, <4>2, <5>1
        <5>3. P[k] = stream[k]
          BY <1>3, <2>7, <5>1
        <5> QED BY <4>1, <5>2, <5>3
      <4>4. CASE j = i
        <5>1. k = taken + 1 /\ j \in 0 .. LengthAt - 1
          BY <1>4, <2>1, <4>1, <4>4
        <5> QED BY <2>2, <2>3, <2>7, <4>2, <4>4, <5>1
      <4>5. CASE j > i /\ j < LengthAt
        <5>1. /\ j \in i + 1 .. LengthAt - 1 /\ j \in 0 .. LengthAt - 1
              /\ k \in taken + 2 .. taken + 1 + z
          BY <1>1, <1>4, <2>6, <4>1, <4>5
        <5> QED BY <2>2, <2>3, <2>7, <4>2, <5>1
      <4>6. CASE j >= LengthAt /\ j < LengthAt + WordSize
        <5> DEFINE m == j - LengthAt + 1
        <5>1. m \in 1 .. WordSize /\ j = LengthAt - 1 + m /\ k = taken + 1 + z + m
          BY <1>1, <1>4, <2>6, <4>1, <4>6
        <5> HIDE DEF m
        <5> QED BY <2>3, <2>7, <4>2, <5>1
      <4>7. CASE j >= LengthAt + WordSize
        <5> DEFINE m == j - LengthAt - WordSize + 1
        <5>1. /\ m \in 1 .. WordSize /\ j = LengthAt - 1 + WordSize + m
              /\ k = taken + 1 + z + WordSize + m
          BY <1>1, <1>4, <2>6, <4>1, <4>7
        <5> HIDE DEF m
        <5> QED BY <2>3, <2>7, <4>2, <5>1
      <4> QED BY <1>1, <1>8, <4>1, <4>3, <4>4, <4>5, <4>6, <4>7
    <3> QED BY <1>8, <3>0, <3>1, <3>2
  <2>9. Len(P) = Len(h)
    BY <1>1, <1>4, <2>5, <2>6, <2>7
  <2> QED BY <2>5, <2>7, <2>8, <2>9, SeqEqual DEF P, h
<1> QED BY <1>9, <1>10

-----------------------------------------------------------------------------
\* The stronger invariant holds at first, and every call keeps it.
LEMMA DigestInvHolds == Init => DigestInv
<1> SUFFICES ASSUME Init PROVE DigestInv
  OBVIOUS
<1>1. 0 * BlockSize = 0 /\ 0 \in Nat
  BY Sizes
<1>2. HashedInBlocks
  BY <1>1 DEF Init, HashedInBlocks
<1>3. TakesWhenOpen
  BY DEF Init, TakesWhenOpen
<1> QED BY <1>2, <1>3, InitHolds DEF DigestInv

LEMMA DigestInvIsKept == DigestInv /\ [Next]_vars => DigestInv'
<1> SUFFICES ASSUME DigestInv, [Next]_vars PROVE DigestInv'
  OBVIOUS
<1> USE DEF DigestInv, HashedInBlocks, TakesWhenOpen
<1>1. CASE SHA1Reset
  <2>1. 0 * BlockSize = 0 /\ 0 \in Nat
    BY Sizes
  <2>2. Intermediate_Hash' = <<>> /\ left' = 0
    BY <1>1 DEF SHA1Reset
  <2>3. IInv'
    BY <1>1, ResetKeeps
  <2> QED BY <2>1, <2>2, <2>3
<1>2. CASE TakeByte
  <2>1. IInv' /\ Computed' = Computed /\ ~Computed /\ Corrupted = 0
    BY <1>2, ByteKeeps DEF TakeByte
  <2>2. left' > 0 => Corrupted' = 0
    BY <1>2, <2>1 DEF TakeByte
  <2>3. PICK q \in Nat : Len(Intermediate_Hash) = q * BlockSize
    BY <2>1
  <2> DEFINE block == [Message_Block EXCEPT ![Message_Block_Index] = stream[taken + 1]]
  <2>4. UNCHANGED Intermediate_Hash \/ Intermediate_Hash' = Processed(block)
    BY <1>2 DEF TakeByte
  <2>5. block \in [Index -> Octet]
    <3>1. /\ stream \in Seq(Octet) /\ taken \in 0 .. Len(stream) /\ left > 0
          /\ left \in 0 .. Len(stream) - taken /\ Message_Block \in [Index -> Octet]
      BY <1>2, StreamAssumption DEF TypeOK, TakeByte, IInv, ContextInv
    <3>2. taken + 1 \in 1 .. Len(stream)
      BY <3>1
    <3>3. stream[taken + 1] \in Octet
      BY <3>1, <3>2
    <3> QED BY <3>1, <3>3
  <2> HIDE DEF block
  <2>6. CASE UNCHANGED Intermediate_Hash
    BY <2>1, <2>2, <2>6
  <2>7. CASE Intermediate_Hash' = Processed(block)
    <3>1. Len(Intermediate_Hash') = Len(Intermediate_Hash) + BlockSize
      BY <2>5, <2>7, ProcessedBlock DEF TypeOK, IInv, ContextInv
    <3>2. (q + 1) * BlockSize = q * BlockSize + BlockSize /\ q + 1 \in Nat
      BY Sizes
    <3>3. Len(Intermediate_Hash') = (q + 1) * BlockSize
      BY <2>3, <3>1, <3>2
    <3> QED BY <2>1, <2>2, <3>2, <3>3
  <2> QED BY <2>4, <2>6, <2>7
<1>3. CASE SHA1Result
  <2>1. IInv' /\ left' = 0 /\ (Computed' = FALSE => UNCHANGED <<Computed, Intermediate_Hash>>)
    BY <1>3, ResultKeeps DEF SHA1Result, context
  <2> QED BY <2>1 DEF TypeOK, IInv, ContextInv
<1>4. CASE NullPointer \/ UNCHANGED vars
  <2>1. IInv' /\ UNCHANGED <<Computed, Intermediate_Hash, left, Corrupted>>
    BY <1>4, NullKeeps DEF NullPointer, vars, context
  <2> QED BY <2>1
<1>5. CASE \E n \in 0 .. MaxPortion : SHA1Input(n)
  <2>1. PICK n \in 0 .. MaxPortion : SHA1Input(n)
    BY <1>5
  <2>2. IInv' /\ UNCHANGED <<Computed, Intermediate_Hash>>
    BY <1>5, <2>1, InputKeeps DEF SHA1Input
  <2>3. left' > 0 => ~Computed' /\ Corrupted' = 0
    BY <2>1 DEF SHA1Input, Refused
  <2> QED BY <2>2, <2>3
<1> QED BY <1>1, <1>2, <1>3, <1>4, <1>5 DEF Next

\* What MessageDigest sees of the flags of a context.
State == IF Corrupted # 0 THEN "failed" ELSE IF Computed THEN "closed" ELSE "open"

\* One more byte: a loop of SHA1Input adds it, and fails exactly with the byte
\* that makes the message too long for the two words.
LEMMA TakeByteAdds == DigestInv /\ DigestInv' /\ TakeByte => Digest!Add
<1> SUFFICES ASSUME DigestInv, DigestInv', TakeByte PROVE Digest!Add
  OBVIOUS
<1> DEFINE low   == (Length_Low + 8) % WordLimit
           high  == (Length_High + Carry(low)) % WordLimit
           wraps == Carry(low) = 1 /\ high = 0
<1>1. TypeOK /\ NoByteIsLost /\ LengthIsCounted /\ LowIsEights /\ HashedInBlocks /\ TakesWhenOpen
  BY DEF DigestInv, IInv, ContextInv
<1>2. /\ ~Computed /\ Corrupted = 0 /\ ~Computed' /\ taken' = taken + 1 /\ stream' = stream
      /\ Corrupted' = (IF wraps THEN 1 ELSE Corrupted)
      /\ Length_Low' = low /\ Length_High' = high
  BY <1>1 DEF TakeByte, TakesWhenOpen
<1>3. stream \in Seq(Octet) /\ taken \in Nat /\ taken + 1 \in 1 .. Len(stream)
  BY <1>1, StreamAssumption DEF TypeOK, TakeByte
<1>4. /\ message \in Seq(Octet) /\ message' \in Seq(Octet)
      /\ message' = SubSeq(stream, 1, taken + 1)
      /\ Len(message') = taken + 1
      /\ message' = Append(message, stream[taken + 1])
  <2>1. message' = SubSeq(stream, 1, taken + 1) /\ message = SubSeq(stream, 1, taken)
    BY <1>2 DEF message
  <2>2. taken \in 0 .. Len(stream) /\ taken + 1 \in 0 .. Len(stream)
    BY <1>3
  <2>3. /\ message \in Seq(Octet) /\ Len(message) = taken
        /\ \A k \in 1 .. taken : message[k] = stream[k]
    BY <1>3, <2>1, <2>2, FirstBytes
  <2>4. /\ message' \in Seq(Octet) /\ Len(message') = taken + 1
        /\ \A k \in 1 .. taken + 1 : message'[k] = stream[k]
    BY <1>3, <2>1, <2>2, FirstBytes
  <2> DEFINE a == Append(message, stream[taken + 1])
  <2>5. stream[taken + 1] \in Octet
    BY <1>3
  <2>6. /\ a \in Seq(Octet) /\ Len(a) = taken + 1 /\ a[taken + 1] = stream[taken + 1]
        /\ \A k \in 1 .. taken : a[k] = message[k]
    BY <2>3, <2>5, AppendProperties
  <2> HIDE DEF a
  <2>7. \A k \in 1 .. taken + 1 : message'[k] = a[k]
    <3>1. \A k \in 1 .. taken + 1 : k \in 1 .. taken \/ k = taken + 1
      BY <1>3
    <3> QED BY <2>3, <2>4, <2>6, <3>1
  <2>8. message' = a
    BY <2>4, <2>6, <2>7, SeqEqual
  <2> QED BY <2>1, <2>3, <2>4, <2>8 DEF a
<1>5. Intermediate_Hash' = Digest!FullBlocks(message')
  <2>1. TypeOK' /\ NoByteIsLost' /\ HashedInBlocks'
    BY DEF DigestInv, IInv, ContextInv
  <2> DEFINE h == Intermediate_Hash'
             i == Message_Block_Index'
             t == taken + 1
  <2>2. /\ h \in Seq(Octet) /\ i \in Index /\ Len(h) + i = t
        /\ \A k \in 1 .. Len(h) : h[k] = stream[k]
    BY <1>2, <2>1 DEF TypeOK, NoByteIsLost
  <2>3. PICK q \in Nat : Len(h) = q * BlockSize
    BY <1>2, <2>1 DEF HashedInBlocks
  <2>4. t \in 0 .. Len(stream)
    BY <1>3
  <2>5. message' = SubSeq(stream, 1, t)
    BY <1>4
  <2> HIDE DEF h, i, t
  <2>6. h = Digest!FullBlocks(SubSeq(stream, 1, t))
    BY <1>3, <2>2, <2>3, <2>4, HashedAreFullBlocks
  <2> QED BY <2>5, <2>6 DEF h
<1>6. wraps <=> TooLong(message')
  <2> DEFINE square == WordLimit * WordLimit
             bits   == 8 * (taken + 1)
  <2>1. Length_High * WordLimit + Length_Low = 8 * taken
    BY <1>1, <1>2 DEF LengthIsCounted
  <2>2. /\ low \in 0 .. WordLimit - 1 /\ high \in 0 .. WordLimit - 1
        /\ ~wraps => high * WordLimit + low = bits
    BY <1>1, <1>3, <2>1, Carries
  <2>3. WordLimit \in Nat \ {0} /\ square \in Nat
    BY Sizes
  <2>4. TooLong(message') <=> bits >= square
    BY <1>4 DEF TooLong
  <2>5. ~wraps => ~(bits >= square)
    <3> SUFFICES ASSUME ~wraps PROVE bits < square
      BY <1>3, <2>3
    <3>1. high * WordLimit + WordLimit <= square
      BY <2>2, <2>3, BlocksAscend
    <3>2. high * WordLimit \in Nat /\ high * WordLimit + low = bits
      BY <2>2, <2>3
    <3> QED BY <2>2, <2>3, <3>1, <3>2
  <2>6. wraps => bits >= square
    <3> SUFFICES ASSUME wraps PROVE bits = square
      BY <1>3, <2>3
    <3>1. low = 0 /\ high = (Length_High + 1) % WordLimit /\ high = 0
      BY DEF Carry
    <3>2. Length_Low \in 0 .. WordLimit - 1 /\ Length_High \in 0 .. WordLimit - 1
      BY <1>1 DEF TypeOK
    <3>3. Length_High + 1 \in 0 .. WordLimit /\ Length_High + 1 # 0
      BY <2>3, <3>2
    <3>4. Length_High + 1 = WordLimit
      BY <2>3, <3>1, <3>3, Wraps
    <3>5. Length_Low + 8 = WordLimit
      <4>1. PICK q \in Nat : Length_Low = 8 * q
        BY <1>1 DEF LowIsEights
      <4>2. PICK w \in Nat : WordLimit = 8 * w
        BY Sizes
      <4>3. Length_Low + 8 \in 0 .. WordLimit /\ Length_Low + 8 # 0
        BY <2>3, <3>2, <4>1, <4>2, SMT
      <4> QED BY <2>3, <3>1, <4>3, Wraps
    <3>6. Length_High * WordLimit + WordLimit = square
      <4>1. (Length_High + 1) * WordLimit = Length_High * WordLimit + WordLimit
        BY <2>3, <3>2
      <4> QED BY <3>4, <4>1
    <3>7. Length_High * WordLimit \in Nat
      BY <2>3, <3>2
    <3> QED BY <1>3, <2>1, <2>3, <3>2, <3>5, <3>6, <3>7
  <2> QED BY <2>4, <2>5, <2>6
<1> HIDE DEF wraps, low, high
<1>7. State = "open" /\ State' = (IF TooLong(message') THEN "failed" ELSE "open")
  BY <1>2, <1>6 DEF State
<1>8. stream[taken + 1] \in Octet
  BY <1>3
<1> QED BY <1>4, <1>5, <1>7, <1>8 DEF Digest!Add, State

\* The result closes the context: it hashes what the standard says.
LEMMA ResultCloses ==
    DigestInv /\ SHA1Result =>
        Digest!Close \/ UNCHANGED <<message, State, Intermediate_Hash>>
<1> SUFFICES ASSUME DigestInv, SHA1Result
             PROVE  Digest!Close \/ UNCHANGED <<message, State, Intermediate_Hash>>
  OBVIOUS
<1>1. UNCHANGED <<stream, taken, message>>
  BY DEF SHA1Result, message
<1>2. CASE UNCHANGED context
  BY <1>1, <1>2 DEF context, State
<1>3. CASE ~UNCHANGED context
  <2>1. /\ Corrupted = 0 /\ ~Computed /\ SHA1PadMessage
        /\ Computed' = TRUE /\ Corrupted' = 0
    BY <1>3 DEF SHA1Result, AlreadyComputed
  <2>2. Intermediate_Hash' = Padded(message)
    BY <2>1, PadIsStandard DEF DigestInv, IInv, ContextInv
  <2>3. State = "open" /\ State' = "closed"
    BY <2>1 DEF State
  <2> QED BY <1>1, <2>2, <2>3 DEF Digest!Close, State
<1> QED BY <1>2, <1>3

\* Every call is a step of MessageDigest, or none.
LEMMA CallsAreDigestSteps ==
    DigestInv /\ DigestInv' /\ [Next]_vars =>
        [Digest!Add \/ Digest!Close \/ Digest!Fail \/ Digest!Reset]_<<message, State, Intermediate_Hash>>
<1> SUFFICES ASSUME DigestInv, DigestInv', [Next]_vars
             PROVE  \/ Digest!Add \/ Digest!Close \/ Digest!Fail \/ Digest!Reset
                    \/ UNCHANGED <<message, State, Intermediate_Hash>>
  OBVIOUS
<1>1. CASE SHA1Reset
  <2>1. message' = <<>>
    BY <1>1, SubSeqEmpty DEF SHA1Reset, message
  <2>2. State' = "open" /\ Intermediate_Hash' = <<>>
    BY <1>1 DEF SHA1Reset, State
  <2> QED BY <2>1, <2>2 DEF Digest!Reset, State
<1>2. CASE TakeByte
  BY <1>2, TakeByteAdds
<1>3. CASE SHA1Result
  BY <1>3, ResultCloses
<1>4. CASE NullPointer \/ UNCHANGED vars
  <2>1. UNCHANGED <<stream, taken, Intermediate_Hash, Computed, Corrupted>>
    BY <1>4 DEF NullPointer, vars, context
  <2> QED BY <2>1 DEF message, State
<1>5. CASE \E n \in 0 .. MaxPortion : SHA1Input(n)
  <2>1. PICK n \in 0 .. MaxPortion : SHA1Input(n)
    BY <1>5
  <2>2. UNCHANGED <<stream, taken, message, Computed, Intermediate_Hash>>
    BY <2>1 DEF SHA1Input, message
  <2>3. CASE Corrupted' = Corrupted
    BY <2>2, <2>3 DEF State
  <2>4. CASE Corrupted' # Corrupted
    <3>1. Computed /\ Corrupted' = shaStateError
      BY <2>1, <2>4 DEF SHA1Input
    <3>2. State' = "failed"
      BY <3>1 DEF State, shaStateError
    <3>3. State = "closed" \/ State = "failed"
      BY <3>1 DEF State
    <3> QED BY <2>2, <3>2, <3>3 DEF Digest!Fail, State
  <2> QED BY <2>3, <2>4
<1> QED BY <1>1, <1>2, <1>3, <1>4, <1>5 DEF Next

\* However a message is cut into portions and whatever the block held before,
\* a context of sha1.c does what MessageDigest promises: the digest is that of
\* the message with the padding of the standard, for every size of blocks and
\* words, and only SHA1Reset takes a context that failed back to nothing.
THEOREM ImplementsDigest == Spec => DigestSpec
<1>1. Init => Digest!Init
  <2> SUFFICES ASSUME Init PROVE Digest!Init
    OBVIOUS
  <2>1. message = <<>>
    BY SubSeqEmpty DEF Init, message
  <2> QED BY <2>1 DEF Init, Digest!Init
<1>2. DigestInv /\ DigestInv' /\ [Next]_vars =>
        [Digest!Add \/ Digest!Close \/ Digest!Fail \/ Digest!Reset]_<<message,
            IF Corrupted # 0 THEN "failed" ELSE IF Computed THEN "closed" ELSE "open",
            Intermediate_Hash>>
  BY CallsAreDigestSteps DEF State
<1> QED BY <1>1, <1>2, DigestInvHolds, DigestInvIsKept, PTL DEF Spec, DigestSpec, Digest!Spec

=============================================================================
