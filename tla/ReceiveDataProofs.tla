-------------------------- MODULE ReceiveDataProofs --------------------------
(***************************************************************************)
(* Proofs about receive_data for every buffer size, delimiter length, set  *)
(* of streams and bound on failed reads.                                   *)
(***************************************************************************)
EXTENDS ReceiveData, TLAPS

-----------------------------------------------------------------------------
(* strstr finds the delimiter in a buffer that holds the first n bytes of  *)
(* the stream exactly when they include the whole delimiter, and finds it  *)
(* where the headers end.                                                  *)
LEMMA DelimiterIsFound ==
  ASSUME NEW n \in 0 .. LastCell, NEW mem \in [Cell -> Nat],
         stream \in Streams,
         \A i \in Cell : mem[i] = IF i >= 0 /\ i < n THEN i + 1 ELSE 0
  PROVE  EndOfHeaders(mem) = IF n >= stream.headers
                             THEN {stream.headers - DelimiterLength} ELSE {}
<1> DEFINE h == stream.headers  D == DelimiterLength
<1>1. /\ h \in Nat /\ D \in Nat \ {0} /\ h >= D
      /\ MaxRequestSize \in Nat /\ BufSize \in Nat /\ MaxFailures \in Nat
  BY ReceiveAssumption DEF Stream
<1>2. ASSUME NEW p \in EndOfHeaders(mem)
      PROVE  p = h - D /\ n >= h
  <2>1. p \in 0 .. (LastCell - D) /\ mem[p + 0] = h - D + 1 + 0
        /\ mem[p + (D - 1)] = h - D + 1 + (D - 1) /\ mem[p] # 0
    <3>1. 0 \in 0 .. (D - 1) /\ D - 1 \in 0 .. (D - 1)
      BY <1>1
    <3>2. p \in 0 .. (LastCell - D) /\ p \in 0 .. p
      BY <1>1 DEF EndOfHeaders, LastCell
    <3>3. QED
      BY <3>1, <3>2 DEF EndOfHeaders
  <2>2. p \in Cell /\ p + (D - 1) \in Cell
    BY <2>1, <1>1 DEF Cell, LastCell
  <2>3. p \in Int /\ p >= 0 /\ p + 0 = p
    BY <2>1, <1>1 DEF LastCell
  <2>4. mem[p] = p + 1
    BY <2>1, <2>2, <2>3
  <2>5. p = h - D
    BY <2>1, <2>3, <2>4, <1>1
  <2>6. mem[p + (D - 1)] # 0
    BY <2>1, <1>1
  <2>7. p + (D - 1) < n
    BY <2>2, <2>6, <2>3, <1>1
  <2>8. QED
    BY <2>5, <2>7, <1>1 DEF LastCell
<1>3. ASSUME n >= h
      PROVE  h - D \in EndOfHeaders(mem)
  <2>1. h - D \in 0 .. (LastCell - D)
    BY <1>1, <1>3 DEF LastCell
  <2>2. ASSUME NEW i \in 0 .. (h - D)
        PROVE  mem[i] # 0
    <3>1. i \in Cell /\ i >= 0 /\ i < n /\ i \in Int
      BY <1>1, <1>3 DEF Cell, LastCell
    <3>2. QED
      BY <3>1
  <2>3. ASSUME NEW j \in 0 .. (D - 1)
        PROVE  mem[(h - D) + j] = h - D + 1 + j
    <3>1. j \in Int /\ 0 <= j /\ j < D /\ n \in Int /\ n <= LastCell
      BY <1>1 DEF LastCell
    <3>2. (h - D) + j \in Int /\ (h - D) + j >= 0 /\ (h - D) + j < n
      BY <1>1, <1>3, <3>1
    <3>3. (h - D) + j \in Cell
      BY <1>1, <3>1, <3>2 DEF Cell, LastCell
    <3>4. mem[(h - D) + j] = (h - D) + j + 1
      BY <3>2, <3>3
    <3>5. QED
      BY <3>1, <3>4, <1>1
  <2>4. QED
    BY <2>1, <2>2, <2>3 DEF EndOfHeaders
<1>4. CASE n >= h
  BY <1>2, <1>3, <1>4
<1>5. CASE ~(n >= h)
  BY <1>2, <1>5
<1>6. QED
  BY <1>4, <1>5

-----------------------------------------------------------------------------
(* The types of what the assumption says of the constants. *)
LEMMA ConstantTypes ==
  /\ MaxRequestSize \in Nat \ {0} /\ BufSize \in Nat \ {0}
  /\ DelimiterLength \in Nat \ {0} /\ MaxFailures \in Nat
  /\ LastCell \in Nat /\ Cell \subseteq Int
  /\ \A s \in Streams : /\ s.length \in Nat /\ s.headers \in Nat /\ s.content \in Nat
                        /\ s.headers >= DelimiterLength
BY ReceiveAssumption DEF Stream, LastCell, Cell

LEMMA InitReceiveInv == Init => ReceiveInv
<1> SUFFICES ASSUME Init PROVE ReceiveInv
  OBVIOUS
<1>0. stream.length \in Nat /\ dest \in [Cell -> Nat]
  BY ConstantTypes DEF Init
<1>1. TypeOK
  <2>1. closed \in BOOLEAN /\ foundEndOfHeaders \in BOOLEAN /\ eof \in BOOLEAN
    BY DEF Init
  <2>2. /\ stream \in Streams /\ sent \in 0 .. stream.length /\ taken \in 0 .. sent
        /\ failures \in 0 .. MaxFailures
    BY <1>0, ConstantTypes DEF Init
  <2>3. /\ totalWritten \in (0 - failures) .. (MaxRequestSize - 1)
        /\ totalLength \in Nat
    BY ConstantTypes DEF Init
  <2>4. QED
    BY <1>0, <2>1, <2>2, <2>3 DEF Init, TypeOK
<1>2. NulBeyond /\ HoldsPrefix(0)
  BY ConstantTypes DEF Init, NulBeyond, HoldsPrefix
<1>3. InStep
  BY <1>2, ConstantTypes DEF Init, InStep
<1>4. QED
  BY <1>1, <1>2, <1>3 DEF Init, ReceiveInv, RefusedMeansTooLong

(* The peer's steps touch nothing the loop keeps. *)
LEMMA PeerPreserves == ReceiveInv /\ (Arrive \/ PeerClose) => ReceiveInv'
<1> SUFFICES ASSUME ReceiveInv, Arrive \/ PeerClose PROVE ReceiveInv'
  OBVIOUS
<1>1. UNCHANGED <<stream, pc, dest, taken, totalWritten, totalLength,
                  foundEndOfHeaders, failures, eof>>
  BY DEF Arrive, PeerClose
<1>2. TypeOK'
  <2>1. sent' \in 0 .. stream.length /\ taken \in 0 .. sent'
    BY ConstantTypes DEF Arrive, PeerClose, ReceiveInv, TypeOK
  <2>2. closed' \in BOOLEAN
    BY DEF Arrive, PeerClose, ReceiveInv, TypeOK
  <2>3. QED
    BY <1>1, <2>1, <2>2 DEF ReceiveInv, TypeOK
<1>3. (InStep => InStep') /\ (NulBeyond => NulBeyond')
  BY <1>1 DEF InStep, HoldsPrefix, MessageLength, NulBeyond
<1>4. QED
  BY <1>1, <1>2, <1>3 DEF ReceiveInv, RefusedMeansTooLong

(* A failed read moves the count one back and ends the lockstep. *)
LEMMA ReadFailsPreserves == ReceiveInv /\ ReadFails => ReceiveInv'
<1> SUFFICES ASSUME ReceiveInv, ReadFails PROVE ReceiveInv'
  OBVIOUS
<1>1. failures' \in Nat \ {0} /\ pc = "reading" /\ pc' = pc
  BY DEF ReadFails, WantsMore, ReceiveInv, TypeOK
<1>2. TypeOK'
  BY ConstantTypes DEF ReadFails, WantsMore, ReceiveInv, TypeOK
<1>3. NulBeyond => NulBeyond'
  BY DEF ReadFails, NulBeyond
<1>4. QED
  BY <1>1, <1>2, <1>3 DEF ReadFails, ReceiveInv, RefusedMeansTooLong

(* Returning changes only pc (and eof). *)
LEMMA ReturnPreserves == ReceiveInv /\ (ReadEof \/ LoopEnds) => ReceiveInv'
<1> SUFFICES ASSUME ReceiveInv, ReadEof \/ LoopEnds PROVE ReceiveInv'
  OBVIOUS
<1>1. /\ pc = "reading" /\ pc' = "EXIT_SUCCESS"
      /\ UNCHANGED <<stream, sent, closed, dest, taken, totalWritten, totalLength,
                     foundEndOfHeaders, failures>>
  BY DEF ReadEof, LoopEnds, WantsMore
<1>2. TypeOK'
  BY <1>1 DEF ReadEof, LoopEnds, ReceiveInv, TypeOK
<1>3. (InStep => InStep') /\ (NulBeyond => NulBeyond')
  BY <1>1 DEF InStep, HoldsPrefix, MessageLength, NulBeyond
<1>4. ~eof' => totalWritten' >= totalLength'
  BY DEF ReadEof, LoopEnds
<1>5. QED
  BY <1>1, <1>2, <1>3, <1>4 DEF ReceiveInv, RefusedMeansTooLong

(* The step that stores bytes: either it runs out of room and gives up, or *)
(* the count and the buffer advance together and the delimiter search sees *)
(* the longer buffer.                                                      *)
LEMMA ReadSomePreserves ==
  ASSUME ReceiveInv, NEW n \in 1 .. (sent - taken), ReadSome(n)
  PROVE  ReceiveInv'
<1>1. /\ n \in Nat \ {0} /\ taken \in Nat /\ sent \in Nat /\ taken + n <= sent
      /\ totalWritten \in Int /\ totalWritten <= MaxRequestSize - 1
      /\ failures \in Nat /\ totalWritten >= 0 - failures
      /\ stream \in Streams /\ dest \in [Cell -> Nat] /\ pc = "reading"
  BY ConstantTypes DEF ReceiveInv, TypeOK, ReadSome, WantsMore
<1>2. /\ UNCHANGED <<stream, sent, closed, failures, eof>>
      /\ taken' = taken + n /\ dest' = Stored(n)
  BY DEF ReadSome
<1>3. dest' \in [Cell -> Nat]
  BY <1>1, <1>2, ConstantTypes DEF Stored
<1>4. \A i \in Cell : dest'[i] = IF i >= totalWritten /\ i < totalWritten + n
                                 THEN taken + 1 + i - totalWritten ELSE dest[i]
  BY <1>2 DEF Stored
<1>5. taken' \in 0 .. sent' /\ sent' \in 0 .. stream'.length
  BY <1>1, <1>2 DEF ReceiveInv, TypeOK
<1>6. CASE n > SpaceInDest
  <2>1. pc' = "EXIT_FAILURE" /\ UNCHANGED <<totalWritten, totalLength, foundEndOfHeaders>>
    BY <1>1, <1>6, ConstantTypes DEF ReadSome, SpaceInDest
  <2>2. TypeOK'
    BY <1>2, <1>3, <1>5, <2>1 DEF ReceiveInv, TypeOK
  <2>3. failures' = 0 => taken' > MaxRequestSize - 1
    <3>1. failures = 0 => totalWritten = taken
      BY <1>1 DEF ReceiveInv, InStep
    <3>2. QED
      BY <3>1, <1>1, <1>2, <1>6, ConstantTypes DEF SpaceInDest
  <2>4. QED
    BY <2>1, <2>2, <2>3 DEF ReceiveInv, RefusedMeansTooLong
<1>7. CASE n <= SpaceInDest
  <2>1. /\ totalWritten' = totalWritten + n /\ pc' = "reading"
        /\ totalWritten' <= MaxRequestSize - 1
    BY <1>1, <1>7, ConstantTypes DEF ReadSome, SpaceInDest
  <2>2. NulBeyond'
    <3>1. SUFFICES ASSUME NEW i \in Cell, i >= MaxRequestSize - 1
                   PROVE  dest'[i] = 0
      BY DEF NulBeyond
    <3>2. i \in Int /\ ~(i < totalWritten + n)
      BY <2>1, <1>1, <3>1, ConstantTypes
    <3>3. QED
      BY <1>1, <1>4, <3>1, <3>2 DEF ReceiveInv, NulBeyond
  <2>3. \/ UNCHANGED <<totalLength, foundEndOfHeaders>>
           /\ (foundEndOfHeaders \/ EndOfHeaders(dest') = {})
        \/ ~foundEndOfHeaders /\ foundEndOfHeaders' = TRUE
           /\ \E p \in EndOfHeaders(dest'), c \in ContentLengthFromString :
                totalLength' = LengthOfMessage(p, c)
    BY <1>1, <1>7, ConstantTypes DEF ReadSome, SpaceInDest
  <2>4. totalLength' \in Nat /\ foundEndOfHeaders' \in BOOLEAN
    <3>1. \A p \in EndOfHeaders(dest'), c \in ContentLengthFromString :
             LengthOfMessage(p, c) \in Nat
      BY <1>1, ConstantTypes
         DEF EndOfHeaders, ContentLengthFromString, LengthOfMessage
    <3>2. totalLength \in Nat /\ foundEndOfHeaders \in BOOLEAN
      BY DEF ReceiveInv, TypeOK
    <3>3. totalLength' \in Nat
      BY <2>3, <3>1, <3>2
    <3>4. foundEndOfHeaders' \in BOOLEAN
      BY <2>3, <3>2
    <3>5. QED
      BY <3>3, <3>4
  <2>5. TypeOK'
    <3>1. totalWritten' \in (0 - failures') .. (MaxRequestSize - 1)
      BY <1>1, <1>2, <2>1, ConstantTypes
    <3>2. QED
      BY <1>2, <1>3, <1>5, <2>1, <2>4, <3>1 DEF ReceiveInv, TypeOK
  <2>6. ~foundEndOfHeaders' => totalLength' = MaxRequestSize
    BY <2>3 DEF ReceiveInv
  <2>7. ASSUME failures' = 0 PROVE InStep'
    <3>1. InStep /\ totalWritten' = taken' /\ failures = 0
      BY <2>7, <1>1, <1>2, <2>1 DEF ReceiveInv, InStep
    <3>2. \A i \in Cell : dest'[i] = IF i >= 0 /\ i < taken' THEN i + 1 ELSE 0
      <4>1. SUFFICES ASSUME NEW i \in Cell
                     PROVE  dest'[i] = IF i >= 0 /\ i < taken' THEN i + 1 ELSE 0
        OBVIOUS
      <4>2. i \in Int /\ dest[i] = (IF i >= 0 /\ i < taken THEN i + 1 ELSE 0)
        BY <3>1, ConstantTypes DEF InStep, HoldsPrefix
      <4>3. totalWritten = taken
        BY <3>1 DEF InStep
      <4>4. QED
        BY <4>2, <4>3, <1>1, <1>2, <1>4
    <3>3. taken' \in 0 .. LastCell
      BY <1>1, <1>2, <2>1, <3>1, ConstantTypes DEF LastCell
    <3>4. EndOfHeaders(dest') = IF taken' >= stream.headers
                                THEN {stream.headers - DelimiterLength} ELSE {}
      BY <1>1, <1>3, <3>2, <3>3, DelimiterIsFound
    <3>5. MessageLength' = MessageLength /\ stream' = stream
      BY <1>2 DEF MessageLength
    <3>6. foundEndOfHeaders' => totalLength' = MessageLength
      <4>1. CASE foundEndOfHeaders
        BY <4>1, <2>3, <3>1 DEF InStep
      <4>2. CASE ~foundEndOfHeaders /\ foundEndOfHeaders'
        <5>1. PICK p \in EndOfHeaders(dest'), c \in ContentLengthFromString :
                 totalLength' = LengthOfMessage(p, c)
          BY <4>2, <2>3
        <5>2. p = stream.headers - DelimiterLength /\ c = stream.content
          BY <5>1, <3>1, <3>4 DEF ContentLengthFromString
        <5>3. QED
          BY <5>1, <5>2, <1>1, ConstantTypes DEF LengthOfMessage, MessageLength
      <4>3. QED
        BY <4>1, <4>2
    <3>7. ~foundEndOfHeaders' => taken' < stream.headers
      BY <2>3, <3>4, <1>1, <1>2, ConstantTypes
    <3>8. QED
      BY <3>1, <3>2, <3>5, <3>6, <3>7 DEF InStep, HoldsPrefix
  <2>8. QED
    BY <2>1, <2>2, <2>5, <2>6, <2>7 DEF ReceiveInv, RefusedMeansTooLong
<1>8. QED
  BY <1>1, <1>6, <1>7, ConstantTypes DEF SpaceInDest

LEMMA NextReceiveInv == ReceiveInv /\ [Next]_vars => ReceiveInv'
<1>1. ASSUME ReceiveInv, UNCHANGED vars PROVE ReceiveInv'
  BY <1>1 DEF vars, ReceiveInv, TypeOK, NulBeyond, InStep, HoldsPrefix,
              MessageLength, RefusedMeansTooLong
<1>2. ASSUME ReceiveInv, ReadAvailable PROVE ReceiveInv'
  BY <1>2, ReadSomePreserves DEF ReadAvailable
<1>3. QED
  BY <1>1, <1>2, PeerPreserves, ReadFailsPreserves, ReturnPreserves DEF Next, Loop

THEOREM ReceiveInvariant == Spec => []ReceiveInv
BY InitReceiveInv, NextReceiveInv, PTL DEF Spec

-----------------------------------------------------------------------------
(* receive_data keeps its counters and the memory around dest in range:    *)
(* whatever segments arrive, totalWritten stays below MAX_REQUEST_SIZE and *)
(* no lower than minus the number of failed reads.                         *)
THEOREM TypeCorrect == Spec => []TypeOK
<1>1. ReceiveInv => TypeOK
  BY DEF ReceiveInv
<1>2. QED
  BY <1>1, ReceiveInvariant, PTL

(* receive_data never hands on a message with a part missing when no read  *)
(* failed and the peer did not close.                                      *)
THEOREM SuccessIsWhole == Spec => []SuccessMeansWhole
<1>1. ReceiveInv => SuccessMeansWhole
  <2>1. SUFFICES ASSUME ReceiveInv, pc = "EXIT_SUCCESS", ~eof, failures = 0
                 PROVE  /\ foundEndOfHeaders
                        /\ totalWritten >= MessageLength
                        /\ HoldsPrefix(totalWritten)
    BY DEF SuccessMeansWhole
  <2>2. InStep /\ totalWritten >= totalLength
    BY <2>1 DEF ReceiveInv
  <2>3. totalWritten < MaxRequestSize
    BY <2>1, ConstantTypes DEF ReceiveInv, TypeOK
  <2>4. foundEndOfHeaders
    BY <2>1, <2>2, <2>3, ConstantTypes DEF ReceiveInv, TypeOK
  <2>5. QED
    BY <2>2, <2>4 DEF InStep
<1>2. QED
  BY <1>1, ReceiveInvariant, PTL

(* A buffer that receive_data hands on is a C string inside dest, failed   *)
(* reads or not.                                                           *)
THEOREM StringInsideDest == Spec => []TerminatorKept
<1>1. ReceiveInv => TerminatorKept
  BY DEF ReceiveInv, TerminatorKept, NulBeyond
<1>2. QED
  BY <1>1, ReceiveInvariant, PTL

(* receive_data gives up only on messages that do not fit.                 *)
THEOREM RefusalIsJustified == Spec => []RefusedMeansTooLong
<1>1. ReceiveInv => RefusedMeansTooLong
  BY DEF ReceiveInv
<1>2. QED
  BY <1>1, ReceiveInvariant, PTL

(* receive_data does not block in read once it has the announced message.  *)
THEOREM NoReadBeyondWhole == Spec => []NeverBlocksOnWhole
<1>1. ReceiveInv => NeverBlocksOnWhole
  <2>1. SUFFICES ASSUME ReceiveInv, WantsMore, failures = 0
                 PROVE  taken < MessageLength
    BY DEF NeverBlocksOnWhole
  <2>2. InStep /\ totalWritten < totalLength /\ stream \in Streams /\ taken \in Int
    BY <2>1, ConstantTypes DEF ReceiveInv, WantsMore, TypeOK
  <2>3. QED
    BY <2>2, ConstantTypes DEF InStep, MessageLength
<1>2. QED
  BY <1>1, ReceiveInvariant, PTL
=============================================================================
