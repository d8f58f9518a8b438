----------------------------- MODULE ReceiveData -----------------------------
(***************************************************************************)
(* receive_data: the loop that reads one HTTP message from a socket into a *)
(* zeroed buffer (iBeaconServer.c; cursesClient.c has the same loop).      *)
(*                                                                         *)
(* Bytes are the positions 1, 2, ... of the peer's stream, and dest maps   *)
(* each memory cell near the buffer to the stream byte it holds, 0 being   *)
(* the NUL that calloc left.  What the loop knows of the text is where the *)
(* header delimiter is and which Content-Length the headers declare.       *)
(***************************************************************************)
EXTENDS Integers

CONSTANTS
  MaxRequestSize,   \* MAX_REQUEST_SIZE
  BufSize,          \* the size every single read asks for
  DelimiterLength,  \* strlen("\r\n\r\n")
  Streams,          \* what peers may send
  MaxFailures       \* bound: reads that fail with -1 in one call

(* length: the bytes the peer has to send.  headers: the position where    *)
(* the delimiter ends (beyond length when it is never sent).  content: the *)
(* declared Content-Length, 0 when there is none.                          *)
Stream == [length : Nat, headers : Nat, content : Nat]

ASSUME ReceiveAssumption ==
  /\ MaxRequestSize \in Nat \ {0}
  /\ BufSize \in Nat \ {0}
  /\ DelimiterLength \in Nat \ {0}
  /\ Streams \subseteq Stream
  /\ \A s \in Streams : s.headers >= DelimiterLength
  /\ MaxFailures \in Nat

(* The cells a read can reach.  A read starts below MaxRequestSize and a   *)
(* failed one moves the next one cell down, below dest itself.             *)
LastCell == MaxRequestSize + BufSize + DelimiterLength
Cell == (0 - MaxFailures) .. LastCell

VARIABLES
  stream,             \* what this peer sends
  sent,               \* bytes that have reached the socket
  closed,             \* the peer has closed its end
  pc,                 \* "reading" or the value returned
  dest,               \* the memory around the buffer
  taken,              \* bytes read from the socket
  totalWritten,
  totalLength,
  foundEndOfHeaders,
  failures,           \* reads that returned -1
  eof                 \* a read returned 0

vars == <<stream, sent, closed, pc, dest, taken, totalWritten, totalLength,
          foundEndOfHeaders, failures, eof>>
peerVars == <<stream, sent, closed>>

TypeOK ==
  /\ stream \in Streams
  /\ sent \in 0 .. stream.length
  /\ closed \in BOOLEAN
  /\ pc \in {"reading", "EXIT_SUCCESS", "EXIT_FAILURE"}
  /\ dest \in [Cell -> Nat]
  /\ taken \in 0 .. sent
  /\ failures \in 0 .. MaxFailures
  /\ totalWritten \in (0 - failures) .. (MaxRequestSize - 1)
  /\ totalLength \in Nat
  /\ foundEndOfHeaders \in BOOLEAN
  /\ eof \in BOOLEAN

Init ==
  /\ stream \in Streams
  /\ sent = 0
  /\ closed = FALSE
  /\ pc = "reading"
  /\ dest = [i \in Cell |-> 0]
  /\ taken = 0
  /\ totalWritten = 0
  /\ totalLength = MaxRequestSize
  /\ foundEndOfHeaders = FALSE
  /\ failures = 0
  /\ eof = FALSE

-----------------------------------------------------------------------------
(* The peer: any number of its bytes arrive at a time, and it may close at *)
(* any moment, whether or not it has sent all of its message.              *)

Arrive ==
  /\ ~closed
  /\ sent' \in (sent + 1) .. stream.length
  /\ UNCHANGED <<stream, closed, pc, dest, taken, totalWritten, totalLength,
                 foundEndOfHeaders, failures, eof>>

PeerClose ==
  /\ ~closed
  /\ closed' = TRUE
  /\ UNCHANGED <<stream, sent, pc, dest, taken, totalWritten, totalLength,
                 foundEndOfHeaders, failures, eof>>

-----------------------------------------------------------------------------
(* The pieces of the loop. *)

(* while (totalWritten < totalLength && ...) *)
WantsMore == pc = "reading" /\ totalWritten < totalLength

(* Mutant: no room is kept for the terminating NUL. *)
SpaceWithoutTerminator == MaxRequestSize - totalWritten

(* Mutant: one cell too few, a message that just fits is refused. *)
SpaceTooTight == MaxRequestSize - 2 - totalWritten

SpaceInDest == MaxRequestSize - 1 - totalWritten

(* strstr(dest, "\r\n\r\n"): the cells, below the first NUL, where the     *)
(* delimiter of the stream starts.                                         *)
EndOfHeaders(mem) ==
  { p \in 0 .. (LastCell - DelimiterLength) :
      /\ \A i \in 0 .. p : mem[i] # 0
      /\ \A j \in 0 .. (DelimiterLength - 1) :
           mem[p + j] = stream.headers - DelimiterLength + 1 + j }

(* getContentLengthFromString(dest).  A failed read makes a later byte     *)
(* overwrite an earlier one: the header may then be gone or lose a digit.  *)
ContentLengthFromString ==
  IF failures = 0 THEN {stream.content} ELSE 0 .. stream.content

(* Mutant: the delimiter is not counted as part of the headers. *)
LengthWithoutDelimiter(p, contentLength) == p + contentLength

(* Mutant: waits for a byte after the message. *)
LengthPlusOne(p, contentLength) == p + DelimiterLength + contentLength + 1

LengthOfMessage(p, contentLength) == p + DelimiterLength + contentLength

(* Mutant: the read overwrites the last byte stored. *)
StoredOneBack(n) ==
  [i \in Cell |-> IF i + 1 >= totalWritten /\ i + 1 < totalWritten + n
                  THEN taken + 2 + i - totalWritten ELSE dest[i]]

(* read(fd, dest + totalWritten, bufSize) returning n > 0 bytes. *)
Stored(n) ==
  [i \in Cell |-> IF i >= totalWritten /\ i < totalWritten + n
                  THEN taken + 1 + i - totalWritten ELSE dest[i]]

-----------------------------------------------------------------------------
(* One turn of the loop whose read returns n bytes. *)
ReadSome(n) ==
  /\ WantsMore
  /\ n <= BufSize
  /\ dest' = Stored(n)
  /\ taken' = taken + n
  /\ \/ /\ n > SpaceInDest
        /\ pc' = "EXIT_FAILURE"
        /\ UNCHANGED <<totalWritten, totalLength, foundEndOfHeaders>>
     \/ /\ n <= SpaceInDest
        /\ totalWritten' = totalWritten + n
        /\ UNCHANGED pc
        /\ \/ /\ foundEndOfHeaders \/ EndOfHeaders(dest') = {}
              /\ UNCHANGED <<totalLength, foundEndOfHeaders>>
           \/ /\ ~foundEndOfHeaders
              /\ \E p \in EndOfHeaders(dest'), c \in ContentLengthFromString :
                   totalLength' = LengthOfMessage(p, c)
              /\ foundEndOfHeaders' = TRUE
  /\ UNCHANGED <<stream, sent, closed, failures, eof>>

(* A turn whose read fails, for instance interrupted by a signal: count is *)
(* -1, which is not 0 and not above the space left, so it is added.        *)
ReadFails ==
  /\ WantsMore
  /\ failures < MaxFailures
  /\ failures' = failures + 1
  /\ totalWritten' = totalWritten - 1
  /\ UNCHANGED <<stream, sent, closed, pc, dest, taken, totalLength,
                 foundEndOfHeaders, eof>>

(* The read returns 0: the peer has closed and everything was taken. *)
ReadEof ==
  /\ WantsMore
  /\ closed
  /\ taken = sent
  /\ eof' = TRUE
  /\ pc' = "EXIT_SUCCESS"
  /\ UNCHANGED <<stream, sent, closed, dest, taken, totalWritten, totalLength,
                 foundEndOfHeaders, failures>>

(* The loop condition is false: totalLength bytes were counted. *)
LoopEnds ==
  /\ pc = "reading"
  /\ totalWritten >= totalLength
  /\ pc' = "EXIT_SUCCESS"
  /\ UNCHANGED <<stream, sent, closed, dest, taken, totalWritten, totalLength,
                 foundEndOfHeaders, failures, eof>>

ReadAvailable == \E n \in 1 .. (sent - taken) : ReadSome(n)

Loop == ReadAvailable \/ ReadFails \/ ReadEof \/ LoopEnds

Next == Arrive \/ PeerClose \/ Loop

Spec == Init /\ [][Next]_vars

(* The reading process is scheduled and bytes under way arrive.  Nothing   *)
(* makes the peer close.                                                   *)
FairSpec ==
  /\ Spec
  /\ WF_vars(Arrive)
  /\ WF_vars(ReadAvailable)
  /\ WF_vars(ReadEof)
  /\ WF_vars(LoopEnds)

-----------------------------------------------------------------------------
(* Properties. *)

(* The length of the message the headers announce. *)
MessageLength == stream.headers + stream.content

(* The buffer holds the first n bytes of the stream, in order, and nothing *)
(* else.                                                                   *)
HoldsPrefix(n) ==
  \A i \in Cell : dest[i] = IF i >= 0 /\ i < n THEN i + 1 ELSE 0

(* When the loop ends because it has counted enough bytes and no read      *)
(* failed, the headers have been found, the whole announced message is in  *)
(* dest, and dest is exactly what was read: a short read, a delimiter cut  *)
(* in two by segments or a body that arrives with the headers never makes  *)
(* receive_data hand on a message with a part missing.                     *)
SuccessMeansWhole ==
  pc = "EXIT_SUCCESS" /\ ~eof /\ failures = 0
    => /\ foundEndOfHeaders
       /\ totalWritten >= MessageLength
       /\ HoldsPrefix(totalWritten)

(* Whatever the reads returned, failed ones included, a buffer that is     *)
(* handed on still ends in a NUL inside dest, which process_request's      *)
(* strchr and strstr need: that is the "- 1" of spaceInDest.               *)
TerminatorKept ==
  pc = "EXIT_SUCCESS" => \A i \in Cell : i >= MaxRequestSize - 1 => dest[i] = 0

(* A message is refused only when more bytes arrived than dest can hold    *)
(* beside its NUL, however the bytes were split into segments.             *)
RefusedMeansTooLong ==
  pc = "EXIT_FAILURE" /\ failures = 0 => taken > MaxRequestSize - 1

(* The loop never goes back to a blocking read once it has taken the whole *)
(* announced message: the peer is waiting for the answer by then, so both  *)
(* would wait for ever.                                                    *)
NeverBlocksOnWhole ==
  WantsMore /\ failures = 0 => taken < MessageLength

(* A message that is complete and fits is always received in the end,      *)
(* unless a read fails.                                                    *)
CompleteIsReceived ==
  (MessageLength <= stream.length /\ stream.length < MaxRequestSize)
    ~> (pc = "EXIT_SUCCESS" \/ failures > 0)

(* iBeaconServer.c:635, "read from client_socket_fd up to max size in      *)
(* request": every byte read is stored inside dest.                        *)
StoredInsideDest ==
  \A i \in Cell : dest[i] # 0 => i \in 0 .. (MaxRequestSize - 1)

-----------------------------------------------------------------------------
(* No cell from the last one of dest on has been written. *)
NulBeyond == \A i \in Cell : i >= MaxRequestSize - 1 => dest[i] = 0

(* While no read has failed, the count is the number of bytes taken, dest  *)
(* holds exactly these, and the headers are found as soon as their         *)
(* delimiter has been taken.                                               *)
InStep ==
  /\ totalWritten = taken
  /\ HoldsPrefix(taken)
  /\ foundEndOfHeaders => totalLength = MessageLength
  /\ ~foundEndOfHeaders => taken < stream.headers

(* The inductive invariant: every reachable state satisfies it, and every  *)
(* step preserves it.                                                      *)
ReceiveInv ==
  /\ TypeOK
  /\ pc # "EXIT_FAILURE" => NulBeyond
  /\ ~foundEndOfHeaders => totalLength = MaxRequestSize
  /\ failures = 0 /\ pc # "EXIT_FAILURE" => InStep
  /\ pc = "EXIT_SUCCESS" /\ ~eof => totalWritten >= totalLength
  /\ RefusedMeansTooLong
=============================================================================
