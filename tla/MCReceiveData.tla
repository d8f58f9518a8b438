---------------------------- MODULE MCReceiveData ----------------------------
(* A small instance of ReceiveData: 8 bytes stand for MAX_REQUEST_SIZE and  *)
(* 2 for the delimiter.                                                     *)
EXTENDS ReceiveData

S(length, headers, content) ==
  [length |-> length, headers |-> headers, content |-> content]

MCStreams == {
  S(4, 4, 0),    \* a GET
  S(6, 3, 3),    \* a PUT with its body
  S(7, 4, 3),    \* the longest message that fits
  S(7, 7, 0),    \* the same, headers only
  S(5, 3, 4),    \* closes or stalls before the announced body is complete
  S(7, 3, 1),    \* bytes after the announced body
  S(8, 4, 4),    \* one byte too long
  S(10, 4, 6),   \* too long, in whatever pieces
  S(6, 9, 0),    \* the headers never end
  S(9, 11, 0)    \* the same, and too long
}
=============================================================================
