-------------------------- MODULE BeaconServerStore ---------------------------
(***************************************************************************)
(* The server implements BeaconStore: as long as no error is latched, each *)
(* answer tells the truth about a request that has taken its effect; after *)
(* that nothing is stored until the next start (and "PUT Complete" may be  *)
(* untrue: run server_ack).                                                *)
(***************************************************************************)
EXTENDS BeaconServer

(* Waiting to be served, or being served and not yet past get, put and     *)
(* invalid, where the database is read or written.                         *)
Pending(c) ==
  \/ \E i \in 1 .. Len(queue) : queue[i] = c
  \/ c = conn /\ pc \in {"process", "get", "put", "invalid"}

(* The answer to c is decided and c is there to read it. *)
Decided(c) == c = conn /\ pc = "write" /\ state[c] = "open"

PhaseOf(c) ==
  IF state[c] = "idle" THEN "idle"
  ELSE IF reply[c] # NoReply THEN "answered"
  ELSE IF Decided(c) THEN "applied"
  ELSE IF Pending(c) THEN "asked"
  ELSE "over"

AnswerOf(c) == IF Decided(c) /\ reply[c] = NoReply THEN out ELSE reply[c]

Store == INSTANCE BeaconStore WITH
  store   <- db,
  request <- req,
  phase   <- [c \in Client |-> PhaseOf(c)],
  gone    <- [c \in Client |-> state[c] = "closed"],
  answer  <- [c \in Client |-> AnswerOf(c)],
  broken  <- err # "none"

(* Each request takes effect at one moment, between the connect and the    *)
(* answer of its client, at most once and as its client sent it, and its   *)
(* answer tells what the database held then: whatever waits in the accept  *)
(* queue, leaves early, sends half a body or is cut off by a crash, and    *)
(* over any number of restarts on the same file.  With an error latched,   *)
(* from whatever call, no request has an effect.                           *)
ImplementsStore == Store!Spec

(* The inductive invariant of the refinement: who is in the queue, who is  *)
(* served and who has an answer are different connections, and get, put    *)
(* and invalid have the requests that are theirs.                          *)
Distinct ==
  /\ \A i, j \in 1 .. Len(queue) : queue[i] = queue[j] => i = j
  /\ \A i \in 1 .. Len(queue) : queue[i] # conn /\ reply[queue[i]] = NoReply
  /\ \A c \in Client :
       /\ state[c] = "idle" => reply[c] = NoReply
       /\ reply[c] # NoReply /\ c = conn => pc \in {"close", "free"}

Routed ==
  /\ pc = "get" => cur.kind \notin PutKind \cup {"other", "tooLong"}
  /\ pc = "put" => cur.kind \in PutKind \ {"bare"}
  /\ pc = "invalid" => cur.kind = "other" /\ (~assigned => req[conn].kind = "tooLong")
  /\ pc = "process" => ~assigned
  /\ pc = "write" => out # NoReply

StoreInv == ServerInv /\ Distinct /\ Routed
=============================================================================
