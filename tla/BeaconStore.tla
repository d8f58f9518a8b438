----------------------------- MODULE BeaconStore ------------------------------
(***************************************************************************)
(* What the server promises its clients: a store of records that each      *)
(* request reads or changes at one moment, between being asked and being   *)
(* answered, and at most once.  The answer says what the store held at     *)
(* that moment.  Any request may be lost, with or without its effect.      *)
(* After a failure the store no longer changes, and answers may say        *)
(* anything, until a new start.                                            *)
(***************************************************************************)
EXTENDS Beacons

CONSTANTS Client, Requests

VARIABLES
  store,     \* the records
  request,   \* of each client
  phase,     \* idle, asked, applied, answered, or over without an answer
  gone,      \* the client, or the connection to it, is gone
  answer,
  broken     \* something has failed since the last start

storeVars == <<store, request, phase, gone, answer, broken>>

Init ==
  /\ store = [k \in Key |-> NoVal]
  /\ request = [c \in Client |-> Unasked]
  /\ phase = [c \in Client |-> "idle"]
  /\ gone = [c \in Client |-> FALSE]
  /\ answer = [c \in Client |-> NoReply]
  /\ broken = FALSE

(* The store after a request, and the answer to it. *)
Effect(r) == IF r.kind = "put" THEN [store EXCEPT ![r.key] = r.val] ELSE store

Result(r) ==
  CASE WantsAll(r)                       -> Ok(store)
    [] r.kind = "key" /\ ~WantsAll(r)    -> Page(store[r.key])
    [] r.kind = "index"                  -> Says("welcome")
    [] r.kind = "missing"                -> Says("404")
    [] r.kind = "put"                    -> Says("complete")
    [] OTHER                             -> Says("400")

(* A client that goes away before it was served, or whose PUT tells no     *)
(* length, may be served on a part of its request.                         *)
Meant(c) ==
  {Whole(request[c])}
    \cup (IF gone[c] \/ request[c].kind = "bare" THEN Cut(request[c]) ELSE {})

Ask(c) ==
  /\ phase[c] = "idle"
  /\ phase' = [phase EXCEPT ![c] = "asked"]
  /\ \E r \in Requests : request' = [request EXCEPT ![c] = r]
  /\ UNCHANGED <<store, gone, answer, broken>>

(* The answer to a client that has gone is nobody's. *)
Reach(c, a) ==
  \/ /\ gone[c]
     /\ phase' = [phase EXCEPT ![c] = "over"]
     /\ UNCHANGED answer
  \/ /\ ~gone[c]
     /\ phase' = [phase EXCEPT ![c] = "applied"]
     /\ answer' = [answer EXCEPT ![c] = a]

Apply(c) ==
  /\ ~broken
  /\ phase[c] = "asked"
  /\ \E r \in Meant(c) : store' = Effect(r) /\ Reach(c, Result(r))
  /\ UNCHANGED <<request, gone, broken>>

(* The request fails, or something has failed before it. *)
Fail(c) ==
  /\ phase[c] = "asked"
  /\ \E a \in Reply \ {NoReply} : Reach(c, a)
  /\ broken' = TRUE
  /\ UNCHANGED <<store, request, gone>>

(* Something may fail together with what follows. *)
MayBreak == broken' \in {broken, TRUE}

Answer(c) ==
  /\ phase[c] = "applied"
  /\ phase' = [phase EXCEPT ![c] = "answered"]
  /\ UNCHANGED <<store, request, gone, answer>>
  /\ MayBreak

(* Something fails that is about no request. *)
Break ==
  /\ broken' = TRUE
  /\ UNCHANGED <<store, request, phase, gone, answer>>

(* The requests of lost have no answer any more; an applied one keeps its  *)
(* effect.                                                                 *)
Lose(lost) ==
  /\ \A c \in lost : phase[c] \in {"asked", "applied"}
  /\ phase' = [c \in Client |-> IF c \in lost THEN "over" ELSE phase[c]]
  /\ answer' = [c \in Client |-> IF c \in lost THEN NoReply ELSE answer[c]]
  /\ UNCHANGED <<store, request>>

(* The server drops a request. *)
Drop(c) == Lose({c}) /\ UNCHANGED <<gone, broken>>

(* A client goes.  Its request may be served later, unless it was already. *)
Depart(c) ==
  /\ phase[c] # "idle" /\ ~gone[c]
  /\ gone' = [gone EXCEPT ![c] = TRUE]
  /\ Lose(IF phase[c] = "applied" THEN {c} ELSE {})
  /\ UNCHANGED broken

(* The server stops or dies; its next process starts without a failure. *)
Crash ==
  /\ gone' = [c \in Client |-> gone[c] \/ phase[c] # "idle"]
  /\ Lose({c \in Client : phase[c] \in {"asked", "applied"}})
  /\ broken' = FALSE

Next ==
  \/ Crash \/ Break
  \/ \E c \in Client : Ask(c) \/ Apply(c) \/ Fail(c) \/ Answer(c) \/ Drop(c) \/ Depart(c)

Spec == Init /\ [][Next]_storeVars
=============================================================================
