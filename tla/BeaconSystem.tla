----------------------------- MODULE BeaconSystem -----------------------------
(***************************************************************************)
(* Users at their terminals, each with a curses client (CursesClient), the *)
(* server (BeaconServer), and beacons that PUT records on connections of   *)
(* their own.  A question takes a new connection from setup to close_; its *)
(* request is fixed when it connects and known to nobody before it is      *)
(* written.  Signals, failed reads, a database that fails by itself and a  *)
(* client without a socket are left to the runs of the components.         *)
(***************************************************************************)
EXTENDS BeaconServer

CONSTANTS User, Typed, TerminalRows

VARIABLES
  at, highlight, error, fd, question, response, status, length, body, shown,
  line,      \* the connection of each user's question
  since      \* what the database has held since the question was written

Cl == INSTANCE CursesClient WITH
  Answers   <- Reply \ {NoReply},
  NetFaults <- {"socket", "refused", "reset", "away", "interrupt"}

uiVars == <<at, highlight, error, fd, question, response, status, length, body,
            shown>>
systemVars == <<vars, uiVars, line, since>>

ASSUME SystemAssumption ==
  /\ Plain("all") \in Requests /\ Cl!ClientAssumption
  /\ IsFiniteSet(Client)
  /\ "db" \notin Faults

Hang(u, c) == line' = [line EXCEPT ![u] = c]

(* The history follows every step. *)
Noted ==
  since' = [u \in User |->
              CASE at'[u] = "await_response" ->
                     {db'} \cup (IF at[u] = "write" THEN {db} ELSE since[u])
                [] at'[u] \in {"parse_response", "display_response", "close"} ->
                     since[u]
                [] OTHER -> {}]

SystemInit ==
  /\ Init /\ Cl!Init
  /\ line = [u \in User |-> NoClient]
  /\ since = [u \in User |-> {}]

-----------------------------------------------------------------------------
(* What a user may type for the request that the question will turn out to *)
(* be.                                                                     *)
Asks(k) == IF k = NoKey THEN Plain("noKey") ELSE Asked(k)

UserConnects(u) ==
  /\ Cl!SetupConnects(u)
  /\ \E c \in Client :
       /\ Connect(c)
       /\ req'[c] \in IF at[u] = "get_all" THEN {Plain("all")}
                                            ELSE {Asks(k) : k \in Typed}
       /\ Hang(u, c)

UserRefused(u) == ~Listening /\ Cl!SetupRefused(u) /\ UNCHANGED <<vars, line>>

UserTypes(u) ==
  /\ \E k \in Typed :
       /\ line[u] # NoClient => req[line[u]] = Asks(k)
       /\ Cl!Types(u, k)
  /\ UNCHANGED <<vars, line>>

(* The question of u is on the line. *)
Online(u) == line[u] \in {c \in Client : state[c] = "open"}
HasAnswer(u) == line[u] \in {c \in Client : reply[c] # NoReply}

(* The whole request in one write; to a server that has gone it may still  *)
(* be taken, fail, or end the process.                                     *)
UserWrites(u) ==
  /\ UNCHANGED line
  /\ \/ /\ Online(u)
        /\ Cl!WriteSends(u)
        /\ Send(line[u]) /\ sent'[line[u]] = "whole"
     \/ /\ ~Online(u)
        /\ Cl!WriteSends(u) \/ Cl!WriteFails(u) \/ Cl!WriteSigpipe(u)
        /\ UNCHANGED vars

(* Mutant: the client reads without waiting for the answer. *)
UserReceivesAtOnce(u) ==
  /\ \/ HasAnswer(u) /\ Cl!ReceiveWhole(u, reply[line[u]])
     \/ ~HasAnswer(u) /\ (Cl!ReceiveEnds(u, Cl!Blank) \/ Cl!ReceiveFails(u))
  /\ UNCHANGED <<vars, line>>

(* The end of the stream or an error comes when the server has gone.       *)
UserReceives(u) ==
  /\ \/ HasAnswer(u) /\ Cl!ReceiveWhole(u, reply[line[u]])
     \/ /\ ~HasAnswer(u) /\ ~Online(u)
        /\ Cl!ReceiveEnds(u, Cl!Blank) \/ Cl!ReceiveFails(u)
  /\ UNCHANGED <<vars, line>>

UserCloses(u) ==
  /\ Cl!Close(u)
  /\ Hang(u, NoClient)
  /\ IF Online(u) THEN Leave(line[u]) ELSE UNCHANGED vars

(* The kernel closes the socket of a client that is interrupted. *)
UserInterrupts(u) ==
  /\ "hangup" \in Faults
  /\ Cl!Interrupt(u)
  /\ UNCHANGED line
  /\ IF Online(u) THEN Leave(line[u]) ELSE UNCHANGED vars

(* What the client does without the network. *)
Alone(u) ==
  /\ \/ Cl!SetupWindow(u) \/ Cl!SetupSkipped(u) \/ Cl!Parse(u) \/ Cl!ParseCrashes(u)
     \/ Cl!Display(u) \/ Cl!Quit(u) \/ Cl!QuitCrashes(u)
  /\ UNCHANGED <<vars, line>>

Menu(u) ==
  /\ Cl!KeyUp(u) \/ Cl!KeyDown(u) \/ Cl!Enter(u)
  /\ UNCHANGED <<vars, line>>

UserProgram(u) ==
  /\ \/ UserConnects(u) \/ UserRefused(u) \/ UserWrites(u) \/ UserReceives(u)
     \/ UserCloses(u) \/ Alone(u)
  /\ Noted

UserStep(u) == UserProgram(u) \/ ((UserTypes(u) \/ Menu(u) \/ UserInterrupts(u)) /\ Noted)

(* Connections that are not a user's belong to beacons. *)
Beacon(c) == \A u \in User : line[u] # c

BeaconStep ==
  /\ \E c \in Client :
       /\ Beacon(c)
       /\ \/ Connect(c) /\ req'[c].kind \in PutKind
          \/ Send(c) \/ Leave(c)
  /\ UNCHANGED <<uiVars, line>>
  /\ Noted

ServerStep ==
  /\ Server \/ StageFails \/ Kill \/ Start
  /\ UNCHANGED <<uiVars, line>>
  /\ Noted

SystemNext == ServerStep \/ BeaconStep \/ \E u \in User : UserStep(u)

SystemSpec == SystemInit /\ [][SystemNext]_systemVars

(* The server and the clients are scheduled; people and beacons are not.   *)
FairSystemSpec ==
  /\ SystemSpec
  /\ WF_systemVars(Server /\ UNCHANGED <<uiVars, line>> /\ Noted)
  /\ \A u \in User : WF_systemVars(UserProgram(u))

-----------------------------------------------------------------------------
(* Properties. *)

Truth(r, records) ==
  IF WantsAll(r) THEN Ok(records) ELSE Page(records[r.key])

(* PUTs that were sent have cost the server so many descriptors that a     *)
(* request that comes now may not find one for the database.               *)
UsedUp ==
  Cardinality({c \in Client : sent[c] # "nothing" /\ Costly(c)}) + DbFds >= MaxFds

(* What a user sees after a question that went well is what the database   *)
(* held at some moment between the write of the question and its answer:   *)
(* not what it held for an earlier question, another user's or another     *)
(* key, through crashes of the server and of other clients.  Only when     *)
(* PUTs without "=" have used up the descriptors it may be nothing at all. *)
UserSeesStore ==
  \A u \in User :
    at[u] = "close" /\ error[u] = "none"
      => \/ \E records \in since[u] :
              shown[u] = Cl!Rendered(Truth(question[u], records))
         \/ shown[u] = Cl!Blank /\ UsedUp

(* What brings the server down without anything failing around it: a       *)
(* request that it cannot digest (an empty key, a body without a second    *)
(* field, headers too long, too many records), a record that does not fit  *)
(* the buffers of its GET, or a body without "=", which costs it a         *)
(* descriptor.  A PUT without a length may become any of the last ones.    *)
Harmful(c) ==
  \/ req[c].kind \in {"noKey", "oneField", "tooLong", "noEquals", "bare"}
  \/ req[c].val \in LongVals
  \/ WantsAll(req[c]) /\ Cardinality(Records) > MaxListed

Shared == \E c \in Client : sent[c] # "nothing" /\ Harmful(c)

(* The client of a user who was connected only crashes on its answer when  *)
(* somebody has sent a request that brings the server down.                *)
CrashIsShared ==
  \A u \in User : at[u] = "crashed" /\ line[u] # NoClient => Shared

(* Questions that are connected come back to the menu, or the client ends, *)
(* provided that everyone who is asked for a key types one and beacons     *)
(* send what they announce: by_key connects before it prompts, and a user  *)
(* who does not answer the prompt holds the server for everybody.  A       *)
(* server without descriptors (StopsOnlyByLeak) accepts and serves nobody. *)
EveryQuestionEnds ==
  /\ \A u \in User : []<>(at[u] # "prompt")
  /\ \A c \in Client : []<>(state[c] # "open" \/ ~Beacon(c) \/ sent[c] = "whole")
  => \A u \in User :
       fd[u] = "connected" ~> at[u] \in {"await_input"} \cup Cl!Ended \/ err # "none"

-----------------------------------------------------------------------------
(* The inductive invariants. *)

Asking == {"write", "await_response"}
Answering == {"parse_response", "display_response", "close"}
Away == {"setup_window", "await_input", "get_all", "by_key", "quit", "exited"}

(* Nothing is sent on a line that does not exist, and the server hears of  *)
(* a request before it answers it or loses a descriptor to it.             *)
Heard ==
  /\ \A c \in Client : sent[c] # "nothing" => state[c] # "idle"
  /\ \A c \in Client : reply[c] # NoReply => sent[c] # "nothing"
  /\ pc \in Serving \ {"process"} => sent[conn] # "nothing"
  /\ err = "none" => \A c \in openFds \ {conn} : sent[c] # "nothing"

(* The text of an answer from a database that did not open. *)
Unread(answer) == answer \in {Ok(NoText), Ok([k \in Key |-> NoVal])}

(* No request is served with an error latched before; what is about to be  *)
(* written of a record is the truth about the database, or it did not open.*)
Told ==
  /\ pc \in {"process", "get", "put", "invalid"} => err = "none"
  /\ pc \in {"write", "close", "free"} /\ ~assigned => req[conn].kind = "tooLong"
  /\ pc = "write" =>
       /\ cur.kind # "noKey"
       /\ err = "none" /\ cur.kind \in {"all", "key"} => out = Truth(cur, db)
       /\ err # "none" => UsedUp /\ (Unread(out) \/ req[conn].kind \in PutKind)

(* Every question has a line of its own, unless connect has failed.        *)
Lines(u) ==
  /\ line[u] # NoClient =>
       /\ state[line[u]] # "idle"
       /\ \A v \in User : line[v] = line[u] => v = u
  /\ at[u] \in Away => line[u] = NoClient
  /\ at[u] \in {"prompt"} \cup Asking \cup Answering /\ error[u] = "none"
       => line[u] # NoClient

(* The request on the line is the user's question; before it is written    *)
(* nobody has heard of it.                                                 *)
Posed(u) ==
  line[u] # NoClient =>
    /\ at[u] = "prompt" => \E k \in Typed : req[line[u]] = Asks(k)
    /\ at[u] \in Asking \cup Answering =>
         /\ question[u] = req[line[u]]
         /\ question[u].kind \in {"all", "key", "noKey"}
    /\ at[u] \in {"prompt", "write"} => sent[line[u]] = "nothing"

(* The answer is the truth at some moment since the question, or none could*)
(* be read, and a client that has stopped waiting gets no answer any more. *)
Truthful(u) ==
  /\ at[u] = "await_response" => db \in since[u]
  /\ line[u] # NoClient /\ at[u] \in {"await_response"} \cup Answering =>
       /\ reply[line[u]] # NoReply =>
            \/ \E records \in since[u] : reply[line[u]] = Truth(question[u], records)
            \/ Unread(reply[line[u]]) /\ UsedUp
       /\ at[u] \in Answering => reply[line[u]] # NoReply \/ ~Online(u)

(* What the client has read is what its line was answered. *)
Received(u) ==
  at[u] \in Answering /\ error[u] = "none" /\ response[u].part = "whole"
    => response[u].of = reply[line[u]] /\ reply[line[u]] # NoReply

InOrder(u) == Lines(u) /\ Posed(u) /\ Truthful(u) /\ Received(u)

SystemInv ==
  /\ line \in [User -> Client \cup {NoClient}]
  /\ Heard /\ Told
  /\ \A u \in User : InOrder(u)

(* Without faults: what costs a descriptor or overflows a buffer, and whom *)
(* a crash of the server leaves behind.                                    *)
Costs ==
  /\ pc = "shutdown" => err # "none"
  /\ err # "none" => Shared
  /\ err = "none" => \A c \in openFds :
       \/ c = conn /\ pc \in Serving \ {"free"}
       \/ sent[c] # "nothing" /\ req[c].kind \in {"noEquals", "bare"}

Overlong ==
  \A k \in Key : db[k] \in LongVals
    => \E c \in Client : sent[c] # "nothing" /\ req[c].val \in LongVals

CutOff(c) == state[c] = "closed" /\ reply[c] = NoReply

CrashInv ==
  /\ Costs /\ Overlong
  /\ IsFiniteSet(Records)
  /\ \A c \in Client : CutOff(c) => Shared
  /\ \A u \in User :
       /\ line[u] # NoClient
       /\ \/ at[u] = "crashed"
          \/ at[u] = "parse_response" /\ response[u].part # "whole"
       => Shared
=============================================================================
