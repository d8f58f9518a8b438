----------------------------- MODULE CursesClient -----------------------------
(***************************************************************************)
(* The terminal client: its FSM, its menu, the socket of one question, the *)
(* dc_error that all its calls share, and what it makes of the answer      *)
(* (cursesClient.c, http_response.c).  Several users run a client each.    *)
(*                                                                         *)
(* The server is outside: what a connect, a write or the reads of an       *)
(* answer come to is a parameter of the action, and module BeaconSystem    *)
(* ties it to BeaconServer.                                                *)
(***************************************************************************)
EXTENDS Beacons, Integers, Sequences

CONSTANTS
  User,
  Typed,         \* keys typed at the prompt; NoKey: empty or blank first
  Answers,       \* what servers answer in this instance
  TerminalRows,  \* height of the terminals
  NetFaults      \* what may go wrong around the client in this instance

ASSUME ClientAssumption ==
  /\ Typed \subseteq Key \cup {NoKey}
  /\ Answers \subseteq Reply \ {NoReply}
  /\ TerminalRows \in Nat
  /\ NetFaults \subseteq {"socket", "refused", "reset", "away", "interrupt"}

Ended == {"exited", "crashed", "killed"}
Position == {"setup_window", "await_input", "get_all", "by_key", "prompt",
             "write", "await_response", "parse_response", "display_response",
             "close", "quit"} \cup Ended

(* A text that came from the server: how much there is of which answer.    *)
(* line: its status line, but not the end of its headers; headers: only a  *)
(* part of its body.                                                       *)
Part == {"nothing", "line", "headers", "whole"}
Text == [part : Part, of : Reply]
Unassigned == [part |-> "unassigned", of |-> NoReply]
Blank == [part |-> "nothing", of |-> NoReply]
NotFound == [part |-> "not found", of |-> NoReply]

(* A connection may break off before an answer is complete. *)
Torn(replies) == {Blank} \cup [part : {"line", "headers"}, of : replies]

VARIABLES
  at,         \* where each client is
  highlight,  \* the menu line
  error,      \* the latched error
  fd,         \* client_socket_fd
  question,   \* the request that is asked
  response,   \* client->response
  status,     \* res.stat_line->res
  length,     \* res.content_length
  body,       \* res.message_body
  shown       \* what the display window shows

clientData == <<response, status, length, body, shown>>
uiVars == <<at, highlight, error, fd, question, response, status, length, body,
            shown>>

TypeOK ==
  /\ at \in [User -> Position]
  /\ highlight \in [User -> 0 .. 2]
  /\ error \in [User -> {"none", "errno"}]
  /\ fd \in [User -> {"unassigned", "closed", "unconnected", "connected", "reset"}]
  /\ question \in [User -> Request]
  /\ response \in [User -> Text \cup {Unassigned}]
  /\ status \in [User -> {"unassigned", "none", "200", "welcome", "complete", "400", "404"}]
  /\ length \in [User -> {"unassigned", "zero", "positive"}]
  /\ body \in [User -> Text \cup {Unassigned}]
  /\ shown \in [User -> Text \cup {NotFound, Unassigned}]

Init ==
  /\ at = [u \in User |-> "setup_window"]
  /\ highlight = [u \in User |-> 0]
  /\ error = [u \in User |-> "none"]
  /\ fd = [u \in User |-> "unassigned"]
  /\ question = [u \in User |-> Unasked]
  /\ response = [u \in User |-> Unassigned]
  /\ status = [u \in User |-> "unassigned"]
  /\ length = [u \in User |-> "unassigned"]
  /\ body = [u \in User |-> Unassigned]
  /\ shown = [u \in User |-> Blank]

(* The client of u goes from one position to another. *)
Move(u, from, to) == at[u] = from /\ at' = [at EXCEPT ![u] = to]

Latch(u) == error' = [error EXCEPT ![u] = "errno"]

-----------------------------------------------------------------------------
(* The windows and the menu.  newwin returns NULL for a window above the   *)
(* top line, wgetch on NULL fails at once and printing on NULL does        *)
(* nothing.                                                                *)

HasMenu == TerminalRows >= 8
HasDisplay == TerminalRows >= 20

SetupWindow(u) ==
  /\ Move(u, "setup_window", "await_input")
  /\ highlight' = [highlight EXCEPT ![u] = 0]
  /\ UNCHANGED <<error, fd, question, clientData>>

KeyUp(u) ==
  /\ HasMenu /\ at[u] = "await_input"
  /\ highlight' = [highlight EXCEPT ![u] = IF @ = 0 THEN 0 ELSE @ - 1]
  /\ UNCHANGED <<at, error, fd, question, clientData>>

(* Mutant: the menu line is not held at the last choice. *)
KeyDownPast(u) ==
  /\ HasMenu /\ at[u] = "await_input"
  /\ highlight' = [highlight EXCEPT ![u] = @ + 1]
  /\ UNCHANGED <<at, error, fd, question, clientData>>

KeyDown(u) ==
  /\ HasMenu /\ at[u] = "await_input"
  /\ highlight' = [highlight EXCEPT ![u] = IF @ = 2 THEN 2 ELSE @ + 1]
  /\ UNCHANGED <<at, error, fd, question, clientData>>

Choices == <<"get_all", "by_key", "quit">>

Enter(u) ==
  /\ HasMenu
  /\ Move(u, "await_input", Choices[highlight[u] + 1])
  /\ shown' = [shown EXCEPT ![u] = Blank]
  /\ UNCHANGED <<highlight, error, fd, question, response, status, length, body>>

-----------------------------------------------------------------------------
(* get_all and by_key: setup, the prompt, the write. *)

(* What follows setup in the handler. *)
AfterSetup(u) ==
  \/ /\ Move(u, "get_all", "write")
     /\ question' = [question EXCEPT ![u] = Plain("all")]
  \/ /\ Move(u, "by_key", "prompt")
     /\ UNCHANGED question

(* Mutant: setup connects whatever went wrong before. *)
SetupConnectsAnyway(u) ==
  /\ AfterSetup(u)
  /\ fd' = [fd EXCEPT ![u] = "connected"]
  /\ UNCHANGED <<highlight, error, clientData>>

SetupConnects(u) ==
  /\ error[u] = "none"
  /\ AfterSetup(u)
  /\ fd' = [fd EXCEPT ![u] = "connected"]
  /\ UNCHANGED <<highlight, error, clientData>>

(* No address leaves the descriptor as it was, no socket makes it -1.      *)
SetupFails(u) ==
  /\ error[u] = "none"
  /\ AfterSetup(u)
  /\ Latch(u)
  /\ fd' \in { [fd EXCEPT ![u] = d] : d \in {fd[u], "closed"} }
  /\ UNCHANGED <<highlight, clientData>>

(* connect fails; nobody looks at it. *)
SetupRefused(u) ==
  /\ error[u] = "none"
  /\ AfterSetup(u)
  /\ Latch(u)
  /\ fd' = [fd EXCEPT ![u] = "unconnected"]
  /\ UNCHANGED <<highlight, clientData>>

(* With an error latched setup returns after getaddrinfo. *)
SetupSkipped(u) ==
  /\ error[u] # "none"
  /\ AfterSetup(u)
  /\ UNCHANGED <<highlight, error, fd, clientData>>

(* The user types a key; the connection is already open. *)
Types(u, k) ==
  /\ Move(u, "prompt", "write")
  /\ question' = [question EXCEPT ![u] = IF k = NoKey THEN Plain("noKey") ELSE Asked(k)]
  /\ UNCHANGED <<highlight, error, fd, clientData>>

WriteSends(u) ==
  /\ fd[u] = "connected"
  /\ Move(u, "write", "await_response")
  /\ UNCHANGED <<highlight, error, fd, question, clientData>>

(* No such descriptor, or the server has gone away. *)
WriteFails(u) ==
  /\ Move(u, "write", "await_response")
  /\ Latch(u)
  /\ fd' = [fd EXCEPT ![u] = IF @ = "connected" THEN "reset" ELSE @]
  /\ UNCHANGED <<highlight, question, clientData>>

(* A write on a socket without a connection; SIGPIPE is not handled. *)
WriteSigpipe(u) ==
  /\ fd[u] \in {"connected", "unconnected"}
  /\ Move(u, "write", "killed")
  /\ UNCHANGED <<highlight, error, fd, question, clientData>>

-----------------------------------------------------------------------------
(* await_response: the loop of receive_data, and the copy to response.     *)

(* No record to list, or an empty value: "Content-Length: 0". *)
Length(reply) ==
  IF reply.body \in {NoText, [k \in Key |-> NoVal]} THEN "zero" ELSE "positive"

(* Mutant: the length is only looked for as long as there is none. *)
ResponseFirstLength(u, text) ==
  /\ Move(u, "await_response", "parse_response")
  /\ response' = [response EXCEPT ![u] = text]
  /\ length' = [length EXCEPT ![u] =
       IF @ = "unassigned" /\ text.part \in {"headers", "whole"}
       THEN Length(text.of) ELSE @]
  /\ UNCHANGED <<highlight, error, fd, question, status, body, shown>>

(* The loop has ended with this text.  Without the end of the headers the  *)
(* length is still that of the answer before.                              *)
Response(u, text) ==
  /\ Move(u, "await_response", "parse_response")
  /\ response' = [response EXCEPT ![u] = text]
  /\ length' = [length EXCEPT ![u] =
       IF text.part \in {"headers", "whole"} THEN Length(text.of) ELSE @]
  /\ UNCHANGED <<highlight, error, fd, question, status, body, shown>>

ReceiveWhole(u, reply) ==
  fd[u] = "connected" /\ Response(u, [part |-> "whole", of |-> reply])

(* A read returns 0.  The server writes an answer in one piece, so only a  *)
(* connection that was reset has a part of one.                            *)
ReceiveEnds(u, text) ==
  /\ fd[u] = "reset" \/ (fd[u] = "connected" /\ text = Blank)
  /\ Response(u, text)

(* A read returns -1: once for a connection that is reset, again and again *)
(* for a descriptor that is none or has no connection.                     *)
ReceiveFails(u) ==
  /\ at[u] = "await_response"
  /\ fd[u] # "reset"
  /\ Latch(u)
  /\ fd' = [fd EXCEPT ![u] = IF @ = "connected" THEN "reset" ELSE @]
  /\ UNCHANGED <<at, highlight, question, clientData>>

-----------------------------------------------------------------------------
(* parse_response: process_status_line, then process_body, which takes     *)
(* content_length bytes from the end of the headers.                       *)

(* Mutant: the page of a 404 is not copied, since it is not shown. *)
ParseWithout404(u) ==
  /\ Move(u, "parse_response", "display_response")
  /\ \/ response[u].part \in {"headers", "whole"}
     \/ response[u].part = "line" /\ length[u] # "positive"
  /\ status' = [status EXCEPT ![u] = response[u].of.status]
  /\ body' = [body EXCEPT ![u] =
       CASE response[u].of.status = "404" -> @
         [] response[u].part = "line" \/ length[u] = "zero" -> Blank
         [] OTHER -> response[u]]
  /\ UNCHANGED <<highlight, error, fd, question, response, length, shown>>

Parse(u) ==
  /\ Move(u, "parse_response", "display_response")
  /\ \/ response[u].part \in {"headers", "whole"}
     \/ response[u].part = "line" /\ length[u] # "positive"
  /\ status' = [status EXCEPT ![u] = response[u].of.status]
  /\ body' = [body EXCEPT ![u] =
       IF response[u].part = "line" \/ length[u] = "zero" THEN Blank ELSE response[u]]
  /\ UNCHANGED <<highlight, error, fd, question, response, length, shown>>

(* No end of the status line, or no end of the headers to take bytes from. *)
ParseCrashes(u) ==
  /\ Move(u, "parse_response", "crashed")
  /\ \/ response[u].part = "nothing"
     \/ response[u].part = "line" /\ length[u] # "zero"
  /\ UNCHANGED <<highlight, error, fd, question, clientData>>

Display(u) ==
  /\ Move(u, "display_response", "close")
  /\ shown' = [shown EXCEPT ![u] =
       CASE ~HasDisplay                        -> Blank
         [] HasDisplay /\ status[u] = "404"    -> NotFound
         [] HasDisplay /\ status[u] # "404"    -> body[u]]
  /\ UNCHANGED <<highlight, error, fd, question, response, status, length, body>>

(* Mutant: an error keeps the descriptor open, as in the server. *)
CloseWithoutError(u) ==
  /\ Move(u, "close", "await_input")
  /\ fd' = [fd EXCEPT ![u] = IF error[u] = "none" THEN "closed" ELSE @]
  /\ UNCHANGED <<highlight, error, question, clientData>>

Close(u) ==
  /\ Move(u, "close", "await_input")
  /\ fd' = [fd EXCEPT ![u] = "closed"]
  /\ UNCHANGED <<highlight, error, question, clientData>>

-----------------------------------------------------------------------------
(* quit_ returns DC_FSM_EXIT.  The table has no entry from QUIT to it, but *)
(* with or without one the FSM ends; then main frees the last answer.      *)

Freed(u) == response[u] # Unassigned /\ body[u] # Unassigned

Quit(u) ==
  /\ Move(u, "quit", "exited")
  /\ UNCHANGED <<highlight, error, fd, question, clientData>>

(* The pointers that are freed were never assigned. *)
QuitCrashes(u) ==
  /\ Move(u, "quit", "crashed")
  /\ ~Freed(u)
  /\ UNCHANGED <<highlight, error, fd, question, clientData>>

(* SIGINT: curses restores the screen and exits. *)
Interrupt(u) ==
  /\ at[u] \notin Ended
  /\ at' = [at EXCEPT ![u] = "killed"]
  /\ UNCHANGED <<highlight, error, fd, question, clientData>>

-----------------------------------------------------------------------------
(* Around the client nothing goes wrong that is not in NetFaults. *)

Setup(u) ==
  \/ SetupConnects(u) \/ SetupSkipped(u)
  \/ "socket" \in NetFaults /\ SetupFails(u)
  \/ "refused" \in NetFaults /\ SetupRefused(u)

Write(u) ==
  \/ WriteSends(u)
  \/ (fd[u] # "connected" \/ "reset" \in NetFaults) /\ WriteFails(u)
  \/ (fd[u] # "connected" \/ "away" \in NetFaults) /\ WriteSigpipe(u)

Receive(u) ==
  \/ \E reply \in Answers : ReceiveWhole(u, reply)
  \/ /\ fd[u] # "connected" \/ "away" \in NetFaults
     /\ \E text \in Torn(Answers) : ReceiveEnds(u, text)
  \/ (fd[u] # "connected" \/ "reset" \in NetFaults) /\ ReceiveFails(u)

Program(u) ==
  \/ SetupWindow(u) \/ Setup(u) \/ Write(u) \/ Receive(u)
  \/ Parse(u) \/ ParseCrashes(u) \/ Display(u) \/ Close(u) \/ Quit(u) \/ QuitCrashes(u)

Person(u) ==
  \/ KeyUp(u) \/ KeyDown(u) \/ Enter(u) \/ \E k \in Typed : Types(u, k)
  \/ "interrupt" \in NetFaults /\ Interrupt(u)

Next == \E u \in User : Program(u) \/ Person(u)

Spec == Init /\ [][Next]_uiVars

-----------------------------------------------------------------------------
(* Properties. *)

Rendered(reply) ==
  CASE reply.status = "404" -> NotFound
    [] reply.status # "404" /\ Length(reply) = "zero" -> Blank
    [] OTHER -> [part |-> "whole", of |-> reply]

(* What a question that went well leaves on the display is its own answer, *)
(* whole: nothing of an earlier one is left in response, content_length,   *)
(* message_body or the status, which are never cleared (cursesClient.c:508,*)
(* http_response.c:23).                                                    *)
ShownIsAnswer ==
  \A u \in User :
    at[u] = "close" /\ error[u] = "none"
      => response[u].part = "whole" /\ shown[u] = Rendered(response[u].of)

(* Between questions the client holds no socket, however the last one      *)
(* ended.                                                                  *)
SocketOnlyInQuestion ==
  \A u \in User : at[u] \in {"await_input", "quit", "exited"}
                     => fd[u] \in {"unassigned", "closed"}

(* A user who is back at the menu after a question can quit: every pointer *)
(* that main frees has been assigned by then, whatever the answer was.     *)
(* Only quitting before the first question frees what nothing assigned.    *)
QuitFreesAssigned ==
  \A u \in User :
    at[u] \in {"await_input", "quit"} /\ fd[u] # "unassigned" => Freed(u)

(* A client that has once failed still offers its menu, but the next       *)
(* question never comes back: setup is skipped, the write fails and        *)
(* receive_data reads for ever (cursesClient.c:578).                       *)
NoReturnAfterError ==
  \A u \in User :
    [](at[u] \in {"get_all", "by_key"} /\ error[u] # "none"
         => [](at[u] \notin {"await_input", "exited"}))

-----------------------------------------------------------------------------
(* Statements of the sources that the code does not keep. *)

(* cursesClient.c:170, "dislays response in curses GUI": an answer that is *)
(* not empty is to be seen.                                                *)
DisplaysResponse ==
  \A u \in User : at[u] = "close" /\ body[u] # Blank => shown[u] # Blank

-----------------------------------------------------------------------------
(* The inductive invariant. *)

Unconnected(u) ==
  at[u] \in {"setup_window", "await_input", "get_all", "by_key", "quit", "exited"}
    => fd[u] \in {"unassigned", "closed"}

(* A socket that is not connected any more has left an error behind. *)
Sound(u) == error[u] = "none" => fd[u] \in {"unassigned", "closed", "connected"}

(* The whole answer has been read, and its length is its own. *)
Read(u) == response[u].part = "whole" /\ length[u] = Length(response[u].of)

Parsed(u) ==
  /\ Read(u)
  /\ status[u] = response[u].of.status
  /\ body[u] = IF length[u] = "zero" THEN Blank ELSE response[u]

(* What is left of earlier answers is gone when it matters. *)
Fresh(u) ==
  error[u] = "none" =>
    /\ at[u] = "parse_response" => response[u] = Blank \/ Read(u)
    /\ at[u] = "display_response" => Parsed(u)
    /\ at[u] = "close" =>
         /\ response[u].part = "whole"
         /\ HasDisplay => shown[u] = Rendered(response[u].of)

ClientInv == TypeOK /\ \A u \in User : Unconnected(u) /\ Sound(u) /\ Fresh(u)

(* A client that asks a question with an error latched. *)
Doomed(u) ==
  /\ error[u] # "none"
  /\ fd[u] \in {"unassigned", "closed"}
  /\ at[u] \in {"get_all", "by_key", "prompt", "write", "await_response", "killed"}
=============================================================================
