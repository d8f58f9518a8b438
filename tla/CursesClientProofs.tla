-------------------------- MODULE CursesClientProofs --------------------------
(***************************************************************************)
(* Proofs about CursesClient, for every number of users, every answer,     *)
(* every terminal and everything that may go wrong.                        *)
(***************************************************************************)
EXTENDS CursesClient, TLAPS

LEMMA NoReplyType == NoReply \in Reply
BY DEF NoReply, Says, Reply

LEMMA PlainIsRequest ==
  ASSUME NEW kind \in {"all", "noKey", "other"}
  PROVE  Plain(kind) \in Request
<1>1. NoKey \notin Key /\ NoVal \notin Val
  BY BeaconsAssumption DEF BeaconsAssumption
<1> QED
  BY <1>1 DEF Plain, Request, Kind

LEMMA AskedType ==
  ASSUME NEW k \in Typed
  PROVE  (IF k = NoKey THEN Plain("noKey") ELSE Asked(k)) \in Request
<1>1. NoVal \notin Val /\ k \in Key \cup {NoKey}
  BY BeaconsAssumption, ClientAssumption DEF BeaconsAssumption, ClientAssumption
<1>2. k # NoKey => Asked(k) \in Request
  BY <1>1 DEF Asked, Request, Kind
<1> QED
  BY <1>2, PlainIsRequest

LEMMA TextType ==
  /\ Blank \in Text
  /\ \A text \in Torn(Answers) : text \in Text
  /\ \A reply \in Answers : [part |-> "whole", of |-> reply] \in Text
<1>1. Answers \subseteq Reply
  BY ClientAssumption DEF ClientAssumption
<1> QED
  BY <1>1, NoReplyType DEF Blank, Text, Part, Torn

LEMMA InitClientType == Init => TypeOK
BY PlainIsRequest, TextType
   DEF Init, TypeOK, Unasked, Position, Unassigned, Ended

(* Type correctness: one step per action. *)
LEMMA MenuType ==
  ASSUME TypeOK, NEW u \in User,
         \/ SetupWindow(u) \/ KeyUp(u) \/ KeyDown(u) \/ Enter(u) \/ Quit(u)
         \/ QuitCrashes(u) \/ Interrupt(u)
  PROVE  TypeOK'
<1>1. CASE SetupWindow(u)
  BY <1>1 DEF TypeOK, SetupWindow, Move, Position, Ended, clientData
<1>2. CASE KeyUp(u) \/ KeyDown(u)
  BY <1>2 DEF TypeOK, KeyUp, KeyDown, clientData
<1>3. CASE Enter(u)
  <2>1. Choices[highlight[u] + 1] \in Position
    BY DEF TypeOK, Choices, Position
  <2>2. Blank \in Text
    BY TextType
  <2> QED
    BY <1>3, <2>1, <2>2 DEF TypeOK, Enter, Move
<1>4. CASE Quit(u) \/ QuitCrashes(u) \/ Interrupt(u)
  BY <1>4 DEF TypeOK, Quit, QuitCrashes, Interrupt, Move, Position, Ended, clientData
<1> QED
  BY <1>1, <1>2, <1>3, <1>4

LEMMA AfterSetupType ==
  ASSUME TypeOK, NEW u \in User, AfterSetup(u)
  PROVE  /\ at' \in [User -> Position]
         /\ question' \in [User -> Request]
BY PlainIsRequest DEF TypeOK, AfterSetup, Move, Position

LEMMA SetupType ==
  ASSUME TypeOK, NEW u \in User, Setup(u)
  PROVE  TypeOK'
<1>1. at' \in [User -> Position] /\ question' \in [User -> Request]
  BY AfterSetupType DEF Setup, SetupConnects, SetupFails, SetupRefused, SetupSkipped
<1> QED
  BY <1>1 DEF TypeOK, Setup, SetupConnects, SetupFails, SetupRefused,
     SetupSkipped, Latch, clientData

LEMMA QuestionType ==
  ASSUME TypeOK, NEW u \in User, Write(u) \/ \E k \in Typed : Types(u, k)
  PROVE  TypeOK'
<1>1. CASE Write(u)
  BY <1>1 DEF TypeOK, Write, WriteSends, WriteFails, WriteSigpipe, Latch, Move,
     Position, Ended, clientData
<1>2. CASE \E k \in Typed : Types(u, k)
  BY <1>2, AskedType DEF TypeOK, Types, Move, Position, clientData
<1> QED
  BY <1>1, <1>2

LEMMA ResponseType ==
  ASSUME TypeOK, NEW u \in User, NEW text \in Text, Response(u, text)
  PROVE  TypeOK'
<1>1. Length(text.of) \in {"zero", "positive"}
  BY DEF Length
<1> QED
  BY <1>1 DEF TypeOK, Response, Move, Position

LEMMA ReceiveType ==
  ASSUME TypeOK, NEW u \in User, Receive(u)
  PROVE  TypeOK'
<1>1. CASE ReceiveFails(u)
  BY <1>1 DEF TypeOK, ReceiveFails, Latch, clientData
<1>2. CASE \E text \in Text : Response(u, text)
  BY <1>2, ResponseType
<1> QED
  BY <1>1, <1>2, TextType DEF Receive, ReceiveWhole, ReceiveEnds

LEMMA RenderType ==
  ASSUME TypeOK, NEW u \in User,
         Parse(u) \/ ParseCrashes(u) \/ Display(u) \/ Close(u)
  PROVE  TypeOK'
<1>0. Blank \in Text
  BY TextType
<1>1. CASE Parse(u)
  <2>1. response[u] \in Text /\ response[u].of \in Reply
    BY <1>1 DEF Parse, TypeOK, Text, Unassigned
  <2>2. response[u].of.status \in {"none", "200", "welcome", "complete", "400", "404"}
    BY <2>1 DEF Reply
  <2> QED
    BY <1>0, <1>1, <2>1, <2>2 DEF TypeOK, Parse, Move, Position
<1>2. CASE ParseCrashes(u) \/ Close(u)
  BY <1>2 DEF TypeOK, ParseCrashes, Close, Move, Position, Ended, clientData
<1>3. CASE Display(u)
  BY <1>0, <1>3 DEF TypeOK, Display, Move, Position
<1> QED
  BY <1>1, <1>2, <1>3

LEMMA ClientType == TypeOK /\ [Next]_uiVars => TypeOK'
<1> SUFFICES ASSUME TypeOK, [Next]_uiVars PROVE TypeOK'
  OBVIOUS
<1>1. CASE UNCHANGED uiVars
  BY <1>1 DEF TypeOK, uiVars
<1>2. CASE Next
  BY <1>2, MenuType, SetupType, QuestionType, ReceiveType, RenderType
     DEF Next, Program, Person
<1> QED
  BY <1>1, <1>2

-----------------------------------------------------------------------------
(* ClientInv is inductive. *)

UserInv(u) == Unconnected(u) /\ Sound(u) /\ Fresh(u)

(* A step of one user leaves the others as they are. *)
LEMMA OthersStay ==
  ASSUME TypeOK, NEW u \in User, Program(u) \/ Person(u), NEW v \in User \ {u}
  PROVE  UNCHANGED <<at[v], error[v], fd[v], response[v], status[v], length[v],
                     body[v], shown[v]>>
<1>1. CASE Setup(u) \/ Write(u) \/ Receive(u)
  BY <1>1 DEF TypeOK, Setup, SetupConnects, SetupFails, SetupRefused, SetupSkipped,
     AfterSetup, Write, WriteSends, WriteFails, WriteSigpipe, Receive,
     ReceiveWhole, ReceiveEnds, ReceiveFails, Response, Latch, Move, clientData
<1>2. CASE ~(Setup(u) \/ Write(u) \/ Receive(u))
  BY <1>2 DEF TypeOK, Program, Person, SetupWindow, Parse, ParseCrashes, Display,
     Close, Quit, QuitCrashes, KeyUp, KeyDown, Enter, Types, Interrupt, Move,
     clientData
<1> QED
  BY <1>1, <1>2

LEMMA StayPreserves ==
  ASSUME NEW v, UserInv(v),
         UNCHANGED <<at[v], error[v], fd[v], response[v], status[v], length[v],
                     body[v], shown[v]>>
  PROVE  UserInv(v)'
BY DEF UserInv, Unconnected, Sound, Fresh, Parsed, Read, HasDisplay, Rendered, Length

LEMMA MenuPreserves ==
  ASSUME TypeOK, NEW u \in User, UserInv(u),
         \/ SetupWindow(u) \/ KeyUp(u) \/ KeyDown(u) \/ Enter(u) \/ Quit(u)
         \/ QuitCrashes(u) \/ Interrupt(u) \/ Close(u) \/ ParseCrashes(u)
         \/ \E k \in Typed : Types(u, k)
  PROVE  UserInv(u)'
<1>1. CASE KeyUp(u) \/ KeyDown(u)
  BY <1>1, StayPreserves DEF KeyUp, KeyDown, clientData
<1>2. CASE Enter(u)
  <2>1. Choices[highlight[u] + 1] \in {"get_all", "by_key", "quit"}
    BY DEF TypeOK, Choices
  <2>2. at[u] = "await_input" /\ at'[u] \in {"get_all", "by_key", "quit"}
        /\ UNCHANGED <<error[u], fd[u]>>
    BY <1>2, <2>1 DEF TypeOK, Enter, Move
  <2> QED
    BY <2>2 DEF UserInv, Unconnected, Sound, Fresh
<1>3. CASE SetupWindow(u) \/ Quit(u) \/ QuitCrashes(u) \/ Interrupt(u)
             \/ Close(u) \/ ParseCrashes(u) \/ \E k \in Typed : Types(u, k)
  <2>1. /\ at'[u] \in {"await_input", "exited", "crashed", "killed", "write"}
        /\ UNCHANGED error[u]
        /\ \/ UNCHANGED fd[u] \/ fd'[u] = "closed"
        /\ \/ at'[u] \in {"crashed", "killed", "write"}
           \/ at[u] \in {"setup_window", "quit"} \/ fd'[u] = "closed"
    BY <1>3 DEF TypeOK, SetupWindow, Quit, QuitCrashes, Interrupt, Close,
       ParseCrashes, Types, Move, clientData
  <2> QED
    BY <2>1 DEF UserInv, Unconnected, Sound, Fresh
<1> QED
  BY <1>1, <1>2, <1>3

LEMMA SetupPreserves ==
  ASSUME TypeOK, NEW u \in User, UserInv(u), Setup(u) \/ Write(u)
  PROVE  UserInv(u)'
<1>1. at'[u] \in {"write", "prompt", "await_response", "killed"}
  BY DEF TypeOK, Setup, SetupConnects, SetupFails, SetupRefused, SetupSkipped,
     AfterSetup, Write, WriteSends, WriteFails, WriteSigpipe, Move
<1>2. Sound(u)'
  BY DEF TypeOK, UserInv, Sound, Setup, SetupConnects, SetupFails, SetupRefused,
     SetupSkipped, Write, WriteSends, WriteFails, WriteSigpipe, Latch
<1> QED
  BY <1>1, <1>2 DEF UserInv, Unconnected, Fresh

LEMMA ReceivePreserves ==
  ASSUME TypeOK, NEW u \in User, UserInv(u), Receive(u)
  PROVE  UserInv(u)'
<1>1. CASE ReceiveFails(u)
  <2>1. at'[u] = "await_response" /\ error'[u] # "none"
    BY <1>1 DEF TypeOK, ReceiveFails, Latch
  <2> QED
    BY <2>1 DEF UserInv, Unconnected, Sound, Fresh
<1>2. CASE \E reply \in Answers : ReceiveWhole(u, reply)
  <2>1. PICK reply \in Answers : ReceiveWhole(u, reply)
    BY <1>2
  <2>2. /\ at'[u] = "parse_response" /\ UNCHANGED <<error[u], fd[u]>>
        /\ response'[u] = [part |-> "whole", of |-> reply]
        /\ length'[u] = Length(reply)
    BY <2>1 DEF TypeOK, ReceiveWhole, Response, Move
  <2>3. Read(u)'
    BY <2>2 DEF Read, Length
  <2> QED
    BY <2>2, <2>3 DEF UserInv, Unconnected, Sound, Fresh
<1>3. CASE \E text \in Torn(Answers) : ReceiveEnds(u, text)
  <2>1. PICK text \in Torn(Answers) : ReceiveEnds(u, text)
    BY <1>3
  <2>2. /\ at'[u] = "parse_response" /\ UNCHANGED <<error[u], fd[u]>>
        /\ response'[u] = text
        /\ fd[u] = "reset" \/ text = Blank
    BY <2>1 DEF TypeOK, ReceiveEnds, Response, Move
  <2>3. error'[u] = "none" => response'[u] = Blank
    BY <2>2 DEF UserInv, Sound
  <2> QED
    BY <2>2, <2>3 DEF UserInv, Unconnected, Sound, Fresh, Blank
<1> QED
  BY <1>1, <1>2, <1>3 DEF Receive

LEMMA ParsePreserves ==
  ASSUME TypeOK, NEW u \in User, UserInv(u), Parse(u)
  PROVE  UserInv(u)'
<1>1. /\ at[u] = "parse_response" /\ at'[u] = "display_response"
      /\ UNCHANGED <<error[u], fd[u], response[u], length[u]>>
      /\ response[u].part \in {"headers", "whole", "line"}
      /\ status'[u] = response[u].of.status
      /\ body'[u] = IF response[u].part = "line" \/ length[u] = "zero"
                    THEN Blank ELSE response[u]
  BY DEF TypeOK, Parse, Move
<1>2. Unconnected(u)' /\ Sound(u)'
  BY <1>1 DEF UserInv, Unconnected, Sound
<1>3. ASSUME error'[u] = "none" PROVE Parsed(u)'
  <2>1. Read(u)
    BY <1>1, <1>3 DEF UserInv, Fresh, Blank
  <2> QED
    BY <1>1, <2>1 DEF Parsed, Read, Length
<1> QED
  BY <1>1, <1>2, <1>3 DEF UserInv, Fresh

LEMMA DisplayPreserves ==
  ASSUME TypeOK, NEW u \in User, UserInv(u), Display(u)
  PROVE  UserInv(u)'
<1>1. /\ at[u] = "display_response" /\ at'[u] = "close"
      /\ UNCHANGED <<error[u], fd[u], response[u]>>
      /\ HasDisplay => shown'[u] = IF status[u] = "404" THEN NotFound ELSE body[u]
  BY DEF TypeOK, Display, Move
<1>2. Unconnected(u)' /\ Sound(u)'
  BY <1>1 DEF UserInv, Unconnected, Sound
<1>3. ASSUME error[u] = "none"
      PROVE  /\ response[u].part = "whole"
             /\ HasDisplay => shown'[u] = Rendered(response[u].of)
  <2>1. Parsed(u)
    BY <1>1, <1>3 DEF UserInv, Fresh
  <2>2. response[u] = [part |-> "whole", of |-> response[u].of]
    BY <2>1 DEF TypeOK, Parsed, Read, Text, Unassigned
  <2> QED
    BY <1>1, <2>1, <2>2 DEF Parsed, Read, Rendered
<1>4. HasDisplay' = HasDisplay /\ Rendered(response[u].of)' = Rendered(response[u].of)
  BY <1>1 DEF HasDisplay, Rendered, Length
<1> QED
  BY <1>1, <1>2, <1>3, <1>4 DEF UserInv, Fresh

LEMMA NextClientInv == ClientInv /\ [Next]_uiVars => ClientInv'
<1> SUFFICES ASSUME ClientInv, [Next]_uiVars PROVE ClientInv'
  OBVIOUS
<1>1. TypeOK'
  BY ClientType DEF ClientInv
<1>2. \A v \in User : UserInv(v)
  BY DEF ClientInv, UserInv
<1>3. \A v \in User : UserInv(v)'
  <2> SUFFICES ASSUME NEW v \in User PROVE UserInv(v)'
    OBVIOUS
  <2>1. CASE UNCHANGED uiVars
    BY <1>2, <2>1, StayPreserves DEF uiVars
  <2>2. CASE \E u \in User : Program(u) \/ Person(u)
    <3>1. PICK u \in User : Program(u) \/ Person(u)
      BY <2>2
    <3>2. CASE v # u
      BY <1>2, <3>1, <3>2, OthersStay, StayPreserves DEF ClientInv
    <3>3. CASE v = u
      BY <1>2, <3>1, <3>3, MenuPreserves, SetupPreserves, ReceivePreserves,
         ParsePreserves, DisplayPreserves DEF ClientInv, Program, Person
    <3> QED
      BY <3>2, <3>3
  <2> QED
    BY <2>1, <2>2 DEF Next
<1> QED
  BY <1>1, <1>3 DEF ClientInv, UserInv

-----------------------------------------------------------------------------
(* The theorems. *)

(* ClientInv holds in every state a client can get into, whatever servers  *)
(* answer and whatever fails.                                              *)
THEOREM ClientInvariant == Spec => []ClientInv
<1>1. Init => ClientInv
  BY InitClientType DEF Init, ClientInv, Unconnected, Sound, Fresh
<1> QED
  BY <1>1, NextClientInv, PTL DEF Spec

(* Type correctness. *)
THEOREM ClientTypeCorrect == Spec => []TypeOK
<1>1. ClientInv => TypeOK
  BY DEF ClientInv
<1> QED
  BY <1>1, ClientInvariant, PTL

(* await_response, parse_response and display_response: on a terminal with *)
(* a display window, a question without an error shows its own answer, and *)
(* the whole of it.                                                        *)
THEOREM ShowsOwnAnswer == HasDisplay => (Spec => []ShownIsAnswer)
<1> SUFFICES ASSUME HasDisplay PROVE Spec => []ShownIsAnswer
  OBVIOUS
<1>1. ClientInv => ShownIsAnswer
  BY DEF ClientInv, Fresh, ShownIsAnswer
<1> QED
  BY <1>1, ClientInvariant, PTL

(* setup and close_: no socket is open between two questions. *)
THEOREM NoSocketBetween == Spec => []SocketOnlyInQuestion
<1>1. ClientInv => SocketOnlyInQuestion
  BY DEF ClientInv, Unconnected, SocketOnlyInQuestion
<1> QED
  BY <1>1, ClientInvariant, PTL

(* What main frees: await_response assigns response, parse_response the    *)
(* body, and no state takes them back.                                     *)
Owned(u) ==
  /\ at[u] = "parse_response" => response[u] # Unassigned
  /\ at[u] \in {"display_response", "close"} => Freed(u)
  /\ at[u] \in {"setup_window", "await_input", "quit"} /\ fd[u] # "unassigned"
       => Freed(u)

LEMMA OwnedStays ==
  ASSUME TypeOK, NEW u \in User, Owned(u), Program(u) \/ Person(u)
  PROVE  Owned(u)'
<1>1. CASE Setup(u) \/ Write(u) \/ ReceiveFails(u) \/ Interrupt(u) \/ Quit(u)
             \/ QuitCrashes(u) \/ ParseCrashes(u) \/ \E k \in Typed : Types(u, k)
  <2>1. at'[u] \in {"write", "prompt", "await_response"} \cup Ended
    BY <1>1 DEF TypeOK, Setup, SetupConnects, SetupFails, SetupRefused, SetupSkipped,
       AfterSetup, Write, WriteSends, WriteFails, WriteSigpipe, ReceiveFails,
       Interrupt, Quit, QuitCrashes, ParseCrashes, Types, Move, Ended
  <2> QED
    BY <2>1 DEF Owned, Ended
<1>2. CASE \E text \in Text : Response(u, text)
  <2>1. at'[u] = "parse_response" /\ response'[u] \in Text
    BY <1>2 DEF TypeOK, Response, Move
  <2> QED
    BY <2>1 DEF Owned, Text, Part, Unassigned
<1>3. CASE Parse(u)
  <2>1. /\ at'[u] = "display_response" /\ UNCHANGED response[u]
        /\ response[u] # Unassigned
        /\ body'[u] \in {Blank, response[u]}
    BY <1>3 DEF TypeOK, Parse, Move, Owned
  <2> QED
    BY <2>1 DEF Owned, Freed, Blank, Unassigned
<1>4. CASE Display(u) \/ Close(u)
  <2>1. /\ at[u] \in {"display_response", "close"} /\ at'[u] \in {"close", "await_input"}
        /\ UNCHANGED <<response[u], body[u]>>
    BY <1>4 DEF TypeOK, Display, Close, Move, clientData
  <2> QED
    BY <2>1 DEF Owned, Freed
<1>5. CASE SetupWindow(u) \/ KeyUp(u) \/ KeyDown(u) \/ Enter(u)
  <2>1. Choices[highlight[u] + 1] \in {"get_all", "by_key", "quit"}
    BY DEF TypeOK, Choices
  <2>2. /\ at[u] \in {"setup_window", "await_input"}
        /\ at'[u] \in {"await_input", "get_all", "by_key", "quit"}
        /\ UNCHANGED <<fd[u], response[u], body[u]>>
    BY <1>5, <2>1 DEF TypeOK, SetupWindow, KeyUp, KeyDown, Enter, Move, clientData
  <2> QED
    BY <2>2 DEF Owned, Freed
<1>6. Receive(u) => ReceiveFails(u) \/ \E text \in Text : Response(u, text)
  BY TextType DEF Receive, ReceiveWhole, ReceiveEnds
<1> QED
  BY <1>1, <1>2, <1>3, <1>4, <1>5, <1>6 DEF Program, Person

(* main: whoever has asked a question and is back at the menu quits with   *)
(* every freed pointer assigned.                                           *)
THEOREM FreesAssigned == Spec => []QuitFreesAssigned
<1> DEFINE OwnedInv == TypeOK /\ \A u \in User : Owned(u)
<1>1. Init => OwnedInv
  BY InitClientType DEF Init, Owned
<1>2. OwnedInv /\ [Next]_uiVars => OwnedInv'
  <2> SUFFICES ASSUME OwnedInv, [Next]_uiVars, NEW v \in User PROVE Owned(v)'
    BY ClientType
  <2>1. CASE \E u \in User : Program(u) \/ Person(u)
    <3>1. PICK u \in User : Program(u) \/ Person(u)
      BY <2>1
    <3>2. CASE v = u
      BY <3>1, <3>2, OwnedStays
    <3>3. CASE v # u
      <4>1. UNCHANGED <<at[v], fd[v], response[v], body[v]>>
        BY <3>1, <3>3, OthersStay
      <4> QED
        BY <4>1 DEF Owned, Freed
    <3> QED
      BY <3>2, <3>3
  <2>2. CASE UNCHANGED uiVars
    BY <2>2 DEF uiVars, Owned, Freed
  <2> QED
    BY <2>1, <2>2 DEF Next
<1>3. OwnedInv => QuitFreesAssigned
  BY DEF Owned, QuitFreesAssigned
<1> QED
  BY <1>1, <1>2, <1>3, PTL DEF Spec

LEMMA DoomedStays ==
  ASSUME ClientInv, NEW u \in User, Doomed(u), [Next]_uiVars
  PROVE  Doomed(u)'
<1>1. CASE UNCHANGED uiVars
  BY <1>1 DEF uiVars, Doomed
<1>2. CASE \E v \in User \ {u} : Program(v) \/ Person(v)
  BY <1>2, OthersStay DEF ClientInv, Doomed
<1>3. CASE Program(u) \/ Person(u)
  BY <1>3 DEF ClientInv, TypeOK, Doomed, Ended, Program, Person, SetupWindow, Setup,
     SetupConnects, SetupFails, SetupRefused, SetupSkipped, AfterSetup, Write,
     WriteSends, WriteFails, WriteSigpipe, Receive, ReceiveWhole, ReceiveEnds,
     ReceiveFails, Response, Parse, ParseCrashes, Display, Close, Quit,
     QuitCrashes, KeyUp, KeyDown, Enter, Types, Interrupt, Latch, Move, clientData
<1> QED
  BY <1>1, <1>2, <1>3 DEF Next

(* setup, dc_write and receive_data with an error latched: the question    *)
(* never comes back to the menu.                                           *)
THEOREM NeverBack == Spec => NoReturnAfterError
<1> SUFFICES ASSUME NEW u \in User
             PROVE  Spec => [](at[u] \in {"get_all", "by_key"} /\ error[u] # "none"
                                 => [](at[u] \notin {"await_input", "exited"}))
  BY DEF NoReturnAfterError
<1>1. ClientInv /\ at[u] \in {"get_all", "by_key"} /\ error[u] # "none" => Doomed(u)
  BY DEF ClientInv, Unconnected, Doomed
<1>2. ClientInv /\ Doomed(u) /\ [Next]_uiVars => Doomed(u)'
  BY DoomedStays
<1>3. Doomed(u) => at[u] \notin {"await_input", "exited"}
  BY DEF Doomed
<1> QED
  BY <1>1, <1>2, <1>3, ClientInvariant, PTL DEF Spec
=============================================================================
