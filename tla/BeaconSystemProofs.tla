-------------------------- MODULE BeaconSystemProofs --------------------------
(***************************************************************************)
(* Users, beacons and the server together: proofs for every set of users   *)
(* and connections, every key and value.                                   *)
(***************************************************************************)
EXTENDS BeaconSystem, BeaconServerStoreProofs, BeaconServerLeakProofs

(* What is proved of one client under everything that may go wrong.        *)
ClProofs == INSTANCE CursesClientProofs WITH
  Answers   <- Reply \ {NoReply},
  NetFaults <- {"socket", "refused", "reset", "away", "interrupt"}

LEMMA ClientContext == ClProofs!BeaconsAssumption /\ ClProofs!ClientAssumption
BY BeaconsAssumption, SystemAssumption
   DEF SystemAssumption, BeaconsAssumption, ClProofs!BeaconsAssumption,
       ClProofs!ClientAssumption, Cl!ClientAssumption, Cl!Reply, ClProofs!Reply,
       Cl!NoReply, ClProofs!NoReply, Cl!Says, ClProofs!Says, Cl!Db, ClProofs!Db

(* The two instances speak of the same client. *)
LEMMA SameInit == Cl!Init <=> ClProofs!Init
BY DEF Cl!Init, ClProofs!Init, Cl!Unasked, ClProofs!Unasked, Cl!Plain,
       ClProofs!Plain, Cl!Unassigned, ClProofs!Unassigned, Cl!Blank, ClProofs!Blank,
       Cl!NoReply, ClProofs!NoReply, Cl!Says, ClProofs!Says

LEMMA SameStep ==
  ASSUME NEW u \in User
  PROVE  Cl!Program(u) \/ Cl!Person(u) <=> ClProofs!Program(u) \/ ClProofs!Person(u)
BY DEF Cl!Program, ClProofs!Program, Cl!Person, ClProofs!Person,
     Cl!Setup, ClProofs!Setup, Cl!Write, ClProofs!Write, Cl!Receive, ClProofs!Receive,
     Cl!SetupWindow, ClProofs!SetupWindow, Cl!SetupConnects, ClProofs!SetupConnects,
     Cl!SetupSkipped, ClProofs!SetupSkipped, Cl!SetupFails, ClProofs!SetupFails,
     Cl!SetupRefused, ClProofs!SetupRefused, Cl!AfterSetup, ClProofs!AfterSetup,
     Cl!WriteSends, ClProofs!WriteSends, Cl!WriteFails, ClProofs!WriteFails,
     Cl!WriteSigpipe, ClProofs!WriteSigpipe, Cl!ReceiveWhole, ClProofs!ReceiveWhole,
     Cl!ReceiveEnds, ClProofs!ReceiveEnds, Cl!ReceiveFails, ClProofs!ReceiveFails,
     Cl!Response, ClProofs!Response, Cl!Length, ClProofs!Length, Cl!Torn, ClProofs!Torn,
     Cl!Parse, ClProofs!Parse, Cl!ParseCrashes, ClProofs!ParseCrashes,
     Cl!Display, ClProofs!Display, Cl!Close, ClProofs!Close, Cl!Quit, ClProofs!Quit,
     Cl!QuitCrashes, ClProofs!QuitCrashes, Cl!Freed, ClProofs!Freed,
     Cl!KeyUp, ClProofs!KeyUp, Cl!KeyDown, ClProofs!KeyDown, Cl!Enter, ClProofs!Enter,
     Cl!Choices, ClProofs!Choices, Cl!Types, ClProofs!Types,
     Cl!Interrupt, ClProofs!Interrupt, Cl!Ended, ClProofs!Ended,
     Cl!HasMenu, ClProofs!HasMenu, Cl!HasDisplay, ClProofs!HasDisplay,
     Cl!Latch, ClProofs!Latch, Cl!Move, ClProofs!Move,
     Cl!clientData, ClProofs!clientData, Cl!Unassigned, ClProofs!Unassigned,
     Cl!Blank, ClProofs!Blank, Cl!NotFound, ClProofs!NotFound,
     Cl!NoReply, ClProofs!NoReply, Cl!Says, ClProofs!Says, Cl!Plain, ClProofs!Plain,
     Cl!Asked, ClProofs!Asked

LEMMA SameNext == [Cl!Next]_Cl!uiVars <=> [ClProofs!Next]_ClProofs!uiVars
<1>1. Cl!Next <=> ClProofs!Next
  BY SameStep DEF Cl!Next, ClProofs!Next
<1>2. UNCHANGED Cl!uiVars <=> UNCHANGED ClProofs!uiVars
  BY DEF Cl!uiVars, ClProofs!uiVars, Cl!clientData, ClProofs!clientData
<1> QED
  BY <1>1, <1>2

LEMMA SameWordsSaid ==
  /\ Cl!NoReply = NoReply
  /\ \A kind : Cl!Plain(kind) = Plain(kind)
  /\ \A k : Cl!Asked(k) = Asked(k)
  /\ \A r : Cl!Rendered(r) = ClProofs!Rendered(r)
  /\ Cl!Reply = Reply
BY DEF Cl!NoReply, Cl!Says, NoReply, Says, Cl!Plain, Plain, Cl!Asked, Asked,
   Cl!Reply, Reply, Cl!Db, Db, Cl!Rendered, ClProofs!Rendered, Cl!Blank,
   ClProofs!Blank, Cl!NotFound, ClProofs!NotFound, Cl!Length, ClProofs!Length,
   ClProofs!NoReply, ClProofs!Says

-----------------------------------------------------------------------------
(* The whole system runs a server and clients, as their modules have them. *)

LEMMA UserOnServer ==
  ASSUME NEW u \in User, UserStep(u)
  PROVE  \/ UNCHANGED vars
         \/ \E c \in Client : Connect(c) \/ Send(c) \/ Leave(c)
BY DEF UserStep, UserProgram, UserConnects, UserRefused, UserTypes, UserWrites,
   UserReceives, UserCloses, UserInterrupts, Alone, Menu, Online

(* There are no signals, no failed reads. *)
Calls == Server \/ StageFails \/ Kill \/ Start
Moves == UNCHANGED vars \/ Calls \/ \E c \in Client : Connect(c) \/ Send(c) \/ Leave(c)

LEMMA SystemMoves ==
  ASSUME [SystemNext]_systemVars
  PROVE  Moves
<1>1. CASE UNCHANGED systemVars
  BY <1>1 DEF systemVars, Moves
<1>2. CASE ServerStep \/ BeaconStep
  BY <1>2 DEF ServerStep, BeaconStep, Moves, Calls
<1>3. CASE \E u \in User : UserStep(u)
  BY <1>3, UserOnServer DEF Moves
<1> QED
  BY <1>1, <1>2, <1>3 DEF SystemNext

LEMMA MovesAreSteps ==
  ASSUME Moves
  PROVE  [Next]_vars
BY DEF Moves, Calls, Next, Environment

LEMMA SystemOnServer == [SystemNext]_systemVars => [Next]_vars
BY SystemMoves, MovesAreSteps

(* Whatever users and beacons do, the server runs as it does for any       *)
(* client: what is proved of BeaconServer holds in the system.             *)
THEOREM RunsServer == SystemSpec => Spec
<1>1. SystemInit => Init
  BY DEF SystemInit
<1> QED
  BY <1>1, SystemOnServer, PTL DEF SystemSpec, Spec

(* To users and beacons the server is the store that BeaconStore promises: *)
(* each of their requests takes effect at one moment, at most once.        *)
THEOREM SystemStores == SystemSpec => ImplementsStore
BY RunsServer, Implements, PTL

LEMMA UserOnClient ==
  ASSUME TypeOK, NEW u \in User, UserStep(u)
  PROVE  Cl!Program(u) \/ Cl!Person(u)
<1>1. CASE UserConnects(u) \/ UserRefused(u)
  BY <1>1 DEF UserConnects, UserRefused, Cl!Program, Cl!Setup
<1>2. CASE UserWrites(u)
  BY <1>2 DEF UserWrites, Cl!Program, Cl!Write
<1>3. CASE UserReceives(u)
  <2>1. CASE HasAnswer(u) /\ Cl!ReceiveWhole(u, reply[line[u]])
    <3>1. reply[line[u]] \in Reply \ {NoReply}
      BY <2>1 DEF HasAnswer, TypeOK
    <3> QED
      BY <2>1, <3>1 DEF Cl!Program, Cl!Receive
  <2>2. CASE Cl!ReceiveEnds(u, Cl!Blank) \/ Cl!ReceiveFails(u)
    BY <2>2 DEF Cl!Program, Cl!Receive, Cl!Torn
  <2> QED
    BY <1>3, <2>1, <2>2 DEF UserReceives
<1>4. CASE UserCloses(u) \/ Alone(u)
  BY <1>4 DEF UserCloses, Alone, Cl!Program, Cl!Setup
<1>5. CASE UserTypes(u) \/ UserInterrupts(u) \/ Menu(u)
  BY <1>5 DEF UserTypes, UserInterrupts, Menu, Cl!Person
<1> QED
  BY <1>1, <1>2, <1>3, <1>4, <1>5 DEF UserStep, UserProgram

LEMMA SystemOnClients ==
  TypeOK /\ [SystemNext]_systemVars => [Cl!Next]_Cl!uiVars
<1> SUFFICES ASSUME TypeOK, [SystemNext]_systemVars PROVE [Cl!Next]_Cl!uiVars
  OBVIOUS
<1>1. CASE UNCHANGED uiVars
  BY <1>1 DEF uiVars, Cl!uiVars
<1>2. CASE \E u \in User : UserStep(u)
  BY <1>2, UserOnClient DEF Cl!Next
<1> QED
  BY <1>1, <1>2 DEF SystemNext, ServerStep, BeaconStep, systemVars

(* Every client runs as CursesClient has it: server, beacons and the other *)
(* users do to it what its module says may be done.                        *)
THEOREM RunsClients == SystemSpec => Cl!Spec
<1>1. SystemInit => Cl!Init
  BY DEF SystemInit
<1> QED
  BY <1>1, RunsServer, TypeCorrect, SystemOnClients, PTL DEF SystemSpec, Cl!Spec

LEMMA ClientsAsProved == SystemSpec => []ClProofs!ClientInv
<1>1. ClProofs!Spec => []ClProofs!ClientInv
  BY ClientContext, ClProofs!ClientInvariant
<1> QED
  BY <1>1, RunsClients, SameInit, SameNext, PTL DEF Cl!Spec, ClProofs!Spec

-----------------------------------------------------------------------------
(* What a step of the server or of a connection may do to one connection.  *)

LEMMA CallsKeep ==
  ASSUME Calls
  PROVE  UNCHANGED <<req, sent>>
<1>1. CASE StageDone \/ StageFails \/ Start \/ Accept \/ AcceptFails
  BY <1>1 DEF StageDone, StageFails, Start, Accept, AcceptFails, clientVars
<1>2. CASE Shutdown \/ Kill \/ ProcessCrashes \/ GetCrashes \/ PutCrashes
             \/ WriteSigpipe \/ FreeCrashes
  BY <1>2 DEF Shutdown, Kill, ProcessCrashes, GetCrashes, PutCrashes, WriteSigpipe,
     FreeCrashes, Dies
<1>3. CASE ProcessWhole \/ ProcessCut \/ ProcessAltered \/ ProcessRefused
  BY <1>3 DEF ProcessWhole, ProcessCut, ProcessAltered, ProcessRefused, Dispatch,
     clientVars
<1>4. CASE GetAll \/ GetKey \/ GetPath \/ PutStores \/ PutNoEquals \/ Invalid
  BY <1>4 DEF GetAll, GetKey, GetPath, PutStores, PutNoEquals, Invalid, Respond,
     clientVars
<1>5. CASE Write \/ WriteLost \/ Close \/ Free
  BY <1>5 DEF Write, WriteLost, Close, Free, clientVars
<1> QED
  BY <1>1, <1>2, <1>3, <1>4, <1>5 DEF Calls, Server, Process, Get, PutStep, Answer

(* A connection that exists stays, with its request; a closed one stays    *)
(* closed; what has been sent or answered stays so.                        *)
Persists(c) ==
  /\ state[c] # "idle" => state'[c] # "idle" /\ req'[c] = req[c]
  /\ state[c] = "closed" => state'[c] = "closed"
  /\ reply[c] # NoReply => reply'[c] = reply[c]
  /\ sent[c] # "nothing" => sent'[c] # "nothing"

LEMMA StepPersists ==
  ASSUME StoreInv, Moves, NEW c \in Client
  PROVE  Persists(c)
<1>0. /\ state \in [Client -> {"idle", "open", "closed"}]
      /\ req \in [Client -> Request] /\ reply \in [Client -> Reply]
      /\ sent \in [Client -> {"nothing", "headers", "whole"}]
  BY DEF StoreInv, ServerInv, TypeOK
<1>1. CASE UNCHANGED clientVars
  BY <1>1 DEF clientVars, Persists
<1>2. CASE Dies
  BY <1>0, <1>2 DEF Dies, Persists
<1>3. CASE Write
  <2>1. reply[c] # NoReply => c # conn
    BY <1>3 DEF Write, StoreInv, Distinct
  <2> QED
    BY <1>0, <1>3, <2>1 DEF Write, Persists
<1>4. CASE \E d \in Client : Connect(d) \/ Send(d) \/ Leave(d)
  BY <1>0, <1>4 DEF Connect, Send, Leave, serverVars, Persists
<1>5. CASE \/ StageDone \/ StageFails \/ Start \/ Accept \/ AcceptFails
           \/ ProcessWhole \/ ProcessCut \/ ProcessAltered \/ ProcessRefused
           \/ GetAll \/ GetKey \/ GetPath \/ PutStores \/ PutNoEquals \/ Invalid
           \/ WriteLost \/ Close \/ Free
  <2>1. UNCHANGED clientVars
    BY <1>5 DEF StageDone, StageFails, Start, Accept, AcceptFails,
       ProcessWhole, ProcessCut, ProcessAltered, ProcessRefused, Dispatch,
       GetAll, GetKey, GetPath, PutStores, PutNoEquals, Invalid, Respond,
       WriteLost, Close, Free
  <2> QED
    BY <1>1, <2>1
<1>6. CASE UNCHANGED vars
  BY <1>1, <1>6 DEF vars, clientVars
<1>7. CASE Shutdown \/ Kill \/ ProcessCrashes \/ GetCrashes \/ PutCrashes
             \/ WriteSigpipe \/ FreeCrashes
  BY <1>2, <1>7 DEF Shutdown, Kill, ProcessCrashes, GetCrashes, PutCrashes,
     WriteSigpipe, FreeCrashes
<1> QED
  BY <1>3, <1>4, <1>5, <1>6, <1>7
     DEF Moves, Calls, Server, Process, Get, PutStep, Answer

(* What PUTs have cost stays lost. *)
PaidBy == {c \in Client : sent[c] # "nothing" /\ Costly(c)}

LEMMA UsedUpStays ==
  ASSUME StoreInv, Heard, Moves, UsedUp
  PROVE  UsedUp'
<1>1. ASSUME NEW c \in PaidBy PROVE c \in PaidBy'
  <2>1. c \in Client /\ sent[c] # "nothing" /\ Costly(c) /\ state[c] # "idle"
    BY <1>1 DEF PaidBy, Heard
  <2>2. /\ sent'[c] # "nothing" /\ req'[c] = req[c]
        /\ state[c] = "closed" => state'[c] = "closed"
    BY <2>1, StepPersists DEF Persists
  <2>3. state[c] = "closed" => sent'[c] = sent[c]
    <3>1. CASE UNCHANGED vars \/ Calls
      BY <3>1, CallsKeep DEF vars
    <3>2. CASE \E d \in Client : Connect(d) \/ Send(d) \/ Leave(d)
      BY <2>1, <3>2 DEF Connect, Send, Leave, StoreInv, ServerInv, TypeOK
    <3> QED
      BY <3>1, <3>2 DEF Moves
  <2>4. Costly(c)'
    BY <2>1, <2>2, <2>3, CostlyStays
  <2> QED
    BY <2>1, <2>2, <2>4 DEF PaidBy
<1>2. PaidBy \in SUBSET PaidBy' /\ PaidBy \in SUBSET Client /\ PaidBy' \in SUBSET Client
  BY <1>1 DEF PaidBy
<1>3. IsFiniteSet(PaidBy') /\ IsFiniteSet(PaidBy)
  BY <1>2, FS_Subset, SystemAssumption DEF SystemAssumption
<1>4. /\ Cardinality(PaidBy) <= Cardinality(PaidBy')
      /\ Cardinality(PaidBy) \in Nat /\ Cardinality(PaidBy') \in Nat
  BY <1>2, <1>3, FS_Subset, FS_CardinalityType
<1> QED
  BY <1>4, ServerAssumption DEF UsedUp, PaidBy, ServerAssumption

LEMMA UsedUpRests == UNCHANGED vars => (UsedUp => UsedUp')
BY DEF vars, UsedUp, Costly, TakenFor, Whole, Cut

(* A new answer goes to the connection that is being served, as long as    *)
(* its client is there.                                                    *)
LEMMA AnswersConn ==
  ASSUME StoreInv, Moves, NEW c \in Client, reply'[c] # reply[c]
  PROVE  Write /\ c = conn
<1>1. CASE UNCHANGED reply
  BY <1>1
<1>2. CASE Write
  BY <1>2 DEF Write, StoreInv, ServerInv, TypeOK
<1>3. CASE \E d \in Client : Connect(d) \/ Send(d) \/ Leave(d)
  BY <1>1, <1>3 DEF Connect, Send, Leave
<1>4. CASE \/ StageDone \/ StageFails \/ Start \/ Accept \/ AcceptFails
           \/ ProcessWhole \/ ProcessCut \/ ProcessAltered \/ ProcessRefused
           \/ GetAll \/ GetKey \/ GetPath \/ PutStores \/ PutNoEquals \/ Invalid
           \/ WriteLost \/ Close \/ Free
  BY <1>1, <1>4 DEF StageDone, StageFails, Start, Accept, AcceptFails,
     ProcessWhole, ProcessCut, ProcessAltered, ProcessRefused, Dispatch,
     GetAll, GetKey, GetPath, PutStores, PutNoEquals, Invalid, Respond,
     WriteLost, Close, Free, clientVars
<1>5. CASE Shutdown \/ Kill \/ ProcessCrashes \/ GetCrashes \/ PutCrashes
             \/ WriteSigpipe \/ FreeCrashes
  BY <1>1, <1>5 DEF Shutdown, Kill, ProcessCrashes, GetCrashes, PutCrashes,
     WriteSigpipe, FreeCrashes, Dies
<1>6. CASE UNCHANGED vars
  BY <1>1, <1>6 DEF vars
<1> QED
  BY <1>2, <1>3, <1>4, <1>5, <1>6
     DEF Moves, Calls, Server, Process, Get, PutStep, Answer

(* What a question is answered is the truth at that moment, or the         *)
(* descriptors are used up.                                                *)
LEMMA AnswersTruth ==
  ASSUME StoreInv, Told, Write, req[conn].kind \in {"all", "key", "noKey"}
  PROVE  /\ UNCHANGED db /\ state[conn] = "open"
         /\ \/ reply'[conn] = Truth(req[conn], db)
            \/ Unread(reply'[conn]) /\ UsedUp
<1>1. pc = "write" /\ state[conn] = "open" /\ UNCHANGED db
  BY DEF Write
<1>2. conn \in Client
  BY <1>1, ServingFacts DEF Serving
<1>3. assigned
  BY <1>1 DEF Told
<1>4. reply'[conn] = out
  BY <1>2 DEF Write, StoreInv, ServerInv, TypeOK
<1>5. CASE err = "none"
  <2>1. cur = req[conn]
    BY <1>1, <1>3, <1>5 DEF StoreInv, ServerInv, Faithful, TakenFor, Whole
  <2> QED
    BY <1>1, <1>4, <1>5, <2>1 DEF Told
<1>6. CASE err # "none"
  BY <1>1, <1>4, <1>6 DEF Told, PutKind
<1> QED
  BY <1>1, <1>5, <1>6

(* The database is not read or written without an error and does not clear *)
(* one.                                                                    *)
LEMMA LatchStays ==
  ASSUME TypeOK, GetAll \/ GetKey \/ GetPath \/ PutStores \/ PutNoEquals \/ Invalid,
         err' = "none"
  PROVE  err = "none"
<1>1. CASE GetAll
  BY <1>1, DbFetchAllType DEF GetAll
<1>2. CASE GetKey
  <2>1. cur.key \in Key
    BY <1>2 DEF GetKey, TypeOK, Request
  <2> QED
    BY <1>2, <2>1, DbFetchType DEF GetKey
<1>3. CASE PutStores
  BY <1>3 DEF PutStores, DbStore
<1>4. CASE GetPath \/ PutNoEquals \/ Invalid
  BY <1>4 DEF GetPath, PutNoEquals, Invalid
<1> QED
  BY <1>1, <1>2, <1>3, <1>4

LEMMA HeardStays ==
  ASSUME StoreInv, Heard, Moves
  PROVE  Heard'
<1>0. /\ state \in [Client -> {"idle", "open", "closed"}]
      /\ sent \in [Client -> {"nothing", "headers", "whole"}]
  BY DEF StoreInv, ServerInv, TypeOK
<1>1. \A c \in Client : sent'[c] # "nothing" => state'[c] # "idle"
  <2> SUFFICES ASSUME NEW c \in Client, sent'[c] # "nothing" PROVE state'[c] # "idle"
    OBVIOUS
  <2>1. CASE sent[c] # "nothing"
    BY <2>1, StepPersists DEF Persists, Heard
  <2>2. CASE sent[c] = "nothing"
    <3>1. sent' # sent
      BY <2>2
    <3>2. \E d \in Client : Connect(d) \/ Send(d) \/ Leave(d)
      BY <3>1, CallsKeep DEF Moves, vars
    <3>3. Send(c)
      BY <1>0, <2>2, <3>2 DEF Connect, Send, Leave
    <3> QED
      BY <3>3 DEF Send
  <2> QED
    BY <2>1, <2>2
<1>2. \A c \in Client : reply'[c] # NoReply => sent'[c] # "nothing"
  <2> SUFFICES ASSUME NEW c \in Client, reply'[c] # NoReply PROVE sent'[c] # "nothing"
    OBVIOUS
  <2>1. CASE reply[c] # NoReply
    BY <2>1, StepPersists DEF Persists, Heard
  <2>2. CASE reply[c] = NoReply
    <3>1. Write /\ c = conn
      BY <2>2, AnswersConn
    <3>2. sent[c] # "nothing"
      BY <3>1 DEF Write, Heard, Serving
    <3> QED
      BY <3>2, StepPersists DEF Persists
  <2> QED
    BY <2>1, <2>2
<1>3. pc' \in Serving \ {"process"} => sent'[conn'] # "nothing"
  <2> SUFFICES ASSUME pc' \in Serving \ {"process"} PROVE sent'[conn'] # "nothing"
    OBVIOUS
  <2>1. conn' = conn /\ pc \in Serving /\ (pc = "process" => sent[conn] # "nothing")
    <3>1. CASE StageDone \/ StageFails \/ Start \/ Accept \/ AcceptFails
      BY <3>1, AcceptReturnsType DEF StageDone, StageFails, Start, Accept,
         AcceptFails, StageOrder, Serving
    <3>2. CASE ProcessWhole \/ ProcessCut \/ ProcessAltered \/ ProcessRefused
      BY <3>2 DEF ProcessWhole, ProcessCut, ProcessAltered, ProcessRefused, Dispatch,
         Serving
    <3>3. CASE GetAll \/ GetKey \/ GetPath \/ PutStores \/ PutNoEquals \/ Invalid
      BY <3>3 DEF GetAll, GetKey, GetPath, PutStores, PutNoEquals, Invalid, Respond,
         Serving
    <3>4. CASE Write \/ WriteLost \/ Close \/ Free
      BY <3>4 DEF Write, WriteLost, Close, Free, Serving
    <3>5. CASE \/ Shutdown \/ Kill \/ ProcessCrashes \/ GetCrashes \/ PutCrashes
               \/ WriteSigpipe \/ FreeCrashes
      BY <3>5 DEF Shutdown, Kill, ProcessCrashes, GetCrashes, PutCrashes,
         WriteSigpipe, FreeCrashes, Dies, Serving
    <3>6. CASE UNCHANGED vars \/ \E c \in Client : Connect(c) \/ Send(c) \/ Leave(c)
      <4>1. UNCHANGED <<pc, conn>>
        BY <3>6 DEF vars, Connect, Send, Leave, serverVars
      <4>2. CASE pc # "process"
        BY <4>1, <4>2
      <4> QED
        BY <4>1, <4>2
    <3> QED
      BY <3>1, <3>2, <3>3, <3>4, <3>5, <3>6
         DEF Moves, Calls, Server, Process, Get, PutStep, Answer
  <2>2. conn \in Client /\ sent[conn] # "nothing"
    BY <2>1, ServingFacts DEF Heard
  <2> QED
    BY <2>1, <2>2, StepPersists DEF Persists
<1>4. err' = "none" => \A c \in openFds' \ {conn'} : sent'[c] # "nothing"
  <2> SUFFICES ASSUME err' = "none", NEW c \in openFds' \ {conn'}
               PROVE  sent'[c] # "nothing"
    OBVIOUS
  <2>1. c \in Client /\ sent[c] # "nothing"
    <3>0. openFds \subseteq Client
      BY DEF StoreInv, ServerInv, TypeOK
    <3>1. CASE UNCHANGED <<err, openFds, conn>>
      BY <3>0, <3>1 DEF Heard
    <3>2. CASE Accept \/ AcceptFails
      <4>1. Accept /\ err = "none" /\ conn = NoClient /\ openFds' = openFds \cup {conn'}
        BY <3>2 DEF Accept, AcceptFails, StoreInv, ServerInv, Bound, Serving
      <4> QED
        BY <3>0, <4>1, ServerAssumption DEF Heard, ServerAssumption
    <3>3. CASE GetAll \/ GetKey \/ GetPath \/ PutStores \/ PutNoEquals \/ Invalid
      <4>1. UNCHANGED <<openFds, conn>> /\ err = "none"
        BY <3>3, LatchStays DEF GetAll, GetKey, GetPath, PutStores, PutNoEquals,
           Invalid, Respond, StoreInv, ServerInv
      <4> QED
        BY <3>0, <4>1 DEF Heard
    <3>4. CASE Write \/ WriteLost
      <4>1. UNCHANGED <<openFds, conn>>
        BY <3>4 DEF Write, WriteLost
      <4>2. err = "none"
        BY <3>4 DEF Write, WriteLost, WriteErrors
      <4> QED
        BY <3>0, <4>1, <4>2 DEF Heard
    <3>5. CASE Close
      <4>1. err = "none" /\ openFds' = openFds \ {conn} /\ UNCHANGED conn
        BY <3>5 DEF Close
      <4> QED
        BY <3>0, <4>1 DEF Heard
    <3>6. CASE Free
      <4>1. pc = "free" /\ err = "none" /\ UNCHANGED openFds
        BY <3>6 DEF Free
      <4>2. sent[conn] # "nothing"
        BY <4>1 DEF Heard, Serving
      <4> QED
        BY <3>0, <4>1, <4>2 DEF Heard
    <3>7. CASE \/ Shutdown \/ Kill \/ ProcessCrashes \/ GetCrashes \/ PutCrashes
               \/ WriteSigpipe \/ FreeCrashes
      BY <3>7 DEF Shutdown, Kill, ProcessCrashes, GetCrashes, PutCrashes,
         WriteSigpipe, FreeCrashes, Dies
    <3>8. CASE \/ StageDone \/ Start
               \/ ProcessWhole \/ ProcessCut \/ ProcessAltered \/ ProcessRefused
               \/ UNCHANGED vars \/ \E d \in Client : Connect(d) \/ Send(d) \/ Leave(d)
      BY <3>1, <3>8 DEF StageDone, Start, ProcessWhole, ProcessCut, ProcessAltered,
         ProcessRefused, Dispatch, vars, Connect, Send, Leave, serverVars
    <3>9. ~StageFails
      BY DEF StageFails
    <3> QED
      BY <3>2, <3>3, <3>4, <3>5, <3>6, <3>7, <3>8, <3>9
         DEF Moves, Calls, Server, Process, Get, PutStep, Answer
  <2> QED
    BY <2>1, StepPersists DEF Persists
<1> QED
  BY <1>1, <1>2, <1>3, <1>4 DEF Heard

(* A database that does not open: all descriptors but that of the          *)
(* connection being served are left by PUTs that were sent.                *)
LEMMA ClosedIsUsedUp ==
  ASSUME StoreInv, Heard, err = "none", pc \in Serving \ {"process"}, ~CanOpen
  PROVE  UsedUp
<1>1. conn \in Client /\ sent[conn] # "nothing" /\ openFds \subseteq Client
  BY ServingFacts DEF Heard, StoreInv, ServerInv, TypeOK
<1>2. \A c \in openFds \ {conn} : sent[c] # "nothing" /\ Costly(c)
  BY DEF Heard, StoreInv, ServerInv, OpenExplained
<1>3. openFds \in SUBSET (PaidBy \cup {conn}) /\ PaidBy \in SUBSET Client
  BY <1>1, <1>2 DEF PaidBy
<1>4. IsFiniteSet(PaidBy) /\ Cardinality(PaidBy) \in Nat
  BY <1>3, FS_Subset, FS_CardinalityType, SystemAssumption DEF SystemAssumption
<1>5. IsFiniteSet(PaidBy \cup {conn})
      /\ Cardinality(PaidBy \cup {conn}) \in {Cardinality(PaidBy), Cardinality(PaidBy) + 1}
  BY <1>4, FS_AddElement
<1>6. /\ IsFiniteSet(openFds) /\ Cardinality(openFds) \in Nat
      /\ Cardinality(openFds) <= Cardinality(PaidBy \cup {conn})
  BY <1>3, <1>5, FS_Subset, FS_CardinalityType
<1> QED
  BY <1>4, <1>5, <1>6, ServerAssumption DEF CanOpen, UsedUp, PaidBy, ServerAssumption

(* What the calls of the database read when they fail: nothing. *)
LEMMA NothingRead ==
  ASSUME StoreInv, err = "none", GetAll \/ GetKey, err' # "none"
  PROVE  ~CanOpen /\ Unread(out')
<1>0. "db" \notin Faults
  BY SystemAssumption DEF SystemAssumption
<1>1. CASE GetAll
  <2>1. PICK f \in DbFetchAll : err' = f.err /\ out' = Ok(f.text)
    BY <1>1 DEF GetAll, Respond
  <2>2. CASE CanOpen
    <3>1. f = Fetched(db, "none")
      BY <1>0, <2>2 DEF DbFetchAll, DbFault
    <3> QED
      BY <2>1, <3>1 DEF Fetched
  <2>3. CASE ~CanOpen
    <3>1. f = Fetched([k \in Key |-> NoVal], "errno")
      BY <2>3 DEF DbFetchAll
    <3> QED
      BY <2>1, <2>3, <3>1 DEF Fetched, Unread
  <2> QED
    BY <2>2, <2>3
<1>2. CASE GetKey
  <2>1. PICK f \in DbFetch(cur.key) : err' = f.err /\ out' = Page(f.text)
    BY <1>2 DEF GetKey, Respond
  <2>2. CASE CanOpen
    <3>1. f = Fetched(db[cur.key], "none")
      BY <1>0, <2>2 DEF DbFetch, DbFault
    <3> QED
      BY <2>1, <3>1 DEF Fetched
  <2>3. CASE ~CanOpen
    <3>1. f = Fetched(NoText, "errno")
      BY <2>3 DEF DbFetch
    <3>2. NoText \notin NotFoundVals \cup {NoVal}
      BY BeaconsAssumption DEF BeaconsAssumption
    <3> QED
      BY <2>1, <2>3, <3>1, <3>2 DEF Fetched, Unread, Page
  <2> QED
    BY <2>2, <2>3
<1> QED
  BY <1>1, <1>2

(* The handlers answer a record with what they have just read. *)
LEMMA HandlersTell ==
  ASSUME StoreInv, Heard, Told,
         GetAll \/ GetKey \/ GetPath \/ PutStores \/ PutNoEquals \/ Invalid
  PROVE  Told'
<1>1. /\ pc \in {"get", "put", "invalid"} /\ pc' = "write"
      /\ UNCHANGED <<assigned, conn, cur, req, sent>> /\ Moves
  BY DEF GetAll, GetKey, GetPath, PutStores, PutNoEquals, Invalid, Respond, clientVars,
     Moves, Calls, Server, Get, PutStep
<1>2. ~assigned => req[conn].kind = "tooLong"
  BY <1>1 DEF StoreInv, ServerInv, Faithful, Routed
<1>3. err = "none"
  BY <1>1 DEF Told
<1>4. err' # "none" => GetAll \/ GetKey \/ (PutStores /\ ~CanOpen)
  BY <1>3, SystemAssumption DEF GetPath, PutStores, PutNoEquals, Invalid, DbStore,
     DbFault, SystemAssumption
<1>5. err' # "none" => UsedUp'
  <2>1. err' # "none" => ~CanOpen
    BY <1>3, <1>4, NothingRead
  <2> QED
    BY <1>1, <1>3, <2>1, ClosedIsUsedUp, UsedUpStays DEF Serving
<1>6. err' # "none" => Unread(out') \/ req[conn].kind \in PutKind
  <2>1. CASE PutStores
    <3>1. cur \in TakenFor(conn) /\ cur.kind = "put"
      BY <1>3, <2>1 DEF PutStores, StoreInv, ServerInv, Faithful
    <3>2. req[conn].kind \in PutKind
      BY <3>1 DEF TakenFor, Cut, Whole, PutKind
    <3> QED
      BY <3>2
  <2> QED
    BY <1>3, <1>4, <2>1, NothingRead
<1>7. /\ cur.kind # "noKey"
      /\ err' = "none" /\ cur.kind \in {"all", "key"} => out' = Truth(cur, db')
  <2>1. CASE GetAll
    <3>1. WantsAll(cur) /\ UNCHANGED db /\ (err' = "none" => out' = Ok(db))
      BY <2>1, DbFetchAllType DEF GetAll, Respond, StoreInv, ServerInv
    <3> QED
      BY <3>1 DEF WantsAll, Truth
  <2>2. CASE GetKey
    <3>1. cur.kind = "key" /\ cur.key \in Key /\ ~WantsAll(cur) /\ UNCHANGED db
      BY <2>2 DEF GetKey, StoreInv, ServerInv, TypeOK, Request
    <3>2. err' = "none" => out' = Page(db[cur.key])
      BY <2>2, <3>1, DbFetchType DEF GetKey, Respond, StoreInv, ServerInv
    <3> QED
      BY <3>1, <3>2 DEF Truth
  <2>3. CASE GetPath \/ PutStores \/ PutNoEquals
    BY <2>3 DEF GetPath, PutStores, PutNoEquals
  <2>4. CASE Invalid
    <3>1. cur.kind = "other"
      BY <2>4 DEF Invalid, StoreInv, Routed
    <3> QED
      BY <3>1
  <2> QED
    BY <2>1, <2>2, <2>3, <2>4
<1> QED
  BY <1>1, <1>2, <1>5, <1>6, <1>7 DEF Told, Truth, Unread

LEMMA ToldStays ==
  ASSUME StoreInv, Heard, Told, Moves
  PROVE  Told'
(* Steps that end where the request is over or not begun. *)
<1>1. CASE pc' \notin Serving
  BY <1>1 DEF Told, Serving
<1>2. CASE \/ Shutdown \/ Kill \/ ProcessCrashes \/ GetCrashes \/ PutCrashes
           \/ WriteSigpipe \/ FreeCrashes \/ StageDone \/ StageFails \/ Start
           \/ AcceptFails \/ Free
  <2>1. pc' \notin Serving
    BY <1>2, AcceptReturnsType DEF Shutdown, Kill, ProcessCrashes, GetCrashes,
       PutCrashes, WriteSigpipe, FreeCrashes, Dies, StageDone, StageFails, Start,
       AcceptFails, StageOrder, Free, Serving
  <2> QED
    BY <1>1, <2>1
<1>3. CASE Accept \/ ProcessWhole \/ ProcessCut \/ ProcessAltered \/ ProcessRefused
  <2>1. pc' \notin {"write", "close", "free"}
    BY <1>3, AcceptReturnsType DEF Accept, ProcessWhole, ProcessCut, ProcessAltered,
       ProcessRefused, Dispatch
  <2>2. pc' \in {"process", "get", "put", "invalid"} => err' = "none"
    BY <1>3, AcceptReturnsType DEF Accept, ProcessWhole, ProcessCut, ProcessAltered,
       ProcessRefused, Dispatch, Told
  <2> QED
    BY <2>1, <2>2 DEF Told
<1>4. CASE GetAll \/ GetKey \/ GetPath \/ PutStores \/ PutNoEquals \/ Invalid
  BY <1>4, HandlersTell
<1>5. CASE Write \/ WriteLost \/ Close
  <2>1. /\ pc \in {"write", "close"} /\ pc' \in {"close", "free"}
        /\ UNCHANGED <<assigned, conn, req>>
    BY <1>5 DEF Write, WriteLost, Close, AfterWrite, clientVars
  <2> QED
    BY <2>1 DEF Told
<1>6. CASE UNCHANGED vars \/ \E c \in Client : Connect(c) \/ Send(c) \/ Leave(c)
  <2>1. UNCHANGED <<pc, err, db, conn, assigned, cur, out>>
    BY <1>6 DEF vars, Connect, Send, Leave, serverVars
  <2>2. pc \in {"write", "close", "free"} => req'[conn] = req[conn]
    <3> SUFFICES ASSUME pc \in {"write", "close", "free"} PROVE req'[conn] = req[conn]
      OBVIOUS
    <3>1. conn \in Client /\ state[conn] # "idle"
      BY ServingFacts DEF Serving
    <3> QED
      BY <3>1, StepPersists DEF Persists
  <2>3. UsedUp => UsedUp'
    BY UsedUpStays
  <2> QED
    BY <2>1, <2>2, <2>3 DEF Told, Truth, Unread
<1> QED
  BY <1>2, <1>3, <1>4, <1>5, <1>6
     DEF Moves, Calls, Server, Process, Get, PutStep, Answer

-----------------------------------------------------------------------------
(* The users. *)

(* What a proof assumes of a state of the system. *)
Sane == StoreInv /\ ClProofs!ClientInv /\ SystemInv

LEMMA SaneTypes ==
  ASSUME Sane
  PROVE  /\ at \in [User -> ClProofs!Position]
         /\ highlight \in [User -> 0 .. 2]
         /\ error \in [User -> {"none", "errno"}]
         /\ question \in [User -> ClProofs!Request]
         /\ response \in [User -> ClProofs!Text \cup {ClProofs!Unassigned}]
         /\ line \in [User -> Client \cup {NoClient}]
         /\ state \in [Client -> {"idle", "open", "closed"}]
         /\ req \in [Client -> Request]
         /\ sent \in [Client -> {"nothing", "headers", "whole"}]
         /\ reply \in [Client -> Reply]
         /\ NoClient \notin Client
BY ServerAssumption DEF Sane, ClProofs!ClientInv, ClProofs!TypeOK, SystemInv, StoreInv,
   ServerInv, TypeOK, ServerAssumption

(* A step of one user leaves the others where they are. *)
LEMMA OthersRest ==
  ASSUME Sane, NEW u \in User, UserStep(u), NEW v \in User \ {u}
  PROVE  UNCHANGED <<at[v], error[v], question[v], response[v], line[v]>>
<1>0. /\ at \in [User -> ClProofs!Position] /\ error \in [User -> {"none", "errno"}]
      /\ question \in [User -> ClProofs!Request]
      /\ response \in [User -> ClProofs!Text \cup {ClProofs!Unassigned}]
      /\ line \in [User -> Client \cup {NoClient}]
  BY SaneTypes
<1>1. CASE UserConnects(u) \/ UserRefused(u)
  BY <1>0, <1>1 DEF UserConnects, UserRefused, Cl!SetupConnects, Cl!SetupRefused,
     Cl!AfterSetup, Cl!Move, Cl!Latch, Cl!clientData, Hang
<1>2. CASE UserWrites(u) \/ UserTypes(u)
  BY <1>0, <1>2 DEF UserWrites, UserTypes, Cl!WriteSends, Cl!WriteFails,
     Cl!WriteSigpipe, Cl!Types, Cl!Move, Cl!Latch, Cl!clientData
<1>3. CASE UserReceives(u)
  BY <1>0, <1>3 DEF UserReceives, Cl!ReceiveWhole, Cl!ReceiveEnds, Cl!ReceiveFails,
     Cl!Response, Cl!Move, Cl!Latch, Cl!clientData
<1>4. CASE UserCloses(u) \/ UserInterrupts(u)
  BY <1>0, <1>4 DEF UserCloses, UserInterrupts, Cl!Close, Cl!Interrupt, Cl!Move,
     Cl!clientData, Hang
<1>5. CASE Alone(u) \/ Menu(u)
  BY <1>0, <1>5 DEF Alone, Menu, Cl!SetupWindow, Cl!SetupSkipped, Cl!AfterSetup,
     Cl!Parse, Cl!ParseCrashes, Cl!Display, Cl!Quit, Cl!QuitCrashes, Cl!KeyUp,
     Cl!KeyDown, Cl!Enter, Cl!Move, Cl!clientData
<1> QED
  BY <1>1, <1>2, <1>3, <1>4, <1>5 DEF UserStep, UserProgram

LEMMA NotedIs ==
  ASSUME Noted, NEW v \in User
  PROVE  /\ at'[v] = "await_response"
              => since'[v] = {db'} \cup (IF at[v] = "write" THEN {db} ELSE since[v])
         /\ at'[v] \in Answering => since'[v] = since[v]
BY DEF Noted, Answering

LEMMA AsksIs ==
  /\ \A k : Asks(k) = IF k = NoKey THEN Cl!Plain("noKey") ELSE Cl!Asked(k)
  /\ \A k : Asks(k).kind \in {"key", "noKey"}
  /\ Plain("all").kind = "all"
BY SameWordsSaid DEF Asks, Plain, Asked

(* A user who does nothing keeps the question in order, whatever the       *)
(* server, the beacons and the other users do, as long as nobody else      *)
(* takes or uses the line.                                                 *)
LEMMA RestInOrder ==
  ASSUME Sane, Moves, Noted, NEW v \in User,
         UNCHANGED <<at[v], error[v], question[v], response[v], line[v]>>,
         line[v] # NoClient => \A w \in User : line'[w] = line[v] => w = v,
         line[v] # NoClient /\ at[v] \in {"prompt", "write"}
           => sent'[line[v]] = sent[line[v]]
  PROVE  InOrder(v)'
<1>1. StoreInv /\ Heard /\ Told /\ InOrder(v)
  BY DEF Sane, SystemInv
<1>2. line[v] # NoClient => line[v] \in Client /\ Persists(line[v])
  BY <1>1, SaneTypes, StepPersists
<1>3. Lines(v)'
  BY <1>1, <1>2 DEF InOrder, Lines, Persists
<1>4. line[v] # NoClient => req'[line[v]] = req[line[v]]
  BY <1>1, <1>2 DEF InOrder, Lines, Persists
<1>5. Posed(v)'
  BY <1>1, <1>4 DEF InOrder, Posed, Asks
<1>6. at'[v] \in {"await_response"} \cup Answering => since[v] \subseteq since'[v]
  BY NotedIs
<1>7. at'[v] = "await_response" => db' \in since'[v]
  BY NotedIs
<1>8. ASSUME line[v] # NoClient, at[v] \in {"await_response"} \cup Answering,
             reply'[line[v]] # NoReply
      PROVE  \/ \E records \in since'[v] :
                  reply'[line[v]] = Truth(question[v], records)
             \/ Unread(reply'[line[v]]) /\ UsedUp'
  <2>0. UsedUp => UsedUp'
    BY <1>1, UsedUpStays
  <2>1. CASE reply[line[v]] # NoReply
    BY <1>1, <1>2, <1>6, <1>8, <2>0, <2>1 DEF InOrder, Truthful, Persists
  <2>2. CASE reply[line[v]] = NoReply
    <3>1. Write /\ line[v] = conn
      BY <1>1, <1>2, <1>8, <2>2, AnswersConn
    <3>2. question[v] = req[conn] /\ req[conn].kind \in {"all", "key", "noKey"}
      BY <1>1, <1>8, <3>1 DEF InOrder, Posed, Asking
    <3>3. /\ UNCHANGED db /\ state[conn] = "open"
          /\ \/ reply'[conn] = Truth(req[conn], db)
             \/ Unread(reply'[conn]) /\ UsedUp
      BY <1>1, <3>1, <3>2, AnswersTruth
    <3>4. at[v] = "await_response"
      BY <1>1, <1>2, <1>8, <2>2, <3>1, <3>3 DEF InOrder, Truthful, Online
    <3> QED
      BY <1>7, <2>0, <3>1, <3>2, <3>3, <3>4
  <2> QED
    BY <2>1, <2>2
<1>9. ASSUME line[v] # NoClient, at[v] \in Answering
      PROVE  reply'[line[v]] # NoReply \/ state'[line[v]] # "open"
  <2>1. reply[line[v]] # NoReply \/ state[line[v]] = "closed"
    BY <1>1, <1>2, <1>9, SaneTypes DEF InOrder, Truthful, Lines, Online
  <2> QED
    BY <1>2, <1>9, <2>1 DEF Persists
<1>10. Truthful(v)'
  BY <1>7, <1>8, <1>9 DEF Truthful, Truth, Unread, Online
<1>11. Received(v)'
  <2> SUFFICES ASSUME at[v] \in Answering, error[v] = "none", response[v].part = "whole"
               PROVE  response[v].of = reply'[line[v]] /\ reply'[line[v]] # NoReply
    BY DEF Received
  <2>1. response[v].of = reply[line[v]] /\ reply[line[v]] # NoReply
    BY <1>1 DEF InOrder, Received
  <2>2. line[v] # NoClient
    BY <1>1 DEF InOrder, Lines
  <2> QED
    BY <1>2, <2>1, <2>2 DEF Persists
<1> QED
  BY <1>3, <1>5, <1>10, <1>11 DEF InOrder

(* Only the writer of a question sends on its line.                        *)
LEMMA OthersMute ==
  ASSUME Sane, NEW u \in User, UserStep(u), NEW v \in User \ {u},
         line[v] # NoClient
  PROVE  /\ \A w \in User : line'[w] = line[v] => w = v
         /\ sent'[line[v]] = sent[line[v]]
<1>0. /\ line \in [User -> Client \cup {NoClient}] /\ line[v] \in Client
      /\ sent \in [Client -> {"nothing", "headers", "whole"}]
  BY SaneTypes
<1>1. state[line[v]] # "idle" /\ \A w \in User : line[w] = line[v] => w = v
  BY DEF Sane, SystemInv, InOrder, Lines
<1>2. CASE UserConnects(u)
  <2>1. PICK c \in Client : Connect(c) /\ Hang(u, c)
    BY <1>2 DEF UserConnects
  <2>2. c # line[v] /\ UNCHANGED sent
    BY <1>1, <2>1 DEF Connect
  <2> QED
    BY <1>0, <1>1, <2>1, <2>2 DEF Hang
<1>3. CASE UserWrites(u)
  BY <1>0, <1>1, <1>3 DEF UserWrites, Send, Online, vars
<1>4. CASE UserCloses(u)
  <2>1. UNCHANGED sent
    BY <1>4 DEF UserCloses, Leave, vars
  <2> QED
    BY <1>0, <1>1, <1>4, <2>1 DEF UserCloses, Hang
<1>5. CASE UserRefused(u) \/ UserTypes(u) \/ UserReceives(u) \/ UserInterrupts(u)
             \/ Alone(u) \/ Menu(u)
  BY <1>1, <1>5 DEF UserRefused, UserTypes, UserReceives, UserInterrupts, Alone, Menu,
     Leave, vars
<1> QED
  BY <1>2, <1>3, <1>4, <1>5 DEF UserStep, UserProgram

(* The user who acts, one lemma per action of the client on the network.   *)

(* connect: nobody has used the new connection. *)
LEMMA ConnectInOrder ==
  ASSUME Sane, NEW u \in User, UserConnects(u)
  PROVE  InOrder(u)'
<1>0. /\ at \in [User -> ClProofs!Position] /\ error \in [User -> {"none", "errno"}]
      /\ question \in [User -> ClProofs!Request]
      /\ line \in [User -> Client \cup {NoClient}]
      /\ NoClient \notin Client
  BY SaneTypes
<1>1. PICK c \in Client :
        /\ Connect(c) /\ Hang(u, c)
        /\ req'[c] \in IF at[u] = "get_all" THEN {Plain("all")}
                                              ELSE {Asks(k) : k \in Typed}
  BY DEF UserConnects
<1>2. state[c] = "idle" /\ state'[c] = "open" /\ UNCHANGED sent
  BY <1>1, SaneTypes DEF Connect
<1>3. sent[c] = "nothing"
  BY <1>2 DEF Sane, SystemInv, Heard
<1>4. \A v \in User : line[v] # c
  BY <1>0, <1>2 DEF Sane, SystemInv, InOrder, Lines
<1>5. line'[u] = c /\ \A v \in User \ {u} : line'[v] = line[v]
  BY <1>0, <1>1 DEF Hang
<1>6. /\ at'[u] \in {"write", "prompt"}
      /\ at'[u] = "write" => at[u] = "get_all" /\ question'[u] = Plain("all")
      /\ at'[u] = "prompt" => at[u] = "by_key"
  BY <1>0, SameWordsSaid DEF UserConnects, Cl!SetupConnects, Cl!AfterSetup, Cl!Move
<1>7. Lines(u)'
  BY <1>0, <1>2, <1>4, <1>5, <1>6 DEF Lines, Away
<1>8. Posed(u)'
  <2>1. at'[u] = "prompt" => \E k \in Typed : req'[c] = Asks(k)
    BY <1>1, <1>6
  <2>2. at'[u] = "write" => question'[u] = req'[c] /\ question'[u].kind = "all"
    BY <1>1, <1>6, AsksIs
  <2> QED
    BY <1>2, <1>3, <1>5, <1>6, <2>1, <2>2 DEF Posed, Asks, Asking, Answering
<1>9. Truthful(u)' /\ Received(u)'
  BY <1>6 DEF Truthful, Received, Answering
<1> QED
  BY <1>7, <1>8, <1>9 DEF InOrder

(* connect fails or is skipped: an error is latched and there is no line.  *)
LEMMA RefusedInOrder ==
  ASSUME Sane, NEW u \in User, UNCHANGED line, Cl!SetupRefused(u) \/ Cl!SetupSkipped(u)
  PROVE  InOrder(u)'
<1>0. /\ at \in [User -> ClProofs!Position] /\ error \in [User -> {"none", "errno"}]
  BY SaneTypes
<1>1. /\ at[u] \in {"get_all", "by_key"} /\ at'[u] \in {"write", "prompt"}
      /\ error'[u] # "none"
  BY <1>0 DEF Cl!SetupRefused, Cl!SetupSkipped, Cl!AfterSetup, Cl!Move, Cl!Latch
<1>2. line'[u] = NoClient
  BY <1>1 DEF Sane, SystemInv, InOrder, Lines, Away
<1> QED
  BY <1>1, <1>2 DEF InOrder, Lines, Posed, Truthful, Received, Away, Answering

(* The key that is typed is the one the request was fixed for. *)
LEMMA TypesInOrder ==
  ASSUME Sane, NEW u \in User, UserTypes(u)
  PROVE  InOrder(u)'
<1>0. /\ at \in [User -> ClProofs!Position] /\ question \in [User -> ClProofs!Request]
  BY SaneTypes
<1>1. PICK k \in Typed :
        (line[u] # NoClient => req[line[u]] = Asks(k)) /\ Cl!Types(u, k)
  BY DEF UserTypes
<1>2. /\ at[u] = "prompt" /\ at'[u] = "write" /\ UNCHANGED <<error, line, vars>>
      /\ question'[u] = Asks(k)
  BY <1>0, <1>1, AsksIs DEF UserTypes, Cl!Types, Cl!Move
<1>3. Lines(u)'
  BY <1>2 DEF Sane, SystemInv, InOrder, Lines, Away, vars
<1>4. Posed(u)'
  <2>1. line[u] # NoClient => sent[line[u]] = "nothing"
    BY <1>2 DEF Sane, SystemInv, InOrder, Posed
  <2>2. question'[u].kind \in {"all", "key", "noKey"}
    BY <1>2, AsksIs
  <2> QED
    BY <1>1, <1>2, <2>1, <2>2 DEF Posed, vars
<1> QED
  BY <1>2, <1>3, <1>4 DEF InOrder, Truthful, Received, Answering

(* write: nothing has been answered before, and from here on what the      *)
(* database holds is noted.                                                *)
LEMMA WriteInOrder ==
  ASSUME Sane, Moves, Noted, NEW u \in User, UserWrites(u)
  PROVE  InOrder(u)'
<1>0. /\ at \in [User -> ClProofs!Position] /\ error \in [User -> {"none", "errno"}]
      /\ question \in [User -> ClProofs!Request]
  BY SaneTypes
<1>1. /\ at[u] = "write" /\ at'[u] \in {"await_response", "killed"}
      /\ UNCHANGED <<question, line>> /\ (error'[u] = "none" => error[u] = "none")
  BY <1>0 DEF UserWrites, Cl!WriteSends, Cl!WriteFails, Cl!WriteSigpipe, Cl!Move,
     Cl!Latch
<1>2. UNCHANGED <<state, req, reply>>
  BY DEF UserWrites, Send, vars
<1>3. Lines(u)'
  BY <1>1, <1>2 DEF Sane, SystemInv, InOrder, Lines, Away, Asking
<1>4. Posed(u)'
  BY <1>1, <1>2 DEF Sane, SystemInv, InOrder, Posed, Asking, Answering
<1>5. line[u] # NoClient => reply[line[u]] = NoReply
  BY <1>1, SaneTypes DEF Sane, SystemInv, Heard, InOrder, Posed
<1>6. Truthful(u)' /\ Received(u)'
  BY <1>1, <1>2, <1>5, NotedIs DEF Truthful, Received, Answering
<1> QED
  BY <1>3, <1>4, <1>6 DEF InOrder

(* read: what is copied to response is what the line was answered. *)
LEMMA ReceiveInOrder ==
  ASSUME Sane, Moves, Noted, NEW u \in User, UserReceives(u)
  PROVE  InOrder(u)'
<1>0. /\ at \in [User -> ClProofs!Position] /\ error \in [User -> {"none", "errno"}]
      /\ response \in [User -> ClProofs!Text \cup {ClProofs!Unassigned}]
  BY SaneTypes
<1>1. at[u] = "await_response" /\ UNCHANGED <<vars, line, question>>
  BY DEF UserReceives, Cl!ReceiveWhole, Cl!ReceiveEnds, Cl!ReceiveFails, Cl!Response,
     Cl!Move
<1>2. InOrder(u)
  BY DEF Sane, SystemInv
<1>3. /\ at'[u] \in {"await_response", "parse_response"}
      /\ error'[u] = "none" => error[u] = "none"
  BY <1>0 DEF UserReceives, Cl!ReceiveWhole, Cl!ReceiveEnds, Cl!ReceiveFails,
     Cl!Response, Cl!Move, Cl!Latch
<1>4. Lines(u)'
  BY <1>1, <1>2, <1>3 DEF InOrder, Lines, Away, Asking, vars
<1>5. Posed(u)'
  BY <1>1, <1>2, <1>3 DEF InOrder, Posed, Asking, Answering, vars
<1>6. at'[u] = "parse_response" => HasAnswer(u) \/ ~Online(u)
  BY <1>0, <1>1 DEF UserReceives, Cl!ReceiveFails
<1>7. Truthful(u)'
  <2>1. since[u] \subseteq since'[u] /\ (at'[u] = "await_response" => db' \in since'[u])
    BY <1>1, <1>3, NotedIs DEF Answering
  <2>2. line[u] # NoClient => line[u] \in Client
    BY SaneTypes
  <2>3. UsedUp => UsedUp'
    BY <1>1, UsedUpRests
  <2> QED
    BY <1>1, <1>2, <1>3, <1>6, <2>1, <2>2, <2>3
       DEF InOrder, Truthful, Online, HasAnswer, Answering, vars, Truth, Unread
<1>8. Received(u)'
  <2>1. CASE HasAnswer(u) /\ Cl!ReceiveWhole(u, reply[line[u]])
    <3>1. response'[u] = [part |-> "whole", of |-> reply[line[u]]]
      BY <1>0, <2>1 DEF Cl!ReceiveWhole, Cl!Response
    <3> QED
      BY <1>1, <2>1, <3>1 DEF HasAnswer, Received, vars
  <2>2. CASE Cl!ReceiveEnds(u, Cl!Blank)
    <3>1. response'[u].part = "nothing"
      BY <1>0, <2>2 DEF Cl!ReceiveEnds, Cl!Response, Cl!Blank
    <3> QED
      BY <3>1 DEF Received
  <2>3. CASE Cl!ReceiveFails(u)
    BY <1>0, <2>3 DEF Cl!ReceiveFails, Received, Answering
  <2> QED
    BY <2>1, <2>2, <2>3 DEF UserReceives
<1> QED
  BY <1>4, <1>5, <1>7, <1>8 DEF InOrder

(* close_ and the end of the client leave nothing to be kept. *)
LEMMA LeaveInOrder ==
  ASSUME Sane, Moves, NEW u \in User, UserCloses(u) \/ UserInterrupts(u)
  PROVE  InOrder(u)'
<1>0. /\ at \in [User -> ClProofs!Position]
      /\ line \in [User -> Client \cup {NoClient}]
  BY SaneTypes
<1>1. CASE UserCloses(u)
  <2>1. at'[u] = "await_input" /\ line'[u] = NoClient
    BY <1>0, <1>1 DEF UserCloses, Cl!Close, Cl!Move, Hang
  <2> QED
    BY <2>1 DEF InOrder, Lines, Posed, Truthful, Received, Asking, Answering
<1>2. CASE UserInterrupts(u)
  <2>1. at'[u] = "killed" /\ UNCHANGED line
    BY <1>0, <1>2 DEF UserInterrupts, Cl!Interrupt
  <2>2. line[u] # NoClient =>
          /\ state'[line[u]] # "idle"
          /\ \A v \in User : line[v] = line[u] => v = u
    BY SaneTypes, StepPersists DEF Sane, SystemInv, InOrder, Lines, Persists
  <2> QED
    BY <2>1, <2>2 DEF InOrder, Lines, Posed, Truthful, Received, Away, Asking, Answering
<1> QED
  BY <1>1, <1>2

(* The steps of the client by itself. *)
LEMMA AloneInOrder ==
  ASSUME Sane, Noted, NEW u \in User, Alone(u) \/ Menu(u)
  PROVE  InOrder(u)'
<1>0. /\ at \in [User -> ClProofs!Position] /\ error \in [User -> {"none", "errno"}]
      /\ highlight \in [User -> 0 .. 2]
  BY SaneTypes
<1>1. InOrder(u) /\ UNCHANGED <<vars, line>>
  BY DEF Sane, SystemInv, Alone, Menu
<1>2. CASE Cl!SetupSkipped(u)
  BY <1>1, <1>2, RefusedInOrder
<1>3. CASE \/ Cl!SetupWindow(u) \/ Cl!Quit(u) \/ Cl!QuitCrashes(u) \/ Cl!KeyUp(u)
           \/ Cl!KeyDown(u) \/ Cl!Enter(u)
  <2>1. Cl!Choices[highlight[u] + 1] \in {"get_all", "by_key", "quit"}
    BY <1>0 DEF Cl!Choices
  <2>2. at[u] \in Away /\ at'[u] \in Away \cup {"crashed"}
    BY <1>0, <1>3, <2>1 DEF Cl!SetupWindow, Cl!Quit, Cl!QuitCrashes, Cl!KeyUp,
       Cl!KeyDown, Cl!Enter, Cl!Move, Away
  <2>3. line'[u] = NoClient
    BY <1>1, <2>2 DEF InOrder, Lines
  <2> QED
    BY <2>2, <2>3
       DEF InOrder, Lines, Posed, Truthful, Received, Away, Asking, Answering
<1>4. CASE Cl!Parse(u) \/ Cl!Display(u)
  <2>1. /\ at[u] \in {"parse_response", "display_response"}
        /\ at'[u] \in {"display_response", "close"}
        /\ UNCHANGED <<error, question, response>>
    BY <1>0, <1>4 DEF Cl!Parse, Cl!Display, Cl!Move
  <2>2. since'[u] = since[u]
    BY <2>1, NotedIs DEF Answering
  <2>3. Lines(u)' /\ Posed(u)'
    BY <1>1, <2>1 DEF InOrder, Lines, Posed, Away, Asking, Answering, vars
  <2>4. Truthful(u)' /\ Received(u)'
    BY <1>1, <2>1, <2>2, UsedUpRests
       DEF InOrder, Truthful, Received, Answering, Online, vars, Truth, Unread
  <2> QED
    BY <2>3, <2>4 DEF InOrder
<1>5. CASE Cl!ParseCrashes(u)
  <2>1. at'[u] = "crashed" /\ at[u] = "parse_response"
    BY <1>0, <1>5 DEF Cl!ParseCrashes, Cl!Move
  <2> QED
    BY <1>1, <2>1
       DEF InOrder, Lines, Posed, Truthful, Received, Away, Asking, Answering, vars
<1> QED
  BY <1>2, <1>3, <1>4, <1>5 DEF Alone, Menu

LEMMA ActorInOrder ==
  ASSUME Sane, Moves, Noted, NEW u \in User, UserStep(u)
  PROVE  InOrder(u)'
<1>1. CASE UserConnects(u) \/ UserWrites(u) \/ UserReceives(u)
  BY <1>1, ConnectInOrder, WriteInOrder, ReceiveInOrder
<1>2. CASE UserRefused(u)
  BY <1>2, RefusedInOrder DEF UserRefused
<1>3. CASE UserTypes(u) \/ UserCloses(u) \/ UserInterrupts(u)
  BY <1>3, TypesInOrder, LeaveInOrder
<1>4. CASE Alone(u) \/ Menu(u)
  BY <1>4, AloneInOrder
<1> QED
  BY <1>1, <1>2, <1>3, <1>4 DEF UserStep, UserProgram

LEMMA LineType ==
  ASSUME Sane, [SystemNext]_systemVars
  PROVE  line' \in [User -> Client \cup {NoClient}]
<1>0. line \in [User -> Client \cup {NoClient}]
  BY SaneTypes
<1>1. ASSUME NEW u \in User, UserStep(u)
      PROVE  line' \in [User -> Client \cup {NoClient}]
  BY <1>0, <1>1 DEF UserStep, UserProgram, UserConnects, UserRefused, UserTypes,
     UserWrites, UserReceives, UserCloses, UserInterrupts, Alone, Menu, Hang
<1> QED
  BY <1>0, <1>1 DEF SystemNext, ServerStep, BeaconStep, systemVars

LEMMA NextSystemInv ==
  ASSUME Sane, [SystemNext]_systemVars
  PROVE  SystemInv'
<1>1. Moves
  BY SystemMoves
<1>2. line' \in [User -> Client \cup {NoClient}]
  BY LineType
<1>3. Heard' /\ Told'
  BY <1>1, HeardStays, ToldStays DEF Sane, SystemInv
<1>4. ASSUME NEW v \in User PROVE InOrder(v)'
  <2>0. line[v] # NoClient =>
          line[v] \in Client /\ \A w \in User : line[w] = line[v] => w = v
    BY SaneTypes DEF Sane, SystemInv, InOrder, Lines
  <2>1. CASE UNCHANGED systemVars
    <3>1. UNCHANGED <<at, error, question, response, line, since, vars>>
      BY <2>1 DEF systemVars, uiVars
    <3> QED
      BY <3>1, UsedUpRests DEF Sane, SystemInv, InOrder, Lines, Posed, Truthful, Received,
         Online, vars, Asks, Truth, Unread
  <2>2. CASE ServerStep
    <3>1. UNCHANGED <<at, error, question, response, line, sent>> /\ Noted
      BY <2>2, CallsKeep DEF ServerStep, Calls, uiVars
    <3> QED
      BY <1>1, <2>0, <3>1, RestInOrder
  <2>3. CASE BeaconStep
    <3>1. UNCHANGED <<at, error, question, response, line>> /\ Noted
      BY <2>3 DEF BeaconStep, uiVars
    <3>2. PICK c \in Client : Beacon(c) /\ (Connect(c) \/ Send(c) \/ Leave(c))
      BY <2>3 DEF BeaconStep
    <3>3. line[v] # NoClient => sent'[line[v]] = sent[line[v]]
      BY <2>0, <3>2, SaneTypes DEF Beacon, Connect, Send, Leave
    <3> QED
      BY <1>1, <2>0, <3>1, <3>3, RestInOrder
  <2>4. ASSUME NEW u \in User, UserStep(u) PROVE InOrder(v)'
    <3>1. Noted
      BY <2>4 DEF UserStep, UserProgram
    <3>2. CASE v = u
      BY <1>1, <2>4, <3>1, <3>2, ActorInOrder
    <3>3. CASE v # u
      BY <1>1, <2>4, <3>1, <3>3, OthersRest, OthersMute, RestInOrder
    <3> QED
      BY <3>2, <3>3
  <2> QED
    BY <2>1, <2>2, <2>3, <2>4 DEF SystemNext
<1> QED
  BY <1>2, <1>3, <1>4 DEF SystemInv

LEMMA InitSystemInv == SystemInit => SystemInv
<1> SUFFICES ASSUME SystemInit PROVE SystemInv
  OBVIOUS
<1>1. Heard /\ Told
  BY DEF SystemInit, Init, Heard, Told, Serving
<1>2. ASSUME NEW u \in User PROVE InOrder(u)
  BY DEF SystemInit, Cl!Init, InOrder, Lines, Posed, Truthful, Received, Away,
     Asking, Answering
<1> QED
  BY <1>1, <1>2 DEF SystemInit, SystemInv

(* Every question has a connection of its own, which carries that question *)
(* and no other; it is answered with what the database has held since the  *)
(* question was written, and what the client has read is that answer:      *)
(* through crashes and restarts of the server, clients that leave, and     *)
(* whatever the other users and the beacons send.                          *)
THEOREM SystemInvariant == SystemSpec => []SystemInv
<1>1. Sane /\ [SystemNext]_systemVars => SystemInv'
  BY NextSystemInv
<1>2. SystemSpec => []StoreInv
  BY RunsServer, StoreInvariant, PTL
<1>3. Sane <=> StoreInv /\ ClProofs!ClientInv /\ SystemInv
  BY DEF Sane
<1>4. SystemInit => SystemInv
  BY InitSystemInv
<1> QED
  BY <1>1, <1>2, <1>3, <1>4, ClientsAsProved, PTL DEF SystemSpec

(* What a user sees of a question that went well is what the database held *)
(* at some moment between its write and its answer, or nothing once PUTs   *)
(* have used up the descriptors, on every terminal that has room for the   *)
(* display.                                                                *)
THEOREM UsersSeeStore == Cl!HasDisplay => (SystemSpec => []UserSeesStore)
<1> SUFFICES ASSUME Cl!HasDisplay PROVE SystemSpec => []UserSeesStore
  OBVIOUS
<1>1. ClProofs!ClientInv /\ SystemInv => UserSeesStore
  <2> SUFFICES ASSUME ClProofs!ClientInv, SystemInv,
                      NEW u \in User, at[u] = "close", error[u] = "none"
               PROVE  \/ \E records \in since[u] :
                           shown[u] = Cl!Rendered(Truth(question[u], records))
                      \/ shown[u] = Cl!Blank /\ UsedUp
    BY DEF UserSeesStore
  <2>1. response[u].part = "whole" /\ shown[u] = ClProofs!Rendered(response[u].of)
    BY DEF ClProofs!ClientInv, ClProofs!Fresh, ClProofs!HasDisplay, Cl!HasDisplay
  <2>2. response[u].of = reply[line[u]] /\ reply[line[u]] # NoReply
    BY <2>1 DEF SystemInv, InOrder, Received, Answering
  <2>3. line[u] # NoClient
    BY DEF SystemInv, InOrder, Lines, Answering
  <2>4. \/ \E records \in since[u] : reply[line[u]] = Truth(question[u], records)
        \/ Unread(reply[line[u]]) /\ UsedUp
    BY <2>2, <2>3 DEF SystemInv, InOrder, Truthful, Answering
  <2>5. Unread(reply[line[u]]) => Cl!Rendered(reply[line[u]]) = Cl!Blank
    BY DEF Unread, Ok, Cl!Rendered, Cl!Length
  <2> QED
    BY <2>1, <2>2, <2>4, <2>5, SameWordsSaid
<1> QED
  BY <1>1, SystemInvariant, ClientsAsProved, PTL

-----------------------------------------------------------------------------
(* Without faults: who is cut off, and by what. *)

(* What a proof assumes of a state of a system without faults. *)
Calm == Sane /\ StopInv /\ CrashInv

(* A descriptor that is open besides that of the connection being served   *)
(* was left by a PUT without "=".                                          *)
LEMMA LeftIsShared ==
  ASSUME StopInv, Costs, err = "none", Cardinality(openFds) >= 2
  PROVE  Shared
<1>1. openFds \subseteq Client
  BY DEF StopInv, ServerInv, TypeOK
<1>2. PICK c \in openFds : c # conn
  <2>1. SUFFICES ASSUME openFds \in SUBSET {conn} PROVE FALSE
    OBVIOUS
  <2>2. IsFiniteSet({conn}) /\ Cardinality({conn}) = 1
    BY FS_Singleton
  <2>3. Cardinality(openFds) <= 1
    BY <2>1, <2>2, FS_Subset
  <2> QED
    BY <2>3, Counts
<1>3. sent[c] # "nothing" /\ req[c].kind \in {"noEquals", "bare"}
  BY <1>2 DEF Costs
<1> QED
  BY <1>1, <1>2, <1>3 DEF Shared, Harmful

LEMMA ClosedIsShared ==
  ASSUME Faults = {}, MaxFds > DbFds, StopInv, Costs, DbFault
  PROVE  Shared
<1>1. err = "none" /\ ~CanOpen
  BY DEF DbFault
<1>2. Cardinality(openFds) >= 2
  BY <1>1, Counts DEF CanOpen
<1> QED
  BY <1>1, <1>2, LeftIsShared

(* A request being served is one that was sent, or what is left of one     *)
(* that tells no length.                                                   *)
LEMMA ServesSent ==
  ASSUME Sane, StopInv, pc \in {"get", "put"}
  PROVE  /\ conn \in Client /\ sent[conn] # "nothing"
         /\ err = "none" /\ cur \in Request
         /\ req[conn].kind = "bare" \/ cur = req[conn]
<1>1. conn \in Client /\ sent[conn] # "nothing" /\ cur \in Request
  BY ServingFacts DEF Sane, SystemInv, Heard, Serving, StoreInv, ServerInv, TypeOK
<1>2. state[conn] = "open" /\ err = "none" /\ assigned
  BY ServingIsClean DEF StopInv, Attended, Serving, ServerInv, Faithful
<1>3. req[conn].kind = "bare" \/ cur = req[conn]
  BY <1>2 DEF StopInv, ServerInv, Faithful, TakenFor, Whole
<1> QED
  BY <1>1, <1>2, <1>3

LEMMA OverflowIsShared ==
  ASSUME Sane, StopInv, Overlong, pc = "get", Overflows(cur)
  PROVE  Shared
<1>1. /\ conn \in Client /\ sent[conn] # "nothing" /\ cur \in Request
      /\ req[conn].kind = "bare" \/ cur = req[conn]
  BY ServesSent
<1>2. CASE WantsAll(cur) /\ Cardinality(Records) > MaxListed
  BY <1>1, <1>2 DEF Shared, Harmful
<1>3. CASE \E k \in Key : db[k] \in LongVals
  BY <1>3 DEF Overlong, Shared, Harmful
<1>4. cur.kind = "key" => cur.key \in Key
  BY <1>1 DEF Request
<1> QED
  BY <1>2, <1>3, <1>4 DEF Overflows

(* What process, get, put and freeServerStruct die of. *)
LEMMA DeathIsShared ==
  ASSUME Faults = {}, MaxFds > DbFds, Sane, StopInv, Costs, Overlong,
         \/ Shutdown \/ Kill \/ ProcessCrashes \/ GetCrashes \/ PutCrashes
         \/ WriteSigpipe \/ FreeCrashes
  PROVE  Shared
<1>0. ~Kill
  BY DEF Kill
<1>1. CASE Shutdown
  BY <1>1 DEF Shutdown, Costs
<1>2. ~ProcessCrashes /\ ~WriteSigpipe
  <2>1. pc \in {"process", "write"} => state[conn] = "open"
    BY DEF StopInv, Attended, Serving
  <2>2. pc = "process" => bytes = "intact"
    BY ServingIsClean DEF StopInv, ServerInv, Latched
  <2> QED
    BY <2>1, <2>2 DEF ProcessCrashes, WriteSigpipe
<1>3. CASE GetCrashes \/ PutCrashes
  <2>1. /\ pc \in {"get", "put"}
        /\ \/ cur.kind \in {"noKey", "oneField"}
           \/ pc = "get" /\ Overflows(cur)
           \/ DbFault
    BY <1>3 DEF GetCrashes, PutCrashes
  <2>2. CASE cur.kind \in {"noKey", "oneField"}
    BY <2>1, <2>2, ServesSent DEF Shared, Harmful
  <2> QED
    BY <2>1, <2>2, OverflowIsShared, ClosedIsShared
<1>4. CASE FreeCrashes
  <2>1. pc = "free" /\ req[conn].kind = "tooLong"
    BY <1>4 DEF FreeCrashes, Sane, SystemInv, Told
  <2>2. conn \in Client /\ sent[conn] # "nothing"
    BY <2>1, ServingFacts DEF Sane, SystemInv, Heard, Serving
  <2> QED
    BY <2>1, <2>2 DEF Shared, Harmful
<1> QED
  BY <1>0, <1>1, <1>2, <1>3, <1>4

(* The database changes when db_store runs. *)
LEMMA DbSteps ==
  ASSUME StoreInv, Moves
  PROVE  \/ UNCHANGED db
         \/ /\ PutStores /\ err = "none" /\ cur.kind = "put"
            /\ cur.key \in Key /\ cur.val \in Val
            /\ db' = [db EXCEPT ![cur.key] = cur.val]
<1>1. CASE PutStores
  <2>1. cur \in Request /\ cur.kind = "put"
    BY <1>1 DEF PutStores, StoreInv, ServerInv, TypeOK
  <2>2. cur.key \in Key /\ cur.val \in Val
    BY <2>1 DEF Request
  <2> QED
    BY <1>1, <2>1, <2>2 DEF PutStores, DbStore
<1>2. CASE UNCHANGED vars \/ \E c \in Client : Connect(c) \/ Send(c) \/ Leave(c)
  BY <1>2 DEF vars, Connect, Send, Leave
<1>3. CASE \/ StageDone \/ StageFails \/ Start \/ Accept \/ AcceptFails
           \/ ProcessWhole \/ ProcessCut \/ ProcessAltered \/ ProcessRefused
           \/ GetAll \/ GetKey \/ GetPath \/ PutNoEquals \/ Invalid
           \/ Write \/ WriteLost \/ Close \/ Free
  BY <1>3 DEF StageDone, StageFails, Start, Accept, AcceptFails,
     ProcessWhole, ProcessCut, ProcessAltered, ProcessRefused, Dispatch,
     GetAll, GetKey, GetPath, PutNoEquals, Invalid, Write, WriteLost, Close, Free
<1>4. CASE \/ Shutdown \/ Kill \/ ProcessCrashes \/ GetCrashes \/ PutCrashes
           \/ WriteSigpipe \/ FreeCrashes
  BY <1>4 DEF Shutdown, Kill, ProcessCrashes, GetCrashes, PutCrashes,
     WriteSigpipe, FreeCrashes, Dies
<1> QED
  BY <1>1, <1>2, <1>3, <1>4 DEF Moves, Calls, Server, Process, Get, PutStep, Answer

(* The database only grows, one record at a time. *)
LEMMA RecordsGrow ==
  ASSUME StoreInv, IsFiniteSet(Records), Moves
  PROVE  /\ IsFiniteSet(Records') /\ Cardinality(Records) \in Nat
         /\ Cardinality(Records') \in Nat /\ Cardinality(Records) <= Cardinality(Records')
<1>1. \/ UNCHANGED db
      \/ \E k \in Key, v \in Val : db' = [db EXCEPT ![k] = v]
  BY DbSteps
<1>2. CASE UNCHANGED db
  <2>1. Records' = Records
    BY <1>2 DEF Records
  <2> QED
    BY <2>1, FS_CardinalityType
<1>3. ASSUME NEW k \in Key, NEW v \in Val, db' = [db EXCEPT ![k] = v]
      PROVE  /\ IsFiniteSet(Records') /\ Cardinality(Records) \in Nat
             /\ Cardinality(Records') \in Nat
             /\ Cardinality(Records) <= Cardinality(Records')
  <2>1. db \in [Key -> Val \cup {NoVal}] /\ NoVal \notin Val
    BY BeaconsAssumption DEF StoreInv, ServerInv, TypeOK, Db, BeaconsAssumption
  <2>2. Records' = Records \cup {k}
    BY <1>3, <2>1 DEF Records
  <2>3. IsFiniteSet(Records')
    BY <2>2, FS_AddElement
  <2> QED
    BY <2>2, <2>3, FS_Subset, FS_CardinalityType
<1> QED
  BY <1>1, <1>2, <1>3

(* What has brought a server down stays among what was sent. *)
LEMMA SharedStays ==
  ASSUME StoreInv, Heard, IsFiniteSet(Records), Moves, Shared
  PROVE  Shared'
<1>1. PICK c \in Client : sent[c] # "nothing" /\ Harmful(c)
  BY DEF Shared
<1>2. sent'[c] # "nothing" /\ req'[c] = req[c]
  BY <1>1, StepPersists DEF Persists, Heard
<1>3. Harmful(c)'
  BY <1>1, <1>2, RecordsGrow, ServerAssumption
     DEF Harmful, WantsAll, ServerAssumption
<1> QED
  BY <1>2, <1>3 DEF Shared

(* A long value in the database was sent by somebody. *)
LEMMA OverlongStays ==
  ASSUME Sane, Overlong, Moves
  PROVE  Overlong'
<1>0. StoreInv /\ Heard
  BY DEF Sane, SystemInv
<1>1. ASSUME NEW c \in Client, sent[c] # "nothing"
      PROVE  sent'[c] # "nothing" /\ req'[c] = req[c]
  BY <1>0, <1>1, StepPersists DEF Persists, Heard
<1>2. ASSUME NEW k \in Key, db'[k] \in LongVals
      PROVE  \E c \in Client : sent[c] # "nothing" /\ req[c].val \in LongVals
  <2>1. CASE db'[k] = db[k]
    BY <1>2, <2>1 DEF Overlong
  <2>2. CASE db'[k] # db[k]
    <3>1. PutStores /\ err = "none" /\ cur.kind = "put" /\ db'[k] = cur.val
      BY <1>0, <2>2, DbSteps DEF StoreInv, ServerInv, TypeOK, Db
    <3>2. pc = "put" /\ cur \in TakenFor(conn)
      BY <3>1 DEF PutStores, Sane, StoreInv, ServerInv, Faithful
    <3>3. conn \in Client /\ sent[conn] # "nothing"
      BY <1>0, <3>2, ServingFacts DEF Heard, Serving
    <3>4. req[conn].val = cur.val
      BY <3>1, <3>2 DEF TakenFor, Whole, Cut, Put, Plain
    <3> QED
      BY <1>2, <3>1, <3>3, <3>4
  <2> QED
    BY <2>1, <2>2
<1> QED
  BY <1>1, <1>2 DEF Overlong

(* Without faults an error is for want of descriptors.                     *)
LEMMA ErrorIsShared ==
  ASSUME Faults = {}, MaxFds > DbFds, Calm, Moves, err' # "none"
  PROVE  Shared'
<1>0. /\ StopInv /\ Costs /\ StoreInv /\ Heard /\ IsFiniteSet(Records)
      /\ Shared => Shared'
  BY SharedStays DEF Calm, Sane, SystemInv, CrashInv
<1>1. CASE err # "none"
  BY <1>0, <1>1 DEF Costs
<1>2. CASE AcceptFails /\ err = "none"
  <2>1. Cardinality(openFds) >= 2
    BY <1>0, <1>2, Counts DEF AcceptFails
  <2> QED
    BY <1>0, <1>2, <2>1, LeftIsShared
<1>3. CASE (GetAll \/ GetKey \/ PutStores) /\ err = "none"
  <2>1. DbFault
    BY <1>0, <1>3, NothingRead DEF PutStores, DbStore, DbFault
  <2> QED
    BY <1>0, <2>1, ClosedIsShared
<1>4. ~(WriteLost \/ StageFails)
  BY <1>0 DEF WriteLost, StopInv, Attended, Serving, StageFails
<1>5. CASE \/ StageDone \/ Start \/ Accept
           \/ ProcessWhole \/ ProcessCut \/ ProcessAltered \/ ProcessRefused
           \/ GetPath \/ PutNoEquals \/ Invalid \/ Write \/ Close \/ Free
           \/ UNCHANGED vars \/ \E c \in Client : Connect(c) \/ Send(c) \/ Leave(c)
  <2>1. err' = err
    BY <1>5 DEF StageDone, Start, Accept, ProcessWhole, ProcessCut, ProcessAltered,
       ProcessRefused, Dispatch, GetPath, PutNoEquals, Invalid, Write, Close, Free,
       vars, Connect, Send, Leave, serverVars
  <2> QED
    BY <1>1, <2>1
<1>6. ~(\/ Shutdown \/ Kill \/ ProcessCrashes \/ GetCrashes \/ PutCrashes
        \/ WriteSigpipe \/ FreeCrashes)
  BY DEF Shutdown, Kill, ProcessCrashes, GetCrashes, PutCrashes, WriteSigpipe,
     FreeCrashes, Dies
<1> QED
  BY <1>1, <1>2, <1>3, <1>4, <1>5, <1>6
     DEF Moves, Calls, Server, Process, Get, PutStep, Answer

LEMMA CostsStays ==
  ASSUME Faults = {}, MaxFds > DbFds, Calm, Moves
  PROVE  Costs'
<1>0. StopInv /\ Costs /\ StoreInv /\ Heard
  BY DEF Calm, Sane, SystemInv, CrashInv
<1>1. ~(StageFails \/ Kill)
  BY DEF StageFails, Kill
<1>2. ASSUME NEW c \in Client, sent[c] # "nothing", req[c].kind \in {"noEquals", "bare"}
      PROVE  sent'[c] # "nothing" /\ req'[c].kind \in {"noEquals", "bare"}
  BY <1>0, <1>2, StepPersists DEF Persists, Heard
<1>3. openFds \subseteq Client
  BY DEF Calm, StopInv, ServerInv, TypeOK
<1>4. err' # "none" => Shared'
  BY ErrorIsShared
(* Steps that serve no other connection and open none. *)
<1>5. ASSUME openFds' \subseteq openFds, pc' = "shutdown" => err' # "none",
             err' = "none" =>
               \A c \in openFds' :
                 \/ c = conn' /\ pc' \in Serving \ {"free"}
                 \/ sent[c] # "nothing" /\ req[c].kind \in {"noEquals", "bare"}
      PROVE  Costs'
  BY <1>2, <1>3, <1>4, <1>5 DEF Costs
<1>6. CASE StageDone \/ Start
  <2>1. /\ UNCHANGED <<err, openFds>> /\ pc \notin Serving /\ pc' # "shutdown"
    BY <1>6 DEF StageDone, Start, StageOrder, Serving
  <2> QED
    BY <1>0, <1>5, <2>1 DEF Costs
<1>7. CASE Accept
  <2>1. /\ pc = "accept" /\ err' = err /\ Head(queue) \in Client
        /\ openFds' = openFds \cup {Head(queue)}
        /\ err = "none" => pc' = "process" /\ conn' = Head(queue)
    BY <1>7, HeadTailProperties DEF Accept, Calm, StopInv, ServerInv, TypeOK
  <2>2. \A c \in openFds : err' = "none" =>
          sent[c] # "nothing" /\ req[c].kind \in {"noEquals", "bare"}
    BY <1>0, <2>1 DEF Costs, Serving
  <2> QED
    BY <1>2, <1>3, <1>4, <2>1, <2>2 DEF Costs, Serving
<1>8. CASE AcceptFails
  <2>1. err' = "errno" /\ UNCHANGED openFds
    BY <1>8 DEF AcceptFails
  <2> QED
    BY <1>5, <2>1
<1>9. CASE \/ ProcessWhole \/ ProcessCut \/ ProcessAltered \/ ProcessRefused
           \/ GetAll \/ GetKey \/ GetPath \/ PutStores \/ PutNoEquals \/ Invalid
  <2>1. /\ UNCHANGED <<openFds, conn>> /\ pc' \in Serving \ {"free"}
        /\ pc \in {"process", "get", "put", "invalid"}
    BY <1>9 DEF ProcessWhole, ProcessCut, ProcessAltered, ProcessRefused, Dispatch,
       GetAll, GetKey, GetPath, PutStores, PutNoEquals, Invalid, Respond, Serving
  <2>2. err = "none"
    BY <1>0, <2>1, ServingIsClean
  <2> QED
    BY <1>0, <1>5, <2>1, <2>2 DEF Costs, Serving
<1>10. CASE Write \/ WriteLost
  <2>1. /\ pc = "write" /\ UNCHANGED <<openFds, conn>> /\ pc' = AfterWrite
        /\ err' = "none" => err = "none"
    BY <1>10 DEF Write, WriteLost, WriteErrors
  <2>2. CASE pc' = "close"
    BY <1>0, <1>5, <2>1, <2>2 DEF Costs, Serving
  <2>3. CASE pc' = "free"
    <3>1. cur.kind = "noEquals" /\ assigned
      BY <2>1, <2>3, UnaskedIsOther
         DEF AfterWrite, Calm, StopInv, ServerInv, Faithful
    <3>2. state[conn] = "open" /\ sent[conn] # "nothing"
      BY <1>0, <2>1 DEF StopInv, Attended, Serving, Heard
    <3>3. err = "none" => req[conn].kind \in {"noEquals", "bare"}
      BY <3>1, <3>2 DEF Calm, StopInv, ServerInv, Faithful, TakenFor, Whole
    <3> QED
      BY <1>0, <1>5, <2>1, <2>3, <3>2, <3>3 DEF Costs
  <2> QED
    BY <2>1, <2>2, <2>3 DEF AfterWrite
<1>11. CASE Close
  <2>1. /\ pc' = "free" /\ err' = err /\ openFds' \subseteq openFds
        /\ err = "none" => conn \notin openFds'
    BY <1>11 DEF Close
  <2> QED
    BY <1>0, <1>5, <2>1 DEF Costs
<1>12. CASE Free
  <2>1. /\ pc = "free" /\ UNCHANGED <<err, openFds>>
        /\ pc' = "shutdown" => err # "none"
    BY <1>12 DEF Free
  <2> QED
    BY <1>0, <1>5, <2>1 DEF Costs
<1>13. CASE \/ Shutdown \/ ProcessCrashes \/ GetCrashes \/ PutCrashes
            \/ WriteSigpipe \/ FreeCrashes
  <2>1. openFds' = {} /\ pc' = "down"
    BY <1>13 DEF Shutdown, ProcessCrashes, GetCrashes, PutCrashes, WriteSigpipe,
       FreeCrashes, Dies
  <2> QED
    BY <1>5, <2>1
<1>14. CASE UNCHANGED vars \/ \E c \in Client : Connect(c) \/ Send(c) \/ Leave(c)
  <2>1. UNCHANGED <<pc, err, conn, openFds>>
    BY <1>14 DEF vars, Connect, Send, Leave, serverVars
  <2> QED
    BY <1>0, <1>5, <2>1 DEF Costs
<1> QED
  BY <1>1, <1>6, <1>7, <1>8, <1>9, <1>10, <1>11, <1>12, <1>13, <1>14
     DEF Moves, Calls, Server, Process, Get, PutStep, Answer

(* Only the end of the server cuts a client off. *)
LEMMA CutOffIsShared ==
  ASSUME Faults = {}, MaxFds > DbFds, Calm, Moves, NEW c \in Client, CutOff(c)'
  PROVE  Shared'
<1>0. StopInv /\ Sane /\ Costs /\ Overlong /\ StoreInv /\ Heard /\ IsFiniteSet(Records)
  BY DEF Calm, Sane, SystemInv, CrashInv
<1>1. Persists(c)
  BY <1>0, StepPersists
<1>2. state \in [Client -> {"idle", "open", "closed"}]
  BY SaneTypes DEF Calm
<1>3. CASE CutOff(c)
  BY <1>0, <1>3, SharedStays DEF Calm, CrashInv
<1>4. CASE ~CutOff(c)
  <2>1. state[c] # "closed" /\ state'[c] = "closed" /\ reply[c] = NoReply
    BY <1>1, <1>4 DEF CutOff, Persists
  <2>2. CASE \E d \in Client : Connect(d) \/ Send(d) \/ Leave(d)
    BY <1>2, <2>1, <2>2 DEF Connect, Send, Leave
  <2>3. CASE \/ StageDone \/ StageFails \/ Start \/ Accept \/ AcceptFails
             \/ ProcessWhole \/ ProcessCut \/ ProcessAltered \/ ProcessRefused
             \/ GetAll \/ GetKey \/ GetPath \/ PutStores \/ PutNoEquals \/ Invalid
             \/ Write \/ WriteLost \/ Close \/ Free \/ UNCHANGED vars
    <3>1. UNCHANGED state
      BY <2>3 DEF StageDone, StageFails, Start, Accept, AcceptFails,
         ProcessWhole, ProcessCut, ProcessAltered, ProcessRefused, Dispatch,
         GetAll, GetKey, GetPath, PutStores, PutNoEquals, Invalid, Respond,
         Write, WriteLost, Close, Free, clientVars, vars
    <3> QED
      BY <2>1, <3>1
  <2>4. CASE \/ Shutdown \/ Kill \/ ProcessCrashes \/ GetCrashes \/ PutCrashes
             \/ WriteSigpipe \/ FreeCrashes
    BY <1>0, <2>4, DeathIsShared, SharedStays
  <2> QED
    BY <2>2, <2>3, <2>4 DEF Moves, Calls, Server, Process, Get, PutStep, Answer
<1> QED
  BY <1>3, <1>4

(* The user whose client crashes, or is about to. *)
Stranded(u) ==
  /\ line[u] # NoClient
  /\ \/ at[u] = "crashed"
     \/ at[u] = "parse_response" /\ response[u].part # "whole"

LEMMA StrandedIsShared ==
  ASSUME Faults = {}, Calm, [SystemNext]_systemVars, NEW v \in User, Stranded(v)'
  PROVE  Shared'
<1>0. /\ at \in [User -> ClProofs!Position] /\ error \in [User -> {"none", "errno"}]
      /\ highlight \in [User -> 0 .. 2]
      /\ response \in [User -> ClProofs!Text \cup {ClProofs!Unassigned}]
      /\ line \in [User -> Client \cup {NoClient}]
      /\ state \in [Client -> {"idle", "open", "closed"}]
  BY SaneTypes DEF Calm
<1>1. Moves /\ StoreInv /\ Sane /\ Heard /\ IsFiniteSet(Records) /\ InOrder(v)
  BY SystemMoves DEF Calm, Sane, SystemInv, CrashInv
<1>2. CASE Stranded(v)
  BY <1>1, <1>2, SharedStays DEF Stranded, Calm, CrashInv
<1>3. CASE CutOff(line[v]) /\ line[v] \in Client
  BY <1>1, <1>3, SharedStays DEF Calm, CrashInv
<1>4. CASE UNCHANGED <<at[v], response[v], line[v]>>
  BY <1>2, <1>4 DEF Stranded
<1>5. CASE ServerStep \/ BeaconStep \/ UNCHANGED systemVars
  BY <1>4, <1>5 DEF ServerStep, BeaconStep, systemVars, uiVars
<1>6. ASSUME NEW u \in User \ {v}, UserStep(u) PROVE Shared'
  BY <1>1, <1>4, <1>6, OthersRest
<1>7. CASE UserStep(v)
  <2>1. CASE UserConnects(v) \/ UserRefused(v) \/ UserTypes(v) \/ UserWrites(v)
    <3>1. at'[v] \in {"write", "prompt", "await_response", "killed"}
      BY <1>0, <2>1 DEF UserConnects, UserRefused, UserTypes, UserWrites,
         Cl!SetupConnects, Cl!SetupRefused, Cl!AfterSetup, Cl!Types, Cl!WriteSends,
         Cl!WriteFails, Cl!WriteSigpipe, Cl!Move
    <3> QED
      BY <3>1 DEF Stranded
  <2>2. CASE UserReceives(v)
    <3>1. CASE HasAnswer(v) /\ Cl!ReceiveWhole(v, reply[line[v]])
      <4>1. at'[v] = "parse_response" /\ response'[v].part = "whole"
        BY <1>0, <3>1 DEF Cl!ReceiveWhole, Cl!Response, Cl!Move
      <4> QED
        BY <4>1 DEF Stranded
    <3>2. CASE ~HasAnswer(v) /\ ~Online(v)
      <4>1. line'[v] = line[v]
        BY <2>2 DEF UserReceives
      <4>2. line[v] \in Client
        BY <1>0, <4>1 DEF Stranded
      <4>3. CutOff(line[v])
        BY <1>0, <1>1, <3>2, <4>2, SaneTypes
           DEF HasAnswer, Online, CutOff, InOrder, Lines
      <4> QED
        BY <1>3, <4>2, <4>3
    <3> QED
      BY <2>2, <3>1, <3>2 DEF UserReceives
  <2>3. CASE UserCloses(v) \/ UserInterrupts(v)
    <3>1. at'[v] \in {"await_input", "killed"}
      BY <1>0, <2>3 DEF UserCloses, UserInterrupts, Cl!Close, Cl!Interrupt, Cl!Move
    <3> QED
      BY <3>1 DEF Stranded
  <2>4. CASE Cl!ParseCrashes(v) /\ UNCHANGED line
    <3>1. at[v] = "parse_response" /\ response[v].part # "whole"
      BY <2>4 DEF Cl!ParseCrashes, Cl!Move
    <3> QED
      BY <1>2, <2>4, <3>1 DEF Stranded
  <2>5. CASE Cl!QuitCrashes(v) /\ UNCHANGED line
    <3>1. line'[v] = NoClient
      BY <1>1, <2>5 DEF Cl!QuitCrashes, Cl!Move, InOrder, Lines, Away
    <3> QED
      BY <3>1 DEF Stranded
  <2>6. CASE \/ Cl!SetupWindow(v) \/ Cl!SetupSkipped(v) \/ Cl!Parse(v) \/ Cl!Display(v)
             \/ Cl!Quit(v) \/ Cl!KeyUp(v) \/ Cl!KeyDown(v) \/ Cl!Enter(v)
    <3>1. Cl!Choices[highlight[v] + 1] \in {"get_all", "by_key", "quit"}
      BY <1>0 DEF Cl!Choices
    <3>2. at'[v] \notin {"crashed", "parse_response"}
      BY <1>0, <2>6, <3>1 DEF Cl!SetupWindow, Cl!SetupSkipped, Cl!AfterSetup, Cl!Parse,
         Cl!Display, Cl!Quit, Cl!KeyUp, Cl!KeyDown, Cl!Enter, Cl!Move
    <3> QED
      BY <3>2 DEF Stranded
  <2> QED
    BY <1>7, <2>1, <2>2, <2>3, <2>4, <2>5, <2>6
       DEF UserStep, UserProgram, Alone, Menu
<1> QED
  BY <1>5, <1>6, <1>7 DEF SystemNext

LEMMA NextCrashInv ==
  ASSUME Faults = {}, MaxFds > DbFds, Calm, [SystemNext]_systemVars
  PROVE  CrashInv'
<1>1. Moves
  BY SystemMoves
<1>2. Costs' /\ Overlong' /\ IsFiniteSet(Records')
  BY <1>1, CostsStays, OverlongStays, RecordsGrow DEF Calm, Sane, CrashInv
<1>3. \A c \in Client : CutOff(c)' => Shared'
  BY <1>1, CutOffIsShared
<1>4. \A u \in User : Stranded(u)' => Shared'
  BY StrandedIsShared
<1> QED
  BY <1>2, <1>3, <1>4 DEF CrashInv, Stranded

LEMMA InitCrashInv == SystemInit => CrashInv
<1> SUFFICES ASSUME SystemInit PROVE CrashInv
  OBVIOUS
<1>1. Records = {}
  BY DEF SystemInit, Init, Records
<1>2. Overlong
  BY BeaconsAssumption, ServerAssumption
     DEF SystemInit, Init, Overlong, BeaconsAssumption, ServerAssumption
<1> QED
  BY <1>1, <1>2, FS_EmptySet DEF SystemInit, Init, Cl!Init, CrashInv, Costs, CutOff

(* Nothing but what a client sent brings the server down: without faults   *)
(* around it, a connection that ends without an answer, an error that is   *)
(* latched and a descriptor that stays open go back to a request that the  *)
(* server cannot digest, to a record that does not fit the buffers of its  *)
(* GET, or to a PUT without "=".  One connection at least must find the    *)
(* descriptors for itself and the database.                                *)
THEOREM CrashInvariant == Faults = {} /\ MaxFds > DbFds => (SystemSpec => []CrashInv)
<1> SUFFICES ASSUME Faults = {}, MaxFds > DbFds PROVE SystemSpec => []CrashInv
  OBVIOUS
<1>1. Calm /\ [SystemNext]_systemVars => CrashInv'
  BY NextCrashInv
<1>2. Init => StopInv
  BY InitStopInv
<1>3. StopInv /\ [Next]_vars => StopInv'
  BY NextStopInv
<1>4. SystemSpec => []StoreInv
  BY RunsServer, StoreInvariant, PTL
<1>5. SystemSpec => []StopInv
  BY <1>2, <1>3, RunsServer, PTL DEF Spec
<1>6. Calm <=> StoreInv /\ ClProofs!ClientInv /\ SystemInv /\ StopInv /\ CrashInv
  BY DEF Calm, Sane
<1> QED
  BY <1>1, <1>4, <1>5, <1>6, InitCrashInv, SystemInvariant, ClientsAsProved, PTL
     DEF SystemSpec

(* The client of a user who was connected only crashes on its answer when  *)
(* somebody has sent such a request.                                       *)
THEOREM CrashesAreShared ==
  Faults = {} /\ MaxFds > DbFds => (SystemSpec => []CrashIsShared)
<1>1. CrashInv => CrashIsShared
  BY DEF CrashInv, CrashIsShared
<1> QED
  BY <1>1, CrashInvariant, PTL

=============================================================================
