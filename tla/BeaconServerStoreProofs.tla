----------------------- MODULE BeaconServerStoreProofs ------------------------
(***************************************************************************)
(* The server implements BeaconStore: proof for every set of connections,  *)
(* keys and values, every request, and everything that may go wrong around *)
(* the server.                                                             *)
(***************************************************************************)
EXTENDS BeaconServerStore, BeaconServerProofs

LEMMA InQueue ==
  ASSUME TypeOK, NEW i \in 1 .. Len(queue)
  PROVE  queue[i] \in Client
BY ElementOfSeq DEF TypeOK

LEMMA InitStoreInv == Init => StoreInv
<1> SUFFICES ASSUME Init PROVE StoreInv
  OBVIOUS
<1>1. 1 .. Len(queue) = {}
  BY DEF Init
<1>2. Distinct
  BY <1>1 DEF Init, Distinct
<1>3. Routed
  BY DEF Init, Routed
<1> QED
  BY <1>2, <1>3, InitServerInv DEF StoreInv

-----------------------------------------------------------------------------
(* StoreInv is inductive; ServerInv' comes from NextServerInv. *)

StoreParts == Distinct /\ Routed

LEMMA DiesParts ==
  ASSUME StoreInv, Dies
  PROVE  StoreParts'
<1>1. 1 .. Len(queue') = {}
  BY DEF Dies
<1>2. NoClient \notin Client
  BY ServerAssumption DEF ServerAssumption
<1>3. \A c \in Client : state'[c] = "idle" => state[c] = "idle"
  BY DEF StoreInv, ServerInv, TypeOK, Dies
<1>4. Distinct'
  BY <1>1, <1>2, <1>3 DEF StoreInv, Distinct, Dies
<1> QED
  BY <1>4 DEF StoreParts, Dies, Routed

(* Steps that leave the connections and the one that is served alone. *)
LEMMA QuietDistinct ==
  ASSUME StoreInv, UNCHANGED <<queue, conn, reply>>,
         \A c \in Client : state'[c] = "idle" => state[c] = "idle",
         conn # NoClient /\ pc \in {"close", "free"} => pc' \in {"close", "free"}
  PROVE  Distinct'
<1>1. NoClient \notin Client
  BY ServerAssumption DEF ServerAssumption
<1> QED
  BY <1>1 DEF StoreInv, Distinct

LEMMA IdleParts ==
  ASSUME StoreInv, StageDone \/ StageFails \/ Start \/ AcceptFails
  PROVE  StoreParts'
<1>1. /\ UNCHANGED <<queue, conn, reply, state>>
      /\ pc \notin Serving /\ pc' \notin Serving
  BY AcceptReturnsType DEF StageDone, StageFails, Start, AcceptFails, StageOrder,
     Stage, Serving, clientVars
<1>2. Distinct'
  BY <1>1, QuietDistinct DEF Serving
<1> QED
  BY <1>1, <1>2 DEF StoreParts, Routed, Serving

LEMMA SignalParts ==
  ASSUME StoreInv, Signal
  PROVE  StoreParts'
<1>1. /\ UNCHANGED <<queue, conn, reply, state, assigned, cur, out, req>>
      /\ \/ pc' = pc
         \/ pc = "accept" /\ pc' \in {"accept", "shutdown"}
  BY AcceptReturnsType DEF Signal, clientVars
<1>2. Distinct'
  BY <1>1, QuietDistinct
<1> QED
  BY <1>1, <1>2 DEF StoreParts, StoreInv, Routed

LEMMA AcceptParts ==
  ASSUME StoreInv, Accept
  PROVE  StoreParts'
<1>1. /\ pc = "accept" /\ conn = NoClient /\ ~assigned
      /\ UNCHANGED <<assigned, err, reply, state>>
      /\ queue # << >> /\ queue' = Tail(queue)
  BY DEF Accept, StoreInv, ServerInv, Bound, Serving, clientVars
<1>2. queue \in Seq(Client)
  BY DEF StoreInv, ServerInv, TypeOK
<1>3. /\ Head(queue) \in Client /\ Head(queue) = queue[1]
      /\ Len(queue) \in Nat \ {0}
      /\ Len(queue') = Len(queue) - 1
      /\ \A i \in 1 .. Len(queue') : queue'[i] = queue[i + 1]
  BY <1>1, <1>2, HeadTailProperties, LenProperties, EmptySeq
<1>4. \/ pc' = "process" /\ err = "none" /\ conn' = Head(queue)
      \/ pc' \in {"accept", "shutdown"} /\ err # "none" /\ conn' = conn
  BY AcceptReturnsType DEF Accept
<1>5. NoClient \notin Client
  BY ServerAssumption DEF ServerAssumption
<1>6. \A i \in 1 .. Len(queue') :
        /\ i + 1 \in 1 .. Len(queue) /\ i + 1 # 1
        /\ queue'[i] = queue[i + 1] /\ queue[i + 1] # queue[1]
        /\ reply[queue[i + 1]] = NoReply /\ queue[i + 1] \in Client
  <2> SUFFICES ASSUME NEW i \in 1 .. Len(queue')
               PROVE  /\ i + 1 \in 1 .. Len(queue) /\ i + 1 # 1
                      /\ queue'[i] = queue[i + 1] /\ queue[i + 1] # queue[1]
                      /\ reply[queue[i + 1]] = NoReply /\ queue[i + 1] \in Client
    OBVIOUS
  <2>1. i + 1 \in 1 .. Len(queue) /\ i + 1 # 1 /\ 1 \in 1 .. Len(queue)
    BY <1>3
  <2> QED
    BY <1>3, <2>1, InQueue DEF StoreInv, ServerInv, Distinct
<1>7. \A i, j \in 1 .. Len(queue') : queue'[i] = queue'[j] => i = j
  <2> SUFFICES ASSUME NEW i \in 1 .. Len(queue'), NEW j \in 1 .. Len(queue'),
                      queue'[i] = queue'[j]
               PROVE  i = j
    OBVIOUS
  <2>1. i + 1 = j + 1
    BY <1>6 DEF StoreInv, Distinct
  <2> QED
    BY <1>3, <2>1
<1>8. reply[Head(queue)] = NoReply
  BY <1>3 DEF StoreInv, Distinct
<1>9. Distinct'
  BY <1>1, <1>3, <1>4, <1>5, <1>6, <1>7, <1>8 DEF StoreInv, Distinct
<1>10. Routed'
  BY <1>1, <1>4 DEF Routed
<1> QED
  BY <1>9, <1>10 DEF StoreParts

LEMMA ServingFacts ==
  ASSUME StoreInv, pc \in Serving
  PROVE  conn \in Client /\ conn # NoClient /\ req[conn] \in Request
         /\ state[conn] \in {"open", "closed"}
<1>1. NoClient \notin Client
  BY ServerAssumption DEF ServerAssumption
<1> QED
  BY <1>1 DEF StoreInv, ServerInv, Bound, TypeOK

LEMMA DispatchParts ==
  ASSUME StoreInv, pc = "process", NEW r, Dispatch(r),
         r.kind \notin {"bare", "tooLong"}
  PROVE  StoreParts'
<1>1. /\ UNCHANGED <<err, queue, conn, reply, state>> /\ cur' = r /\ assigned'
      /\ pc' \in {"get", "put", "invalid"}
      /\ pc' = "get" => r.kind \notin PutKind \cup {"other"}
      /\ pc' = "put" => r.kind \in PutKind
      /\ pc' = "invalid" => r.kind = "other"
  BY DEF Dispatch, clientVars
<1>2. Distinct'
  BY <1>1, QuietDistinct
<1>3. Routed'
  BY <1>1 DEF Routed, PutKind
<1> QED
  BY <1>2, <1>3 DEF StoreParts

LEMMA ProcessParts ==
  ASSUME StoreInv, Process \/ ReadReset
  PROVE  StoreParts'
<1>0. pc = "process" => conn \in Client /\ req[conn] \in Request
  BY ServingFacts DEF Serving
<1>1. CASE ProcessWhole
  <2>1. Whole(req[conn]).kind \notin {"bare", "tooLong"}
    BY <1>1 DEF ProcessWhole, Whole, Put
  <2> QED
    BY <1>1, <2>1, DispatchParts DEF ProcessWhole
<1>2. CASE ProcessCut
  <2>1. \A r \in Cut(req[conn]) : r.kind \in {"noEquals", "oneField", "put"}
    BY DEF Cut, Plain, Put
  <2> QED
    BY <1>2, <2>1, DispatchParts DEF ProcessCut
<1>3. CASE ProcessAltered
  BY <1>3, DispatchParts DEF ProcessAltered, Parsed
<1>4. CASE ProcessRefused
  <2>1. /\ UNCHANGED <<err, queue, conn, reply, state, assigned, cur, req>>
        /\ pc = "process" /\ pc' = "invalid" /\ req[conn].kind = "tooLong"
    BY <1>4 DEF ProcessRefused, clientVars
  <2>2. Distinct'
    BY <2>1, QuietDistinct
  <2>3. Routed'
    BY <2>1, UnaskedIsOther DEF StoreInv, ServerInv, Faithful, Routed
  <2> QED
    BY <2>2, <2>3 DEF StoreParts
<1>5. CASE ProcessCrashes
  BY <1>5, DiesParts DEF ProcessCrashes
<1>6. CASE ReadReset
  <2>1. /\ UNCHANGED <<queue, conn, reply, state, assigned, pc>>
        /\ state[conn] = "closed" /\ pc = "process"
    BY <1>6 DEF ReadReset, clientVars
  <2>2. Distinct'
    BY <2>1, QuietDistinct
  <2> QED
    BY <2>1, <2>2 DEF StoreParts, StoreInv, Routed
<1> QED
  BY <1>1, <1>2, <1>3, <1>4, <1>5, <1>6 DEF Process

LEMMA RespondParts ==
  ASSUME StoreInv, pc \in {"get", "put", "invalid"}, NEW answer, Respond(answer),
         answer # NoReply
  PROVE  StoreParts'
<1>1. /\ UNCHANGED <<queue, conn, reply, state>> /\ pc' = "write" /\ out' = answer
  BY DEF Respond, clientVars
<1>2. Distinct'
  BY <1>1, QuietDistinct
<1> QED
  BY <1>1, <1>2 DEF StoreParts, StoreInv, Routed, Serving

LEMMA AnswersAreReplies ==
  /\ \A t : Ok(t) # NoReply /\ Page(t) # NoReply
  /\ \A s \in {"welcome", "complete", "400", "404"} : Says(s) # NoReply
<1>1. /\ NoReply.status = "none"
      /\ \A t : Ok(t).status = "200"
      /\ \A s : Says(s).status = s
  BY DEF NoReply, Says, Ok
<1> QED
  BY <1>1 DEF Page

LEMMA HandlerParts ==
  ASSUME StoreInv, Get \/ PutStep \/ Invalid
  PROVE  StoreParts'
<1>1. CASE GetAll \/ GetKey \/ GetPath
  BY <1>1, AnswersAreReplies, RespondParts DEF GetAll, GetKey, GetPath
<1>2. CASE PutStores \/ PutNoEquals \/ Invalid
  BY <1>2, AnswersAreReplies, RespondParts DEF PutStores, PutNoEquals, Invalid
<1>3. CASE GetCrashes \/ PutCrashes
  BY <1>3, DiesParts DEF GetCrashes, PutCrashes
<1> QED
  BY <1>1, <1>2, <1>3 DEF Get, PutStep

LEMMA AnswerParts ==
  ASSUME StoreInv, Answer
  PROVE  StoreParts'
<1>1. CASE Write
  <2>1. /\ UNCHANGED <<queue, conn, state>> /\ pc = "write"
        /\ pc' \in {"close", "free"} /\ reply' = [reply EXCEPT ![conn] = out]
    BY <1>1 DEF Write, AfterWrite
  <2>2. conn \in Client /\ state[conn] # "idle"
    BY <2>1, ServingFacts DEF Serving
  <2>3. \A c \in Client \ {conn} : reply'[c] = reply[c]
    BY <2>1 DEF StoreInv, ServerInv, TypeOK
  <2>4. \A i \in 1 .. Len(queue) : queue[i] \in Client \ {conn}
    BY InQueue DEF StoreInv, ServerInv, Distinct
  <2>5. Distinct'
    BY <2>1, <2>2, <2>3, <2>4 DEF StoreInv, Distinct
  <2> QED
    BY <2>1, <2>5 DEF StoreParts, Routed
<1>2. CASE WriteLost \/ Close
  <2>1. /\ UNCHANGED <<queue, conn, reply, state>> /\ pc' \in {"close", "free"}
    BY <1>2 DEF WriteLost, Close, AfterWrite, clientVars
  <2>2. Distinct'
    BY <2>1, QuietDistinct
  <2> QED
    BY <2>1, <2>2 DEF StoreParts, Routed
<1>3. CASE Free
  <2>1. /\ UNCHANGED <<queue, reply, state>> /\ conn' = NoClient
        /\ pc' \in {"accept", "shutdown"}
    BY <1>3 DEF Free, clientVars
  <2>2. NoClient \notin Client
    BY ServerAssumption DEF ServerAssumption
  <2>3. \A i \in 1 .. Len(queue) : queue[i] # NoClient
    BY <2>2, InQueue DEF StoreInv, ServerInv
  <2> QED
    BY <2>1, <2>2, <2>3 DEF StoreInv, Distinct, StoreParts, Routed, Serving
<1>4. CASE WriteSigpipe \/ FreeCrashes
  BY <1>4, DiesParts DEF WriteSigpipe, FreeCrashes
<1> QED
  BY <1>1, <1>2, <1>3, <1>4 DEF Answer

LEMMA ConnectFacts ==
  ASSUME StoreInv, NEW c \in Client, Connect(c)
  PROVE  /\ state[c] = "idle" /\ state'[c] = "open" /\ reply[c] = NoReply
         /\ \A d \in Client \ {c} : state'[d] = state[d] /\ req'[d] = req[d]
         /\ c # conn
         /\ Len(queue) \in Nat /\ Len(queue') = Len(queue) + 1
         /\ queue'[Len(queue) + 1] = c
         /\ \A i \in 1 .. Len(queue) :
              queue'[i] = queue[i] /\ queue[i] \in Client /\ queue[i] # c
<1>1. queue \in Seq(Client) /\ queue' = Append(queue, c)
      /\ state \in [Client -> {"idle", "open", "closed"}] /\ req \in [Client -> Request]
  BY DEF Connect, StoreInv, ServerInv, TypeOK
<1>2. /\ Len(queue) \in Nat /\ Len(queue') = Len(queue) + 1
      /\ queue'[Len(queue) + 1] = c
      /\ \A i \in 1 .. Len(queue) : queue'[i] = queue[i]
  BY <1>1, AppendProperties, LenProperties
<1>3. state[c] = "idle" /\ state'[c] = "open" /\ reply[c] = NoReply
  BY <1>1 DEF Connect, StoreInv, Distinct
<1>4. \A d \in Client \ {c} : state'[d] = state[d] /\ req'[d] = req[d]
  BY <1>1 DEF Connect
<1>5. c # conn
  BY <1>3, ServerAssumption DEF StoreInv, ServerInv, Bound, ServerAssumption
<1>6. \A i \in 1 .. Len(queue) : queue[i] \in Client /\ queue[i] # c
  BY <1>3, InQueue DEF StoreInv, ServerInv, Bound
<1> QED
  BY <1>2, <1>3, <1>4, <1>5, <1>6

LEMMA ClientParts ==
  ASSUME StoreInv, NEW c \in Client, Connect(c) \/ Send(c) \/ Leave(c)
  PROVE  StoreParts'
<1>1. CASE Connect(c)
  <2>1. UNCHANGED <<pc, err, conn, reply, assigned, cur, out>>
    BY <1>1 DEF Connect
  <2>2. \A i \in 1 .. Len(queue') : i = Len(queue) + 1 \/ i \in 1 .. Len(queue)
    BY <1>1, ConnectFacts
  <2>3. \A i, j \in 1 .. Len(queue') : queue'[i] = queue'[j] => i = j
    BY <1>1, <2>2, ConnectFacts DEF StoreInv, Distinct
  <2>4. \A i \in 1 .. Len(queue') : queue'[i] # conn /\ reply[queue'[i]] = NoReply
    BY <1>1, <2>2, ConnectFacts DEF StoreInv, Distinct
  <2>5. Distinct'
    BY <1>1, <2>1, <2>3, <2>4, ConnectFacts DEF StoreInv, Distinct
  <2>6. pc \in Serving => UNCHANGED req[conn]
    BY <1>1, <2>1, ConnectFacts, ServingFacts
  <2>7. Routed'
    BY <2>1, <2>6 DEF StoreInv, Routed, Serving
  <2> QED
    BY <2>5, <2>7 DEF StoreParts
<1>2. CASE Send(c) \/ Leave(c)
  <2>1. /\ UNCHANGED <<pc, err, queue, conn, reply, assigned, cur, out, req>>
        /\ \A d \in Client : state'[d] = state[d] \/ state'[d] = "closed"
    BY <1>2 DEF Send, Leave, serverVars, StoreInv, ServerInv, TypeOK
  <2>2. Distinct'
    BY <2>1, QuietDistinct
  <2> QED
    BY <2>1, <2>2 DEF StoreParts, StoreInv, Routed
<1> QED
  BY <1>1, <1>2

LEMMA NextStoreInv == StoreInv /\ [Next]_vars => StoreInv'
<1> SUFFICES ASSUME StoreInv, [Next]_vars PROVE StoreInv'
  OBVIOUS
<1>1. ServerInv'
  BY NextServerInv DEF StoreInv
<1>2. StoreParts'
  <2>1. CASE UNCHANGED vars
    BY <2>1 DEF vars, StoreParts, StoreInv, Distinct, Routed
  <2>2. CASE Server
    BY <2>2, DiesParts, IdleParts, AcceptParts, ProcessParts, HandlerParts, AnswerParts
       DEF Server, Shutdown
  <2>3. CASE Environment
    BY <2>3, DiesParts, IdleParts, SignalParts, ProcessParts, ClientParts
       DEF Environment, Kill
  <2> QED
    BY <2>1, <2>2, <2>3 DEF Next
<1> QED
  BY <1>1, <1>2 DEF StoreInv, StoreParts

-----------------------------------------------------------------------------
(* Every step of the server is a step of Store, or none. *)

(* Both modules speak the language of Beacons. *)
LEMMA SameWords ==
  /\ Store!NoReply = NoReply
  /\ \A s : Store!Says(s) = Says(s)
  /\ \A t : Store!Ok(t) = Ok(t) /\ Store!Page(t) = Page(t)
  /\ \A r : Store!WantsAll(r) = WantsAll(r) /\ Store!Whole(r) = Whole(r)
  /\ \A r : Store!Cut(r) = Cut(r)
  /\ Store!Reply = Reply
<1>1. \A s : Store!Says(s) = Says(s)
  BY DEF Store!Says, Says
<1>2. \A t : Store!Ok(t) = Ok(t)
  BY DEF Store!Ok, Ok
<1>3. \A k, v : Store!Put(k, v) = Put(k, v)
  BY DEF Store!Put, Put
<1>4. \A kind : Store!Plain(kind) = Plain(kind)
  BY DEF Store!Plain, Plain
<1>5. \A t : Store!Page(t) = Page(t)
  BY <1>1, <1>2 DEF Store!Page, Page
<1>6. \A r : Store!WantsAll(r) = WantsAll(r)
  BY DEF Store!WantsAll, WantsAll
<1>7. \A r : Store!Whole(r) = Whole(r)
  BY <1>3 DEF Store!Whole, Whole
<1>8. \A r : Store!Cut(r) = Cut(r)
  BY <1>3, <1>4 DEF Store!Cut, Cut
<1> QED
  BY <1>1, <1>2, <1>5, <1>6, <1>7, <1>8
     DEF Store!NoReply, NoReply, Store!Reply, Reply, Store!Db, Db

(* Nothing that BeaconStore knows of has changed, but an error may have    *)
(* been latched.                                                           *)
LEMMA NoStep ==
  ASSUME UNCHANGED <<db, req>>, err # "none" => err' # "none",
         \A c \in Client : /\ PhaseOf(c)' = PhaseOf(c)
                          /\ AnswerOf(c)' = AnswerOf(c)
                          /\ (state'[c] = "closed") = (state[c] = "closed")
  PROVE  Store!Next \/ UNCHANGED Store!storeVars
<1>1. CASE (err' # "none") = (err # "none")
  BY <1>1 DEF Store!storeVars
<1>2. CASE err' # "none"
  <2>1. Store!Break
    BY <1>2 DEF Store!Break
  <2> QED
    BY <2>1 DEF Store!Next
<1> QED
  BY <1>1, <1>2

(* The server drops the requests of lost. *)
LEMMA LoseStep ==
  ASSUME NEW lost, UNCHANGED <<db, req>>,
         \A c \in lost : PhaseOf(c) \in {"asked", "applied"},
         \A c \in Client :
           /\ PhaseOf(c)' = IF c \in lost THEN "over" ELSE PhaseOf(c)
           /\ AnswerOf(c)' = IF c \in lost THEN NoReply ELSE AnswerOf(c),
         lost \subseteq Client
  PROVE  Store!Lose(lost)
<1>1. \A c \in lost : [d \in Client |-> PhaseOf(d)][c] \in {"asked", "applied"}
  OBVIOUS
<1>2. [c \in Client |-> PhaseOf(c)]'
        = [c \in Client |-> IF c \in lost THEN "over"
                                         ELSE [d \in Client |-> PhaseOf(d)][c]]
  OBVIOUS
<1>3. [c \in Client |-> AnswerOf(c)]'
        = [c \in Client |-> IF c \in lost THEN NoReply
                                         ELSE [d \in Client |-> AnswerOf(d)][c]]
  OBVIOUS
<1> QED
  BY <1>1, <1>2, <1>3, SameWords DEF Store!Lose

LEMMA DropStep ==
  ASSUME NEW c \in Client, UNCHANGED <<db, req, err>>, PhaseOf(c) = "asked",
         AnswerOf(c) = NoReply,
         \A d \in Client :
           /\ PhaseOf(d)' = IF d = c THEN "over" ELSE PhaseOf(d)
           /\ AnswerOf(d)' = AnswerOf(d)
           /\ (state'[d] = "closed") = (state[d] = "closed")
  PROVE  Store!Next
<1>1. Store!Lose({c})
  BY LoseStep
<1>2. [d \in Client |-> state[d] = "closed"]' = [d \in Client |-> state[d] = "closed"]
  OBVIOUS
<1> QED
  BY <1>1, <1>2 DEF Store!Next, Store!Drop

LEMMA CrashStep ==
  ASSUME StoreInv, Dies
  PROVE  Store!Next
<1>1. 1 .. Len(queue') = {} /\ NoClient \notin Client
  BY ServerAssumption DEF Dies, ServerAssumption
<1>2. state \in [Client -> {"idle", "open", "closed"}]
  BY DEF StoreInv, ServerInv, TypeOK
<1>3. /\ UNCHANGED <<db, req, reply>> /\ conn' = NoClient
      /\ state' = [c \in Client |-> IF state[c] = "open" THEN "closed" ELSE state[c]]
  BY DEF Dies
<1>4. \A c \in Client :
        /\ state'[c] = "idle" <=> state[c] = "idle"
        /\ (state'[c] = "closed") = (state[c] # "idle")
  BY <1>2, <1>3
<1>5. \A c \in Client : state[c] = "idle" => reply[c] = NoReply
  BY DEF StoreInv, Distinct
<1> DEFINE lost == {c \in Client : PhaseOf(c) \in {"asked", "applied"}}
<1>6. \A c \in Client :
        PhaseOf(c)' = IF state[c] = "idle" THEN "idle"
                      ELSE IF reply[c] # NoReply THEN "answered" ELSE "over"
  BY <1>1, <1>3, <1>4, <1>5 DEF PhaseOf, Decided, Pending
<1>7. \A c \in Client : PhaseOf(c)' = IF c \in lost THEN "over" ELSE PhaseOf(c)
  BY <1>5, <1>6 DEF PhaseOf
<1>8. \A c \in Client : AnswerOf(c)' = IF c \in lost THEN NoReply ELSE AnswerOf(c)
  <2>1. \A c \in Client : AnswerOf(c)' = reply[c]
    BY <1>1, <1>3 DEF AnswerOf, Decided
  <2>2. \A c \in lost : reply[c] = NoReply
    BY DEF PhaseOf
  <2>3. \A c \in Client : Decided(c) /\ reply[c] = NoReply => c \in lost
    BY <1>2 DEF PhaseOf, Decided
  <2> QED
    BY <2>1, <2>2, <2>3 DEF AnswerOf
<1>9. Store!Lose(lost)
  <2> HIDE DEF lost
  <2>1. lost \subseteq Client /\ \A c \in lost : PhaseOf(c) \in {"asked", "applied"}
    BY DEF lost
  <2> QED
    BY <1>3, <1>7, <1>8, <2>1, LoseStep
<1>10. lost = {c \in Client :
                 [d \in Client |-> PhaseOf(d)][c] \in {"asked", "applied"}}
  OBVIOUS
<1>11. [c \in Client |-> state[c] = "closed"]'
         = [c \in Client |-> [d \in Client |-> state[d] = "closed"][c]
                              \/ [d \in Client |-> PhaseOf(d)][c] # "idle"]
  <2>1. \A c \in Client : state[c] # "idle" <=> PhaseOf(c) # "idle"
    BY DEF PhaseOf
  <2>2. \A c \in Client : (state'[c] = "closed")
                             = ([d \in Client |-> state[d] = "closed"][c]
                                 \/ [d \in Client |-> PhaseOf(d)][c] # "idle")
    BY <1>2, <1>4, <2>1
  <2> QED
    BY <2>2
<1> HIDE DEF lost
<1>12. Store!Lose({c \in Client :
                     [d \in Client |-> PhaseOf(d)][c] \in {"asked", "applied"}})
  BY <1>9, <1>10, Zenon
<1>13. Store!Crash
  <2>1. (err # "none")' = FALSE
    BY DEF Dies
  <2> QED
    BY <1>11, <1>12, <2>1, Zenon DEF Store!Crash
<1> QED
  BY <1>13 DEF Store!Next

(* The FSM goes on without deciding an answer. *)
LEMMA QuietStep ==
  ASSUME UNCHANGED <<db, req, queue, reply, state>>,
         err # "none" => err' # "none",
         \A c \in Client :
           /\ (c = conn' /\ pc' \in {"process", "get", "put", "invalid"})
                <=> (c = conn /\ pc \in {"process", "get", "put", "invalid"})
           /\ (c = conn' /\ pc' = "write" /\ state[c] = "open")
                <=> (c = conn /\ pc = "write" /\ state[c] = "open")
           /\ c = conn /\ pc = "write" => out' = out
  PROVE  Store!Next \/ UNCHANGED Store!storeVars
<1>1. \A c \in Client : /\ Pending(c)' <=> Pending(c)
                        /\ Decided(c)' <=> Decided(c)
  BY DEF Pending, Decided
<1>2. \A c \in Client : PhaseOf(c)' = PhaseOf(c)
  BY <1>1 DEF PhaseOf
<1>3. \A c \in Client : AnswerOf(c)' = AnswerOf(c)
  BY <1>1 DEF AnswerOf, Decided
<1> QED
  BY <1>2, <1>3, NoStep

LEMMA LifecycleStep ==
  ASSUME StoreInv, StageDone \/ StageFails \/ Start \/ AcceptFails
  PROVE  Store!Next \/ UNCHANGED Store!storeVars
<1>1. /\ UNCHANGED <<db, req, queue, reply, state, conn>> /\ conn = NoClient
      /\ err # "none" => err' # "none"
  BY DEF StageDone, StageFails, Start, AcceptFails, StageOrder, Stage, Serving,
     StoreInv, ServerInv, Bound, clientVars
<1> QED
  BY <1>1, QuietStep, ServerAssumption DEF ServerAssumption

(* A signal latches an error or changes nothing BeaconStore knows of. *)
LEMMA SignalStep ==
  ASSUME StoreInv, Signal
  PROVE  Store!Next \/ UNCHANGED Store!storeVars
<1>1. /\ UNCHANGED <<db, req, queue, reply, state, conn, out>>
      /\ err # "none" => err' # "none"
      /\ \/ pc' = pc
         \/ pc = "accept" /\ pc' \in {"accept", "shutdown"}
  BY AcceptReturnsType DEF Signal, clientVars
<1> QED
  BY <1>1, QuietStep

LEMMA ProcessStep ==
  ASSUME StoreInv, Process \/ ReadReset, ~Dies
  PROVE  Store!Next \/ UNCHANGED Store!storeVars
<1>1. /\ UNCHANGED <<db, req, queue, reply, state, conn>>
      /\ err # "none" => err' # "none"
      /\ pc = "process" /\ pc' \in {"process", "get", "put", "invalid"}
  BY DEF Process, ProcessWhole, ProcessCut, ProcessAltered, ProcessRefused,
     ProcessCrashes, Dispatch, ReadReset, clientVars
<1> QED
  BY <1>1, QuietStep

LEMMA EndStep ==
  ASSUME StoreInv, WriteLost \/ Close \/ Free
  PROVE  Store!Next \/ UNCHANGED Store!storeVars
<1>1. CASE WriteLost
  <2>1. /\ UNCHANGED <<db, req, queue, reply, state, conn, out>>
        /\ pc = "write" /\ pc' \in {"close", "free"} /\ state[conn] = "closed"
        /\ err # "none" => err' # "none"
    BY <1>1 DEF WriteLost, WriteErrors, AfterWrite, clientVars
  <2> QED
    BY <2>1, QuietStep
<1>2. CASE Close \/ Free
  <2>1. /\ UNCHANGED <<db, req, queue, reply, state, err>>
        /\ pc \in {"close", "free"} /\ pc' \in {"free", "accept", "shutdown"}
    BY <1>2 DEF Close, Free, clientVars
  <2> QED
    BY <2>1, QuietStep
<1> QED
  BY <1>1, <1>2

(* accept: with an error latched the connection is dropped. *)
LEMMA AcceptStep ==
  ASSUME StoreInv, Accept
  PROVE  Store!Next \/ UNCHANGED Store!storeVars
<1>1. /\ pc = "accept" /\ conn = NoClient
      /\ UNCHANGED <<db, req, reply, state, err>>
      /\ queue # << >> /\ queue' = Tail(queue)
      /\ NoClient \notin Client
  BY ServerAssumption
     DEF Accept, StoreInv, ServerInv, Bound, Serving, clientVars, ServerAssumption
<1>2. queue \in Seq(Client)
  BY DEF StoreInv, ServerInv, TypeOK
<1>3. /\ Head(queue) \in Client /\ Head(queue) = queue[1]
      /\ Len(queue) \in Nat \ {0}
      /\ Len(queue') = Len(queue) - 1
      /\ \A i \in 1 .. Len(queue') : queue'[i] = queue[i + 1]
  BY <1>1, <1>2, HeadTailProperties, LenProperties, EmptySeq
<1>4. \A c \in Client : Pending(c) <=> \E i \in 1 .. Len(queue) : queue[i] = c
  BY <1>1 DEF Pending
<1>5. \A c \in Client :
        (\E i \in 1 .. Len(queue') : queue'[i] = c)
          <=> c # Head(queue) /\ \E i \in 1 .. Len(queue) : queue[i] = c
  <2> SUFFICES ASSUME NEW c \in Client
               PROVE  (\E i \in 1 .. Len(queue') : queue'[i] = c)
                        <=> c # Head(queue) /\ \E i \in 1 .. Len(queue) : queue[i] = c
    OBVIOUS
  <2>1. ASSUME NEW i \in 1 .. Len(queue'), queue'[i] = c
        PROVE  c # Head(queue) /\ \E j \in 1 .. Len(queue) : queue[j] = c
    <3>1. i + 1 \in 1 .. Len(queue) /\ 1 \in 1 .. Len(queue) /\ i + 1 # 1
          /\ queue[i + 1] = c
      BY <1>3, <2>1
    <3> QED
      BY <1>3, <3>1 DEF StoreInv, Distinct
  <2>2. ASSUME NEW j \in 1 .. Len(queue), queue[j] = c, c # Head(queue)
        PROVE  \E i \in 1 .. Len(queue') : queue'[i] = c
    <3>1. j - 1 \in 1 .. Len(queue') /\ (j - 1) + 1 = j
      BY <1>3, <2>2
    <3> QED
      BY <1>3, <2>2, <3>1
  <2> QED
    BY <2>1, <2>2
<1>6. \A c \in Client : ~Decided(c) /\ ~Decided(c)'
  BY <1>1, AcceptReturnsType DEF Decided, Accept
<1>7. \A c \in Client : AnswerOf(c)' = AnswerOf(c) /\ AnswerOf(c) = reply[c]
  BY <1>1, <1>6 DEF AnswerOf
<1>8. state[Head(queue)] # "idle" /\ reply[Head(queue)] = NoReply
  BY <1>3 DEF StoreInv, ServerInv, Bound, Distinct
<1>9. CASE pc' = "process" /\ conn' = Head(queue)
  <2>0. \E i \in 1 .. Len(queue) : queue[i] = Head(queue)
    BY <1>3
  <2>1. \A c \in Client :
          Pending(c)' <=> c = Head(queue) \/ \E i \in 1 .. Len(queue') : queue'[i] = c
    BY <1>9 DEF Pending
  <2>2. \A c \in Client : Pending(c)' <=> Pending(c)
    BY <1>4, <1>5, <2>1, <2>0
  <2>3. \A c \in Client : PhaseOf(c)' = PhaseOf(c)
    BY <1>1, <1>6, <2>2 DEF PhaseOf
  <2> QED
    BY <1>1, <1>7, <2>3, NoStep
<1>10. CASE pc' \in {"accept", "shutdown"} /\ conn' = conn
  <2>1. \A c \in Client : Pending(c)' <=> c # Head(queue) /\ Pending(c)
    BY <1>1, <1>4, <1>5, <1>10 DEF Pending
  <2>2. Pending(Head(queue))
    BY <1>3, <1>4
  <2>3. \A c \in Client : PhaseOf(c)' = IF c = Head(queue) THEN "over" ELSE PhaseOf(c)
    BY <1>1, <1>6, <1>8, <2>1 DEF PhaseOf
  <2>4. PhaseOf(Head(queue)) = "asked"
    BY <1>3, <1>6, <1>8, <2>2 DEF PhaseOf
  <2> QED
    BY <1>1, <1>3, <1>7, <1>8, <2>3, <2>4, DropStep
<1> QED
  BY <1>9, <1>10, AcceptReturnsType DEF Accept

-----------------------------------------------------------------------------
(* get, put and invalid decide the answer. *)

LEMMA RespondPhases ==
  ASSUME StoreInv, pc \in {"get", "put", "invalid"}, NEW answer, Respond(answer)
  PROVE  /\ conn \in Client /\ PhaseOf(conn) = "asked" /\ AnswerOf(conn) = NoReply
         /\ state[conn] \in {"open", "closed"}
         /\ UNCHANGED <<req, state>>
         /\ \A c \in Client :
              /\ PhaseOf(c)' = IF c # conn THEN PhaseOf(c)
                               ELSE IF state[c] = "open" THEN "applied" ELSE "over"
              /\ AnswerOf(c)' = IF c = conn /\ state[c] = "open"
                                THEN answer ELSE AnswerOf(c)
<1>1. /\ UNCHANGED <<queue, conn, req, reply, state>>
      /\ pc' = "write" /\ out' = answer
  BY DEF Respond, clientVars
<1>2. conn \in Client /\ state[conn] \in {"open", "closed"} /\ reply[conn] = NoReply
  BY ServingFacts DEF StoreInv, Distinct, Serving
<1>3. \A i \in 1 .. Len(queue) : queue[i] # conn
  BY DEF StoreInv, Distinct
<1>4. \A c \in Client : ~Decided(c)
  BY DEF Decided
<1>5. \A c \in Client : IF c = conn THEN Pending(c) /\ ~Pending(c)'
                                    ELSE Pending(c)' <=> Pending(c)
  BY <1>1, <1>3 DEF Pending
<1>6. \A c \in Client : Decided(c)' <=> c = conn /\ state[c] = "open"
  BY <1>1 DEF Decided
<1>7. PhaseOf(conn) = "asked" /\ AnswerOf(conn) = NoReply
  BY <1>2, <1>4, <1>5 DEF PhaseOf, AnswerOf
<1>8. \A c \in Client :
        PhaseOf(c)' = IF c # conn THEN PhaseOf(c)
                      ELSE IF state[c] = "open" THEN "applied" ELSE "over"
  BY <1>1, <1>2, <1>4, <1>5, <1>6 DEF PhaseOf
<1>9. \A c \in Client :
        AnswerOf(c)' = IF c = conn /\ state[c] = "open" THEN answer ELSE AnswerOf(c)
  BY <1>1, <1>2, <1>4, <1>6 DEF AnswerOf
<1> QED
  BY <1>1, <1>2, <1>7, <1>8, <1>9

LEMMA MeantIsTaken ==
  ASSUME NEW c \in Client
  PROVE  TakenFor(c) \subseteq Store!Meant(c)
<1>1. [d \in Client |-> state[d] = "closed"][c] = (state[c] = "closed")
  OBVIOUS
<1>2. Store!Whole(req[c]) = Whole(req[c]) /\ Store!Cut(req[c]) = Cut(req[c])
  BY SameWords
<1> QED
  BY <1>1, <1>2 DEF Store!Meant, TakenFor

LEMMA ResultIs ==
  ASSUME NEW r
  PROVE  /\ WantsAll(r) => Store!Result(r) = Ok(db)
         /\ r.kind = "key" /\ ~WantsAll(r) => Store!Result(r) = Page(db[r.key])
         /\ r.kind = "index" => Store!Result(r) = Says("welcome")
         /\ r.kind = "missing" => Store!Result(r) = Says("404")
         /\ r.kind = "put" => Store!Result(r) = Says("complete")
         /\ r.kind \in {"noEquals", "other", "tooLong"} => Store!Result(r) = Says("400")
<1>1. WantsAll(r) => r.kind \in {"all", "key"}
  BY DEF WantsAll
<1>2. WantsAll(r) => Store!Result(r) = Ok(db)
  BY <1>1, SameWords DEF Store!Result
<1>3. r.kind = "key" /\ ~WantsAll(r) => Store!Result(r) = Page(db[r.key])
  BY SameWords DEF Store!Result
<1>4. r.kind = "index" => Store!Result(r) = Says("welcome")
  BY <1>1, SameWords DEF Store!Result
<1>5. r.kind = "missing" => Store!Result(r) = Says("404")
  BY <1>1, SameWords DEF Store!Result
<1>6. r.kind = "put" => Store!Result(r) = Says("complete")
  BY <1>1, SameWords DEF Store!Result
<1>7. r.kind \in {"noEquals", "other", "tooLong"} => Store!Result(r) = Says("400")
  BY <1>1, SameWords DEF Store!Result
<1> QED
  BY <1>2, <1>3, <1>4, <1>5, <1>6, <1>7

(* Without an error the request r takes effect. *)
LEMMA ApplyStep ==
  ASSUME StoreInv, pc \in {"get", "put", "invalid"}, NEW answer, Respond(answer),
         err = "none", err' = "none",
         NEW r \in TakenFor(conn),
         db' = IF r.kind = "put" THEN [db EXCEPT ![r.key] = r.val] ELSE db,
         answer = Store!Result(r)
  PROVE  Store!Next
<1>1. /\ conn \in Client /\ PhaseOf(conn) = "asked" /\ AnswerOf(conn) = NoReply
      /\ state[conn] \in {"open", "closed"}
      /\ UNCHANGED <<req, state>>
      /\ \A c \in Client :
           /\ PhaseOf(c)' = IF c # conn THEN PhaseOf(c)
                            ELSE IF state[c] = "open" THEN "applied" ELSE "over"
           /\ AnswerOf(c)' = IF c = conn /\ state[c] = "open"
                             THEN answer ELSE AnswerOf(c)
  BY RespondPhases
<1>2. r \in Store!Meant(conn)
  BY <1>1, MeantIsTaken
<1>3. db' = Store!Effect(r)
  BY DEF Store!Effect
<1>4. [c \in Client |-> PhaseOf(c)][conn] = "asked"
  BY <1>1
<1>5. [c \in Client |-> state[c] = "closed"][conn] = (state[conn] = "closed")
  BY <1>1
<1>6. UNCHANGED [c \in Client |-> state[c] = "closed"]
  BY <1>1
<1>7. ~(err # "none") /\ (err # "none")' = (err # "none")
  OBVIOUS
<1>8. CASE state[conn] = "closed"
  <2>1. [c \in Client |-> PhaseOf(c)]'
          = [[c \in Client |-> PhaseOf(c)] EXCEPT ![conn] = "over"]
    BY <1>1, <1>8
  <2>2. UNCHANGED [c \in Client |-> AnswerOf(c)]
    BY <1>1, <1>8
  <2>3. Store!Apply(conn)
    BY <1>1, <1>2, <1>3, <1>4, <1>5, <1>6, <1>7, <1>8, <2>1, <2>2
       DEF Store!Apply, Store!Reach
  <2> QED
    BY <1>1, <2>3 DEF Store!Next
<1>9. CASE state[conn] = "open"
  <2>1. [c \in Client |-> PhaseOf(c)]'
          = [[c \in Client |-> PhaseOf(c)] EXCEPT ![conn] = "applied"]
    BY <1>1, <1>9
  <2>2. [c \in Client |-> AnswerOf(c)]'
          = [[c \in Client |-> AnswerOf(c)] EXCEPT ![conn] = Store!Result(r)]
    BY <1>1, <1>9
  <2>3. Store!Apply(conn)
    BY <1>1, <1>2, <1>3, <1>4, <1>5, <1>6, <1>7, <1>9, <2>1, <2>2
       DEF Store!Apply, Store!Reach
  <2> QED
    BY <1>1, <2>3 DEF Store!Next
<1> QED
  BY <1>1, <1>8, <1>9

(* With an error the request changes nothing, whatever the answer. *)
LEMMA FailStep ==
  ASSUME StoreInv, pc \in {"get", "put", "invalid"},
         NEW answer \in Reply \ {NoReply}, Respond(answer),
         UNCHANGED db, err' # "none"
  PROVE  Store!Next
<1>1. /\ conn \in Client /\ PhaseOf(conn) = "asked"
      /\ state[conn] \in {"open", "closed"}
      /\ UNCHANGED <<req, state>>
      /\ \A c \in Client :
           /\ PhaseOf(c)' = IF c # conn THEN PhaseOf(c)
                            ELSE IF state[c] = "open" THEN "applied" ELSE "over"
           /\ AnswerOf(c)' = IF c = conn /\ state[c] = "open"
                             THEN answer ELSE AnswerOf(c)
  BY RespondPhases
<1>2. answer \in Store!Reply \ {Store!NoReply}
  BY SameWords
<1>3. [c \in Client |-> PhaseOf(c)][conn] = "asked"
  BY <1>1
<1>4. [c \in Client |-> state[c] = "closed"][conn] = (state[conn] = "closed")
  BY <1>1
<1>5. UNCHANGED [c \in Client |-> state[c] = "closed"]
  BY <1>1
<1>6. (err # "none")' = TRUE
  OBVIOUS
<1>7. CASE state[conn] = "closed"
  <2>1. [c \in Client |-> PhaseOf(c)]'
          = [[c \in Client |-> PhaseOf(c)] EXCEPT ![conn] = "over"]
    BY <1>1, <1>7
  <2>2. UNCHANGED [c \in Client |-> AnswerOf(c)]
    BY <1>1, <1>7
  <2>3. Store!Fail(conn)
    BY <1>1, <1>2, <1>3, <1>4, <1>5, <1>6, <1>7, <2>1, <2>2
       DEF Store!Fail, Store!Reach
  <2> QED
    BY <1>1, <2>3 DEF Store!Next
<1>8. CASE state[conn] = "open"
  <2>1. [c \in Client |-> PhaseOf(c)]'
          = [[c \in Client |-> PhaseOf(c)] EXCEPT ![conn] = "applied"]
    BY <1>1, <1>8
  <2>2. [c \in Client |-> AnswerOf(c)]'
          = [[c \in Client |-> AnswerOf(c)] EXCEPT ![conn] = answer]
    BY <1>1, <1>8
  <2>3. Store!Fail(conn)
    BY <1>1, <1>2, <1>3, <1>4, <1>5, <1>6, <1>8, <2>1, <2>2
       DEF Store!Fail, Store!Reach
  <2> QED
    BY <1>1, <2>3 DEF Store!Next
<1> QED
  BY <1>1, <1>7, <1>8

LEMMA HandlerStep ==
  ASSUME StoreInv, Get \/ PutStep \/ Invalid, ~Dies
  PROVE  Store!Next
<1>1. /\ pc \in {"get", "put", "invalid"} /\ cur \in Request
      /\ conn \in Client /\ state[conn] \in {"open", "closed"}
      /\ err = "none" /\ assigned => cur \in TakenFor(conn)
      /\ pc \in {"get", "put"} => assigned
  BY ServingFacts
     DEF Get, PutStep, Invalid, GetAll, GetKey, GetPath, GetCrashes, PutStores,
         PutNoEquals, PutCrashes, StoreInv, ServerInv, TypeOK, Faithful, Serving
<1>0. TypeOK
  BY DEF StoreInv, ServerInv
<1>2. CASE GetAll
  <2>1. PICK f \in DbFetchAll : err' = f.err /\ Respond(Ok(f.text))
    BY <1>2 DEF GetAll
  <2>2. UNCHANGED db /\ WantsAll(cur) /\ pc = "get" /\ cur.kind # "put"
    BY <1>2 DEF GetAll, WantsAll
  <2>3. Ok(f.text) \in Reply \ {NoReply}
    BY <1>0, DbFetchAllType, OkType, AnswersAreReplies
  <2>4. err' = "none" => err = "none" /\ f.text = db
    BY <1>0, <2>1, DbFetchAllType
  <2> QED
    BY <1>1, <2>1, <2>2, <2>3, <2>4, ApplyStep, FailStep, ResultIs
<1>3. CASE GetKey
  <2>1. PICK f \in DbFetch(cur.key) : err' = f.err /\ Respond(Page(f.text))
    BY <1>3 DEF GetKey
  <2>2. UNCHANGED db /\ cur.kind = "key" /\ ~WantsAll(cur) /\ pc = "get"
    BY <1>3 DEF GetKey
  <2>3. cur.key \in Key
    BY <1>1, <2>2, RequestFields
  <2>4. Page(f.text) \in Reply \ {NoReply}
    BY <1>0, <2>3, DbFetchType, OkType, SaysType, AnswersAreReplies DEF Page
  <2>5. err' = "none" => err = "none" /\ f.text = db[cur.key]
    BY <1>0, <2>1, <2>3, DbFetchType
  <2> QED
    BY <1>1, <2>1, <2>2, <2>4, <2>5, ApplyStep, FailStep, ResultIs
<1>4. CASE GetPath
  <2>1. UNCHANGED <<db, err>> /\ pc = "get"
    BY <1>4 DEF GetPath
  <2>2. PICK answer : /\ Respond(answer)
                      /\ \/ cur.kind = "index" /\ answer = Says("welcome")
                         \/ cur.kind = "missing" /\ answer = Says("404")
    BY <1>4 DEF GetPath
  <2>3. answer \in Reply \ {NoReply}
    BY <2>2, SaysType, AnswersAreReplies
  <2> QED
    BY <1>1, <2>1, <2>2, <2>3, ApplyStep, FailStep, ResultIs
<1>5. CASE PutStores
  <2>1. /\ Respond(Says("complete")) /\ cur.kind = "put" /\ pc = "put"
        /\ \/ err = "none" /\ err' = "none" /\ db' = [db EXCEPT ![cur.key] = cur.val]
           \/ err' # "none" /\ UNCHANGED db
    BY <1>5 DEF PutStores, DbStore
  <2>2. Says("complete") \in Reply \ {NoReply}
    BY SaysType, AnswersAreReplies
  <2> QED
    BY <1>1, <2>1, <2>2, ApplyStep, FailStep, ResultIs
<1>6. CASE PutNoEquals
  <2>1. Respond(Says("400")) /\ UNCHANGED <<db, err>> /\ cur.kind = "noEquals" /\ pc = "put"
    BY <1>6 DEF PutNoEquals
  <2>2. Says("400") \in Reply \ {NoReply}
    BY SaysType, AnswersAreReplies
  <2> QED
    BY <1>1, <2>1, <2>2, ApplyStep, FailStep, ResultIs
<1>7. CASE Invalid
  <2>1. Respond(Says("400")) /\ UNCHANGED <<db, err>> /\ pc = "invalid"
    BY <1>7 DEF Invalid
  <2>2. Says("400") \in Reply \ {NoReply}
    BY SaysType, AnswersAreReplies
  <2>3. CASE assigned
    <3>1. cur.kind = "other"
      BY <2>1 DEF StoreInv, Routed
    <3> QED
      BY <1>1, <2>1, <2>2, <2>3, <3>1, ApplyStep, FailStep, ResultIs
  <2>4. CASE ~assigned
    <3>1. req[conn].kind = "tooLong" /\ req[conn] = Whole(req[conn])
      BY <2>1, <2>4 DEF StoreInv, Routed, Whole
    <3>2. req[conn] \in TakenFor(conn)
      BY <3>1 DEF TakenFor
    <3> QED
      BY <1>1, <2>1, <2>2, <3>1, <3>2, ApplyStep, FailStep, ResultIs
  <2> QED
    BY <2>3, <2>4
<1>8. CASE GetCrashes \/ PutCrashes
  BY <1>8 DEF GetCrashes, PutCrashes
<1> QED
  BY <1>2, <1>3, <1>4, <1>5, <1>6, <1>7, <1>8 DEF Get, PutStep

-----------------------------------------------------------------------------
(* The answer is written. *)

LEMMA WriteStep ==
  ASSUME StoreInv, Write
  PROVE  Store!Next
<1>1. /\ UNCHANGED <<db, queue, conn, req, state>>
      /\ pc = "write" /\ pc' \in {"close", "free"} /\ state[conn] = "open"
      /\ reply' = [reply EXCEPT ![conn] = out]
      /\ err # "none" => err' # "none"
  BY DEF Write, AfterWrite
<1>2. /\ conn \in Client /\ reply[conn] = NoReply /\ out # NoReply
      /\ \A i \in 1 .. Len(queue) : queue[i] # conn
  BY <1>1, ServingFacts DEF StoreInv, Distinct, Routed, Serving
<1>3. \A c \in Client : reply'[c] = IF c = conn THEN out ELSE reply[c]
  BY <1>1 DEF StoreInv, ServerInv, TypeOK
<1>4. \A c \in Client : /\ Pending(c)' <=> Pending(c)
                        /\ Decided(c) <=> c = conn
                        /\ ~Decided(c)'
  BY <1>1, <1>2 DEF Pending, Decided
<1>5. \A c \in Client : PhaseOf(c)' = IF c = conn THEN "answered" ELSE PhaseOf(c)
  BY <1>1, <1>2, <1>3, <1>4 DEF PhaseOf
<1>6. PhaseOf(conn) = "applied"
  BY <1>1, <1>2, <1>4 DEF PhaseOf
<1>7. \A c \in Client : AnswerOf(c)' = AnswerOf(c)
  BY <1>2, <1>3, <1>4 DEF AnswerOf
<1>8. [c \in Client |-> PhaseOf(c)]'
        = [[c \in Client |-> PhaseOf(c)] EXCEPT ![conn] = "answered"]
  BY <1>5
<1>9. [c \in Client |-> PhaseOf(c)][conn] = "applied"
  BY <1>2, <1>6
<1>10. UNCHANGED <<[c \in Client |-> AnswerOf(c)], [c \in Client |-> state[c] = "closed"]>>
  BY <1>1, <1>7
<1>11. Store!MayBreak
  BY <1>1 DEF Store!MayBreak
<1>12. Store!Answer(conn)
  BY <1>1, <1>8, <1>9, <1>10, <1>11 DEF Store!Answer
<1> QED
  BY <1>2, <1>12 DEF Store!Next

-----------------------------------------------------------------------------
(* The clients. *)

LEMMA ConnectStep ==
  ASSUME StoreInv, NEW c \in Client, Connect(c)
  PROVE  Store!Next
<1>1. UNCHANGED <<db, pc, err, conn, out, reply>>
  BY DEF Connect
<1>2. \A d \in Client : Decided(d)' <=> Decided(d)
  BY <1>1, ConnectFacts DEF Decided
<1>3. ~Decided(c)
  BY ConnectFacts DEF Decided
<1>4. \A d \in Client : Pending(d)' <=> d = c \/ Pending(d)
  <2> SUFFICES ASSUME NEW d \in Client PROVE Pending(d)' <=> d = c \/ Pending(d)
    OBVIOUS
  <2>1. \A i \in 1 .. Len(queue') : i = Len(queue) + 1 \/ i \in 1 .. Len(queue)
    BY ConnectFacts
  <2>2. \A i \in 1 .. Len(queue) : i \in 1 .. Len(queue')
    BY ConnectFacts
  <2>3. Len(queue) + 1 \in 1 .. Len(queue')
    BY ConnectFacts
  <2>4. (\E i \in 1 .. Len(queue') : queue'[i] = d)
           <=> d = c \/ \E i \in 1 .. Len(queue) : queue[i] = d
    BY <2>1, <2>2, <2>3, ConnectFacts
  <2> QED
    BY <1>1, <2>4, ConnectFacts DEF Pending
<1>5. \A d \in Client : PhaseOf(d)' = IF d = c THEN "asked" ELSE PhaseOf(d)
  BY <1>1, <1>2, <1>3, <1>4, ConnectFacts DEF PhaseOf
<1>6. \A d \in Client : AnswerOf(d)' = AnswerOf(d)
  BY <1>1, <1>2 DEF AnswerOf
<1>7. \A d \in Client : (state'[d] = "closed") = (state[d] = "closed")
  BY ConnectFacts
<1>8. PhaseOf(c) = "idle"
  BY ConnectFacts DEF PhaseOf
<1>9. [d \in Client |-> PhaseOf(d)]'
        = [[d \in Client |-> PhaseOf(d)] EXCEPT ![c] = "asked"]
  BY <1>5
<1>10. [d \in Client |-> PhaseOf(d)][c] = "idle"
  BY <1>8
<1>11. UNCHANGED <<[d \in Client |-> AnswerOf(d)], [d \in Client |-> state[d] = "closed"]>>
  BY <1>6, <1>7
<1>12. \E r \in Requests : req' = [req EXCEPT ![c] = r]
  BY DEF Connect
<1>13. Store!Ask(c)
  BY <1>1, <1>9, <1>10, <1>11, <1>12 DEF Store!Ask
<1> QED
  BY <1>13 DEF Store!Next

LEMMA SendStep ==
  ASSUME StoreInv, NEW c \in Client, Send(c)
  PROVE  Store!Next \/ UNCHANGED Store!storeVars
<1>1. UNCHANGED <<db, req, queue, reply, state, conn, pc, out, err>>
  BY DEF Send, serverVars
<1> QED
  BY <1>1, QuietStep

LEMMA LeaveStep ==
  ASSUME StoreInv, NEW c \in Client, Leave(c)
  PROVE  Store!Next
<1>1. UNCHANGED <<db, req, queue, reply, conn, pc, out, err>> /\ state[c] = "open"
  BY DEF Leave, serverVars
<1>2. \A d \in Client : state'[d] = IF d = c THEN "closed" ELSE state[d]
  BY DEF Leave, StoreInv, ServerInv, TypeOK
<1>3. \A d \in Client : /\ Pending(d)' <=> Pending(d)
                        /\ Decided(d)' <=> d # c /\ Decided(d)
  BY <1>1, <1>2 DEF Pending, Decided
<1> DEFINE lost == IF PhaseOf(c) = "applied" THEN {c} ELSE {}
<1>4. Decided(c) => reply[c] = NoReply /\ ~Pending(c)
  BY DEF Decided, Pending, StoreInv, Distinct
<1>5. Decided(c) <=> PhaseOf(c) = "applied"
  BY <1>1, <1>4 DEF PhaseOf
<1>6. \A d \in Client : PhaseOf(d)' = IF d \in lost THEN "over" ELSE PhaseOf(d)
  BY <1>1, <1>2, <1>3, <1>4, <1>5 DEF PhaseOf
<1>7. \A d \in Client : AnswerOf(d)' = IF d \in lost THEN NoReply ELSE AnswerOf(d)
  BY <1>1, <1>2, <1>3, <1>4, <1>5 DEF AnswerOf
<1>8. Store!Lose(lost)
  <2>1. lost \subseteq Client /\ \A d \in lost : PhaseOf(d) \in {"asked", "applied"}
    OBVIOUS
  <2> HIDE DEF lost
  <2> QED
    BY <1>1, <1>6, <1>7, <2>1, LoseStep
<1>9. lost = IF [d \in Client |-> PhaseOf(d)][c] = "applied" THEN {c} ELSE {}
  OBVIOUS
<1>10. [d \in Client |-> PhaseOf(d)][c] # "idle"
  BY <1>1 DEF PhaseOf
<1>11. ~[d \in Client |-> state[d] = "closed"][c]
  BY <1>1
<1>12. [d \in Client |-> state[d] = "closed"]'
         = [[d \in Client |-> state[d] = "closed"] EXCEPT ![c] = TRUE]
  <2>1. \A d \in Client : (state'[d] = "closed") = IF d = c THEN TRUE
                                                   ELSE state[d] = "closed"
    BY <1>2
  <2> QED
    BY <2>1
<1> HIDE DEF lost
<1>13. Store!Lose(IF [d \in Client |-> PhaseOf(d)][c] = "applied" THEN {c} ELSE {})
  BY <1>8, <1>9, Zenon
<1>14. Store!Depart(c)
  <2>1. UNCHANGED (err # "none")
    BY <1>1
  <2> QED
    BY <1>10, <1>11, <1>12, <1>13, <2>1, Zenon DEF Store!Depart
<1> QED
  BY <1>14 DEF Store!Next

-----------------------------------------------------------------------------
LEMMA InitStore == Init => Store!Init
<1> SUFFICES ASSUME Init PROVE Store!Init
  OBVIOUS
<1>1. Store!Unasked = Unasked /\ Store!NoReply = NoReply
  BY SameWords DEF Store!Unasked, Store!Plain, Unasked, Plain
<1>2. \A c \in Client : PhaseOf(c) = "idle" /\ AnswerOf(c) = NoReply
  BY DEF Init, PhaseOf, AnswerOf, Decided
<1>3. [c \in Client |-> PhaseOf(c)] = [c \in Client |-> "idle"]
  BY <1>2
<1>4. [c \in Client |-> AnswerOf(c)] = [c \in Client |-> NoReply]
  BY <1>2
<1>5. [c \in Client |-> state[c] = "closed"] = [c \in Client |-> FALSE]
  BY DEF Init
<1> QED
  BY <1>1, <1>3, <1>4, <1>5 DEF Init, Store!Init

LEMMA StepStore == StoreInv /\ [Next]_vars => [Store!Next]_Store!storeVars
<1> SUFFICES ASSUME StoreInv, [Next]_vars, ~Dies
             PROVE  Store!Next \/ UNCHANGED Store!storeVars
  BY CrashStep
<1>1. CASE UNCHANGED vars
  BY <1>1 DEF vars, Store!storeVars, PhaseOf, AnswerOf, Pending, Decided
<1>2. CASE Server
  <2>1. CASE StageDone
    BY <2>1, LifecycleStep
  <2>2. CASE Accept
    BY <2>2, AcceptStep
  <2>3. CASE AcceptFails
    BY <2>3, LifecycleStep
  <2>4. CASE Process
    BY <2>4, ProcessStep
  <2>5. CASE Get \/ PutStep \/ Invalid
    BY <2>5, HandlerStep
  <2>6. CASE Answer
    BY <2>6, WriteStep, EndStep DEF Answer, WriteSigpipe, FreeCrashes
  <2>7. CASE Shutdown
    BY <2>7 DEF Shutdown
  <2> QED
    BY <1>2, <2>1, <2>2, <2>3, <2>4, <2>5, <2>6, <2>7 DEF Server
<1>3. CASE Environment
  <2>1. CASE StageFails \/ Start
    BY <2>1, LifecycleStep
  <2>2. CASE ReadReset
    BY <2>2, ProcessStep
  <2>3. ASSUME NEW c \in Client, Connect(c) \/ Send(c) \/ Leave(c)
        PROVE  Store!Next \/ UNCHANGED Store!storeVars
    BY <2>3, ConnectStep, SendStep, LeaveStep
  <2> QED
    BY <1>3, <2>1, <2>2, <2>3, SignalStep DEF Environment, Kill
<1> QED
  BY <1>1, <1>2, <1>3 DEF Next

(* Connections that wait, are served and are answered are kept apart, and  *)
(* get, put and invalid only have requests that are theirs, whatever goes  *)
(* wrong around the server.                                                *)
THEOREM StoreInvariant == Spec => []StoreInv
<1>1. Init => StoreInv
  BY InitStoreInv
<1>2. StoreInv /\ [Next]_vars => StoreInv'
  BY NextStoreInv
<1> QED
  BY <1>1, <1>2, PTL DEF Spec

(* Each request takes effect at one moment between connect and answer, at  *)
(* most once and as asked, and none with an error latched, over crashes    *)
(* and restarts: for every set of connections, keys and values, and for    *)
(* every fault.                                                            *)
THEOREM Implements == Spec => ImplementsStore
<1>1. Init => Store!Init
  BY InitStore
<1>2. StoreInv /\ [Next]_vars => [Store!Next]_Store!storeVars
  BY StepStore
<1> QED
  BY <1>1, <1>2, StoreInvariant, PTL DEF Spec, ImplementsStore, Store!Spec
=============================================================================
