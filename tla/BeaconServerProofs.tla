-------------------------- MODULE BeaconServerProofs --------------------------
(***************************************************************************)
(* Proofs about BeaconServer, for every set of connections, keys and       *)
(* values, every request and every fault.                                  *)
(***************************************************************************)
EXTENDS BeaconServer, SequenceTheorems, TLAPS

LEMMA UnaskedType == Unasked \in Request
<1>1. NoKey \notin Key /\ NoVal \notin Val
  BY ServerAssumption, BeaconsAssumption DEF ServerAssumption, BeaconsAssumption
<1> QED
  BY <1>1 DEF Unasked, Plain, Request, Kind

LEMMA PlainType ==
  ASSUME NEW kind \in Kind \ {"key", "put", "bare"}
  PROVE  Plain(kind) \in Request
<1>1. NoKey \notin Key /\ NoVal \notin Val
  BY ServerAssumption, BeaconsAssumption DEF ServerAssumption, BeaconsAssumption
<1> QED
  BY <1>1 DEF Plain, Request

LEMMA PutType ==
  ASSUME NEW k \in Key, NEW v \in Val
  PROVE  Put(k, v) \in Request
BY DEF Put, Request, Kind

LEMMA RequestFields ==
  ASSUME NEW r \in Request
  PROVE  /\ r.kind \in {"key", "put", "bare"} => r.key \in Key
         /\ r.kind \in {"put", "bare"} => r.val \in Val
         /\ r.kind \in Kind
         /\ r.kind \notin {"key", "put", "bare"} => r = Plain(r.kind)
BY DEF Request, Plain

LEMMA WholeType ==
  ASSUME NEW r \in Request
  PROVE  Whole(r) \in Request
<1>1. CASE r.kind = "bare"
  BY <1>1, RequestFields, PutType DEF Whole
<1>2. CASE r.kind # "bare"
  BY <1>2 DEF Whole
<1> QED
  BY <1>1, <1>2

LEMMA CutType ==
  ASSUME NEW r \in Request
  PROVE  Cut(r) \subseteq Request
<1>1. Plain("noEquals") \in Request /\ Plain("oneField") \in Request
  BY PlainType DEF Kind
<1>2. CASE r.kind \in {"put", "bare"}
  <2>1. r.key \in Key /\ r.val \in Val
    BY <1>2, RequestFields
  <2>2. Prefixes[r.key] \subseteq Key
    BY <2>1, ServerAssumption, BeaconsAssumption DEF ServerAssumption, BeaconsAssumption
  <2>3. \A k \in Prefixes[r.key] : Put(k, r.val) \in Request
    BY <2>1, <2>2, PutType
  <2>4. Cut(r) = {Plain("noEquals"), Plain("oneField")}
                   \cup {Put(k, r.val) : k \in Prefixes[r.key]}
    BY <1>2 DEF Cut
  <2> QED
    BY <1>1, <2>3, <2>4
<1>3. CASE r.kind = "oneField"
  BY <1>1, <1>3 DEF Cut
<1>4. CASE r.kind = "noEquals"
  BY <1>1, <1>4 DEF Cut
<1>5. CASE r.kind \notin {"put", "bare", "oneField", "noEquals"}
  BY <1>5 DEF Cut
<1> QED
  BY <1>2, <1>3, <1>4, <1>5

LEMMA SaysType ==
  ASSUME NEW s \in {"none", "200", "welcome", "complete", "400", "404"}
  PROVE  Says(s) \in Reply
BY DEF Says, Reply

LEMMA OkType ==
  ASSUME NEW t \in Val \cup {NoVal, NoText} \cup Db
  PROVE  Ok(t) \in Reply
BY DEF Ok, Reply

LEMMA InitType == Init => TypeOK
<1> SUFFICES ASSUME Init PROVE TypeOK
  OBVIOUS
<1>1. Unasked \in Request /\ NoReply \in Reply
  BY UnaskedType, SaysType DEF NoReply
<1>2. << >> \in Seq(Client)
  BY EmptySeq
<1>3. db \in Db
  BY DEF Init, Db
<1> QED
  BY <1>1, <1>2, <1>3 DEF Init, TypeOK, Stage

-----------------------------------------------------------------------------
(* Type correctness: one step per action. *)

LEMMA DiesType == TypeOK /\ Dies => TypeOK'
<1> SUFFICES ASSUME TypeOK, Dies PROVE TypeOK'
  OBVIOUS
<1>1. Unasked \in Request /\ NoReply \in Reply
  BY UnaskedType, SaysType DEF NoReply
<1>2. << >> \in Seq(Client)
  BY EmptySeq
<1>3. state' \in [Client -> {"idle", "open", "closed"}]
  BY DEF TypeOK, Dies
<1> QED
  BY <1>1, <1>2, <1>3 DEF TypeOK, Dies

LEMMA LifecycleType ==
  ASSUME TypeOK, StageDone \/ StageFails \/ Shutdown \/ Kill \/ Start
  PROVE  TypeOK'
<1>1. CASE StageDone
  BY <1>1 DEF TypeOK, StageDone, StageOrder, Stage, clientVars
<1>2. CASE StageFails
  BY <1>2 DEF TypeOK, StageFails, clientVars
<1>3. CASE Shutdown \/ Kill
  BY <1>3, DiesType DEF Shutdown, Kill
<1>4. CASE Start
  BY <1>4 DEF TypeOK, Start, Stage, clientVars
<1> QED
  BY <1>1, <1>2, <1>3, <1>4

LEMMA AcceptReturnsType ==
  ASSUME NEW e, AcceptReturns(e)
  PROVE  pc' \in {"accept", "shutdown"}
BY DEF AcceptReturns

LEMMA AcceptType ==
  ASSUME TypeOK, Accept \/ AcceptFails \/ Signal
  PROVE  TypeOK'
<1>1. CASE Accept
  <2>1. Head(queue) \in Client /\ Tail(queue) \in Seq(Client)
    BY <1>1, HeadTailProperties DEF TypeOK, Accept
  <2>2. pc' \in {"accept", "shutdown", "process"}
    BY <1>1, AcceptReturnsType DEF Accept
  <2>3. conn' \in Client \cup {NoClient}
    BY <1>1, <2>1 DEF TypeOK, Accept
  <2> QED
    BY <1>1, <2>1, <2>2, <2>3 DEF TypeOK, Accept, Serving, clientVars
<1>2. CASE AcceptFails
  <2>1. pc' \in {"accept", "shutdown"}
    BY <1>2, AcceptReturnsType DEF AcceptFails
  <2> QED
    BY <1>2, <2>1 DEF TypeOK, AcceptFails, clientVars
<1>3. CASE Signal
  <2>1. pc' = pc \/ pc' \in {"accept", "shutdown"}
    BY <1>3, AcceptReturnsType DEF Signal
  <2>2. err' \in {"none", "EINTR", "errno"}
    BY <1>3 DEF TypeOK, Signal
  <2>3. bytes' \in {"intact", "altered", "starved"}
    BY <1>3 DEF TypeOK, Signal
  <2> QED
    BY <1>3, <2>1, <2>2, <2>3 DEF TypeOK, Signal, clientVars
<1> QED
  BY <1>1, <1>2, <1>3

LEMMA DispatchType ==
  ASSUME TypeOK, NEW r \in Request, Dispatch(r)
  PROVE  TypeOK'
<1>1. pc' \in {"put", "invalid", "get"}
  BY DEF Dispatch
<1> QED
  BY <1>1 DEF TypeOK, Dispatch, Serving, clientVars
LEMMA ProcessType ==
  ASSUME TypeOK, pc = "process" => conn \in Client, Process \/ ReadReset
  PROVE  TypeOK'
<1>0. CASE ReadReset
  BY <1>0 DEF TypeOK, ReadReset, Serving, clientVars
<1>1. CASE ProcessWhole
  <2>1. req[conn] \in Request
    BY <1>1 DEF TypeOK, ProcessWhole
  <2> QED
    BY <1>1, <2>1, WholeType, DispatchType DEF ProcessWhole
<1>2. CASE ProcessCut
  <2>1. req[conn] \in Request
    BY <1>2 DEF TypeOK, ProcessCut
  <2> QED
    BY <1>2, <2>1, CutType, DispatchType DEF ProcessCut
<1>3. CASE ProcessAltered
  BY <1>3, DispatchType DEF ProcessAltered, Parsed
<1>4. CASE ProcessRefused
  BY <1>4 DEF TypeOK, ProcessRefused, Serving, clientVars
<1>5. CASE ProcessCrashes
  BY <1>5, DiesType DEF ProcessCrashes
<1> QED
  BY <1>0, <1>1, <1>2, <1>3, <1>4, <1>5 DEF Process

LEMMA RespondType ==
  ASSUME TypeOK, NEW answer \in Reply, Respond(answer),
         err' \in {"none", "EINTR", "errno"}, db' \in Db
  PROVE  TypeOK'
BY DEF TypeOK, Respond, Serving, clientVars

LEMMA DbFetchType ==
  ASSUME TypeOK, NEW k \in Key, NEW f \in DbFetch(k)
  PROVE  /\ f.text \in Val \cup {NoVal, NoText}
         /\ f.err \in {"none", "EINTR", "errno"}
         /\ f.err = "none" => err = "none" /\ f.text = db[k]
<1>1. CASE err # "none"
  BY <1>1 DEF TypeOK, DbFetch, Fetched
<1>2. CASE err = "none" /\ ~CanOpen
  BY <1>2 DEF DbFetch, Fetched
<1>3. CASE err = "none" /\ CanOpen
  <2>1. db[k] \in Val \cup {NoVal}
    BY DEF TypeOK, Db
  <2>2. \/ f = Fetched(db[k], "none")
        \/ \E text \in {NoText, NoVal} : f = Fetched(text, "errno")
    BY <1>3 DEF DbFetch
  <2> QED
    BY <1>3, <2>1, <2>2 DEF Fetched
<1> QED
  BY <1>1, <1>2, <1>3

LEMMA DbFetchAllType ==
  ASSUME TypeOK, NEW f \in DbFetchAll
  PROVE  /\ f.text \in {NoText} \cup Db
         /\ f.err \in {"none", "EINTR", "errno"}
         /\ f.err = "none" => err = "none" /\ f.text = db
<1> DEFINE Listed(S) == [k \in Key |-> IF k \in S THEN db[k] ELSE NoVal]
<1>1. CASE err # "none"
  BY <1>1 DEF TypeOK, DbFetchAll, Fetched
<1>2. \A S : Listed(S) \in Db
  BY DEF TypeOK, Db
<1>3. CASE err = "none" /\ ~CanOpen
  <2>1. f = Fetched(Listed({}), "errno")
    BY <1>3 DEF DbFetchAll
  <2>2. Listed({}) \in Db
    BY DEF TypeOK, Db
  <2> HIDE DEF Listed
  <2> QED
    BY <2>1, <2>2 DEF Fetched
<1>4. CASE err = "none" /\ CanOpen
  <2>1. CASE f = Fetched(db, "none")
    BY <1>4, <2>1 DEF TypeOK, Fetched
  <2>2. CASE f # Fetched(db, "none")
    <3>1. PICK S \in SUBSET Records : f = Fetched(Listed(S), "errno")
      BY <1>4, <2>2 DEF DbFetchAll
    <3>2. Listed(S) \in Db
      BY <1>2
    <3> HIDE DEF Listed
    <3> QED
      BY <3>1, <3>2 DEF Fetched
  <2> QED
    BY <2>1, <2>2
<1> QED
  BY <1>1, <1>3, <1>4

LEMMA GetType ==
  ASSUME TypeOK, Get
  PROVE  TypeOK'
<1>1. CASE GetAll
  <2>1. PICK f \in DbFetchAll : err' = f.err /\ Respond(Ok(f.text))
    BY <1>1 DEF GetAll
  <2>2. Ok(f.text) \in Reply
    BY DbFetchAllType, OkType
  <2>3. db' \in Db
    BY <1>1 DEF GetAll, TypeOK
  <2> QED
    BY <2>1, <2>2, <2>3, DbFetchAllType, RespondType
<1>2. CASE GetKey
  <2>1. PICK f \in DbFetch(cur.key) : err' = f.err /\ Respond(Page(f.text))
    BY <1>2 DEF GetKey
  <2>2. cur.key \in Key
    BY <1>2, RequestFields DEF GetKey, TypeOK
  <2>3. Page(f.text) \in Reply
    BY <2>2, DbFetchType, OkType, SaysType DEF Page
  <2>4. db' \in Db
    BY <1>2 DEF GetKey, TypeOK
  <2> QED
    BY <2>1, <2>2, <2>3, <2>4, DbFetchType, RespondType
<1>3. CASE GetPath
  <2>1. db' \in Db /\ err' \in {"none", "EINTR", "errno"}
    BY <1>3 DEF GetPath, TypeOK
  <2> QED
    BY <1>3, <2>1, SaysType, RespondType DEF GetPath
<1>4. CASE GetCrashes
  BY <1>4, DiesType DEF GetCrashes
<1> QED
  BY <1>1, <1>2, <1>3, <1>4 DEF Get

LEMMA PutStepType ==
  ASSUME TypeOK, PutStep \/ Invalid
  PROVE  TypeOK'
<1>1. CASE PutStores
  <2>1. cur.key \in Key /\ cur.val \in Val
    BY <1>1, RequestFields DEF PutStores, TypeOK
  <2>2. db' \in Db /\ err' \in {"none", "EINTR", "errno"}
    BY <1>1, <2>1 DEF PutStores, DbStore, TypeOK, Db
  <2> QED
    BY <1>1, <2>2, SaysType, RespondType DEF PutStores
<1>2. CASE PutNoEquals \/ Invalid
  <2>1. db' \in Db /\ err' \in {"none", "EINTR", "errno"}
    BY <1>2 DEF PutNoEquals, Invalid, TypeOK
  <2> QED
    BY <1>2, <2>1, SaysType, RespondType DEF PutNoEquals, Invalid
<1>3. CASE PutCrashes
  BY <1>3, DiesType DEF PutCrashes
<1> QED
  BY <1>1, <1>2, <1>3 DEF PutStep

LEMMA AnswerType ==
  ASSUME TypeOK, Answer
  PROVE  TypeOK'
<1>1. CASE Write
  <2>1. reply' \in [Client -> Reply]
    BY <1>1 DEF TypeOK, Write
  <2>2. pc' \in Serving /\ err' \in {"none", "EINTR", "errno"}
    BY <1>1 DEF TypeOK, Write, AfterWrite, Serving
  <2> QED
    BY <1>1, <2>1, <2>2 DEF TypeOK, Write
<1>2. CASE WriteLost
  <2>1. pc' \in Serving /\ err' \in {"none", "EINTR", "errno"}
    BY <1>2 DEF TypeOK, WriteLost, WriteErrors, AfterWrite, Serving
  <2> QED
    BY <1>2, <2>1 DEF TypeOK, WriteLost, clientVars
<1>3. CASE WriteSigpipe \/ FreeCrashes
  BY <1>3, DiesType DEF WriteSigpipe, FreeCrashes
<1>4. CASE Close
  BY <1>4 DEF TypeOK, Close, Serving, clientVars
<1>5. CASE Free
  <2>1. Unasked \in Request /\ NoReply \in Reply
    BY UnaskedType, SaysType DEF NoReply
  <2>2. pc' \in {"accept", "shutdown"}
    BY <1>5 DEF Free
  <2> QED
    BY <1>5, <2>1, <2>2 DEF TypeOK, Free, clientVars
<1> QED
  BY <1>1, <1>2, <1>3, <1>4, <1>5 DEF Answer

LEMMA ClientType ==
  ASSUME TypeOK, NEW c \in Client, Connect(c) \/ Send(c) \/ Leave(c)
  PROVE  TypeOK'
<1>1. CASE Connect(c)
  <2>1. queue' \in Seq(Client)
    BY <1>1, AppendProperties DEF TypeOK, Connect
  <2>2. req' \in [Client -> Request]
    BY <1>1, ServerAssumption DEF TypeOK, Connect, ServerAssumption
  <2> QED
    BY <1>1, <2>1, <2>2 DEF TypeOK, Connect
<1>2. CASE Send(c)
  BY <1>2 DEF TypeOK, Send, serverVars
<1>3. CASE Leave(c)
  BY <1>3 DEF TypeOK, Leave, serverVars
<1> QED
  BY <1>1, <1>2, <1>3

LEMMA NextType ==
  ASSUME TypeOK, pc = "process" => conn \in Client, [Next]_vars
  PROVE  TypeOK'
<1>1. CASE UNCHANGED vars
  BY <1>1 DEF TypeOK, vars
<1>2. CASE Server
  BY <1>2, LifecycleType, AcceptType, ProcessType, GetType, PutStepType,
     AnswerType DEF Server
<1>3. CASE Environment
  BY <1>3, LifecycleType, AcceptType, ProcessType, ClientType DEF Environment
<1> QED
  BY <1>1, <1>2, <1>3 DEF Next
-----------------------------------------------------------------------------
(* ServerInv is inductive: one lemma per group of actions. *)

(* A client that has gone sends no more, so what its request may be taken  *)
(* for only grows.                                                         *)
LEMMA TakenForGrows ==
  ASSUME NEW c, UNCHANGED req[c],
         state[c] = "closed" => state'[c] = "closed" /\ UNCHANGED sent[c]
  PROVE  TakenFor(c) \subseteq TakenFor(c)'
BY DEF TakenFor, Cut, Whole

LEMMA CostlyStays ==
  ASSUME NEW c, UNCHANGED req[c],
         state[c] = "closed" => state'[c] = "closed" /\ UNCHANGED sent[c]
  PROVE  Costly(c) => Costly(c)'
BY TakenForGrows DEF Costly

LEMMA UnaskedIsOther == Unasked.kind = "other"
BY DEF Unasked, Plain

LEMMA InitServerInv == Init => ServerInv
<1> SUFFICES ASSUME Init PROVE ServerInv
  OBVIOUS
<1>1. TypeOK
  BY InitType
<1>2. Bound
  BY DEF Init, Bound, Serving
<1>3. Latched /\ Stored /\ OpenExplained
  BY DEF Init, Latched, Stored, OpenExplained
<1>4. Faithful
  BY DEF Init, Faithful
<1> QED
  BY <1>1, <1>2, <1>3, <1>4 DEF ServerInv

LEMMA DiesPreserves ==
  ASSUME ServerInv, Dies
  PROVE  ServerInv'
<1>1. TypeOK'
  BY DiesType DEF ServerInv
<1>2. Bound'
  BY DEF Dies, Bound, Serving
<1>3. Latched' /\ Stored' /\ OpenExplained'
  BY DEF Dies, Latched, Stored, OpenExplained
<1>4. Faithful'
  BY DEF Dies, Faithful
<1> QED
  BY <1>1, <1>2, <1>3, <1>4 DEF ServerInv

(* Steps outside the processing FSM that leave the connections alone. *)
LEMMA LifecyclePreserves ==
  ASSUME ServerInv, StageDone \/ StageFails \/ Shutdown \/ Kill \/ Start
  PROVE  ServerInv'
<1>1. CASE Shutdown \/ Kill
  BY <1>1, DiesPreserves DEF Shutdown, Kill
<1>2. CASE StageDone \/ StageFails \/ Start
  <2>1. TypeOK'
    BY <1>2, LifecycleType DEF ServerInv
  <2>2. /\ pc \notin Serving /\ pc' \notin Serving
        /\ UNCHANGED <<conn, assigned, queue, openFds, bytes, cur, state, req, sent>>
        /\ err' = "none" => err = "none"
    BY <1>2 DEF StageDone, StageFails, Start, StageOrder, Stage, Serving,
       clientVars
  <2>3. Bound'
    BY <2>2 DEF ServerInv, Bound
  <2>4. Latched' /\ Stored'
    BY <2>2 DEF ServerInv, Latched, Stored, Serving
  <2>5. Faithful'
    BY <2>2 DEF ServerInv, Bound, Faithful, Serving
  <2>6. OpenExplained'
    BY <2>2, CostlyStays DEF ServerInv, OpenExplained
  <2> QED
    BY <2>1, <2>3, <2>4, <2>5, <2>6 DEF ServerInv
<1> QED
  BY <1>1, <1>2
LEMMA AcceptPreserves ==
  ASSUME ServerInv, Accept
  PROVE  ServerInv'
<1>1. TypeOK'
  BY AcceptType DEF ServerInv
<1>2. /\ pc = "accept" /\ pc \notin Serving /\ conn = NoClient /\ ~assigned
      /\ UNCHANGED <<err, bytes, assigned, cur, state, req, sent>>
      /\ queue # << >> /\ queue' = Tail(queue)
      /\ openFds' = openFds \cup {Head(queue)}
  BY DEF Accept, ServerInv, Bound, Serving, clientVars
<1>3. queue \in Seq(Client)
  BY DEF ServerInv, TypeOK
<1>4. /\ Head(queue) \in Client /\ Head(queue) = queue[1]
      /\ Len(queue) \in Nat \ {0}
      /\ Len(queue') = Len(queue) - 1
      /\ \A i \in 1 .. Len(queue') : queue'[i] = queue[i + 1]
  BY <1>2, <1>3, HeadTailProperties, LenProperties, EmptySeq
<1>5. \/ pc' = "process" /\ err = "none" /\ conn' = Head(queue)
      \/ pc' \in {"accept", "shutdown"} /\ err # "none" /\ conn' = conn
  BY AcceptReturnsType DEF Accept
<1>6. state[Head(queue)] # "idle"
  BY <1>4 DEF ServerInv, Bound
<1>7. Bound'
  <2>1. \A i \in 1 .. Len(queue') : state'[queue'[i]] # "idle"
    BY <1>2, <1>4 DEF ServerInv, Bound
  <2>2. \A c \in openFds' : state'[c] # "idle"
    BY <1>2, <1>6 DEF ServerInv, Bound
  <2> QED
    BY <1>2, <1>4, <1>5, <1>6, <2>1, <2>2 DEF Bound, Serving
<1>8. Latched' /\ Stored'
  BY <1>2, <1>5 DEF ServerInv, Latched, Stored
<1>9. Faithful'
  BY <1>2, <1>5, UnaskedIsOther DEF ServerInv, Faithful
<1>10. OpenExplained'
  <2> SUFFICES ASSUME err' = "none", NEW c \in openFds'
               PROVE  \/ Costly(c)'
                      \/ c = conn' /\ pc' \in Serving \ {"free"}
    BY DEF OpenExplained
  <2>1. CASE c = Head(queue)
    BY <1>2, <1>5, <2>1 DEF Serving
  <2>2. CASE c # Head(queue)
    <3>1. Costly(c)
      BY <1>2, <2>2 DEF ServerInv, OpenExplained
    <3> QED
      BY <1>2, <3>1, CostlyStays
  <2> QED
    BY <2>1, <2>2
<1> QED
  BY <1>1, <1>7, <1>8, <1>9, <1>10 DEF ServerInv

(* Every step that latches an error and leaves the rest of the FSM alone. *)
LEMMA LatchPreserves ==
  ASSUME ServerInv, TypeOK', err' # "none",
         UNCHANGED <<queue, openFds, conn, assigned, cur, state>>,
         \/ pc' = pc
         \/ pc \notin Serving /\ pc' \notin Serving
  PROVE  ServerInv'
<1>1. Bound'
  BY DEF ServerInv, Bound
<1>2. Latched' /\ Stored' /\ OpenExplained'
  BY DEF Latched, Stored, OpenExplained
<1>3. Faithful'
  BY DEF ServerInv, Faithful, Serving
<1> QED
  BY <1>1, <1>2, <1>3 DEF ServerInv

LEMMA AcceptFailsPreserves ==
  ASSUME ServerInv, AcceptFails
  PROVE  ServerInv'
<1>1. TypeOK'
  BY AcceptType DEF ServerInv
<1>2. pc' \in {"accept", "shutdown"}
  BY AcceptReturnsType DEF AcceptFails
<1> QED
  BY <1>1, <1>2, LatchPreserves DEF AcceptFails, Serving, clientVars

LEMMA SignalPreserves ==
  ASSUME ServerInv, Signal
  PROVE  ServerInv'
<1>1. TypeOK'
  BY AcceptType DEF ServerInv
<1>2. CASE err' = "EINTR" /\ pc = "accept" /\ AcceptReturns("EINTR")
  <2>1. pc' \in {"accept", "shutdown"}
    BY <1>2, AcceptReturnsType
  <2> QED
    BY <1>1, <1>2, <2>1, LatchPreserves DEF Signal, Serving, clientVars
<1>3. CASE err' = "EINTR" /\ pc' = pc
  BY <1>1, <1>3, LatchPreserves DEF Signal, clientVars
<1>4. CASE UNCHANGED <<pc, err, bytes>>
  <2>1. UNCHANGED <<queue, openFds, conn, assigned, cur, state, req, sent, db, out>>
    BY DEF Signal, clientVars
  <2>2. Bound' /\ Latched' /\ Stored'
    BY <1>4, <2>1 DEF ServerInv, Bound, Latched, Stored
  <2>3. Faithful' /\ OpenExplained'
    BY <1>4, <2>1, TakenForGrows, CostlyStays DEF ServerInv, Faithful, OpenExplained
  <2> QED
    BY <1>1, <2>2, <2>3 DEF ServerInv
<1> QED
  BY <1>2, <1>3, <1>4 DEF Signal

LEMMA ReadResetPreserves ==
  ASSUME ServerInv, ReadReset
  PROVE  ServerInv'
<1>1. TypeOK'
  BY ProcessType DEF ServerInv, Bound, Serving
<1> QED
  BY <1>1, LatchPreserves DEF ReadReset, clientVars
LEMMA DispatchPreserves ==
  ASSUME ServerInv, pc = "process", NEW r \in Request, Dispatch(r),
         err = "none" => r \in TakenFor(conn)
  PROVE  ServerInv'
<1>1. TypeOK'
  BY DispatchType DEF ServerInv
<1>2. /\ UNCHANGED <<err, queue, openFds, conn, bytes, state, req, sent>>
      /\ cur' = r /\ assigned'
      /\ pc' \in {"put", "invalid", "get"}
      /\ pc' = "invalid" => r.kind = "other"
      /\ pc \in Serving
  BY DEF Dispatch, PutKind, Serving, clientVars
<1>3. Bound' /\ Latched' /\ Stored'
  BY <1>2 DEF ServerInv, Bound, Latched, Stored, Serving
<1>4. TakenFor(conn)' = TakenFor(conn)
  BY <1>2 DEF TakenFor, Cut, Whole
<1>5. Faithful'
  BY <1>2, <1>4 DEF Faithful
<1>6. OpenExplained'
  BY <1>2, CostlyStays DEF ServerInv, OpenExplained, Serving
<1> QED
  BY <1>1, <1>3, <1>5, <1>6 DEF ServerInv

LEMMA ProcessPreserves ==
  ASSUME ServerInv, Process
  PROVE  ServerInv'
<1>0. pc = "process" => conn \in Client /\ req[conn] \in Request
  BY DEF ServerInv, Bound, TypeOK, Serving
<1>1. CASE ProcessWhole
  <2>1. Whole(req[conn]) \in Request /\ Whole(req[conn]) \in TakenFor(conn)
    BY <1>0, <1>1, WholeType DEF ProcessWhole, TakenFor
  <2> QED
    BY <1>1, <2>1, DispatchPreserves DEF ProcessWhole
<1>2. CASE ProcessCut
  <2>1. PICK r \in Cut(req[conn]) : Dispatch(r)
    BY <1>2 DEF ProcessCut
  <2>2. r \in Request /\ r \in TakenFor(conn)
    BY <1>0, <1>2, CutType DEF ProcessCut, TakenFor
  <2> QED
    BY <1>2, <2>1, <2>2, DispatchPreserves DEF ProcessCut
<1>3. CASE ProcessAltered
  <2>1. err # "none"
    BY <1>3 DEF ProcessAltered, ServerInv, Latched
  <2> QED
    BY <1>3, <2>1, DispatchPreserves DEF ProcessAltered, Parsed
<1>4. CASE ProcessRefused
  <2>1. TypeOK'
    BY <1>0, <1>4, ProcessType DEF ServerInv, Process
  <2>2. /\ UNCHANGED <<err, queue, openFds, conn, bytes, assigned, cur, state, req, sent>>
        /\ pc = "process" /\ pc' = "invalid"
    BY <1>4 DEF ProcessRefused, clientVars
  <2>3. Bound' /\ Latched' /\ Stored'
    BY <2>2 DEF ServerInv, Bound, Latched, Stored, Serving
  <2>4. Faithful' /\ OpenExplained'
    BY <1>0, <2>2, TakenForGrows, CostlyStays DEF ServerInv, Faithful, OpenExplained, Serving
  <2> QED
    BY <2>1, <2>3, <2>4 DEF ServerInv
<1>5. CASE ProcessCrashes
  BY <1>5, DiesPreserves DEF ProcessCrashes
<1> QED
  BY <1>1, <1>2, <1>3, <1>4, <1>5 DEF Process

(* The handlers: the answer is ready, and the record if there is one. *)
LEMMA RespondPreserves ==
  ASSUME ServerInv, TypeOK', pc \in {"get", "put", "invalid"},
         NEW answer, Respond(answer), err' = "none" => err = "none",
         answer.status = "complete" /\ err' = "none"
           => pc = "put" /\ cur.kind = "put" /\ db'[cur.key] = cur.val
  PROVE  ServerInv'
<1>1. /\ UNCHANGED <<queue, openFds, conn, bytes, assigned, cur, state, req, sent>>
      /\ pc' = "write" /\ out' = answer
  BY DEF Respond, clientVars
<1>2. Bound' /\ Latched'
  BY <1>1 DEF ServerInv, Bound, Latched, Serving
<1>3. Stored'
  BY <1>1 DEF ServerInv, Faithful, Stored
<1>4. Faithful' /\ OpenExplained'
  BY <1>1, TakenForGrows, CostlyStays DEF ServerInv, Faithful, OpenExplained, Serving
<1> QED
  BY <1>2, <1>3, <1>4 DEF ServerInv

LEMMA GetPreserves ==
  ASSUME ServerInv, Get
  PROVE  ServerInv'
<1>0. TypeOK'
  BY GetType DEF ServerInv
<1>1. CASE GetAll
  <2>1. PICK f \in DbFetchAll : err' = f.err /\ Respond(Ok(f.text))
    BY <1>1 DEF GetAll
  <2>2. err' = "none" => err = "none"
    BY <2>1, DbFetchAllType DEF ServerInv
  <2>3. Ok(f.text).status = "200"
    BY DEF Ok
  <2> QED
    BY <1>0, <1>1, <2>1, <2>2, <2>3, RespondPreserves DEF GetAll
<1>2. CASE GetKey
  <2>0. cur.key \in Key
    BY <1>2, RequestFields DEF GetKey, ServerInv, TypeOK
  <2>1. PICK f \in DbFetch(cur.key) : err' = f.err /\ Respond(Page(f.text))
    BY <1>2 DEF GetKey
  <2>2. err' = "none" => err = "none"
    BY <2>0, <2>1, DbFetchType DEF ServerInv
  <2>3. Page(f.text).status \in {"200", "404"}
    BY DEF Page, Ok, Says
  <2> QED
    BY <1>0, <1>2, <2>1, <2>2, <2>3, RespondPreserves DEF GetKey
<1>3. CASE GetPath
  <2>1. Says("welcome").status = "welcome" /\ Says("404").status = "404"
    BY DEF Says
  <2> QED
    BY <1>0, <1>3, <2>1, RespondPreserves DEF GetPath
<1>4. CASE GetCrashes
  BY <1>4, DiesPreserves DEF GetCrashes
<1> QED
  BY <1>1, <1>2, <1>3, <1>4 DEF Get

LEMMA PutStepPreserves ==
  ASSUME ServerInv, PutStep \/ Invalid
  PROVE  ServerInv'
<1>0. TypeOK'
  BY PutStepType DEF ServerInv
<1>1. CASE PutStores
  <2>1. cur.key \in Key
    BY <1>1, RequestFields DEF PutStores, ServerInv, TypeOK
  <2>2. err' = "none" => err = "none" /\ db'[cur.key] = cur.val
    BY <1>1, <2>1 DEF PutStores, DbStore, DbFault, ServerInv, TypeOK, Db
  <2> QED
    BY <1>0, <1>1, <2>2, RespondPreserves DEF PutStores
<1>2. CASE PutNoEquals \/ Invalid
  <2>1. Says("400").status = "400"
    BY DEF Says
  <2> QED
    BY <1>0, <1>2, <2>1, RespondPreserves DEF PutNoEquals, Invalid
<1>3. CASE PutCrashes
  BY <1>3, DiesPreserves DEF PutCrashes
<1> QED
  BY <1>1, <1>2, <1>3 DEF PutStep
LEMMA WritePreserves ==
  ASSUME ServerInv, Write \/ WriteLost
  PROVE  ServerInv'
<1>1. TypeOK'
  BY AnswerType DEF ServerInv, Answer
<1>2. /\ UNCHANGED <<queue, openFds, conn, bytes, assigned, cur, state, req, sent>>
      /\ pc = "write" /\ pc' = AfterWrite
      /\ err' = "none" => err = "none"
  BY DEF Write, WriteLost, WriteErrors, clientVars
<1>3. pc' \in {"free", "close"} /\ (pc' = "free" => cur.kind = "noEquals")
  BY <1>2 DEF AfterWrite
<1>4. Bound' /\ Latched' /\ Stored'
  BY <1>2, <1>3 DEF ServerInv, Bound, Latched, Stored, Serving
<1>5. Faithful'
  BY <1>2, <1>3, TakenForGrows DEF ServerInv, Faithful
<1>6. OpenExplained'
  <2> SUFFICES ASSUME err' = "none", NEW c \in openFds'
               PROVE  \/ Costly(c)'
                      \/ c = conn' /\ pc' \in Serving \ {"free"}
    BY DEF OpenExplained
  <2>1. CASE c = conn /\ pc' = "free"
    <3>1. cur = Plain("noEquals")
      BY <1>3, <2>1, RequestFields DEF ServerInv, TypeOK
    <3>2. assigned
      BY <1>3, <2>1, UnaskedIsOther DEF ServerInv, Faithful
    <3>3. cur \in TakenFor(conn)
      BY <1>2, <3>2 DEF ServerInv, Faithful
    <3> QED
      BY <1>2, <2>1, <3>1, <3>3, CostlyStays DEF Costly
  <2>2. CASE c = conn /\ pc' = "close"
    BY <1>2, <2>2 DEF Serving
  <2>3. CASE c # conn
    BY <1>2, <2>3, CostlyStays DEF ServerInv, OpenExplained
  <2> QED
    BY <1>3, <2>1, <2>2, <2>3
<1> QED
  BY <1>1, <1>4, <1>5, <1>6 DEF ServerInv

LEMMA ClosePreserves ==
  ASSUME ServerInv, Close
  PROVE  ServerInv'
<1>1. TypeOK'
  BY AnswerType DEF ServerInv, Answer
<1>2. /\ UNCHANGED <<err, queue, conn, bytes, assigned, cur, state, req, sent>>
      /\ pc = "close" /\ pc' = "free"
      /\ openFds' = IF err = "none" THEN openFds \ {conn} ELSE openFds
  BY DEF Close, clientVars
<1>3. Bound' /\ Latched' /\ Stored'
  BY <1>2 DEF ServerInv, Bound, Latched, Stored, Serving
<1>4. Faithful' /\ OpenExplained'
  BY <1>2, TakenForGrows, CostlyStays DEF ServerInv, Faithful, OpenExplained
<1> QED
  BY <1>1, <1>3, <1>4 DEF ServerInv

LEMMA FreePreserves ==
  ASSUME ServerInv, Free
  PROVE  ServerInv'
<1>1. TypeOK'
  BY AnswerType DEF ServerInv, Answer
<1>2. /\ UNCHANGED <<err, queue, openFds, state, req, sent>>
      /\ pc = "free" /\ pc' \in {"accept", "shutdown"}
      /\ conn' = NoClient /\ bytes' = "intact" /\ ~assigned' /\ cur' = Unasked
  BY DEF Free, clientVars
<1>3. Bound' /\ Latched' /\ Stored'
  BY <1>2 DEF ServerInv, Bound, Latched, Stored, Serving
<1>4. Faithful'
  BY <1>2 DEF Faithful
<1>5. OpenExplained'
  BY <1>2, CostlyStays DEF ServerInv, OpenExplained
<1> QED
  BY <1>1, <1>3, <1>4, <1>5 DEF ServerInv

LEMMA AnswerPreserves ==
  ASSUME ServerInv, Answer
  PROVE  ServerInv'
<1>1. CASE WriteSigpipe \/ FreeCrashes
  BY <1>1, DiesPreserves DEF WriteSigpipe, FreeCrashes
<1> QED
  BY <1>1, WritePreserves, ClosePreserves, FreePreserves DEF Answer

LEMMA ConnectPreserves ==
  ASSUME ServerInv, NEW c \in Client, Connect(c)
  PROVE  ServerInv'
<1>1. TypeOK'
  BY ClientType DEF ServerInv
<1>2. queue \in Seq(Client) /\ state \in [Client -> {"idle", "open", "closed"}]
      /\ req \in [Client -> Request]
  BY DEF ServerInv, TypeOK
<1>3. /\ UNCHANGED <<pc, err, db, openFds, conn, bytes, assigned, cur, out, sent>>
      /\ queue' = Append(queue, c) /\ state[c] = "idle" /\ state'[c] = "open"
      /\ \A d \in Client \ {c} : state'[d] = state[d] /\ req'[d] = req[d]
  BY <1>2 DEF Connect
<1>4. \A d \in Client : state[d] # "idle" => state'[d] = state[d] /\ req'[d] = req[d]
  BY <1>3
<1>5. \A i \in 1 .. Len(queue') : state'[queue'[i]] # "idle"
  <2> SUFFICES ASSUME NEW i \in 1 .. Len(queue') PROVE state'[queue'[i]] # "idle"
    OBVIOUS
  <2>1. CASE i = Len(queue) + 1
    BY <1>2, <1>3, <2>1, AppendProperties
  <2>2. CASE i \in 1 .. Len(queue)
    <3>1. queue'[i] = queue[i] /\ queue[i] \in Client
      BY <1>2, <1>3, <2>2, AppendProperties, ElementOfSeq
    <3> QED
      BY <1>4, <2>2, <3>1 DEF ServerInv, Bound
  <2>3. Len(queue) \in Nat /\ Len(queue') = Len(queue) + 1
    BY <1>2, <1>3, AppendProperties, LenProperties
  <2> QED
    BY <2>1, <2>2, <2>3
<1>6. openFds \subseteq Client
  BY DEF ServerInv, TypeOK
<1>7. Bound'
  BY <1>3, <1>4, <1>5, <1>6 DEF ServerInv, Bound
<1>8. Latched' /\ Stored'
  BY <1>3 DEF ServerInv, Latched, Stored
<1>9. Faithful'
  <2>1. assigned => conn \in Client /\ state[conn] # "idle"
    BY DEF ServerInv, Bound
  <2>2. assigned => TakenFor(conn) \subseteq TakenFor(conn)'
    BY <1>3, <1>4, <2>1 DEF TakenFor, Cut, Whole
  <2> QED
    BY <1>3, <2>2 DEF ServerInv, Faithful
<1>10. OpenExplained'
  <2>1. \A d \in openFds : Costly(d) => Costly(d)'
    <3> SUFFICES ASSUME NEW d \in openFds PROVE Costly(d) => Costly(d)'
      OBVIOUS
    <3>1. UNCHANGED <<state[d], req[d], sent[d]>>
      BY <1>3, <1>4, <1>6 DEF ServerInv, Bound
    <3> QED
      BY <3>1, CostlyStays
  <2> QED
    BY <1>3, <2>1 DEF ServerInv, OpenExplained
<1> QED
  BY <1>1, <1>7, <1>8, <1>9, <1>10 DEF ServerInv
LEMMA SendLeavePreserves ==
  ASSUME ServerInv, NEW c \in Client, Send(c) \/ Leave(c)
  PROVE  ServerInv'
<1>1. TypeOK'
  BY ClientType DEF ServerInv
<1>2. /\ UNCHANGED <<pc, err, db, queue, openFds, conn, bytes, assigned, cur,
                     out, req>>
      /\ \A d \in Client : (state[d] # "idle" => state'[d] # "idle")
      /\ \A d \in Client :
           state[d] = "closed" => state'[d] = "closed" /\ UNCHANGED sent[d]
  BY DEF Send, Leave, serverVars, ServerInv, TypeOK
<1>3. queue \in Seq(Client) /\ openFds \subseteq Client
  BY DEF ServerInv, TypeOK
<1>4. \A d \in Client :
        TakenFor(d) \subseteq TakenFor(d)' /\ (Costly(d) => Costly(d)')
  <2> SUFFICES ASSUME NEW d \in Client
               PROVE  TakenFor(d) \subseteq TakenFor(d)' /\ (Costly(d) => Costly(d)')
    OBVIOUS
  <2>1. /\ UNCHANGED req[d]
        /\ state[d] = "closed" => state'[d] = "closed" /\ UNCHANGED sent[d]
    BY <1>2
  <2> QED
    BY <2>1, TakenForGrows, CostlyStays
<1>5. Bound'
  <2>1. \A i \in 1 .. Len(queue) : state'[queue[i]] # "idle"
    <3> SUFFICES ASSUME NEW i \in 1 .. Len(queue) PROVE state'[queue[i]] # "idle"
      OBVIOUS
    <3>1. queue[i] \in Client
      BY <1>3, ElementOfSeq
    <3> QED
      BY <1>2, <3>1 DEF ServerInv, Bound
  <2>2. \A d \in openFds : state'[d] # "idle"
    BY <1>2, <1>3 DEF ServerInv, Bound
  <2>3. pc \in Serving => conn \in Client /\ state'[conn] # "idle"
    BY <1>2 DEF ServerInv, Bound
  <2> QED
    BY <1>2, <2>1, <2>2, <2>3 DEF ServerInv, Bound
<1>6. Latched' /\ Stored'
  BY <1>2 DEF ServerInv, Latched, Stored
<1>7. Faithful'
  <2>1. assigned => conn \in Client
    BY DEF ServerInv, Bound
  <2> QED
    BY <1>2, <1>4, <2>1 DEF ServerInv, Faithful
<1>8. OpenExplained'
  BY <1>2, <1>3, <1>4 DEF ServerInv, OpenExplained
<1> QED
  BY <1>1, <1>5, <1>6, <1>7, <1>8 DEF ServerInv

LEMMA NextServerInv == ServerInv /\ [Next]_vars => ServerInv'
<1> SUFFICES ASSUME ServerInv, [Next]_vars PROVE ServerInv'
  OBVIOUS
<1>1. CASE UNCHANGED vars
  <2>1. TypeOK' /\ Bound' /\ Latched' /\ Stored'
    BY <1>1 DEF ServerInv, TypeOK, Bound, Latched, Stored, vars
  <2>2. \A c : TakenFor(c)' = TakenFor(c)
    BY <1>1 DEF TakenFor, Cut, Whole, vars
  <2>3. Faithful' /\ OpenExplained'
    BY <1>1, <2>2 DEF ServerInv, Faithful, OpenExplained, Costly, vars
  <2> QED
    BY <2>1, <2>3 DEF ServerInv
<1>2. CASE Server
  BY <1>2, LifecyclePreserves, AcceptPreserves, AcceptFailsPreserves,
     ProcessPreserves, GetPreserves, PutStepPreserves, AnswerPreserves DEF Server
<1>3. CASE Environment
  BY <1>3, LifecyclePreserves, SignalPreserves, ReadResetPreserves,
     ConnectPreserves, SendLeavePreserves DEF Environment
<1> QED
  BY <1>1, <1>2, <1>3 DEF Next

-----------------------------------------------------------------------------
(* The theorems. *)

(* ServerInv holds in every reachable state of the server, whatever its    *)
(* clients ask and whatever fails.                                         *)
THEOREM ServerInvariant == Spec => []ServerInv
<1>1. Init => ServerInv
  BY InitServerInv
<1>2. ServerInv /\ [Next]_vars => ServerInv'
  BY NextServerInv
<1> QED
  BY <1>1, <1>2, PTL DEF Spec

(* Type correctness. *)
THEOREM TypeCorrect == Spec => []TypeOK
<1>1. ServerInv => TypeOK
  BY DEF ServerInv
<1> QED
  BY <1>1, ServerInvariant, PTL

(* do_accept, put and dc_close: back in accept with no error latched, only *)
(* the descriptors of PUTs without "=" are open.                           *)
THEOREM OpenExplains == Spec => []OpenMeansBadPut
<1>1. ServerInv => OpenMeansBadPut
  BY DEF ServerInv, OpenExplained, OpenMeansBadPut, Serving
<1> QED
  BY <1>1, ServerInvariant, PTL

(* db_store, called from put: the database only ever changes to the record *)
(* that the client being served has sent, or to what its cut body named.   *)
LEMMA StoreStep ==
  ASSUME ServerInv, [Next]_vars, NEW k \in Key, db'[k] # db[k]
  PROVE  conn # NoClient /\ Put(k, db'[k]) \in TakenFor(conn)
<1>1. PutStores
  BY DEF Next, Server, Environment, Process, Get, PutStep, Answer, StageDone,
     StageFails, Shutdown, Kill, Start, Dies, Accept, AcceptFails, Signal,
     ProcessWhole, ProcessCut, ProcessAltered, ProcessRefused, ProcessCrashes,
     Dispatch, ReadReset, GetAll, GetKey, GetPath, GetCrashes, PutNoEquals,
     PutCrashes, Invalid, Write, WriteLost, WriteSigpipe, Close, Free,
     FreeCrashes, Connect, Send, Leave, vars
<1>2. pc = "put" /\ cur.kind = "put" /\ assigned /\ conn \in Client
  BY <1>1 DEF PutStores, ServerInv, Faithful, Bound, Serving
<1>3. cur \in Request /\ cur.key \in Key /\ cur.val \in Val
  BY <1>2, RequestFields DEF ServerInv, TypeOK
<1>4. err = "none" /\ db' = [db EXCEPT ![cur.key] = cur.val]
  BY <1>1 DEF PutStores, DbStore
<1>5. k = cur.key /\ db'[k] = cur.val
  BY <1>3, <1>4 DEF ServerInv, TypeOK, Db
<1>6. cur = Put(k, db'[k])
  BY <1>2, <1>3, <1>5 DEF Request, Put
<1>7. cur \in TakenFor(conn)
  BY <1>2, <1>4 DEF ServerInv, Faithful
<1>8. conn # NoClient
  BY <1>2, ServerAssumption, BeaconsAssumption DEF ServerAssumption, BeaconsAssumption
<1> QED
  BY <1>6, <1>7, <1>8

(* Whatever fails, crashes or interrupts a read, the database only changes *)
(* to what a client that is being served asked put to store.               *)
THEOREM StoresOnlyAsAsked == Spec => StoredOnlyAsAsked
<1>1. ServerInv /\ [Next]_vars
        => [\A k \in Key :
              db'[k] # db[k]
                => conn # NoClient /\ Put(k, db'[k]) \in TakenFor(conn)]_vars
  BY StoreStep
<1> QED
  BY <1>1, ServerInvariant, PTL DEF Spec, StoredOnlyAsAsked

(* The step that delivers "PUT Complete". *)
LEMMA AckStep ==
  ASSUME ServerInv, [Next]_vars, NEW c \in Client, Answered(c, "complete"),
         err' = "none"
  PROVE  \E r \in TakenFor(c) : r.kind = "put" /\ db'[r.key] = r.val
<1>0. reply'[c] # reply[c]
  BY DEF Answered, NoReply, Says
<1>1. Write
  BY <1>0 DEF Next, Server, Environment, Process, Get, PutStep, Answer, StageDone,
     StageFails, Shutdown, Kill, Start, Dies, Accept, AcceptFails, Signal,
     ProcessWhole, ProcessCut, ProcessAltered, ProcessRefused, ProcessCrashes,
     Dispatch, ReadReset, GetAll, GetKey, GetPath, GetCrashes, PutStores,
     PutNoEquals, PutCrashes, Invalid, Respond, WriteLost, WriteSigpipe, Close,
     Free, FreeCrashes, Connect, Send, Leave, vars, clientVars
<1>2. pc = "write" /\ err = "none" /\ db' = db
  BY <1>1 DEF Write
<1>3. c = conn /\ out.status = "complete"
  BY <1>0, <1>1 DEF Write, Answered, ServerInv, TypeOK
<1>4. assigned /\ cur.kind = "put" /\ db[cur.key] = cur.val
  BY <1>2, <1>3 DEF ServerInv, Stored
<1>5. cur \in TakenFor(conn)
  BY <1>2, <1>4 DEF ServerInv, Faithful
<1> QED
  BY <1>2, <1>3, <1>4, <1>5

(* put, db_store and dc_write: with no error latched, "PUT Complete" is    *)
(* read only by a client whose record is in the database.                  *)
THEOREM AckIsStored == Spec => AckMeansStored
<1>1. ServerInv /\ [Next]_vars
        => [\A c \in Client :
              Answered(c, "complete") /\ err' = "none"
                => \E r \in TakenFor(c) : r.kind = "put" /\ db'[r.key] = r.val]_vars
  BY AckStep
<1> QED
  BY <1>1, ServerInvariant, PTL DEF Spec, AckMeansStored
=============================================================================
