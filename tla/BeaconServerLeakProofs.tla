------------------------ MODULE BeaconServerLeakProofs ------------------------
(***************************************************************************)
(* What the server loses and when that stops it: proofs for every set of   *)
(* connections, every backlog and every number of descriptors.             *)
(***************************************************************************)
EXTENDS BeaconServerProofs, FiniteSetTheorems

Queued == { queue[i] : i \in 1 .. Len(queue) }

(* No connection is in the accept queue twice, or there and being served.  *)
Once ==
  /\ \A i, j \in 1 .. Len(queue) : queue[i] = queue[j] => i = j
  /\ conn \notin Queued

LEMMA QueuedAreClients ==
  ASSUME ServerInv
  PROVE  /\ Queued \subseteq Client
         /\ \A c \in Queued : state[c] # "idle"
         /\ NoClient \notin Queued
<1>1. \A i \in 1 .. Len(queue) : queue[i] \in Client
  BY ElementOfSeq DEF ServerInv, TypeOK
<1> QED
  BY <1>1, ServerAssumption DEF Queued, ServerInv, Bound, ServerAssumption

LEMMA ConnectQueue ==
  ASSUME ServerInv, Once, NEW c \in Client, Connect(c)
  PROVE  Queued' = Queued \cup {c} /\ c \notin Queued /\ c # conn /\ Once'
<1>1. /\ Len(queue) \in Nat /\ Len(queue') = Len(queue) + 1
      /\ queue'[Len(queue) + 1] = c
      /\ \A i \in 1 .. Len(queue) : queue'[i] = queue[i]
  BY AppendProperties, LenProperties DEF Connect, ServerInv, TypeOK
<1>2. state[c] = "idle" /\ conn' = conn
  BY DEF Connect
<1>3. c \notin Queued
  BY <1>2, QueuedAreClients
<1>4. c # conn
  BY <1>2, ServerAssumption DEF ServerInv, Bound, ServerAssumption
<1>5. 1 .. Len(queue') = 1 .. Len(queue) \cup {Len(queue) + 1}
  BY <1>1
<1>6. Queued' = Queued \cup {c}
  BY <1>1, <1>5 DEF Queued
<1>7. \A i, j \in 1 .. Len(queue') : queue'[i] = queue'[j] => i = j
  BY <1>1, <1>3, <1>5 DEF Once, Queued
<1> QED
  BY <1>2, <1>3, <1>4, <1>6, <1>7 DEF Once

LEMMA AcceptQueue ==
  ASSUME ServerInv, Once, Accept
  PROVE  /\ Head(queue) \in Queued
         /\ Queued' = Queued \ {Head(queue)}
         /\ Once'
<1>1. queue \in Seq(Client) /\ queue # << >> /\ queue' = Tail(queue)
  BY DEF Accept, ServerInv, TypeOK
<1>2. /\ Head(queue) = queue[1]
      /\ Len(queue) \in Nat \ {0}
      /\ Len(queue') = Len(queue) - 1
      /\ \A i \in 1 .. Len(queue') : queue'[i] = queue[i + 1]
  BY <1>1, HeadTailProperties, LenProperties, EmptySeq
<1>3. Head(queue) \in Queued
  BY <1>2 DEF Queued
<1>4. \A i \in 1 .. Len(queue') : i + 1 \in 1 .. Len(queue) /\ queue'[i] # Head(queue)
  <2> SUFFICES ASSUME NEW i \in 1 .. Len(queue')
               PROVE  i + 1 \in 1 .. Len(queue) /\ queue'[i] # Head(queue)
    OBVIOUS
  <2>1. i + 1 \in 1 .. Len(queue) /\ i + 1 # 1 /\ 1 \in 1 .. Len(queue)
    BY <1>2
  <2> QED
    BY <1>2, <2>1 DEF Once
<1>5. \A c \in Queued \ {Head(queue)} : \E i \in 1 .. Len(queue') : queue'[i] = c
  <2> SUFFICES ASSUME NEW j \in 1 .. Len(queue), queue[j] # Head(queue)
               PROVE  \E i \in 1 .. Len(queue') : queue'[i] = queue[j]
    BY DEF Queued
  <2>1. j - 1 \in 1 .. Len(queue') /\ (j - 1) + 1 = j
    BY <1>2
  <2> QED
    BY <1>2, <2>1
<1>6. Queued' = Queued \ {Head(queue)}
  <2>1. \A i \in 1 .. Len(queue') : queue'[i] \in Queued \ {Head(queue)}
    BY <1>2, <1>4 DEF Queued
  <2>2. Queued' = { queue'[i] : i \in 1 .. Len(queue') }
    BY DEF Queued
  <2>3. \A c \in Queued \ {Head(queue)} : c \in Queued'
    BY <1>5, <2>2
  <2> QED
    BY <2>1, <2>2, <2>3
<1>7. \A i, j \in 1 .. Len(queue') : queue'[i] = queue'[j] => i = j
  <2> SUFFICES ASSUME NEW i \in 1 .. Len(queue'), NEW j \in 1 .. Len(queue'),
                      queue'[i] = queue'[j]
               PROVE  i = j
    OBVIOUS
  <2>1. i + 1 = j + 1
    BY <1>2, <1>4 DEF Once
  <2> QED
    BY <1>2, <2>1
<1>8. conn' \in {conn, Head(queue)}
  BY DEF Accept
<1> QED
  BY <1>3, <1>6, <1>7, <1>8 DEF Once

LEMMA DiesQueue ==
  ASSUME Dies
  PROVE  Queued' = {} /\ Once'
BY DEF Dies, Queued, Once

(* All other steps leave the queue and the requests as they are. *)
Quiet ==
  /\ UNCHANGED <<queue, req>>
  /\ conn' \in {conn, NoClient}
  /\ \A c \in Client : state[c] # "idle" => state'[c] # "idle"
  /\ pc' = "process" => pc = "process" /\ conn' = conn
  /\ leaked' = leaked \/ ProcessRefused

LEMMA StepKinds ==
  ASSUME ServerInv, [Next]_vars
  PROVE  Dies \/ Accept \/ (\E c \in Client : Connect(c)) \/ Quiet
<1>1. CASE UNCHANGED vars
  BY <1>1 DEF vars, Quiet
<1>2. CASE StageDone \/ StageFails \/ Start \/ AcceptFails \/ Signal
  BY <1>2, AcceptReturnsType DEF StageDone, StageFails, Start, AcceptFails, Signal,
     StageOrder, Quiet, clientVars
<1>3. CASE ProcessWhole \/ ProcessCut \/ ProcessAltered \/ ProcessRefused \/ ReadReset
  BY <1>3 DEF ProcessWhole, ProcessCut, ProcessAltered, ProcessRefused, ReadReset,
     Dispatch, Quiet, clientVars
<1>4. CASE GetAll \/ GetKey \/ GetPath \/ PutStores \/ PutNoEquals \/ Invalid
  BY <1>4 DEF GetAll, GetKey, GetPath, PutStores, PutNoEquals, Invalid, Respond,
     Quiet, clientVars
<1>5. CASE Write \/ WriteLost \/ Close \/ Free
  BY <1>5 DEF Write, WriteLost, Close, Free, AfterWrite, Quiet, clientVars
<1>6. CASE \E c \in Client : Send(c) \/ Leave(c)
  BY <1>6 DEF Send, Leave, serverVars, Quiet, ServerInv, TypeOK
<1>7. CASE \/ Shutdown \/ Kill \/ ProcessCrashes \/ GetCrashes \/ PutCrashes
           \/ WriteSigpipe \/ FreeCrashes
  BY <1>7 DEF Shutdown, Kill, ProcessCrashes, GetCrashes, PutCrashes, WriteSigpipe,
     FreeCrashes
<1> QED
  BY <1>1, <1>2, <1>3, <1>4, <1>5, <1>6, <1>7
     DEF Next, Server, Environment, Process, Get, PutStep, Answer

LEMMA OnceStays ==
  ASSUME ServerInv, Once, [Next]_vars
  PROVE  Once'
<1>1. CASE Quiet
  <2>1. Queued' = Queued
    BY <1>1 DEF Quiet, Queued
  <2> QED
    BY <1>1, <2>1, QueuedAreClients DEF Quiet, Once
<1> QED
  BY <1>1, StepKinds, DiesQueue, AcceptQueue, ConnectQueue

-----------------------------------------------------------------------------
(* Buffers.  Each call of process that does not free them was for another  *)
(* refused request: one that is neither waiting nor being read.            *)
Finished ==
  { c \in Client : /\ state[c] # "idle" /\ req[c].kind = "tooLong"
                   /\ c \notin Queued
                   /\ ~(c = conn /\ pc = "process") }

Counted == \E S \in SUBSET Finished : IsFiniteSet(S) /\ Cardinality(S) = leaked

LEMMA CountedKeeps ==
  ASSUME Counted, Finished \subseteq Finished', leaked' = leaked
  PROVE  Counted'
BY DEF Counted

LEMMA CountedStays ==
  ASSUME ServerInv, Once, Counted, [Next]_vars
  PROVE  Counted'
<1>1. CASE Dies
  <2>1. {} \in SUBSET Finished'
    OBVIOUS
  <2> QED
    BY <1>1, <2>1, FS_EmptySet DEF Dies, Counted
<1>2. CASE Accept
  <2>1. /\ UNCHANGED <<state, req, leaked>>
        /\ \A c \in Client : c = conn' /\ pc' = "process" => c = Head(queue)
    BY <1>2, AcceptReturnsType DEF Accept, clientVars
  <2>2. Finished \subseteq Finished'
    BY <1>2, <2>1, AcceptQueue DEF Finished
  <2> QED
    BY <2>1, <2>2, CountedKeeps
<1>3. ASSUME NEW c \in Client, Connect(c) PROVE Counted'
  <2>1. /\ UNCHANGED <<pc, conn, leaked>> /\ state[c] = "idle" /\ state'[c] # "idle"
        /\ \A d \in Client \ {c} : state'[d] = state[d] /\ req'[d] = req[d]
    BY <1>3 DEF Connect, ServerInv, TypeOK
  <2>2. \A d \in Finished : d \in Client \ {c} /\ d \notin Queued'
    BY <1>3, <2>1, ConnectQueue DEF Finished
  <2>3. Finished \subseteq Finished'
    BY <2>1, <2>2 DEF Finished
  <2> QED
    BY <2>1, <2>3, CountedKeeps
<1>4. CASE Quiet
  <2>1. Queued' = Queued
    BY <1>4 DEF Quiet, Queued
  <2>2. Finished \subseteq Finished'
    BY <1>4, <2>1 DEF Quiet, Finished
  <2>3. CASE leaked' = leaked
    BY <2>2, <2>3, CountedKeeps
  <2>4. CASE ProcessRefused
    <3>1. PICK S \in SUBSET Finished : IsFiniteSet(S) /\ Cardinality(S) = leaked
      BY DEF Counted
    <3>2. /\ pc = "process" /\ pc' # "process" /\ leaked' = leaked + 1
          /\ req[conn].kind = "tooLong" /\ conn' = conn
      BY <2>4 DEF ProcessRefused
    <3>3. conn \in Client /\ state[conn] # "idle"
      BY <3>2 DEF ServerInv, Bound, Serving
    <3>4. conn \in Finished'
      BY <1>4, <2>1, <3>2, <3>3 DEF Quiet, Once, Finished
    <3>5. conn \notin S
      BY <3>1, <3>2 DEF Finished
    <3>6. S \cup {conn} \in SUBSET Finished'
      BY <2>2, <3>1, <3>4
    <3>7. IsFiniteSet(S \cup {conn}) /\ Cardinality(S \cup {conn}) = leaked + 1
      BY <3>1, <3>5, FS_AddElement
    <3> QED
      BY <3>2, <3>6, <3>7 DEF Counted
  <2> QED
    BY <1>4, <2>3, <2>4 DEF Quiet
<1> QED
  BY <1>1, <1>2, <1>3, <1>4, StepKinds

LEMMA InitLeak == Init => ServerInv /\ Once /\ Counted
<1> SUFFICES ASSUME Init PROVE ServerInv /\ Once /\ Counted
  OBVIOUS
<1>1. Queued = {} /\ Once
  BY DEF Init, Queued, Once
<1>2. {} \in SUBSET Finished
  OBVIOUS
<1> QED
  BY <1>1, <1>2, InitServerInv, FS_EmptySet DEF Init, Counted

(* process: a finite set of connections loses at most one pair of buffers  *)
(* for each of its refused requests.                                       *)
THEOREM LeaksAreRefused == IsFiniteSet(Client) => (Spec => []LeaksOnlyRefused)
<1> SUFFICES ASSUME IsFiniteSet(Client) PROVE Spec => []LeaksOnlyRefused
  OBVIOUS
<1> DEFINE LeakInv == ServerInv /\ Once /\ Counted
<1>1. LeakInv /\ [Next]_vars => LeakInv'
  BY NextServerInv, OnceStays, CountedStays
<1>2. LeakInv => LeaksOnlyRefused
  <2> SUFFICES ASSUME LeakInv PROVE LeaksOnlyRefused
    OBVIOUS
  <2> DEFINE Refused == {c \in Client : req[c].kind = "tooLong"}
  <2>1. PICK S \in SUBSET Finished : Cardinality(S) = leaked
    BY DEF Counted
  <2>2. Refused \in SUBSET Client /\ S \in SUBSET Refused
    BY <2>1 DEF Finished
  <2>3. IsFiniteSet(Refused)
    BY <2>2, FS_Subset
  <2>4. Cardinality(S) <= Cardinality(Refused)
    BY <2>2, <2>3, FS_Subset
  <2> QED
    BY <2>1, <2>4 DEF LeaksOnlyRefused
<1> QED
  BY <1>1, <1>2, InitLeak, PTL DEF Spec

-----------------------------------------------------------------------------
(* Errors.  Without faults a client stays until it has its answer, so only *)
(* accept and the calls of the database can fail, for want of descriptors. *)
Attended ==
  /\ \A c \in Client : state[c] = "idle" => reply[c] = NoReply
  /\ \A c \in Queued : state[c] = "open" /\ reply[c] = NoReply
  /\ pc \in Serving \ {"close", "free"}
       => state[conn] = "open" /\ reply[conn] = NoReply

LeftByPuts == {c \in openFds : Costly(c)}

Exhausted ==
  /\ IsFiniteSet(openFds) /\ Cardinality(openFds) <= MaxFds
  /\ err # "none"
       => /\ pc \in {"accept", "shutdown", "write", "close", "free"}
          /\ Cardinality(LeftByPuts) + DbFds >= MaxFds

StopInv == ServerInv /\ Once /\ Attended /\ Exhausted

LEMMA Counts ==
  ASSUME StopInv
  PROVE  /\ IsFiniteSet(openFds) /\ Cardinality(openFds) \in Nat
         /\ IsFiniteSet(LeftByPuts) /\ Cardinality(LeftByPuts) \in Nat
         /\ MaxFds \in Nat /\ DbFds \in Nat \ {0}
<1>1. LeftByPuts \in SUBSET openFds
  BY DEF LeftByPuts
<1> QED
  BY <1>1, FS_Subset, FS_CardinalityType, ServerAssumption
     DEF StopInv, Exhausted, ServerAssumption

(* What PUTs cost stays lost as long as no descriptor is closed. *)
LEMMA LeftStays ==
  ASSUME StopInv, Cardinality(LeftByPuts) + DbFds >= MaxFds,
         IsFiniteSet(openFds'), openFds \subseteq openFds',
         \A c \in openFds : Costly(c) => Costly(c)'
  PROVE  Cardinality(LeftByPuts') + DbFds >= MaxFds
<1>1. LeftByPuts \in SUBSET LeftByPuts' /\ LeftByPuts' \in SUBSET openFds'
  BY DEF LeftByPuts
<1>2. IsFiniteSet(LeftByPuts')
  BY <1>1, FS_Subset
<1>3. Cardinality(LeftByPuts) <= Cardinality(LeftByPuts')
  BY <1>1, <1>2, FS_Subset
<1>4. Cardinality(LeftByPuts') \in Nat
  BY <1>2, FS_CardinalityType
<1> QED
  BY <1>3, <1>4, Counts

(* Without an error all descriptors are left by PUTs, but for that of the  *)
(* connection being served.                                                *)
LEMMA LeftByAll ==
  ASSUME StopInv, err = "none"
  PROVE  /\ Cardinality(LeftByPuts) + 1 >= Cardinality(openFds)
         /\ conn \notin openFds => LeftByPuts = openFds
<1>1. \A c \in openFds : Costly(c) \/ c = conn
  BY DEF StopInv, ServerInv, OpenExplained
<1>2. openFds \in SUBSET (LeftByPuts \cup {conn})
  BY <1>1 DEF LeftByPuts
<1>3. IsFiniteSet(LeftByPuts \cup {conn})
      /\ Cardinality(LeftByPuts \cup {conn})
           \in {Cardinality(LeftByPuts), Cardinality(LeftByPuts) + 1}
  BY Counts, FS_AddElement
<1>4. Cardinality(openFds) <= Cardinality(LeftByPuts \cup {conn})
  BY <1>2, <1>3, FS_Subset
<1> QED
  BY <1>1, <1>3, <1>4, Counts DEF LeftByPuts

LEMMA DiesStop ==
  ASSUME StopInv, Dies
  PROVE  Attended' /\ Exhausted'
<1>1. Queued' = {}
  BY DiesQueue
<1>2. \A c \in Client : state'[c] = "idle" => state[c] = "idle" /\ reply'[c] = reply[c]
  BY DEF Dies, StopInv, ServerInv, TypeOK
<1>3. Attended'
  BY <1>1, <1>2 DEF StopInv, Attended, Dies, Serving
<1>4. Exhausted'
  BY FS_EmptySet, ServerAssumption DEF Dies, Exhausted, ServerAssumption
<1> QED
  BY <1>3, <1>4

LEMMA AcceptStop ==
  ASSUME StopInv, Accept
  PROVE  Attended' /\ Exhausted'
<1>1. /\ pc = "accept" /\ conn = NoClient /\ UNCHANGED <<err, state, req, sent, reply>>
      /\ Cardinality(openFds) < MaxFds
      /\ openFds' = openFds \cup {Head(queue)}
      /\ \/ err = "none" /\ pc' = "process" /\ conn' = Head(queue)
         \/ err # "none" /\ pc' \in {"accept", "shutdown"} /\ conn' = conn
  BY AcceptReturnsType DEF Accept, clientVars, StopInv, ServerInv, Bound, Serving
<1>2. Attended'
  BY <1>1, AcceptQueue DEF StopInv, Attended, Serving
<1>3. IsFiniteSet(openFds') /\ Cardinality(openFds') <= MaxFds
  <2>1. Cardinality(openFds') \in {Cardinality(openFds), Cardinality(openFds) + 1}
        /\ IsFiniteSet(openFds')
    BY <1>1, Counts, FS_AddElement
  <2> QED
    BY <1>1, <2>1, Counts
<1>4. \A c \in openFds : Costly(c) => Costly(c)'
  BY <1>1, CostlyStays
<1>5. err # "none" => Cardinality(LeftByPuts') + DbFds >= MaxFds
  BY <1>1, <1>3, <1>4, LeftStays DEF StopInv, Exhausted
<1> QED
  BY <1>1, <1>2, <1>3, <1>5 DEF Exhausted

LEMMA AcceptFailsStop ==
  ASSUME StopInv, AcceptFails
  PROVE  Attended' /\ Exhausted'
<1>1. /\ UNCHANGED <<queue, conn, state, req, sent, reply, openFds>>
      /\ pc = "accept" /\ pc' \in {"accept", "shutdown"}
      /\ Cardinality(openFds) >= MaxFds
  BY AcceptReturnsType DEF AcceptFails, clientVars
<1>2. Queued' = Queued
  BY <1>1 DEF Queued
<1>3. conn \notin openFds
  BY <1>1, ServerAssumption
     DEF StopInv, ServerInv, TypeOK, Bound, Serving, ServerAssumption
<1>4. Cardinality(LeftByPuts) + DbFds >= MaxFds
  BY <1>1, <1>3, LeftByAll, Counts DEF StopInv, Exhausted
<1>5. \A c \in openFds : Costly(c) => Costly(c)'
  BY <1>1, CostlyStays
<1>6. Cardinality(LeftByPuts') + DbFds >= MaxFds
  BY <1>1, <1>4, <1>5, Counts, LeftStays
<1>7. Exhausted'
  BY <1>1, <1>6 DEF StopInv, Exhausted
<1>8. Attended'
  BY <1>1, <1>2 DEF StopInv, Attended, Serving
<1> QED
  BY <1>7, <1>8

(* Steps of the server that leave the queue and the clients alone. *)
LEMMA QuietAttended ==
  ASSUME StopInv, UNCHANGED <<queue, state>>,
         \A c \in Client : reply'[c] # reply[c] => c = conn /\ pc = "write",
         pc' \in Serving \ {"close", "free"}
           => UNCHANGED conn /\ pc \in Serving \ {"write", "close", "free"}
  PROVE  Attended'
<1>1. Queued' = Queued /\ conn \notin Queued /\ Queued \subseteq Client
  BY QueuedAreClients DEF Queued, StopInv, Once
<1>2. pc = "write" => conn \in Client /\ state[conn] = "open"
  BY DEF StopInv, ServerInv, Bound, Attended, Serving
<1>3. pc \in Serving => conn \in Client
  BY DEF StopInv, ServerInv, Bound
<1>4. \A c \in Client : state'[c] = "idle" => reply'[c] = NoReply
  BY <1>2 DEF StopInv, Attended
<1>5. \A c \in Queued' : state'[c] = "open" /\ reply'[c] = NoReply
  BY <1>1 DEF StopInv, Attended
<1>6. pc' \in Serving \ {"close", "free"}
        => state'[conn'] = "open" /\ reply'[conn'] = NoReply
  BY <1>3 DEF StopInv, Attended
<1> QED
  BY <1>4, <1>5, <1>6 DEF Attended

(* Without an error descriptors may be closed; with one they are kept, and *)
(* the server answers and accepts but does not get to another request.     *)
LEMMA QuietExhausted ==
  ASSUME StopInv, UNCHANGED <<state, req, sent>>, openFds' \in SUBSET openFds,
         err' # "none"
           => /\ openFds' = openFds
              /\ pc' \in {"accept", "shutdown", "write", "close", "free"}
              /\ Cardinality(LeftByPuts) + DbFds >= MaxFds
  PROVE  Exhausted'
<1>1. IsFiniteSet(openFds') /\ Cardinality(openFds') <= Cardinality(openFds)
      /\ Cardinality(openFds') \in Nat
  BY Counts, FS_Subset, FS_CardinalityType
<1>2. \A c \in openFds : Costly(c) => Costly(c)'
  BY CostlyStays
<1>3. err' # "none" => Cardinality(LeftByPuts') + DbFds >= MaxFds
  BY <1>1, <1>2, LeftStays
<1> QED
  BY <1>1, <1>3, Counts DEF StopInv, Exhausted

LEMMA ServingIsClean ==
  ASSUME StopInv, pc \in {"process", "get", "put", "invalid", "down"} \cup Stage
  PROVE  err = "none"
BY DEF StopInv, Exhausted, Stage

LEMMA ProcessStop ==
  ASSUME StopInv, \/ StageDone \/ Start \/ ProcessWhole \/ ProcessCut
                  \/ ProcessAltered \/ ProcessRefused
  PROVE  Attended' /\ Exhausted'
<1>1. CASE StageDone \/ Start
  <2>1. /\ UNCHANGED <<err, queue, state, req, sent, reply, openFds>>
        /\ pc \in Stage \cup {"down"} /\ pc' \in Stage \cup {"accept"}
    BY <1>1 DEF StageDone, Start, StageOrder, Stage, clientVars
  <2> QED
    BY <2>1, ServingIsClean, QuietAttended, QuietExhausted DEF Stage, Serving
<1>2. CASE ProcessWhole \/ ProcessCut \/ ProcessAltered \/ ProcessRefused
  <2>1. /\ UNCHANGED <<err, queue, state, req, sent, reply, openFds, conn>>
        /\ pc = "process"
    BY <1>2 DEF ProcessWhole, ProcessCut, ProcessAltered, ProcessRefused, Dispatch,
       clientVars
  <2> QED
    BY <2>1, ServingIsClean, QuietAttended, QuietExhausted DEF Serving
<1> QED
  BY <1>1, <1>2

(* get and put: a call of the database only fails because the database     *)
(* does not open.                                                          *)
LEMMA HandlerStop ==
  ASSUME StopInv, "db" \notin Faults,
         \/ GetAll \/ GetKey \/ GetPath \/ PutStores \/ PutNoEquals \/ Invalid
  PROVE  Attended' /\ Exhausted'
<1>1. /\ UNCHANGED <<queue, state, req, sent, reply, openFds, conn>>
      /\ pc \in {"get", "put", "invalid"} /\ pc' = "write"
  BY DEF GetAll, GetKey, GetPath, PutStores, PutNoEquals, Invalid, Respond, clientVars
<1>2. err = "none"
  BY <1>1, ServingIsClean
<1>3. CanOpen => ~DbFault
  BY DEF DbFault
<1>4. CanOpen => err' = "none"
  BY <1>2, <1>3 DEF GetAll, GetKey, GetPath, PutStores, PutNoEquals, Invalid,
     DbFetch, DbFetchAll, DbStore, Fetched
<1>5. ~CanOpen => Cardinality(LeftByPuts) + DbFds >= MaxFds
  BY <1>2, LeftByAll, Counts DEF CanOpen
<1> QED
  BY <1>1, <1>4, <1>5, QuietAttended, QuietExhausted DEF Serving

LEMMA AnswerStop ==
  ASSUME StopInv, "write" \notin Faults, Write \/ WriteLost \/ Close \/ Free
  PROVE  Attended' /\ Exhausted'
<1>1. ~WriteLost
  BY DEF WriteLost, StopInv, Attended, Serving
<1>2. /\ UNCHANGED <<err, queue, state, req, sent>> /\ pc \in {"write", "close", "free"}
      /\ openFds' \in SUBSET openFds
      /\ err # "none" => openFds' = openFds
      /\ pc' \in {"close", "free", "accept", "shutdown"}
  BY <1>1 DEF Write, Close, Free, AfterWrite, clientVars
<1>3. \A c \in Client : reply'[c] # reply[c] => c = conn /\ pc = "write"
  BY <1>1 DEF Write, Close, Free, clientVars, StopInv, ServerInv, TypeOK
<1>4. err # "none" => Cardinality(LeftByPuts) + DbFds >= MaxFds
  BY DEF StopInv, Exhausted
<1> QED
  BY <1>2, <1>3, <1>4, QuietAttended, QuietExhausted DEF Serving

LEMMA ClientStop ==
  ASSUME StopInv, "hangup" \notin Faults, NEW c \in Client,
         Connect(c) \/ Send(c) \/ Leave(c)
  PROVE  Attended' /\ Exhausted'
<1>1. UNCHANGED <<pc, err, conn, openFds, reply>>
  BY DEF Connect, Send, Leave, serverVars
<1>2. /\ Queued \subseteq Client /\ openFds \subseteq Client
      /\ \A d \in openFds : state[d] # "idle"
      /\ pc \in Serving => conn \in Client
  BY QueuedAreClients DEF StopInv, ServerInv, TypeOK, Bound
<1>3. \A d \in openFds : Costly(d) => Costly(d)'
  <2> SUFFICES ASSUME NEW d \in openFds PROVE Costly(d) => Costly(d)'
    OBVIOUS
  <2>1. d \in Client /\ state[d] # "idle"
    BY <1>2
  <2>2. CASE Connect(c)
    <3>1. UNCHANGED <<req[d], state[d], sent[d]>>
      BY <2>1, <2>2 DEF Connect, StopInv, ServerInv, TypeOK
    <3> QED
      BY <3>1, CostlyStays
  <2>3. CASE Send(c)
    <3>1. UNCHANGED <<req, state>> /\ (state[d] = "closed" => UNCHANGED sent[d])
      BY <2>1, <2>3 DEF Send, StopInv, ServerInv, TypeOK
    <3> QED
      BY <3>1, CostlyStays
  <2>4. CASE Leave(c)
    <3>1. UNCHANGED <<req, sent>> /\ (state[d] = "closed" => state'[d] = "closed")
      BY <2>1, <2>4 DEF Leave, StopInv, ServerInv, TypeOK
    <3> QED
      BY <3>1, CostlyStays
  <2> QED
    BY <2>2, <2>3, <2>4
<1>4. Exhausted'
  BY <1>1, <1>3, Counts, LeftStays DEF StopInv, Exhausted
<1>5. CASE Connect(c)
  <2>1. state[c] = "idle" /\ state'[c] = "open"
        /\ \A d \in Client \ {c} : state'[d] = state[d]
    BY <1>5 DEF Connect, StopInv, ServerInv, TypeOK
  <2>2. Queued' = Queued \cup {c} /\ c # conn /\ c \notin Queued
    BY <1>5, ConnectQueue DEF StopInv
  <2>3. \A d \in Queued' : state'[d] = "open" /\ reply'[d] = NoReply
    BY <1>1, <1>2, <2>1, <2>2 DEF StopInv, Attended
  <2>4. \A d \in Client : state'[d] = "idle" => reply'[d] = NoReply
    BY <1>1, <2>1 DEF StopInv, Attended
  <2>5. pc \in Serving => state'[conn] = state[conn]
    BY <1>2, <2>1, <2>2
  <2>6. Attended'
    BY <1>1, <2>3, <2>4, <2>5 DEF StopInv, Attended
  <2> QED
    BY <1>4, <2>6
<1>6. CASE Send(c)
  <2>1. UNCHANGED state /\ Queued' = Queued
    BY <1>6 DEF Send, serverVars, Queued
  <2> QED
    BY <1>1, <1>4, <2>1 DEF StopInv, Attended
<1>7. CASE Leave(c)
  <2>1. Queued' = Queued /\ reply[c] # NoReply /\ state'[c] # "idle"
        /\ \A d \in Client \ {c} : state'[d] = state[d]
    BY <1>7 DEF Leave, serverVars, Queued, StopInv, ServerInv, TypeOK
  <2>2. \A d \in Queued : d # c /\ state'[d] = state[d]
    BY <1>2, <2>1 DEF StopInv, Attended
  <2>3. \A d \in Client : state'[d] = "idle" => reply'[d] = NoReply
    BY <1>1, <2>1 DEF StopInv, Attended
  <2>4. pc \in Serving \ {"close", "free"} => conn # c /\ state'[conn] = state[conn]
    BY <1>2, <2>1 DEF StopInv, Attended
  <2>5. Attended'
    BY <1>1, <2>1, <2>2, <2>3, <2>4 DEF StopInv, Attended
  <2> QED
    BY <1>4, <2>5
<1> QED
  BY <1>5, <1>6, <1>7

LEMMA NextStopInv ==
  ASSUME Faults = {}, StopInv, [Next]_vars
  PROVE  StopInv'
<1>1. ServerInv' /\ Once'
  BY NextServerInv, OnceStays DEF StopInv
<1>2. CASE UNCHANGED vars
  <2>1. /\ UNCHANGED <<pc, err, conn, openFds, reply, state>>
        /\ Queued' = Queued /\ LeftByPuts' = LeftByPuts
    BY <1>2 DEF vars, serverVars, clientVars, Queued, LeftByPuts, Costly, TakenFor,
       Cut, Whole
  <2>2. Attended'
    BY <2>1 DEF StopInv, Attended
  <2>3. Exhausted'
    BY <2>1 DEF StopInv, Exhausted
  <2> QED
    BY <1>1, <2>2, <2>3 DEF StopInv
<1>3. CASE Server \/ Environment
  <2>1. ~(StageFails \/ Kill \/ Signal \/ ReadReset)
    BY DEF StageFails, Kill, Signal, ReadReset
  <2>2. Attended' /\ Exhausted'
    <3>1. CASE \/ Shutdown \/ ProcessCrashes \/ GetCrashes \/ PutCrashes
               \/ WriteSigpipe \/ FreeCrashes
      <4>1. Dies
        BY <3>1 DEF Shutdown, ProcessCrashes, GetCrashes, PutCrashes, WriteSigpipe,
           FreeCrashes
      <4> QED
        BY <4>1, DiesStop
    <3>2. CASE Accept \/ AcceptFails
      BY <3>2, AcceptStop, AcceptFailsStop
    <3>3. CASE \/ StageDone \/ Start \/ ProcessWhole \/ ProcessCut
               \/ ProcessAltered \/ ProcessRefused
      BY <3>3, ProcessStop
    <3>4. CASE \/ GetAll \/ GetKey \/ GetPath \/ PutStores \/ PutNoEquals \/ Invalid
      BY <3>4, HandlerStop
    <3>5. CASE Write \/ WriteLost \/ Close \/ Free
      BY <3>5, AnswerStop
    <3>6. CASE \E c \in Client : Connect(c) \/ Send(c) \/ Leave(c)
      BY <3>6, ClientStop
    <3> QED
      BY <1>3, <2>1, <3>1, <3>2, <3>3, <3>4, <3>5, <3>6
         DEF Server, Environment, Process, Get, PutStep, Answer
  <2> QED
    BY <1>1, <2>2 DEF StopInv
<1> QED
  BY <1>2, <1>3 DEF Next

LEMMA InitStopInv == Init => StopInv
<1> SUFFICES ASSUME Init PROVE Attended /\ Exhausted
  BY InitLeak DEF StopInv
<1>1. Queued = {}
  BY DEF Init, Queued
<1> QED
  BY <1>1, FS_EmptySet, ServerAssumption
     DEF Init, Attended, Exhausted, Serving, ServerAssumption

(* do_accept, get and put: when nothing around the server fails, it only   *)
(* ever latches an error of accept or of the database, and only once PUTs  *)
(* without "=" hold all descriptors but those one database takes.          *)
THEOREM StopsByLeak == Faults = {} => (Spec => []StopsOnlyByLeak)
<1> SUFFICES ASSUME Faults = {} PROVE Spec => []StopsOnlyByLeak
  OBVIOUS
<1>1. Init => StopInv
  BY InitStopInv
<1>2. StopInv /\ [Next]_vars => StopInv'
  BY NextStopInv
<1>3. StopInv => StopsOnlyByLeak
  BY DEF StopInv, Exhausted, StopsOnlyByLeak, LeftByPuts
<1> QED
  BY <1>1, <1>2, <1>3, PTL DEF Spec
=============================================================================
