----------------------- MODULE BeaconServerAnswerProofs -----------------------
(***************************************************************************)
(* What the server answers, and what ends it: proofs for every set of      *)
(* connections, keys and values, every request and every fault that the    *)
(* theorem does not exclude.                                               *)
(***************************************************************************)
EXTENDS BeaconServerProofs

(* An answer that is about to be written without an error agrees with the  *)
(* database.                                                               *)
Current ==
  pc = "write" /\ err = "none"
    => /\ out.status = "200"
            => out.body = IF WantsAll(req[conn]) THEN db ELSE db[req[conn].key]
       /\ out.status = "404" /\ req[conn].kind = "key"
            => Page(db[req[conn].key]) = Says("404")

(* With or without an error: what was parsed from an intact buffer is the  *)
(* client's, and only a refused request is not parsed.                     *)
Unshifted ==
  /\ bytes = "intact" /\ assigned => cur \in TakenFor(conn)
  /\ pc \in {"invalid", "write", "close", "free"} /\ ~assigned
       => req[conn].kind = "tooLong"

AnswerInv == ServerInv /\ Current /\ Unshifted

-----------------------------------------------------------------------------
(* A GET that was not shifted is the client's own: a shortened body only   *)
(* ever becomes another PUT.                                               *)
LEMMA GetIsAsked ==
  ASSUME NEW c, NEW r \in TakenFor(c), r.kind \notin PutKind
  PROVE  r = req[c]
<1>1. \A s \in Cut(req[c]) : s.kind \in PutKind
  BY DEF Cut, Plain, Put, PutKind
<1>2. r = Whole(req[c])
  BY <1>1 DEF TakenFor
<1>3. Put(req[c].key, req[c].val).kind = "put"
  BY DEF Put
<1> QED
  BY <1>2, <1>3 DEF Whole, PutKind

(* Steps that leave the served connection and its request alone. *)
LEMMA QuietUnshifted ==
  ASSUME AnswerInv, UNCHANGED <<conn, assigned, cur>>,
         bytes' = "intact" => bytes = "intact",
         pc \in Serving => UNCHANGED req[conn],
         pc \in Serving /\ state[conn] = "closed"
           => state'[conn] = "closed" /\ UNCHANGED sent[conn],
         pc' \in {"invalid", "write", "close", "free"} /\ ~assigned
           => pc \in {"invalid", "write", "close", "free"}
  PROVE  Unshifted'
<1>1. assigned => pc \in Serving
  BY DEF AnswerInv, ServerInv, Bound
<1>2. assigned => TakenFor(conn) \subseteq TakenFor(conn)'
  BY <1>1, TakenForGrows
<1>3. bytes' = "intact" /\ assigned' => cur' \in TakenFor(conn)'
  BY <1>2 DEF AnswerInv, Unshifted
<1>4. pc' \in {"invalid", "write", "close", "free"} /\ ~assigned'
        => req'[conn'].kind = "tooLong"
  BY DEF AnswerInv, Unshifted, Serving
<1> QED
  BY <1>3, <1>4 DEF Unshifted

LEMMA DiesAnswer ==
  ASSUME Dies
  PROVE  Current' /\ Unshifted'
BY DEF Dies, Current, Unshifted

LEMMA LifecycleAnswer ==
  ASSUME AnswerInv, StageDone \/ StageFails \/ Start \/ Accept \/ AcceptFails
  PROVE  Current' /\ Unshifted'
<1>1. ~assigned' /\ pc' \in Stage \cup {"accept", "shutdown", "process"}
  BY AcceptReturnsType
     DEF StageDone, StageFails, Start, Accept, AcceptFails, StageOrder, Stage,
         AnswerInv, ServerInv, Bound, Serving
<1> QED
  BY <1>1 DEF Current, Unshifted, Stage

LEMMA ProcessAnswer ==
  ASSUME AnswerInv, Process \/ ReadReset
  PROVE  Current' /\ Unshifted'
<1>1. ASSUME NEW r, pc = "process", Dispatch(r),
             bytes = "intact" => r \in TakenFor(conn)
      PROVE  Current' /\ Unshifted'
  <2>1. /\ UNCHANGED <<conn, bytes, state, req, sent>> /\ cur' = r /\ assigned'
        /\ pc' \in {"get", "put", "invalid"}
    BY <1>1 DEF Dispatch, clientVars
  <2>2. r \in TakenFor(conn) => cur' \in TakenFor(conn)'
    BY <2>1, TakenForGrows
  <2> QED
    BY <1>1, <2>1, <2>2 DEF Current, Unshifted
<1>2. CASE ProcessWhole \/ ProcessCut \/ ProcessAltered
  BY <1>1, <1>2 DEF ProcessWhole, ProcessCut, ProcessAltered, TakenFor
<1>3. CASE ProcessRefused \/ ReadReset
  <2>1. /\ UNCHANGED <<conn, assigned, cur, state, req, sent>>
        /\ bytes' = "intact" => bytes = "intact"
        /\ pc = "process" /\ pc' \in {"process", "invalid"}
        /\ pc' = "invalid" => req[conn].kind = "tooLong"
    BY <1>3 DEF ProcessRefused, ReadReset, clientVars
  <2>2. assigned => TakenFor(conn) \subseteq TakenFor(conn)'
    BY <2>1, TakenForGrows
  <2> QED
    BY <2>1, <2>2 DEF AnswerInv, Current, Unshifted
<1>4. CASE ProcessCrashes
  BY <1>4, DiesAnswer DEF ProcessCrashes
<1> QED
  BY <1>2, <1>3, <1>4 DEF Process

(* The handlers: the answer is current when it is chosen. *)
LEMMA RespondAnswer ==
  ASSUME AnswerInv, pc \in {"get", "put", "invalid"}, NEW answer, Respond(answer),
         err' = "none" =>
           /\ answer.status = "200"
                => answer.body = IF WantsAll(req[conn]) THEN db' ELSE db'[req[conn].key]
           /\ answer.status = "404" /\ req[conn].kind = "key"
                => Page(db'[req[conn].key]) = Says("404")
  PROVE  Current' /\ Unshifted'
<1>1. /\ UNCHANGED <<conn, bytes, assigned, cur, state, req, sent>>
      /\ pc' = "write" /\ out' = answer
  BY DEF Respond, clientVars
<1>2. ~assigned => pc = "invalid"
  BY DEF AnswerInv, ServerInv, Faithful
<1>3. Unshifted'
  BY <1>1, <1>2, QuietUnshifted
<1>4. Current'
  BY <1>1 DEF Current, WantsAll, Page, Ok, Says
<1> QED
  BY <1>3, <1>4

(* Without an error a GET that is served is the one that was asked.        *)
LEMMA ServedGet ==
  ASSUME AnswerInv, pc = "get", err = "none", cur.kind \notin PutKind
  PROVE  cur = req[conn]
<1>1. cur \in TakenFor(conn)
  BY DEF AnswerInv, ServerInv, Faithful
<1> QED
  BY <1>1, GetIsAsked

LEMMA GetAnswer ==
  ASSUME AnswerInv, Get
  PROVE  Current' /\ Unshifted'
<1>0. TypeOK
  BY DEF AnswerInv, ServerInv
<1>1. CASE GetAll
  <2>1. PICK f \in DbFetchAll : err' = f.err /\ Respond(Ok(f.text))
    BY <1>1 DEF GetAll
  <2>2. err' = "none" => err = "none" /\ f.text = db
    BY <1>0, <2>1, DbFetchAllType
  <2>3. Ok(f.text).status = "200" /\ Ok(f.text).body = f.text
    BY DEF Ok
  <2>4. pc = "get" /\ WantsAll(cur) /\ db' = db /\ cur.kind \notin PutKind
    BY <1>1 DEF GetAll, WantsAll, PutKind
  <2>5. err' = "none" => WantsAll(req[conn]) /\ Ok(f.text).body = db'
    BY <2>2, <2>3, <2>4, ServedGet
  <2> QED
    BY <2>1, <2>3, <2>4, <2>5, RespondAnswer
<1>2. CASE GetKey
  <2>0. cur.key \in Key
    BY <1>0, <1>2, RequestFields DEF GetKey, TypeOK
  <2>1. PICK f \in DbFetch(cur.key) : err' = f.err /\ Respond(Page(f.text))
    BY <1>2 DEF GetKey
  <2>2. err' = "none" => err = "none" /\ f.text = db[cur.key]
    BY <1>0, <2>0, <2>1, DbFetchType
  <2>3. /\ Page(f.text).status = "200" => Page(f.text).body = f.text
        /\ Page(f.text).status = "404" => Page(f.text) = Says("404")
    BY DEF Page, Ok, Says
  <2>4. pc = "get" /\ ~WantsAll(cur) /\ db' = db /\ cur.kind \notin PutKind
    BY <1>2 DEF GetKey, PutKind
  <2>5. err' = "none" => ~WantsAll(req[conn]) /\ f.text = db'[req[conn].key]
    BY <2>2, <2>4, ServedGet
  <2> QED
    BY <2>1, <2>3, <2>4, <2>5, RespondAnswer
<1>3. CASE GetPath
  <2>1. Says("welcome").status = "welcome" /\ Says("404").status = "404"
    BY DEF Says
  <2>2. cur.kind \in {"index", "missing"} /\ pc = "get" /\ err' = err
    BY <1>3 DEF GetPath
  <2>3. err' = "none" => req[conn].kind # "key"
    BY <2>2, ServedGet DEF PutKind
  <2> QED
    BY <1>3, <2>1, <2>2, <2>3, RespondAnswer DEF GetPath
<1>4. CASE GetCrashes
  BY <1>4, DiesAnswer DEF GetCrashes
<1> QED
  BY <1>1, <1>2, <1>3, <1>4 DEF Get

LEMMA PutAnswer ==
  ASSUME AnswerInv, PutStep \/ Invalid
  PROVE  Current' /\ Unshifted'
<1>1. Says("complete").status = "complete" /\ Says("400").status = "400"
  BY DEF Says
<1>2. CASE PutStores \/ PutNoEquals \/ Invalid
  BY <1>1, <1>2, RespondAnswer DEF PutStores, PutNoEquals, Invalid
<1>3. CASE PutCrashes
  BY <1>3, DiesAnswer DEF PutCrashes
<1> QED
  BY <1>2, <1>3 DEF PutStep

LEMMA AnswerAnswer ==
  ASSUME AnswerInv, Answer
  PROVE  Current' /\ Unshifted'
<1>1. CASE Write \/ WriteLost \/ Close
  <2>1. /\ UNCHANGED <<conn, bytes, assigned, cur, state, req, sent>>
        /\ pc \in {"write", "close"} /\ pc' \in {"close", "free"}
    BY <1>1 DEF Write, WriteLost, Close, AfterWrite, clientVars
  <2>2. Unshifted'
    BY <2>1, QuietUnshifted
  <2> QED
    BY <2>1, <2>2 DEF Current
<1>2. CASE Free
  BY <1>2 DEF Free, Current, Unshifted
<1>3. CASE WriteSigpipe \/ FreeCrashes
  BY <1>3, DiesAnswer DEF WriteSigpipe, FreeCrashes
<1> QED
  BY <1>1, <1>2, <1>3 DEF Answer

(* Signals, and what clients do while a request is served. *)
LEMMA OutsideAnswer ==
  ASSUME AnswerInv, Signal \/ \E c \in Client : Connect(c) \/ Send(c) \/ Leave(c)
  PROVE  Current' /\ Unshifted'
<1>1. /\ UNCHANGED <<conn, assigned, cur, out, db>>
      /\ bytes' = "intact" => bytes = "intact"
      /\ pc' = pc \/ pc' \in {"accept", "shutdown"}
      /\ pc' = "write" => err' = err
  BY AcceptReturnsType DEF Signal, Connect, Send, Leave, serverVars
<1>2. ASSUME pc \in Serving
      PROVE  /\ req'[conn] = req[conn]
             /\ state[conn] = "closed" => state'[conn] = "closed" /\ UNCHANGED sent[conn]
  <2>1. conn \in Client /\ state[conn] # "idle"
    BY <1>2 DEF AnswerInv, ServerInv, Bound
  <2>2. CASE Signal
    BY <2>2 DEF Signal, clientVars
  <2>3. ASSUME NEW c \in Client, Connect(c)
        PROVE  UNCHANGED <<req[conn], state[conn], sent[conn]>>
    BY <1>1, <2>1, <2>3 DEF Connect, AnswerInv, ServerInv, TypeOK
  <2>4. ASSUME NEW c \in Client, Send(c)
        PROVE  UNCHANGED <<req, state>> /\ (state[conn] = "closed" => UNCHANGED sent[conn])
    BY <1>1, <2>1, <2>4 DEF Send, AnswerInv, ServerInv, TypeOK
  <2>5. ASSUME NEW c \in Client, Leave(c)
        PROVE  UNCHANGED <<req, sent>> /\ (state[conn] = "closed" => state'[conn] = "closed")
    BY <1>1, <2>1, <2>5 DEF Leave, AnswerInv, ServerInv, TypeOK
  <2> QED
    BY <1>1, <2>2, <2>3, <2>4, <2>5
<1>3. Unshifted'
  <2>1. pc' \in {"invalid", "write", "close", "free"} => pc' = pc
    BY <1>1
  <2> QED
    BY <1>1, <1>2, <2>1, QuietUnshifted
<1>4. Current'
  BY <1>1, <1>2 DEF AnswerInv, Current, Serving, WantsAll, Page, Ok, Says
<1> QED
  BY <1>3, <1>4

LEMMA NextAnswerInv == AnswerInv /\ [Next]_vars => AnswerInv'
<1> SUFFICES ASSUME AnswerInv, [Next]_vars PROVE AnswerInv'
  OBVIOUS
<1>1. ServerInv'
  BY NextServerInv DEF AnswerInv
<1>2. CASE UNCHANGED vars
  <2>1. TakenFor(conn)' = TakenFor(conn)
    BY <1>2 DEF vars, TakenFor, Cut, Whole
  <2>2. Current' /\ Unshifted'
    BY <1>2, <2>1 DEF vars, AnswerInv, Current, Unshifted, WantsAll, Page, Ok, Says
  <2> QED
    BY <1>1, <2>2 DEF AnswerInv
<1>3. CASE Server \/ Environment
  <2>1. Current' /\ Unshifted'
    BY <1>3, DiesAnswer, LifecycleAnswer, ProcessAnswer, GetAnswer, PutAnswer,
       AnswerAnswer, OutsideAnswer DEF Server, Environment, Shutdown, Kill
  <2> QED
    BY <1>1, <2>1 DEF AnswerInv
<1> QED
  BY <1>2, <1>3 DEF Next

LEMMA AnswerInvariant == Spec => []AnswerInv
<1>1. Init => AnswerInv
  BY InitServerInv DEF Init, AnswerInv, Current, Unshifted
<1> QED
  BY <1>1, NextAnswerInv, PTL DEF Spec

-----------------------------------------------------------------------------
(* The theorems. *)

(* The step that delivers a page or a listing. *)
LEMMA CurrentStep ==
  ASSUME AnswerInv, [Next]_vars, NEW c \in Client, err' = "none",
         NEW status \in {"200", "404"}, Answered(c, status)
  PROVE  /\ c = conn /\ pc = "write" /\ err = "none"
         /\ reply'[c] = out
<1>0. reply'[c] # reply[c]
  BY DEF Answered, NoReply, Says
<1>1. Write
  BY <1>0 DEF Next, Server, Environment, Process, Get, PutStep, Answer, StageDone,
     StageFails, Shutdown, Kill, Start, Dies, Accept, AcceptFails, Signal,
     ProcessWhole, ProcessCut, ProcessAltered, ProcessRefused, ProcessCrashes,
     Dispatch, ReadReset, GetAll, GetKey, GetPath, GetCrashes, PutStores,
     PutNoEquals, PutCrashes, Invalid, Respond, WriteLost, WriteSigpipe, Close,
     Free, FreeCrashes, Connect, Send, Leave, vars, clientVars
<1> QED
  BY <1>0, <1>1 DEF Write, AnswerInv, ServerInv, TypeOK

(* get and writeValToClient: an answer that is delivered without an error  *)
(* agrees with the database at that moment, whatever came before it.       *)
THEOREM AnswersAreCurrent == Spec => AnswerIsCurrent
<1>1. AnswerInv /\ [Next]_vars
        => [\A c \in Client :
              err' = "none"
                => /\ Answered(c, "200")
                        => reply'[c].body =
                             IF WantsAll(req[c]) THEN db ELSE db[req[c].key]
                   /\ Answered(c, "404") /\ req[c].kind = "key"
                        => Page(db[req[c].key]) = Says("404")]_vars
  BY CurrentStep DEF Answered, AnswerInv, Current
<1> QED
  BY <1>1, AnswerInvariant, PTL DEF Spec, AnswerIsCurrent

LEMMA ReqIsRequest ==
  ASSUME AnswerInv, pc \in Serving
  PROVE  conn \in Client /\ conn # NoClient /\ req[conn] \in Request /\ cur \in Request
BY ServerAssumption DEF AnswerInv, ServerInv, TypeOK, Bound, ServerAssumption

(* A request that was read intact and ends get or put is a fragile one, or *)
(* its database does not open because of descriptors that PUTs cost.       *)
LEMMA HandlerCrash ==
  ASSUME AnswerInv, "db" \notin Faults, GetCrashes \/ PutCrashes, bytes = "intact"
  PROVE  \/ Fragile(conn)
         \/ ~CanOpen /\ \A c \in openFds \ {conn} : Costly(c)
<1>1. pc \in {"get", "put"} /\ assigned
  BY DEF GetCrashes, PutCrashes, AnswerInv, ServerInv, Faithful
<1>2. cur \in TakenFor(conn)
  BY <1>1 DEF AnswerInv, Unshifted
<1>3. DbFault => ~CanOpen /\ \A c \in openFds \ {conn} : Costly(c)
  BY DEF DbFault, AnswerInv, ServerInv, OpenExplained
<1>4. CASE GetCrashes /\ ~DbFault
  <2>1. cur.kind \notin PutKind
    BY <1>1, <1>4 DEF GetCrashes, PutKind, WantsAll, Overflows
  <2>2. cur = req[conn]
    BY <1>2, <2>1, GetIsAsked
  <2> QED
    BY <1>1, <1>4, <2>2 DEF GetCrashes, Fragile
<1>5. CASE PutCrashes /\ ~DbFault
  <2>1. cur.kind = "oneField"
    BY <1>1, <1>5 DEF PutCrashes
  <2>2. cur = Plain("oneField")
    BY <1>1, <2>1, ReqIsRequest, RequestFields DEF Serving
  <2> QED
    BY <1>2, <2>2 DEF Fragile
<1> QED
  BY <1>3, <1>4, <1>5

(* One step that brings the process down. *)
LEMMA KillStep ==
  ASSUME AnswerInv, Faults \cap {"kill", "db"} = {}, [Next]_vars,
         pc \notin {"down", "shutdown"}, pc' = "down"
  PROVE  /\ conn # NoClient
         /\ \/ Fragile(conn) \/ state[conn] = "closed" \/ bytes # "intact"
            \/ ~CanOpen /\ \A c \in openFds \ {conn} : Costly(c)
<1>1. \/ ProcessCrashes \/ GetCrashes \/ PutCrashes \/ WriteSigpipe \/ FreeCrashes
  <2>1. ~Shutdown /\ ~Kill
    BY DEF Shutdown, Kill
  <2>2. ~(StageDone \/ StageFails \/ Start \/ Accept \/ AcceptFails \/ Signal)
    BY AcceptReturnsType DEF StageDone, StageOrder, StageFails, Start, Accept,
       AcceptFails, Signal
  <2>3. ~(ProcessWhole \/ ProcessCut \/ ProcessAltered \/ ProcessRefused \/ ReadReset)
    BY DEF ProcessWhole, ProcessCut, ProcessAltered, ProcessRefused, ReadReset, Dispatch
  <2>4. ~(GetAll \/ GetKey \/ GetPath \/ PutStores \/ PutNoEquals \/ Invalid)
    BY DEF GetAll, GetKey, GetPath, PutStores, PutNoEquals, Invalid, Respond
  <2>5. ~(Write \/ WriteLost \/ Close \/ Free)
    BY DEF Write, WriteLost, Close, Free, AfterWrite
  <2>6. ~(\E c \in Client : Connect(c) \/ Send(c) \/ Leave(c)) /\ ~UNCHANGED vars
    BY DEF Connect, Send, Leave, serverVars, vars
  <2> QED
    BY <2>1, <2>2, <2>3, <2>4, <2>5, <2>6
       DEF Next, Server, Environment, Process, Get, PutStep, Answer
<1>2. pc \in Serving
  BY <1>1 DEF ProcessCrashes, GetCrashes, PutCrashes, WriteSigpipe, FreeCrashes, Serving
<1>3. CASE ProcessCrashes \/ WriteSigpipe
  BY <1>2, <1>3, ReqIsRequest DEF ProcessCrashes, WriteSigpipe
<1>4. CASE GetCrashes \/ PutCrashes
  BY <1>2, <1>4, ReqIsRequest, HandlerCrash
<1>5. CASE FreeCrashes
  BY <1>2, <1>5, ReqIsRequest DEF FreeCrashes, AnswerInv, Unshifted, Fragile
<1> QED
  BY <1>1, <1>3, <1>4, <1>5

(* process, get, put, freeServerStruct: as long as no call of the database *)
(* fails of itself and nobody kills the server, only a request it cannot   *)
(* digest, a client that leaves, a failed read, or a database that does    *)
(* not open for want of the descriptors that PUTs without "=" hold ends it.*)
THEOREM OnlyFragileKill ==
  Faults \cap {"kill", "db"} = {} => (Spec => OnlyFragileRequestsKill)
<1> SUFFICES ASSUME Faults \cap {"kill", "db"} = {}
             PROVE  Spec => OnlyFragileRequestsKill
  OBVIOUS
<1>1. AnswerInv /\ [Next]_vars
        => [pc \notin {"down", "shutdown"} /\ pc' = "down"
              => /\ conn # NoClient
                 /\ \/ Fragile(conn) \/ state[conn] = "closed" \/ bytes # "intact"
                    \/ ~CanOpen /\ \A c \in openFds \ {conn} : Costly(c)]_vars
  BY KillStep
<1> QED
  BY <1>1, AnswerInvariant, PTL DEF Spec, OnlyFragileRequestsKill
=============================================================================
