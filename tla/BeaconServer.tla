----------------------------- MODULE BeaconServer -----------------------------
(***************************************************************************)
(* The server process: its start-up, the accept loop, the processing FSM   *)
(* that answers one connection at a time, the ndbm file behind it, the     *)
(* signal handler, and the connections of its clients                      *)
(* (iBeaconServer.c, db.c, http_request.c).                                *)
(*                                                                         *)
(* How receive_data cuts a request out of the socket is module             *)
(* ReceiveData.  err is the one dc_error every call shares: a failing call *)
(* sets it and nothing resets it while the server runs.                    *)
(***************************************************************************)
EXTENDS Beacons, Integers, Sequences, FiniteSets

CONSTANTS
  Client,        \* connections; each carries at most one request
  NoClient,
  Requests,      \* what clients ask in this instance
  Backlog,       \* connections listen(2) lets wait
  MaxFds,        \* descriptors left for connections and the database
  DbFds,         \* descriptors that dbm_open takes until dbm_close
  MaxListed,     \* records whose listing fits the 1024 bytes of get's val
  LongVals,      \* values that with their key do not fit them
  Faults         \* what may go wrong around the server in this instance

(* What process_request can make of bytes that are no longer the client's. *)
Parsed == { r \in Request : r.kind \notin {"tooLong", "bare"} }

ASSUME ServerAssumption ==
  /\ NoClient \notin Client
  /\ Requests \subseteq Request
  /\ Backlog \in Nat /\ MaxFds \in Nat /\ MaxListed \in Nat
  /\ DbFds \in Nat \ {0}
  /\ LongVals \subseteq Val
  /\ Faults \subseteq {"startup", "signal", "kill", "hangup", "reset", "db", "write"}

Stage == {"create_settings", "create_socket", "set_sockopts", "bind",
          "listen", "setup"}
StageOrder == {<<"create_settings", "create_socket">>,
               <<"create_socket", "set_sockopts">>, <<"set_sockopts", "bind">>,
               <<"bind", "listen">>, <<"listen", "setup">>, <<"setup", "accept">>}
Serving == {"process", "get", "put", "invalid", "write", "close", "free"}

VARIABLES
  pc,           \* where the server is
  err,          \* the latched error: none, EINTR or another errno
  exit_signal,
  db,           \* the ndbm file; it outlives the process
  queue,        \* connections waiting for accept
  openFds,      \* connections accepted and not closed by the server
  conn,         \* the connection being served
  bytes,        \* has a failed read shifted the buffer of this request?
  assigned,     \* process_request has filled the request struct
  cur,          \* the parsed request
  out,          \* the response being written
  leaked,       \* calls of process that did not free their buffers
  state,        \* of each connection, as its client sees it
  req,          \* what it asks
  sent,         \* how much of it has been sent
  reply         \* what it was answered

serverVars == <<pc, err, exit_signal, queue, openFds, conn, bytes, assigned,
                cur, out, leaked>>
clientVars == <<state, req, sent, reply>>
vars == <<pc, err, exit_signal, db, queue, openFds, conn, bytes, assigned,
          cur, out, leaked, state, req, sent, reply>>

TypeOK ==
  /\ pc \in Stage \cup {"accept", "shutdown", "down"} \cup Serving
  /\ err \in {"none", "EINTR", "errno"}
  /\ exit_signal \in BOOLEAN
  /\ db \in Db
  /\ queue \in Seq(Client)
  /\ openFds \subseteq Client
  /\ conn \in Client \cup {NoClient}
  /\ bytes \in {"intact", "altered", "starved"}
  /\ assigned \in BOOLEAN
  /\ cur \in Request
  /\ out \in Reply
  /\ leaked \in Nat
  /\ state \in [Client -> {"idle", "open", "closed"}]
  /\ req \in [Client -> Request]
  /\ sent \in [Client -> {"nothing", "headers", "whole"}]
  /\ reply \in [Client -> Reply]

Init ==
  /\ pc = "create_settings"
  /\ err = "none"
  /\ exit_signal = FALSE
  /\ db = [k \in Key |-> NoVal]
  /\ queue = << >>
  /\ openFds = {}
  /\ conn = NoClient
  /\ bytes = "intact"
  /\ assigned = FALSE
  /\ cur = Unasked
  /\ out = NoReply
  /\ leaked = 0
  /\ state = [c \in Client |-> "idle"]
  /\ req = [c \in Client |-> Unasked]
  /\ sent = [c \in Client |-> "nothing"]
  /\ reply = [c \in Client |-> NoReply]

-----------------------------------------------------------------------------
(* Start and end of the process. *)

(* One call of the lifecycle after the other, without an error. *)
StageDone ==
  /\ \E step \in StageOrder : pc = step[1] /\ pc' = step[2]
  /\ UNCHANGED <<err, exit_signal, db, queue, openFds, conn, bytes, assigned,
                 cur, out, leaked, clientVars>>

(* A call of the lifecycle fails: no address, no socket, port in use. *)
StageFails ==
  /\ "startup" \in Faults
  /\ pc \in Stage
  /\ err' = "errno"
  /\ pc' = "shutdown"
  /\ UNCHANGED <<exit_signal, db, queue, openFds, conn, bytes, assigned, cur,
                 out, leaked, clientVars>>

(* The process is gone: the kernel closes its sockets, what it had in      *)
(* memory is lost and the database file stays.                             *)
Dies ==
  /\ pc' = "down"
  /\ err' = "none"
  /\ exit_signal' = FALSE
  /\ queue' = << >>
  /\ openFds' = {}
  /\ conn' = NoClient
  /\ bytes' = "intact"
  /\ assigned' = FALSE
  /\ cur' = Unasked
  /\ out' = NoReply
  /\ leaked' = 0
  /\ state' = [c \in Client |-> IF state[c] = "open" THEN "closed" ELSE state[c]]
  /\ UNCHANGED <<db, req, sent, reply>>

Shutdown == pc = "shutdown" /\ Dies

Kill == "kill" \in Faults /\ pc # "down" /\ Dies

(* Mutant: the server starts with an empty file. *)
StartTruncates ==
  /\ pc = "down"
  /\ pc' = "create_settings"
  /\ db' = [k \in Key |-> NoVal]
  /\ UNCHANGED <<err, exit_signal, queue, openFds, conn, bytes, assigned, cur,
                 out, leaked, clientVars>>

Start ==
  /\ pc = "down"
  /\ pc' = "create_settings"
  /\ UNCHANGED <<err, exit_signal, db, queue, openFds, conn, bytes, assigned,
                 cur, out, leaked, clientVars>>

-----------------------------------------------------------------------------
(* do_accept. *)

(* do_accept with an error latched: true, which ends the accept loop, only *)
(* when the error is EINTR and a signal was caught.  After false with an   *)
(* error the library may call it again or give up.                         *)
AcceptReturns(e) ==
  IF exit_signal' /\ e = "EINTR" THEN pc' = "shutdown"
                                ELSE pc' \in {"accept", "shutdown"}

(* accept succeeds.  With an error still latched from an earlier request   *)
(* the new connection is neither served nor closed.                        *)
Accept ==
  /\ pc = "accept"
  /\ queue # << >>
  /\ Cardinality(openFds) < MaxFds
  /\ queue' = Tail(queue)
  /\ openFds' = openFds \cup {Head(queue)}
  /\ UNCHANGED exit_signal
  /\ \/ /\ err = "none"
        /\ pc' = "process"
        /\ conn' = Head(queue)
     \/ /\ err # "none"
        /\ AcceptReturns(err)
        /\ UNCHANGED conn
  /\ UNCHANGED <<err, db, bytes, assigned, cur, out, leaked,
                 clientVars>>

(* accept fails for want of a descriptor. *)
AcceptFails ==
  /\ pc = "accept"
  /\ Cardinality(openFds) >= MaxFds
  /\ err' = "errno"
  /\ UNCHANGED exit_signal
  /\ AcceptReturns("errno")
  /\ UNCHANGED <<db, queue, openFds, conn, bytes, assigned, cur, out, leaked,
                 clientVars>>

(* The read of receive_data blocks: more bytes are due, or, for a request  *)
(* a failed read left one byte short, one byte that the client never sends.*)
Waiting ==
  /\ state[conn] = "open"
  /\ \/ sent[conn] = "nothing"
     \/ (sent[conn] = "headers" /\ req[conn].kind # "bare")
     \/ (sent[conn] = "whole" /\ bytes = "starved" /\ req[conn].kind # "tooLong")

(* SIGINT or SIGTERM.  The handler only sets exit_signal; a call blocked   *)
(* in the kernel returns EINTR, because sa_flags has no SA_RESTART.        *)
Signal ==
  /\ "signal" \in Faults
  /\ pc # "down"
  /\ exit_signal' = TRUE
  /\ \/ /\ pc = "accept"
        /\ err' = "EINTR"
        /\ AcceptReturns("EINTR")
        /\ UNCHANGED bytes
     \/ /\ pc = "process"
        /\ Waiting
        /\ err' = "EINTR"
        /\ bytes' \in IF sent[conn] = "nothing" THEN {"altered", "starved"}
                                                ELSE {"starved"}
        /\ UNCHANGED pc
     \/ /\ pc # "accept"
        /\ UNCHANGED <<pc, err, bytes>>
  /\ UNCHANGED <<db, queue, openFds, conn, assigned, cur, out, leaked,
                 clientVars>>

-----------------------------------------------------------------------------
(* process: receive_data, process_request and the choice of the state. *)

(* Mutant: the buffers of a request that is served are not freed either. *)
DispatchWithoutFree(r) ==
  /\ cur' = r
  /\ assigned' = TRUE
  /\ pc' = CASE r.kind \in PutKind -> "put"
            [] r.kind = "other"    -> "invalid"
            [] OTHER               -> "get"
  /\ leaked' = leaked + 1
  /\ UNCHANGED <<err, exit_signal, db, queue, openFds, conn, bytes, out,
                 clientVars>>

(* Mutant: what is not a GET is taken for a PUT. *)
DispatchPutOrGet(r) ==
  /\ cur' = r
  /\ assigned' = TRUE
  /\ pc' = IF r.kind \in PutKind \cup {"other"} THEN "put" ELSE "get"
  /\ UNCHANGED <<err, exit_signal, db, queue, openFds, conn, bytes, out,
                 leaked, clientVars>>

(* process with the request r in the buffer. *)
Dispatch(r) ==
  /\ cur' = r
  /\ assigned' = TRUE
  /\ pc' = CASE r.kind \in PutKind -> "put"
            [] r.kind = "other"    -> "invalid"
            [] OTHER               -> "get"
  /\ UNCHANGED <<err, exit_signal, db, queue, openFds, conn, bytes, out,
                 leaked, clientVars>>

ProcessWhole ==
  /\ pc = "process"
  /\ bytes = "intact"
  /\ sent[conn] = "whole"
  /\ req[conn].kind # "tooLong"
  /\ Dispatch(Whole(req[conn]))

(* receive_data returns 0 without the whole body: the client has closed,   *)
(* or no length told it to wait for the body.                              *)
ProcessCut ==
  /\ pc = "process"
  /\ bytes = "intact"
  /\ sent[conn] = "headers"
  /\ state[conn] = "closed" \/ req[conn].kind = "bare"
  /\ \E r \in Cut(req[conn]) : Dispatch(r)

(* When receive_data returns after a failed read. *)
ShiftedEnds ==
  (bytes = "altered" /\ sent[conn] = "whole") \/ state[conn] = "closed"

(* After a failed read the buffer is not what the client sent. *)
ProcessAltered ==
  /\ pc = "process"
  /\ bytes # "intact" /\ ShiftedEnds
  /\ sent[conn] # "nothing"
  /\ \E r \in Parsed : Dispatch(r)

(* receive_data refuses the request; process returns before its frees. *)
ProcessRefused ==
  /\ pc = "process"
  /\ sent[conn] = "whole"
  /\ req[conn].kind = "tooLong"
  /\ pc' = "invalid"
  /\ leaked' = leaked + 1
  /\ UNCHANGED <<err, exit_signal, db, queue, openFds, conn, bytes, assigned,
                 cur, out, clientVars>>

(* process_request looks for the end of headers that are not there, or     *)
(* the buffer was written below its start.                                 *)
ProcessCrashes ==
  /\ pc = "process"
  /\ \/ sent[conn] = "nothing" /\ state[conn] = "closed"
     \/ bytes # "intact" /\ ShiftedEnds
  /\ Dies

(* Mutant: the failed read is not reported to err. *)
ReadResetUnlatched ==
  /\ "reset" \in Faults
  /\ pc = "process"
  /\ state[conn] = "closed"
  /\ sent[conn] # "whole"
  /\ bytes' = "altered"
  /\ UNCHANGED <<pc, err, exit_signal, db, queue, openFds, conn, assigned, cur,
                 out, leaked, clientVars>>

(* A read fails because the client has reset the connection. *)
ReadReset ==
  /\ "reset" \in Faults
  /\ pc = "process"
  /\ state[conn] = "closed"
  /\ sent[conn] # "whole"
  /\ err' = "errno"
  /\ bytes' = "altered"
  /\ UNCHANGED <<pc, exit_signal, db, queue, openFds, conn, assigned, cur, out,
                 leaked, clientVars>>

-----------------------------------------------------------------------------
(* The database calls: what they leave in val or the file, and in err. *)

Records == { k \in Key : db[k] # NoVal }
Fetched(text, e) == [text |-> text, err |-> e]

(* Every call opens the database, with descriptors of the same process.    *)
CanOpen == Cardinality(openFds) + DbFds <= MaxFds

(* A call of ndbm fails. *)
DbFault == err = "none" /\ ("db" \in Faults \/ ~CanOpen)

(* More than fits 1024 bytes is written past the end of return_str and     *)
(* val: the text may still be right or the process dies (GetCrashes).      *)
Overflows(r) ==
  \/ WantsAll(r) /\ \/ Cardinality(Records) > MaxListed
                    \/ \E k \in Key : db[k] \in LongVals
  \/ r.kind = "key" /\ db[r.key] \in LongVals

(* Mutant: the key datum is one byte short. *)
DbFetchShortKey(k) ==
  CASE err # "none" -> {Fetched(NoText, err)}
    [] err = "none" /\ ~CanOpen -> {Fetched(NoText, "errno")}
    [] err = "none" /\ CanOpen ->
         {Fetched(db[j], "none") : j \in IF Prefixes[k] = {} THEN {k} ELSE Prefixes[k]}

(* Without the database val stays empty; what dbm_fetch does not find, or  *)
(* fails to read, is "Not found".                                          *)
DbFetch(k) ==
  CASE err # "none" -> {Fetched(NoText, err)}
    [] err = "none" /\ ~CanOpen -> {Fetched(NoText, "errno")}
    [] err = "none" /\ CanOpen ->
         {Fetched(db[k], "none")}
           \cup { Fetched(text, "errno") :
                    text \in IF DbFault THEN {NoText, NoVal} ELSE {} }

(* The records that were read before a call failed. *)
DbFetchAll ==
  LET Listed(S) == [k \in Key |-> IF k \in S THEN db[k] ELSE NoVal]
  IN CASE err # "none" -> {Fetched(NoText, err)}
       [] err = "none" /\ ~CanOpen -> {Fetched(Listed({}), "errno")}
       [] err = "none" /\ CanOpen ->
            {Fetched(db, "none")}
              \cup { Fetched(Listed(S), "errno") :
                       S \in IF DbFault THEN SUBSET Records ELSE {} }

(* Mutant: the record is inserted, an existing one is not replaced. *)
DbStoreInsert(k, v) ==
  \/ err = "none" /\ UNCHANGED err
     /\ db' = IF db[k] = NoVal THEN [db EXCEPT ![k] = v] ELSE db
  \/ err # "none" /\ UNCHANGED <<db, err>>

(* Mutant: db_store does not look at err. *)
DbStoreUnguarded(k, v) == db' = [db EXCEPT ![k] = v] /\ UNCHANGED err

(* Mutant: the val datum is made of the key. *)
DbStoreKeyTwice(k, v) ==
  \/ err = "none" /\ db' = [db EXCEPT ![k] = k] /\ UNCHANGED err
  \/ err # "none" /\ UNCHANGED <<db, err>>

DbStore(k, v) ==
  \/ err = "none" /\ CanOpen /\ db' = [db EXCEPT ![k] = v] /\ UNCHANGED err
  \/ err # "none" /\ UNCHANGED <<db, err>>
  \/ DbFault /\ err' = "errno" /\ UNCHANGED db

-----------------------------------------------------------------------------
(* get, put and invalid choose the answer; Write sends it. *)

Respond(answer) ==
  /\ out' = answer
  /\ pc' = "write"
  /\ UNCHANGED <<exit_signal, queue, openFds, conn, bytes, assigned, cur,
                 leaked, clientVars>>

GetAll ==
  /\ pc = "get"
  /\ WantsAll(cur)
  /\ \E f \in DbFetchAll : err' = f.err /\ Respond(Ok(f.text))
  /\ UNCHANGED db

GetKey ==
  /\ pc = "get"
  /\ cur.kind = "key" /\ ~WantsAll(cur)
  /\ \E f \in DbFetch(cur.key) : err' = f.err /\ Respond(Page(f.text))
  /\ UNCHANGED db

GetPath ==
  /\ pc = "get"
  /\ \/ cur.kind = "index" /\ Respond(Says("welcome"))
     \/ cur.kind = "missing" /\ Respond(Says("404"))
  /\ UNCHANGED <<db, err>>

(* Mutant: a listing of no records reads the null pointer of the first key. *)
GetCrashesEmpty ==
  /\ pc = "get"
  /\ cur.kind = "noKey" \/ (WantsAll(cur) /\ Records = {})
  /\ Dies

(* No key after the "?": the length of a null pointer.  Too much text: see *)
(* Overflows.  dbm_firstkey gets the handle of a database that does not    *)
(* open all the same.                                                      *)
GetCrashes ==
  /\ pc = "get"
  /\ \/ cur.kind = "noKey"
     \/ err = "none" /\ CanOpen /\ Overflows(cur)
     \/ WantsAll(cur) /\ DbFault
  /\ Dies

PutStores ==
  /\ pc = "put"
  /\ cur.kind = "put"
  /\ DbStore(cur.key, cur.val)
  /\ Respond(Says("complete"))

PutNoEquals ==
  /\ pc = "put"
  /\ cur.kind = "noEquals"
  /\ Respond(Says("400"))
  /\ UNCHANGED <<db, err>>

(* Mutant: put does not look for an "=" first. *)
PutCrashesUnchecked ==
  /\ pc = "put"
  /\ cur.kind \in {"oneField", "noEquals"} \/ (cur.kind = "put" /\ DbFault)
  /\ Dies

(* No second field: the length of a null pointer.  A database that does    *)
(* not open is written all the same.                                       *)
PutCrashes ==
  /\ pc = "put"
  /\ cur.kind = "oneField" \/ (cur.kind = "put" /\ DbFault)
  /\ Dies

Invalid ==
  /\ pc = "invalid"
  /\ Respond(Says("400"))
  /\ UNCHANGED <<db, err>>

-----------------------------------------------------------------------------
(* The answer is written, the descriptor closed, the structs freed. *)

(* put returns before its close when the body has no "=". *)
AfterWrite == IF cur.kind = "noEquals" THEN "free" ELSE "close"

(* deliverThe404 calls write itself: its failure does not reach err. *)
WriteErrors ==
  {err} \cup (IF out.status = "404" THEN {} ELSE {"errno"})

(* Mutant: the 404 page only goes to the standard output. *)
Write404Aside ==
  /\ pc = "write"
  /\ state[conn] = "open"
  /\ reply' = IF out.status = "404" THEN reply ELSE [reply EXCEPT ![conn] = out]
  /\ UNCHANGED err
  /\ pc' = AfterWrite
  /\ UNCHANGED <<exit_signal, db, queue, openFds, conn, bytes, assigned, cur,
                 out, leaked, state, req, sent>>

(* The client has the answer; the call may still report an error, for the  *)
(* copy that goes to a standard output that is gone.                       *)
Write ==
  /\ pc = "write"
  /\ state[conn] = "open"
  /\ reply' = [reply EXCEPT ![conn] = out]
  /\ err' \in IF "write" \in Faults /\ out.status \in {"200", "welcome"}
              THEN {err, "errno"} ELSE {err}
  /\ pc' = AfterWrite
  /\ UNCHANGED <<exit_signal, db, queue, openFds, conn, bytes, assigned, cur,
                 out, leaked, state, req, sent>>

(* Mutant: a write to a client that is gone returns before the close. *)
WriteLostKeepsOpen ==
  /\ pc = "write"
  /\ state[conn] = "closed"
  /\ err' \in WriteErrors
  /\ pc' = "free"
  /\ UNCHANGED <<exit_signal, db, queue, openFds, conn, bytes, assigned, cur,
                 out, leaked, clientVars>>

(* The client is gone: the bytes are lost or the write fails. *)
WriteLost ==
  /\ pc = "write"
  /\ state[conn] = "closed"
  /\ err' \in WriteErrors
  /\ pc' = AfterWrite
  /\ UNCHANGED <<exit_signal, db, queue, openFds, conn, bytes, assigned, cur,
                 out, leaked, clientVars>>

(* Only SIGINT and SIGTERM have handlers: SIGPIPE ends the process. *)
WriteSigpipe ==
  /\ pc = "write"
  /\ state[conn] = "closed"
  /\ Dies

(* Mutant: the 404 branch returns before the close. *)
CloseNot404 ==
  /\ pc = "close"
  /\ openFds' = IF err = "none" /\ out.status # "404" THEN openFds \ {conn}
                                                    ELSE openFds
  /\ pc' = "free"
  /\ UNCHANGED <<err, exit_signal, db, queue, conn, bytes, assigned, cur, out,
                 leaked, clientVars>>

Close ==
  /\ pc = "close"
  /\ openFds' = IF err = "none" THEN openFds \ {conn} ELSE openFds
  /\ pc' = "free"
  /\ UNCHANGED <<err, exit_signal, db, queue, conn, bytes, assigned, cur, out,
                 leaked, clientVars>>

(* freeServerStruct, and do_accept returns false. *)
Free ==
  /\ pc = "free"
  /\ pc' \in IF err = "none" THEN {"accept"} ELSE {"accept", "shutdown"}
  /\ conn' = NoClient
  /\ bytes' = "intact"
  /\ assigned' = FALSE
  /\ cur' = Unasked
  /\ out' = NoReply
  /\ UNCHANGED <<err, exit_signal, db, queue, openFds, leaked, clientVars>>

(* After a refused request freeServerStruct frees pointers that nothing    *)
(* assigned.                                                               *)
FreeCrashes ==
  /\ pc = "free"
  /\ ~assigned
  /\ Dies

-----------------------------------------------------------------------------
(* The clients. *)

Listening == pc \in Serving \cup {"setup", "accept"}

Connect(c) ==
  /\ Listening
  /\ state[c] = "idle"
  /\ Len(queue) < Backlog
  /\ queue' = Append(queue, c)
  /\ state' = [state EXCEPT ![c] = "open"]
  /\ \E r \in Requests : req' = [req EXCEPT ![c] = r]
  /\ UNCHANGED <<pc, err, exit_signal, db, openFds, conn, bytes, assigned, cur,
                 out, leaked, sent, reply>>

(* More of the request arrives: the headers, or all of it.  A request      *)
(* without a body is whole with its headers.                               *)
Send(c) ==
  /\ state[c] = "open"
  /\ \/ sent[c] # "whole" /\ sent' = [sent EXCEPT ![c] = "whole"]
     \/ /\ sent[c] = "nothing"
        /\ req[c].kind \in PutKind
        /\ sent' = [sent EXCEPT ![c] = "headers"]
  /\ UNCHANGED <<serverVars, db, state, req, reply>>

(* The client closes, with its answer or, when it may, without. *)
Leave(c) ==
  /\ state[c] = "open"
  /\ reply[c] # NoReply \/ "hangup" \in Faults
  /\ state' = [state EXCEPT ![c] = "closed"]
  /\ UNCHANGED <<serverVars, db, req, sent, reply>>

-----------------------------------------------------------------------------
Process == \/ ProcessWhole \/ ProcessCut \/ ProcessAltered \/ ProcessRefused
           \/ ProcessCrashes
Get == GetAll \/ GetKey \/ GetPath \/ GetCrashes
PutStep == PutStores \/ PutNoEquals \/ PutCrashes
Answer == Write \/ WriteLost \/ WriteSigpipe \/ Close \/ Free \/ FreeCrashes

Server ==
  \/ StageDone \/ Shutdown \/ Accept \/ AcceptFails
  \/ Process \/ Get \/ PutStep \/ Invalid \/ Answer

Environment ==
  \/ StageFails \/ Kill \/ Start \/ Signal \/ ReadReset
  \/ \E c \in Client : Connect(c) \/ Send(c) \/ Leave(c)

Next == Server \/ Environment

Spec == Init /\ [][Next]_vars

(* The process is scheduled.  Nothing makes clients act, signals come or   *)
(* someone start the server again.                                         *)
FairSpec == Spec /\ WF_vars(Server)

-----------------------------------------------------------------------------
(* Properties. *)

Answered(c, status) == reply[c] = NoReply /\ reply'[c].status = status

(* What a request may be taken for: what it is or, when its body is cut    *)
(* short, because its client closed before the end of it or because        *)
(* nothing told the server to wait for it, what is left.                   *)
TakenFor(c) ==
  {Whole(req[c])}
    \cup (IF req[c].kind = "bare" \/ (state[c] = "closed" /\ sent[c] = "headers")
          THEN Cut(req[c]) ELSE {})

(* put may see a body without "=", and return before its close. *)
Costly(c) == Plain("noEquals") \in TakenFor(c)

(* A client that reads "PUT Complete" while no error is latched finds its  *)
(* record in the database at that moment: db_store has run on the key and  *)
(* the value of this request, under whatever came before it (other         *)
(* clients, crashes, restarts, interrupted reads).  Only a request without *)
(* a length may have lost the end of its key.                              *)
AckMeansStored ==
  [][\A c \in Client :
       Answered(c, "complete") /\ err' = "none"
         => \E r \in TakenFor(c) : r.kind = "put" /\ db'[r.key] = r.val]_vars

(* An answer that reaches a client without an error latched tells what is  *)
(* in the database at that moment: the value of the key it asked for, the  *)
(* whole listing when it asked for that or its key contains "all", and 404 *)
(* for a key only when there is no record, or one that says "Not found".   *)
AnswerIsCurrent ==
  [][\A c \in Client :
       err' = "none"
         => /\ Answered(c, "200")
                 => reply'[c].body = IF WantsAll(req[c]) THEN db ELSE db[req[c].key]
            /\ Answered(c, "404") /\ req[c].kind = "key"
                 => Page(db[req[c].key]) = Says("404")]_vars

(* The database only changes to what a client asked, while that client is  *)
(* being served: never from a buffer that a failed read has shifted (the   *)
(* error it latched keeps db_store from running), never after a crash or a *)
(* restart.  The exception is a body cut short, which may name the prefix  *)
(* of a key: another key.                                                  *)
StoredOnlyAsAsked ==
  [][\A k \in Key :
       db'[k] # db[k]
         => conn # NoClient /\ Put(k, db'[k]) \in TakenFor(conn)]_vars

(* Back in accept with no error latched, the server holds no descriptor    *)
(* but those of PUTs whose body had no "=" as far as it arrived, which put *)
(* returns from before its close: none of a GET, and none of a client that *)
(* left before its answer was written.                                     *)
OpenMeansBadPut == pc = "accept" /\ err = "none" => \A c \in openFds : Costly(c)

(* Only a refused request leaves its buffers allocated. *)
LeaksOnlyRefused ==
  leaked <= Cardinality({c \in Client : req[c].kind = "tooLong"})

(* When nothing around the server fails, the only way to a latched error,  *)
(* after which it serves nobody, is to run out of descriptors, for the     *)
(* next connection or for the database of the request being served, and    *)
(* that takes all but DbFds of them in PUTs without "=".                   *)
StopsOnlyByLeak ==
  err # "none" => Cardinality({c \in openFds : Costly(c)}) + DbFds >= MaxFds

(* What process_request, get, put or freeServerStruct cannot digest. *)
Fragile(c) ==
  \/ req[c].kind \in {"noKey", "tooLong"}
  \/ Overflows(req[c])
  \/ Plain("oneField") \in TakenFor(c)

(* A client that sends a whole, well-formed request and waits for its      *)
(* answer never brings the server down, unless a read of its request fails *)
(* or PUTs without "=" have used up the descriptors, so that its database  *)
(* does not open: not after a refused or cut request, not with an error    *)
(* latched, not with buffers lost.                                         *)
OnlyFragileRequestsKill ==
  [][pc \notin {"down", "shutdown"} /\ pc' = "down"
       => /\ conn # NoClient
          /\ \/ Fragile(conn) \/ state[conn] = "closed" \/ bytes # "intact"
             \/ ~CanOpen /\ \A c \in openFds \ {conn} : Costly(c)]_vars

(* If every connected client sends its whole request in the end, every one *)
(* that has is answered, unless the server has latched an error (see       *)
(* StopsOnlyByLeak) or ended: no connection is lost between the accept     *)
(* queue, the processing FSM and the close, also when others cost their    *)
(* descriptors.  (One that never sends holds up all.)                      *)
EveryRequestAnswered ==
  (\A c \in Client : state[c] = "open" ~> sent[c] = "whole")
    => \A c \in Client :
         state[c] = "open" /\ sent[c] = "whole"
           ~> reply[c] # NoReply \/ state[c] = "closed" \/ err # "none"

-----------------------------------------------------------------------------
(* Statements of the sources that the code does not keep. *)

(* iBeaconServer.c:116, "Atomic exit signal": a caught SIGINT or SIGTERM   *)
(* makes the server exit.                                                  *)
SignalStops == exit_signal ~> pc = "down"

(* include/dbstuff.h:7, db_store "Stores a key-value pair in the db", after*)
(* which put answers "PUT Complete" (iBeaconServer.c:773).                 *)
CompleteMeansStored ==
  [][\A c \in Client :
       Answered(c, "complete")
         => \E r \in TakenFor(c) : r.kind = "put" /\ db'[r.key] = r.val]_vars

-----------------------------------------------------------------------------
(* The inductive invariant. *)

(* A connection is being served exactly while the processing FSM runs, and *)
(* only connections that exist wait, are open or are served.               *)
Bound ==
  /\ pc \in Serving => conn \in Client /\ state[conn] # "idle"
  /\ pc \notin Serving => conn = NoClient /\ ~assigned
  /\ \A i \in 1 .. Len(queue) : state[queue[i]] # "idle"
  /\ \A c \in openFds : state[c] # "idle"

(* A failed read leaves an error behind. *)
Latched == bytes # "intact" => err # "none"

(* The parsed request is the client's as long as no error is latched. *)
Faithful ==
  /\ pc \in {"process", "invalid"} => ~assigned \/ cur.kind = "other"
  /\ pc \in {"get", "put"} => assigned
  /\ ~assigned => cur = Unasked
  /\ err = "none" /\ assigned => cur \in TakenFor(conn)

(* "PUT Complete" is only about to be written when db_store has run. *)
Stored ==
  pc = "write" /\ err = "none" /\ out.status = "complete"
    => assigned /\ cur.kind = "put" /\ db[cur.key] = cur.val

(* A descriptor is open because its connection is being served, or because *)
(* put saw no "=".                                                         *)
OpenExplained ==
  err = "none"
    => \A c \in openFds :
         \/ Costly(c)
         \/ c = conn /\ pc \in Serving \ {"free"}

ServerInv == TypeOK /\ Bound /\ Latched /\ Faithful /\ Stored /\ OpenExplained
=============================================================================
