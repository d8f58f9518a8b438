# iBeaconFinder in TLA+

iBeaconFinder is a small HTTP server that keeps beacon records in an ndbm file
(`src/src/iBeaconServer.c`, `db.c`, `http_request.c`) and a terminal client that
asks it for them (`src/src/cursesClient.c`, `http_response.c`). Beacons store
records with PUT, the client reads them with GET. This directory holds TLA+
models of the program, the TLC configurations that check them, and theorems
with proofs for TLAPS.

## Inventory

| component | state it keeps | operations | module |
|---|---|---|---|
| receive loop (`receive_data`, `getContentLengthFromString`; the client has a copy) | buffer, bytes counted, length expected, headers found | one read: short, failed, end of file, too long | `ReceiveData` |
| server start-up and shutdown (`create_server_lifecycle`, `do_create_settings` ... `do_setup`, `do_shutdown`) | lifecycle stage, listening socket | six start-up calls, each may fail | `BeaconServer` |
| accept loop (`do_accept`) | latched `dc_error`, `exit_signal`, open descriptors, shared with the database | accept, fail, be interrupted, stop | `BeaconServer` |
| processing FSM (`startProcessingFSM`, `process`, `get`, `put`, `invalid`) | the `struct server` of one connection | receive and parse, route, answer, close, free | `BeaconServer` |
| database access (`db_store`, `db_fetch`, `db_fetch_all`) | the ndbm file, which outlives the process | open, store, fetch, list, with an error latched or failing | `BeaconServer` |
| signal handler | `exit_signal` | SIGINT, SIGTERM at any moment | `BeaconServer` |
| what the server promises | the records; the phase of each request | ask, apply, answer, lose | `BeaconStore` (abstract), `BeaconServerStore` (refinement) |
| request text (`process_request_line`, `strtok` in `get` and `put`) | what `strtok` has left | one call of `strtok` | `HttpText` |
| curses client FSM (`cursesClient.c`) | menu line, socket, latched `dc_error`, the last answer | set up, choose, prompt, write, receive, parse, display, close, quit | `CursesClient` |
| HTTP response parser (`http_response.c`) | status, length, body, never cleared | `process_response` | `CursesClient` |
| clients, beacons and the server together | the connection of each question | | `BeaconSystem` |
| command line, reporting, tests | nothing the rest depends on | | not modelled |

`Beacons` holds what all of them speak of: requests, records, answers.

How they interact: the lifecycle library calls `do_accept` again and again; each
accepted connection is served to its end by one run of the processing FSM inside
that call, so the server does one thing at a time. All calls share one
`dc_error`: a wrapper that fails sets it, later calls look at it or do not, and
nothing resets it while the server runs. The signal handler shares only
`exit_signal` with the rest. Clients share with the server the socket and, through
it, the database.

What is hard here, and is therefore what the properties are about:

* bytes come in any pieces, and the length of a message is known only when its
  headers are complete (`ReceiveData`);
* an error latched by one request changes what happens to all later ones;
* signals arrive at any moment, interrupt a blocked call or are only remembered;
* a client may stop, leave early or send half a request, and everyone behind it
  waits, because there is one thread and no timeout;
* descriptors and buffers are lost on some paths, and every request needs
  descriptors twice: for its connection and for the database it opens;
* a record that was stored without complaint may be too long for the buffers of
  the request that reads it;
* the process may die at any point, by a crash of its own or a kill, and is
  started again on the same file;
* the client keeps what an earlier answer left in `response`, `content_length`
  and `message_body`, and goes on after failures nobody looked at;
* the client connects before its user has typed, so a person holds up all.

`PROJECT.json` lists each hazard at its line with the properties that cover it.

## ReceiveData

One call of `receive_data` against one peer. A byte is its position in the
peer's stream, `dest` maps memory cells to bytes, with cells before and after
the buffer so that a misplaced store is visible. A peer is described by its
`length`, the position `headers` where the delimiter ends and the announced
`content`; all three are independent, so peers that announce too much, send too
much or never end their headers are included.

`ReadSome(n)` is one turn of the loop with a read of any size the kernel may
return; `ReadFails` one whose read returns -1, which the code adds to the count;
`ReadEof` and `LoopEnds` are the two ways out of the `while`. After a failed
read later bytes overwrite earlier ones, so what `getContentLengthFromString`
sees is uncertain: the model then takes any length up to the announced one.

`MCReceiveData.cfg` uses a buffer of 8 cells, a delimiter of 2 and ten streams
on both sides of every boundary: just fits, one too long, delimiter on the last
byte, body missing, bytes after the body. Two failed reads are enough to write
below the buffer and to lose two bytes. The run checks the inductive invariant
`ReceiveInv` and

* `SuccessMeansWhole`: what is handed on, without failed read or end of file,
  is the whole announced message, in order;
* `TerminatorKept`: there is a NUL inside the buffer, always;
* `RefusedMeansTooLong`: nothing that fits is refused;
* `NeverBlocksOnWhole`: the loop never waits for a byte after the message;
* `CompleteIsReceived`: a message that is complete and fits is received in the
  end. Fairness is weak fairness of each way the loop can go on, and of arrival;
  none on the peer's close. `content` is positive or zero: `atoi` of a negative
  or overflowing header is outside the model.

The run `receive_stored` shows a statement of the sources that does not hold:
`StoredInsideDest` ("up to max size in request", iBeaconServer.c:635), because
every read may store `MAX_REQUEST_SIZE` bytes wherever the last one ended.

## Beacons and BeaconServer

The whole server process and its clients. `pc` is the position in the code:
the six start-up stages, `accept` (blocked in `accept`), `process` (in
`receive_data`), `get`, `put`, `invalid`, `write`, `close`, `free`, and
`shutdown` and `down`. Between two steps anything else may happen: a signal, a
kill, a client that sends or leaves.

| in the model | in the code |
|---|---|
| `err` | the shared `dc_error`: none, EINTR, any other errno; reset only by a new process |
| `Accept`, `AcceptFails`, `AcceptReturns` | `do_accept`, and the library's choice after it |
| `Signal` | `signal_handler`, and EINTR of the call it interrupts |
| `ProcessWhole/Cut/Altered/Refused/Crashes`, `ReadReset` | `process` for each outcome of `receive_data` and `process_request` |
| `GetAll`, `GetKey`, `GetPath`, `GetCrashes` | the branches of `get`, in its order of tests |
| `PutStores`, `PutNoEquals`, `PutCrashes` | the branches of `put` |
| `DbStore`, `DbFetch`, `DbFetchAll` | `db.c` with its tests of `err` |
| `CanOpen`, `DbFault` | `dc_dbm_open` of each request, which takes `DbFds` of the `MaxFds` descriptors that connections use; `"db"` in `Faults` lets any ndbm call fail |
| `Overflows` | `strncat` and `dc_strcpy` into the 1024 bytes of `return_str` and `val`: more than `MaxListed` records in a listing, or a value in `LongVals` |
| `Write`, `WriteLost`, `WriteSigpipe` | `dc_write` or, for the 404 page, `write` |
| `Close`, `Free`, `FreeCrashes` | `dc_close` under `err`, `freeServerStruct` |
| `Dies` | end of the process: sockets closed, memory gone, file kept |

Requests (`Beacons`) are kinds with a key and a value. `bare` is a PUT without the
exact text `Content-Length: `: the server then answers when it has the headers,
with as much of the body as came along. `Cut` says what a shortened PUT body is
taken for, and is empty for a request without a body: the method alone decides
that a request goes to `put`. `TakenFor` is what a request may be taken for, with
the part of `Cut` only for a PUT whose client closed in the middle of it or that
tells no length. `Prefixes` gives the keys a shortened key can become. `AllKeys`
and `NotFoundVals` are the keys and values in which `strstr` finds "all" and "Not
found". `bytes` says whether a failed read has shifted the buffer: "altered" (any
request, or a crash: the byte before the buffer belongs to the allocator) or
"starved" (the loop waits for one byte more than will come). Where the code is
undefined, the model has both outcomes, the process dies in that step or the call
does what it was meant to: frees of unassigned pointers, the overflow of the 1024
bytes of a listing or of one long record, a database handle that is null. (A heap
that is damaged and only kills a later request is outside the model.) A null
string given to `dc_strlen` and the search in headers without an end are crashes
on every build.

What the repository does not contain is modelled from how it is used: wrappers
of dc_posix set `err` when they fail and do not look at it first; `dc_fsm_run`
goes on to the state a handler returns even when `err` is set (`get`, `put` and
`invalid` test it themselves); after `do_accept` returned false with an error
the lifecycle library may call it again or stop; SIGPIPE has its default effect.

### Runs

`MCBeaconServer` names three keys (one a prefix of another, one containing
"all"), two values (one containing "Not found") and sets of requests. Each
connection carries one request, so a client that asks twice is two connections.
`Faults` names which disturbances a run enables.

| run | instance | shows |
|---|---|---|
| `server_faults` | 2 connections, every kind of request, every fault, backlog 1, 2 descriptors of which the database takes 1, 1 listed record, 1 long value | `TypeOK`, `ServerInv`, `AckMeansStored`, `AnswerIsCurrent`, `StoredOnlyAsAsked`, `OpenMeansBadPut`, `LeaksOnlyRefused` |
| `server_store` | the same without signals, kills and database calls that fail by themselves | `StoreInv`, `ImplementsStore`, `OnlyFragileRequestsKill` |
| `server_live` | 3 connections, 3 descriptors of which the database takes 1, no fault; one kind of request costs a descriptor | `StopsOnlyByLeak`, `EveryRequestAnswered` |
| `server_signal`, `server_ack` | 1 connection | two of the findings below |

* `AckMeansStored`, `AnswerIsCurrent`, `StoredOnlyAsAsked`: what a client reads and
  what the file holds agree, as long as no error is latched.
* `OpenMeansBadPut`: back in `accept` with no error latched, the only descriptors
  still held are those of PUTs whose body had no "=" as far as it arrived; a GET
  and a client that left before its answer cost none.
* `StopsOnlyByLeak`: without faults an error is latched only when such PUTs hold
  all descriptors but those of the database. The next failure is then that of
  `accept`, or that of `dbm_open` while a good request is being served.
* `OnlyFragileRequestsKill`: what ends the process is a request or record the code
  cannot digest, a client that leaves, a failed read, or a database that does not
  open because all other descriptors are held by such PUTs.

Two connections suffice for what one request leaves to the next (a latched error,
a record, a lost descriptor or buffer); the third in `server_live` is one that
waits behind both, and meets a database that no longer opens. Backlog, descriptors
and listed records are as small as lets their limit be met. The database starts
empty; the process is restarted any number of times.

Fairness in `FairSpec` is weak fairness of the server's own steps: it is one
thread that the system schedules. Clients, signals and restarts get none. That
clients send in the end is the hypothesis of `EveryRequestAnswered`, because the
curses client connects before its user has typed the key, and one that never
does holds up everyone.

CHECK_DEADLOCK is off in all runs of servers and clients: when every connection
is used up the server rightly waits in `accept` for ever, and a client ends.

## BeaconStore and BeaconServerStore

`BeaconStore` says what a client may rely on, without a process, a queue or a
descriptor: a request is asked, takes effect on the records at one moment
(`Apply`, which also fixes the answer), and is answered; or it is lost, with or
without its effect. A client that goes away before it was served, or whose PUT
tells no length, may have a part of its body served. Nothing else changes the
records. After a failure (`broken`) requests get some answer and have no effect,
until the server is started again.

`BeaconServerStore` is the refinement mapping. The records are the database; a
request is asked while its connection is in the accept queue or in `process`,
`get`, `put` or `invalid`, applied when its answer is decided and its client is
there to read it, answered when it has it, and over otherwise. The moment of
effect is the step of `get`, `put` or `invalid`. `broken` is a latched error: the
code then does say "PUT Complete" for nothing (`server_ack`), and what the
refinement shows is that nothing is stored either. TLC checks `ImplementsStore` in
`server_store`, with requests that run out of descriptors; the theorem
`Implements` proves it under every fault, signals, kills and failing database
calls included. Those are left out of the run because `OnlyFragileRequestsKill`,
which is checked there too, is about kills, and to keep it small; the restart
after a crash is in it.

## HttpText

What `Beacons` takes for granted of the text. A text is a sequence of symbols, and
a step is one call of `strtok`, which steps over leading delimiters and consumes
the one behind its token. `put` calls it with `=`, `&`, `=`, `&` on the body,
`get` with `?` and a blank on what `process_request_line` made of the request
line. The run `http_text` takes every value and key of at most two symbols, every
place to cut the body, none or one or two further fields (one of them without
"="), and everything of three symbols that a user can type: enough to have each
delimiter at the start, inside, at the end, and twice. `FirstOf` and `FirstOther`
are what `strchr` and `strtok` look for. The run also checks the inductive
invariant `TextInv`, which says after each call what is left of the text.

* `FieldsRead`: a body with a value and a key is stored under that very key, with
  that value, if both have arrived, and under a prefix of the key only if the end
  of the body is missing: this is `Cut`. `arrived` says how much has come.
* `EmptyTakesNext`: with an empty value or key `strtok` takes the next field for
  the empty one. What is stored then is under a key found in the further fields
  (`n=&m=k&x=y` is stored with the value `m=k`, under `y`), never under the
  client's own, and without further fields nothing is stored. Such bodies are not
  in `Beacons`.
* `KeyArrives`: the key that is looked up is what was typed, up to a blank.

## CursesClient

One client per user; `at` is the state of its FSM, with `prompt` and `write` as
the two moments of `get_all` and `by_key` in which the user or the kernel acts.

| in the model | in the code |
|---|---|
| `error` | the client's `dc_error`: reset by nothing |
| `SetupWindow`, `HasMenu`, `HasDisplay` | `setup_window`; ncurses refuses windows that do not fit, nobody looks |
| `KeyUp`, `KeyDown`, `Enter` | `await_input` |
| `SetupConnects/Fails/Refused/Skipped` | `setup`, at its successful end, at a failure before the connect, at a failed connect that goes unnoticed, and with an error latched before |
| `Types`, `WriteSends/Fails/Sigpipe` | `get_all`, `by_key` |
| `ReceiveWhole/Ends/Fails` | `await_response` and `receive_data`, by what they leave behind; after a persistent error the loop never ends |
| `Parse`, `ParseCrashes`, `Length` | `process_response` with the fields that are kept between answers |
| `Display`, `Close`, `Quit`, `QuitCrashes` | `display_response`, `close_`, `quit_` and the frees of `main` |

The server is outside: what arrives is a parameter of the actions. `NetFaults`
names what may go wrong. `client_faults` has one user, one key, every answer and
every fault, and any number of questions, since nothing counts them; clients
share no state, so a second user adds nothing there.

* `ShownIsAnswer`: what an undisturbed question leaves on the display is its own
  whole answer, whatever earlier answers left in the client's fields.
* `SocketOnlyInQuestion`: no socket is held between questions, however the last
  one ended.
* `QuitFreesAssigned`: after a first question, what `main` frees is assigned.
* `NoReturnAfterError`: a client that asks with an error latched never comes
  back to its menu. This is what the code does, stated so that a change of it is
  noticed: `setup` is skipped, the write fails, `receive_data` adds -1 for ever.
* `client_rows` violates `DisplaysResponse`: on 19 rows there is a menu, but the
  display window starts above the screen.

## BeaconSystem

The server of `BeaconServer` and an instance of `CursesClient`, whose actions are
conjoined with those of the server that they mean: `UserConnects` is
`SetupConnects` and `Connect`, `UserWrites` is `WriteSends` and `Send`, and so on.
A question takes one connection; connections that no user holds belong to
beacons that PUT. `since` records what the database has held since the question
was written.

| run | instance | shows |
|---|---|---|
| `system_store` | 1 user, who may also ask for an empty key, 3 connections, 2 descriptors of which the database takes 1, 2 keys and values, start-up failures, kills, interrupted clients | `UserSeesStore`: what is displayed is what the database held between write and answer, or nothing once PUTs without "=" have used up the descriptors; `SystemInv` |
| `system_live` | 2 users, 2 connections, 2 descriptors of which the database takes 1, a long record, PUTs without "=" and the listing, no fault | `EveryQuestionEnds`; `CrashIsShared`: a connected client only crashes after somebody sent a request that the server cannot digest, a record too long for its GET or a PUT that costs a descriptor (`Harmful`); `CrashInv` |

One question can be overtaken by two PUTs in `system_store`, where the one may
cost the descriptor that the other, or the question, misses; connections and users
are symmetric there, and no property or definition tells them apart. In
`system_live`, which has liveness and so no symmetry, each connection is once in
front and once behind, and two suffice for a crash: one that sends what harms, one
that waits. `FairSystemSpec` has weak fairness of the server and of each client's
program, not of people, beacons or restarts. `EveryQuestionEnds` has as hypotheses
that prompted users type and that beacons send what they announce; without the
first, one user at the prompt holds the server for everybody (`by_key` connects
before it prompts, cursesClient.c:484).

## What the code does not keep

Each of the first four has a run whose counterexample shows it.

* `StoredInsideDest`: reads after the first may store behind the buffer.
* `SignalStops`: a signal outside a blocked accept is not acted on.
* `CompleteMeansStored`: "PUT Complete" is written whatever `db_store` did.
* `DisplaysResponse`: on a low terminal answers are not to be seen.
* `receive_data` returns 0 when the peer closes early (`@return 0 if
  successful`, iBeaconServer.c:203); `TakenFor` and `Cut` say what comes of it.
* A key that contains "all" is answered with the listing (`WantsAll`).
* A refused request frees pointers nothing assigned (`FreeCrashes`), and so does
  a user who quits before the first question (`QuitCrashes`).
* A client whose connect was refused reads for ever (`NoReturnAfterError`).

## Proofs

All proofs hold for every value of the constants that satisfies
`ReceiveAssumption`, `BeaconsAssumption`, `ServerAssumption`, `ClientAssumption`,
`SystemAssumption` or `TextAssumption`: types, sentinels that are not ordinary
values, delimiters that fields cannot contain. `SystemAssumption` also has finitely
many connections, so that their descriptors can be counted, and no ndbm call that
fails by itself. What else a theorem assumes, it states.

`ReceiveDataProofs` proves `ReceiveInv` inductive and from it type correctness
and the four safety properties of the loop. The properties are not inductive by
themselves: one needs that while no read has failed the counter is the number of
bytes taken and the buffer is that prefix of the stream, that all cells from the
last one of `dest` on are still NUL, and that the headers are found in exactly
the turn that takes the end of their delimiter (lemma `DelimiterIsFound`).

`BeaconServerProofs` proves `ServerInv` inductive. Its parts: `Bound` (a
connection is served exactly while the FSM runs, and never an idle one, so its
request no longer changes), `Latched` (a shifted buffer implies a latched
error), `Faithful` (without a latched error the parsed request is the client's),
`Stored` (about to write "PUT Complete" without an error: the record is in the
file) and `OpenExplained`. The argument for `StoresOnlyAsAsked`: only `PutStores`
changes the database, and only with no error latched; `Latched` then excludes a
shifted buffer, and `Faithful` gives the record. `AckIsStored` follows from
`Stored`, since nothing changes the file between `put` and its write, and
`OpenExplains` from `OpenExplained`.

`BeaconServerStoreProofs` proves `StoreInv` inductive and then `Implements`, under
every fault. `StoreInv` adds to `ServerInv`: `Distinct` (the queue holds no
connection twice, none that is served or answered) and `Routed` (the request in
`get`, `put`, `invalid` is one of theirs). Each action of the server is then a step
of `BeaconStore` or a stutter: `Connect` is `Ask`, the steps of `get`, `put` and
`invalid` are `Apply`, or `Fail` with an error before or after them, `Write` is
`Answer`, `Leave` is `Depart`, every end of the process is `Crash`, an error about
no request is `Break`, and a request refused on a path without an answer is `Drop`.

`BeaconServerAnswerProofs` proves two more properties of the server.
`AnswersAreCurrent`: `AnswerInv` adds to `ServerInv` that a lookup made without an
error is the one the unchanged database still gives while its answer is written
(`Current`), and that what was parsed from an intact buffer is the client's own
request, only a refused one not being parsed (`Unshifted`). `OnlyFragileKill`
assumes that nobody kills the process and that database calls do not fail by
themselves; each way to end is then traced to its cause, a database that does not
open to the descriptors that `OpenExplained` gives to PUTs without "=".

`BeaconServerLeakProofs` is about what is used up. `LeaksAreRefused`, for finitely
many clients, needs that the queue names no connection twice (`Once`) and charges
each pair of lost buffers to another connection of the set `Finished`.
`StopsByLeak` assumes `Faults = {}`: a client then never leaves before its answer
(`Attended`), so no write fails, and an error comes from `accept` or from the
database, with all descriptors but `DbFds` held by PUTs without "=" (`Exhausted`).
An error latched while a request is being served keeps its descriptor open too,
so `Exhausted` counts only what PUTs have left (`LeftByPuts`); that a PUT that was
cut short stays one (`CostlyStays`) keeps the count from falling.

`CursesClientProofs` proves `ClientInv` inductive: a socket is only held in a
question (`Unconnected`), a socket not connected any more has left an error
(`Sound`), and without an error each state of the FSM has the fields of the
current answer only (`Fresh`). `ShowsOwnAnswer` and `NoSocketBetween` follow;
`NeverBack` proves that `Doomed` is closed under every step, and
`FreesAssigned` that once a question was asked the freed fields stay assigned
(`Owned`).

`BeaconSystemProofs` is about users, beacons and the server together.
`RunsServer` and `RunsClients` prove that the composition, seen from the server, is
a behaviour of `BeaconServer` and, seen from the users, one of `CursesClient` in
which every answer and every network fault may happen. What is proved of the
components therefore holds in the system: `SystemStores` takes the refinement
over, and the proofs below use `StoreInv`, `ServerInv` and `ClientInv`. `SystemInv`
relates the two sides, which neither component's invariant can:

* `Lines`: every question has a connection of its own;
* `Posed`: the request on it is that question, and nobody heard of it before it
  was written;
* `Heard`, `Told`: the server answers only what it has heard and has lost
  descriptors only to requests that were sent, and what it is about to write of a
  record is what the database holds, or the empty text of a database that did not
  open;
* `Truthful`: an answer is what the database held at some moment since the
  question, or that empty text, and a client that has stopped waiting gets none
  any more;
* `Received`: what the client has read is what its connection was answered.

`UsersSeeStore` follows with `ClientInv`, on terminals with room for the display
(`HasDisplay`): an empty text is displayed as nothing, and `UsedUp`, once true,
stays so. `CrashesAreShared` assumes that nothing fails around the server (`Faults
= {}`) and that one connection at least finds descriptors for itself and the
database (`MaxFds > DbFds`). Its invariant `CrashInv` traces every latched error,
every open descriptor (`Costs`), every long record in the file (`Overlong`) and
every connection that ended without an answer to a `Harmful` request: a server
that latches an error, or dies of a database that does not open, holds a
descriptor besides that of the connection it serves, and a PUT without "=" has
left it; one that dies otherwise was sent a request it cannot digest, or a record
too long for its GET; and a client finds an empty answer on no other connection.

`HttpTextProofs` proves `TextInv` inductive, for fields and typed lines of every
length and bodies that are cut at any place. Strings are data, but no induction is
needed: a text is described by what stands at each of its places (`BodyPlaces`,
`LinePlaces`), one call of `strtok` takes the part up to the first delimiter
(`StrtokTakes`, or `StrtokSkips` behind an empty field), and there are at most
four calls. `PutReads(arrived)` says of a body where the rest begins after each
call: that depends only on the length of the value, because a "=" in a field is
never asked for while a field is read, and "&" is in none. A field that is cut
short leaves nothing, so the next call returns NULL and nothing is stored; behind
an empty field only further ones are left (`FromTail`). `GetReads(n)` says the
same of a typed line whose first blank follows n symbols. `ReadsFields`,
`EmptyReadsOn` and `KeysArrive` are the three properties.

TLC checks `ReceiveInv`, `ServerInv`, `StoreInv`, `ClientInv`, `SystemInv`,
`CrashInv` and `TextInv` as invariants of runs (`receive`, `server_faults`,
`server_store`, `client_faults`, `system_store`, `system_live`, `http_text`); what
the other proofs add to them (`AnswerInv`, `StopInv`, `Owned`) is only proved, the
properties they are for are in the runs.

Only model-checked: the liveness properties `CompleteIsReceived`,
`EveryRequestAnswered` and `EveryQuestionEnds` (fairness and ENABLED are beyond
TLAPS), and `CrashIsShared` is proved without faults only, as it is stated: a kill
crashes clients that nobody's request has harmed. The counterexamples of the four
runs that expect a violation are TLC's as well.

## Not modelled

* Buffers of fixed size other than those of the request and of the database calls.
  An answer carries at most the 1024 bytes of `val`, and its copies are larger: 8000
  bytes in `writeValToClient`, 8192 in `await_response`; `process_response` copies
  the status line alone. Of a record only the value is long (`LongVals`), a long key
  does the same to the same buffers; and a listing is bounded by its number of
  records (`MaxListed`).
* The database's own descriptors that stay open when one of its calls fails with
  the handle open: an error is then latched, and nobody is served any more.
* The text of messages, apart from `HttpText`; headers other than the length;
  how long a request line may be: `request_line` has 101 bytes and a longer line
  is written past it (http_request.c:38), and `wgetstr` reads a key of any length
  into 1024 (cursesClient.c:491).
* Allocation failures; leaks of some kilobytes per question in the client and
  the `addrinfo` of each `setup`.
* Partial writes (answers are smaller than a socket buffer); half-closed
  connections; connections used for two requests; a connect that blocks because
  the backlog is full (it waits, and has no place in the queue meanwhile).
* What ndbm does with a file after a crash inside one of its calls.
* ncurses, beyond windows that do not fit and its SIGINT handler.
* In the client: what `client_socket_fd` holds when `getaddrinfo` fails (any
  number; the model has a descriptor that is not a socket of the client), and
  the comparison of string pointers in `await_input`, which compilers make
  true for the literals that are meant. Whether `dc_fsm_run` reports the missing
  transition from QUIT or not, the program ends.
* In `BeaconSystem`: signals, failed reads, and clients without a socket, which
  the runs of the components have.
* `create_settings` and the option table; printing; the test directory, which
  has no test.
