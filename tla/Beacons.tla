------------------------------- MODULE Beacons --------------------------------
(***************************************************************************)
(* What clients and server say to each other: requests, the records they   *)
(* are about, answers, and which answer a request has in a database        *)
(* (iBeaconServer.c, http_request.c).  A request is what its bytes make    *)
(* the server do; how the text is taken apart is module HttpText.          *)
(***************************************************************************)
CONSTANTS
  Key, NoKey,    \* keys of records
  Val, NoVal,    \* values of records; NoVal: no such record
  NoText,        \* the empty string
  AllKeys,       \* the keys in which strstr finds "all"
  NotFoundVals,  \* the values in which strstr finds "Not found"
  Prefixes       \* the keys that a key cut short can become

ASSUME BeaconsAssumption ==
  /\ NoKey \notin Key /\ NoVal \notin Val
  /\ NoText \notin Val /\ NoText # NoVal
  /\ AllKeys \subseteq Key /\ NotFoundVals \subseteq Val
  /\ Prefixes \in [Key -> SUBSET Key]

(* all, index, missing: GET of a path with "all", of an index page, of     *)
(* another path without "?".  noKey: nothing between "?" and the blank.    *)
(* key: GET of "?" and a key.  put: val and key as two fields of the body. *)
(* bare: the same without a "Content-Length: " line getContentLength finds *)
(* (another spelling of the name is enough).  noEquals, oneField: a PUT    *)
(* body without "=", with only one field.  other: any other method.        *)
(* tooLong: headers that do not fit MAX_REQUEST_SIZE.                      *)
Kind == {"all", "index", "missing", "noKey", "key",
         "put", "bare", "noEquals", "oneField", "other", "tooLong"}
PutKind == {"put", "bare", "noEquals", "oneField"}

Request ==
  { r \in [kind : Kind, key : Key \cup {NoKey}, val : Val \cup {NoVal}] :
      /\ r.key \in Key <=> r.kind \in {"key", "put", "bare"}
      /\ r.val \in Val <=> r.kind \in {"put", "bare"} }

Plain(kind) == [kind |-> kind, key |-> NoKey, val |-> NoVal]
Asked(k) == [kind |-> "key", key |-> k, val |-> NoVal]
Put(k, v) == [kind |-> "put", key |-> k, val |-> v]
Unasked == Plain("other")

(* A PUT body cut short: val comes first, then key, then the other "=".   *)
(* Other requests have no body that could be.                              *)
Cut(r) ==
  CASE r.kind \in {"put", "bare"} ->
         {Plain("noEquals"), Plain("oneField")}
           \cup {Put(k, r.val) : k \in Prefixes[r.key]}
    [] r.kind = "oneField" -> {Plain("noEquals"), Plain("oneField")}
    [] r.kind = "noEquals" -> {Plain("noEquals")}
    [] OTHER -> {}

Whole(r) == IF r.kind = "bare" THEN Put(r.key, r.val) ELSE r

Db == [Key -> Val \cup {NoVal}]

(* complete is the 200 that says "PUT Complete"; welcome the index page.   *)
Reply == [status : {"none", "200", "welcome", "complete", "400", "404"},
          body : Val \cup {NoVal, NoText} \cup Db]
Says(status) == [status |-> status, body |-> NoVal]
Ok(text) == [status |-> "200", body |-> text]
NoReply == Says("none")

WantsAll(r) == r.kind = "all" \/ (r.kind = "key" /\ r.key \in AllKeys)

Page(text) ==
  IF text \in NotFoundVals \cup {NoVal} THEN Says("404") ELSE Ok(text)
=============================================================================
