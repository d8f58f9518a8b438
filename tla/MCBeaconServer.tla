---------------------------- MODULE MCBeaconServer ----------------------------
(* Small instances of BeaconServer.  Of the three keys, k1 is a prefix of   *)
(* k2, and kall contains "all"; of the two values, vnf contains "Not found".*)
EXTENDS BeaconServer

CONSTANTS k1, k2, kall, v1, vnf

MCPrefixes == [k \in Key |-> IF k = k2 THEN {k1} ELSE {}]

(* Every kind of request; the one without its blank line brings in vnf.    *)
AllRequests ==
  {Asked(k2), Asked(kall), Put(k1, v1), Put(k2, v1),
   [kind |-> "bare", key |-> k2, val |-> vnf]}
    \cup { Plain(kind) : kind \in {"all", "index", "missing", "noKey",
                                  "noEquals", "oneField", "other", "tooLong"} }

(* No request ends the server; noEquals costs a descriptor. *)
WholesomeRequests ==
  {Asked(k1), Put(k1, v1), Plain("noEquals"), Plain("other")}

NoFaults == {}
AllFaults == {"startup", "signal", "kill", "hangup", "reset", "db", "write"}
Signals == {"signal"}
Database == {"db"}
=============================================================================
