---------------------------- MODULE MCBeaconSystem ----------------------------
EXTENDS BeaconSystem, TLC

CONSTANTS k1, k2, v1, v2

MCPrefixes == [k \in Key |-> IF k = k2 THEN {k1} ELSE {}]

(* What users ask, and a PUT that costs the server a descriptor, with a    *)
(* record that the user sees or with one too long for the buffers of a GET.*)
Leaks == {Plain("all"), Plain("noEquals")} \cup {Asks(k) : k \in Typed}
Stores == Leaks \cup {Put(k2, v1)}
Harms == Leaks \cup {Put(k2, v2)}

(* Nothing tells one connection, or one user, from another. *)
Alike == Permutations(Client) \cup Permutations(User)
=============================================================================
