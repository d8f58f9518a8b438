--------------------------- MODULE MCCursesClient ---------------------------
(* Answers of two records and a key that has none: a listing, an empty      *)
(* listing, a value, 404 and 400.                                           *)
EXTENDS CursesClient

CONSTANTS k1, v1

MCAnswers ==
  {Ok([k \in Key |-> v1]), Ok([k \in Key |-> NoVal]), Ok(v1), Says("404"), Says("400")}
MCPrefixes == [k \in Key |-> {}]
=============================================================================
