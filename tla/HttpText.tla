------------------------------- MODULE HttpText -------------------------------
(***************************************************************************)
(* How requests are taken apart: process_request_line with strchr, then    *)
(* get and put with one strtok after the other on what the one before left *)
(* (http_request.c, iBeaconServer.c).  It shows what module Beacons takes  *)
(* for granted of whole, cut and typed requests.                           *)
(*                                                                         *)
(* A text is a sequence of symbols; "name", "GET", "data" and "HTTP" stand *)
(* for words without a delimiter in them.                                  *)
(***************************************************************************)
EXTENDS Integers, SequencesExt

CONSTANTS Symbol, Values, Keys, Typings, Tails

Blank == " "

ASSUME TextAssumption ==
  /\ {"name", "=", "&", "GET", "data", "?", Blank, "HTTP"} \subseteq Symbol
  /\ Values \cup Keys \cup Typings \cup Tails \subseteq Seq(Symbol)
  /\ \A v \in Values : ~Contains(v, "&")
  /\ \A k \in Keys : ~Contains(k, "&")
  /\ \A t \in Tails : t = << >> \/ Head(t) = "&"

VARIABLES
  job,     \* put or get
  val,     \* as the client means them; key is what is typed, for get
  key,
  tail,    \* further fields of the body
  arrived, \* how many symbols of the body have come when put reads it
  rest,    \* where strtok goes on
  toks     \* what it has returned; << >> stands for NULL

textVars == <<job, val, key, tail, arrived, rest, toks>>

Body(v, k, t) == <<"name", "=">> \o v \o <<"&", "name", "=">> \o k \o t

(* by_key: sprintf and wgetstr. *)
RequestLine(typed) == <<"GET", Blank, "data", "?">> \o typed \o <<Blank, "HTTP">>

(* The first place of the symbol, or of another one, from a place on; 0 if *)
(* there is none.                                                          *)
FirstOf(symbol, text, from) ==
  LET Is(s) == s = symbol IN SelectInSubSeq(text, from, Len(text), Is)
FirstOther(symbol, text) ==
  LET Differs(s) == s # symbol IN SelectInSeq(text, Differs)

(* Mutant: the second blank is taken for the end of the path. *)
PathWithBlank(text) ==
  LET first == FirstOf(Blank, text, 1)
      second == FirstOf(Blank, text, first + 1)
  IN SubSeq(text, first + 1, second)

(* From the first blank to the second one. *)
PathOf(text) ==
  LET first == FirstOf(Blank, text, 1)
      second == FirstOf(Blank, text, first + 1)
  IN SubSeq(text, first + 1, second - 1)

Init ==
  /\ toks = << >>
  /\ \/ /\ job = "put"
        /\ val \in Values /\ key \in Keys /\ tail \in Tails
        /\ arrived \in 0 .. Len(Body(val, key, tail))
        /\ rest = SubSeq(Body(val, key, tail), 1, arrived)
     \/ /\ job = "get"
        /\ val = << >> /\ key \in Typings /\ tail = << >> /\ arrived = 0
        /\ rest = PathOf(RequestLine(key))

(* strtok(text, delimiter): the token and what is left after it. *)
Strtok(text, delimiter) ==
  LET start == FirstOther(delimiter, text)
      stop == FirstOf(delimiter, text, start)
      end == IF stop = 0 THEN Len(text) ELSE stop - 1
  IN IF start = 0 THEN [token |-> << >>, left |-> << >>]
     ELSE [token |-> SubSeq(text, start, end),
           left |-> SubSeq(text, end + 2, Len(text))]

(* Mutant: get looks for another "?" at the end of the key. *)
CallsQuestionTwice == [put |-> <<"=", "&", "=", "&">>, get |-> <<"?", "?">>]

(* The delimiters of the calls, in order. *)
Calls == [put |-> <<"=", "&", "=", "&">>, get |-> <<"?", Blank>>]

(* put answers 400 to a body without "=" and calls strtok for no other.    *)
Rejected == job = "put" /\ toks = << >> /\ ~Contains(rest, "=")

Next ==
  /\ ~Rejected
  /\ Len(toks) < Len(Calls[job])
  /\ LET call == Strtok(rest, Calls[job][Len(toks) + 1])
     IN toks' = Append(toks, call.token) /\ rest' = call.left
  /\ UNCHANGED <<job, val, key, tail, arrived>>

Spec == Init /\ [][Next]_textVars

Done == Len(toks) = Len(Calls[job])

(* Mutant: the name before the key is taken for it. *)
FieldsShifted == [val |-> toks[2], key |-> toks[3]]

(* val and key of put; the length of NULL ends the process. *)
Fields == [val |-> toks[2], key |-> toks[4]]
Dies == job = "put" /\ Done /\ << >> \in {Fields.val, Fields.key}
Stores == job = "put" /\ Done /\ ~Dies

-----------------------------------------------------------------------------
(* Properties. *)

(* What put stores of a body with a value is that value, and of one with a *)
(* key that very key if it has arrived, whatever "=" are in them and       *)
(* whatever fields follow.  Only when the end of the body is missing it    *)
(* may be a prefix of the key: this is Cut of module Beacons.              *)
FieldsRead ==
  Stores =>
    /\ val # << >> => Fields.val = val
    /\ val # << >> /\ key # << >> =>
         /\ IsPrefix(Fields.key, key)
         /\ Len(Body(val, key, << >>)) <= arrived => Fields.key = key

(* Part of the further fields. *)
FromTail(text) ==
  \E a \in 1 .. Len(tail) + 1, b \in 0 .. Len(tail) : text = SubSeq(tail, a, b)

(* strtok steps over the "&" after an empty value or key and takes the     *)
(* next field for it.  What is stored then is under a key found in the     *)
(* further fields, never under the client's own; without further fields    *)
(* nothing is stored.                                                      *)
EmptyTakesNext ==
  Stores /\ << >> \in {val, key} => FromTail(Fields.key)

(* The key that get looks up is what was typed up to the first blank, with *)
(* every "?" in it; it is NULL, which ends the server, for that only.      *)
KeyArrives ==
  job = "get" /\ Done
    => \E n \in 0 .. Len(key) :
         /\ toks[2] = SubSeq(key, 1, n)
         /\ ~Contains(toks[2], Blank)
         /\ n < Len(key) => key[n + 1] = Blank

-----------------------------------------------------------------------------
(* The inductive invariant. *)

TypeOK ==
  /\ \/ job = "put" /\ val \in Values /\ key \in Keys /\ tail \in Tails
     \/ job = "get" /\ val = << >> /\ key \in Typings /\ tail = << >>
  /\ arrived \in 0 .. Len(Body(val, key, tail))
  /\ rest \in Seq(Symbol)
  /\ toks \in Seq(Seq(Symbol)) /\ Len(toks) <= Len(Calls[job])

(* What is left of the body starts at a place that its value fixes; a      *)
(* value or a key that is cut short leaves nothing for the next call, and  *)
(* an empty one leaves only further fields.                                *)
PutReads(n) ==
  LET text == Body(val, key, tail)
  IN /\ Len(toks) = 0 => rest = SubSeq(text, 1, n)
     /\ Len(toks) = 1 => rest = SubSeq(text, 3, n)
     /\ val # << >> =>
          /\ Len(toks) \in {2, 3} /\ rest # << >> =>
               /\ toks[2] = val
               /\ Len(toks) = 2 => rest = SubSeq(text, Len(val) + 4, n)
               /\ Len(toks) = 3 => rest = SubSeq(text, Len(val) + 6, n)
          /\ Len(toks) = 4 /\ toks[4] # << >> =>
               /\ toks[2] = val
               /\ key # << >> =>
                    /\ IsPrefix(toks[4], key)
                    /\ Len(Body(val, key, << >>)) <= n => toks[4] = key
     /\ << >> \in {val, key} =>
          /\ Len(toks) = 2 /\ val = << >> => FromTail(rest)
          /\ Len(toks) = 3 => FromTail(rest)
          /\ Len(toks) = 4 => FromTail(toks[4])

(* The path of a request ends with the first n symbols of what was typed.  *)
GetReads(n) ==
  /\ \A i \in 1 .. n : key[i] # Blank
  /\ n < Len(key) => key[n + 1] = Blank
  /\ Len(toks) = 0 => rest = SubSeq(RequestLine(key), 3, n + 4)
  /\ Len(toks) = 1 => rest = SubSeq(RequestLine(key), 5, n + 4)
  /\ Len(toks) = 2 => toks[2] = SubSeq(key, 1, n)

TextInv ==
  /\ TypeOK
  /\ job = "put" => PutReads(arrived)
  /\ job = "get" => \E n \in 0 .. Len(key) : GetReads(n)
=============================================================================
