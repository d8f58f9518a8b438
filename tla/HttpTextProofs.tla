---------------------------- MODULE HttpTextProofs ----------------------------
(***************************************************************************)
(* Proofs about the parsing of requests, for values, keys and typed lines  *)
(* of every length and for bodies that are cut anywhere.                   *)
(***************************************************************************)
EXTENDS HttpText, SequenceTheorems, WellFoundedInduction, TLAPS

-----------------------------------------------------------------------------
(* The first place of a symbol. *)

(* A set of places that is not empty has a first one. *)
LEMMA FirstExists ==
  ASSUME NEW P \in SUBSET Nat, P # {}
  PROVE  \E n \in P : \A m \in P : n <= m
<1>1. PICK n \in P : \A m \in P : ~(<<m, n>> \in OpToRel(<, Nat))
  BY NatLessThanWellFounded, WFMin
<1>2. ASSUME NEW m \in P
      PROVE  ~(m < n)
  BY <1>1 DEF OpToRel
<1>3. QED
  BY <1>2

(* Min is that first place. *)
LEMMA MinIs ==
  ASSUME NEW P \in SUBSET Nat, NEW n \in P, \A m \in P : n <= m
  PROVE  Min(P) = n
<1>1. \E x \in P : \A y \in P : x <= y
  OBVIOUS
<1>2. /\ Min(P) \in P
      /\ \A y \in P : Min(P) <= y
  BY <1>1 DEF Min
<1>3. ASSUME NEW z \in P, \A y \in P : z <= y
      PROVE  z = n
  BY <1>3
<1>4. QED
  BY <1>2, <1>3, Zenon

LEMMA FirstOfUnfold ==
  ASSUME NEW symbol, NEW text, NEW from
  PROVE  FirstOf(symbol, text, from) =
           LET I == {i \in from .. Len(text) : text[i] = symbol}
           IN IF I # {} THEN Min(I) ELSE 0
BY DEF FirstOf, SelectInSubSeq

LEMMA FirstOtherUnfold ==
  ASSUME NEW symbol, NEW text
  PROVE  FirstOther(symbol, text) =
           LET I == {i \in 1 .. Len(text) : text[i] # symbol}
           IN IF I # {} THEN Min(I) ELSE 0
BY DEF FirstOther, SelectInSeq

(* FirstOf is 0 or a place of the symbol. *)
LEMMA FirstOfType ==
  ASSUME NEW symbol, NEW text, NEW from \in Nat, Len(text) \in Nat
  PROVE  FirstOf(symbol, text, from) \in {0} \cup (from .. Len(text))
<1> DEFINE I == {i \in from .. Len(text) : text[i] = symbol}
<1>1. CASE I = {}
  BY <1>1, FirstOfUnfold
<1>2. CASE I # {}
  <2>1. I \in SUBSET Nat
    OBVIOUS
  <2>2. PICK n \in I : \A m \in I : n <= m
    BY <1>2, <2>1, FirstExists
  <2>3. Min(I) = n
    BY <2>1, <2>2, MinIs
  <2>4. FirstOf(symbol, text, from) = Min(I)
    BY <1>2, FirstOfUnfold
  <2>5. QED
    BY <2>2, <2>3, <2>4
<1>3. QED
  BY <1>1, <1>2

LEMMA FirstOtherType ==
  ASSUME NEW symbol, NEW text, Len(text) \in Nat
  PROVE  FirstOther(symbol, text) \in 0 .. Len(text)
<1> DEFINE I == {i \in 1 .. Len(text) : text[i] # symbol}
<1>1. CASE I = {}
  <2>1. FirstOther(symbol, text) = 0
    BY <1>1, FirstOtherUnfold
  <2>2. QED
    BY <2>1
<1>2. CASE I # {}
  <2>1. I \in SUBSET Nat
    OBVIOUS
  <2>2. PICK n \in I : \A m \in I : n <= m
    BY <1>2, <2>1, FirstExists
  <2>3. Min(I) = n
    BY <2>1, <2>2, MinIs
  <2>4. FirstOther(symbol, text) = Min(I)
    BY <1>2, FirstOtherUnfold
  <2>5. QED
    BY <2>2, <2>3, <2>4
<1>3. QED
  BY <1>1, <1>2

(* FirstOf from the places without the symbol that precede it. *)
LEMMA FirstOfIs ==
  ASSUME NEW symbol, NEW text, NEW from \in Nat, Len(text) \in Nat,
         NEW n \in from .. Len(text), text[n] = symbol,
         \A i \in from .. (n - 1) : text[i] # symbol
  PROVE  FirstOf(symbol, text, from) = n
<1> DEFINE I == {i \in from .. Len(text) : text[i] = symbol}
<1>1. I \in SUBSET Nat /\ n \in I
  OBVIOUS
<1>2. \A m \in I : n <= m
  OBVIOUS
<1>3. Min(I) = n
  BY <1>1, <1>2, MinIs
<1>4. FirstOf(symbol, text, from) = Min(I)
  BY <1>1, FirstOfUnfold
<1>5. QED
  BY <1>3, <1>4

LEMMA FirstOfNone ==
  ASSUME NEW symbol, NEW text, NEW from \in Nat, Len(text) \in Nat,
         \A i \in from .. Len(text) : text[i] # symbol
  PROVE  FirstOf(symbol, text, from) = 0
<1> DEFINE I == {i \in from .. Len(text) : text[i] = symbol}
<1>1. I = {}
  OBVIOUS
<1>2. QED
  BY <1>1, FirstOfUnfold

LEMMA FirstOtherIs ==
  ASSUME NEW symbol, NEW text, Len(text) \in Nat,
         NEW n \in 1 .. Len(text), text[n] # symbol,
         \A i \in 1 .. (n - 1) : text[i] = symbol
  PROVE  FirstOther(symbol, text) = n
<1> DEFINE I == {i \in 1 .. Len(text) : text[i] # symbol}
<1>1. I \in SUBSET Nat /\ n \in I
  OBVIOUS
<1>2. \A m \in I : n <= m
  OBVIOUS
<1>3. Min(I) = n
  BY <1>1, <1>2, MinIs
<1>4. FirstOther(symbol, text) = Min(I)
  BY <1>1, FirstOtherUnfold
<1>5. QED
  BY <1>3, <1>4

LEMMA FirstOtherNone ==
  ASSUME NEW symbol, NEW text, Len(text) \in Nat,
         \A i \in 1 .. Len(text) : text[i] = symbol
  PROVE  FirstOther(symbol, text) = 0
<1> DEFINE I == {i \in 1 .. Len(text) : text[i] # symbol}
<1>1. I = {}
  OBVIOUS
<1>2. QED
  BY <1>1, FirstOtherUnfold

-----------------------------------------------------------------------------
(* Slices of a text. *)

LEMMA Slice ==
  ASSUME NEW text \in Seq(Symbol), NEW a \in Nat \ {0}, NEW n \in Int,
         n <= Len(text)
  PROVE  /\ SubSeq(text, a, n) \in Seq(Symbol)
         /\ Len(SubSeq(text, a, n)) = IF a <= n THEN n - a + 1 ELSE 0
         /\ \A i \in 1 .. n - a + 1 : SubSeq(text, a, n)[i] = text[a + i - 1]
<1>1. \A i \in a .. n : text[i] \in Symbol
  <2>1. Len(text) \in Nat /\ \A i \in 1 .. Len(text) : text[i] \in Symbol
    BY LenProperties, ElementOfSeq
  <2>2. QED
    BY <2>1
<1>2. a \in Int
  OBVIOUS
<1>3. QED
  BY <1>1, <1>2, SubSeqProperties

LEMMA SliceOfSlice ==
  ASSUME NEW text \in Seq(Symbol), NEW a \in Nat \ {0}, NEW n \in Int,
         n <= Len(text), a <= n,
         NEW p \in Nat \ {0}, NEW q \in Int, q <= n - a + 1
  PROVE  SubSeq(SubSeq(text, a, n), p, q) = SubSeq(text, a + p - 1, a + q - 1)
<1>1. Len(text) \in Nat
  BY LenProperties
<1>2. CASE p <= q
  <2>1. /\ a \in 1 .. Len(text) /\ n \in 1 .. Len(text)
        /\ p \in 1 .. n - a + 1 /\ q \in 1 .. n - a + 1
    BY <1>1, <1>2
  <2>2. QED
    BY <2>1, SubSeqOfSubSeq
<1>3. CASE p > q
  <2>1. /\ SubSeq(SubSeq(text, a, n), p, q) = << >>
    BY <1>3, SubSeqEmpty
  <2>2. /\ a + q - 1 < a + p - 1 /\ a + q - 1 \in Int /\ a + p - 1 \in Int
    BY <1>3
  <2>3. SubSeq(text, a + p - 1, a + q - 1) = << >>
    BY <2>2, SubSeqEmpty
  <2>4. QED
    BY <2>1, <2>3
<1>4. QED
  BY <1>2, <1>3

(* A slice that agrees with another text is a slice of that text. *)
LEMMA SliceMoved ==
  ASSUME NEW text \in Seq(Symbol), NEW other \in Seq(Symbol),
         NEW d \in Nat, NEW n \in Nat, n <= Len(other), d + n <= Len(text),
         \A i \in 1 .. n : text[d + i] = other[i]
  PROVE  SubSeq(text, d + 1, d + n) = SubSeq(other, 1, n)
<1> DEFINE s == SubSeq(text, d + 1, d + n)  o == SubSeq(other, 1, n)
<1>1. /\ s \in Seq(Symbol) /\ Len(s) = n
      /\ \A i \in 1 .. n : s[i] = text[d + i]
  <2>1. d + 1 \in Nat \ {0} /\ d + n \in Int
    OBVIOUS
  <2>2. /\ s \in Seq(Symbol)
        /\ Len(s) = IF d + 1 <= d + n THEN (d + n) - (d + 1) + 1 ELSE 0
        /\ \A i \in 1 .. (d + n) - (d + 1) + 1 : s[i] = text[(d + 1) + i - 1]
    BY <2>1, Slice
  <2>3. (d + n) - (d + 1) + 1 = n /\ \A i \in 1 .. n : (d + 1) + i - 1 = d + i
    OBVIOUS
  <2>4. Len(s) = n
    BY <2>2
  <2>5. \A i \in 1 .. n : s[i] = text[d + i]
    BY <2>2, <2>3
  <2>6. QED
    BY <2>2, <2>4, <2>5
<1>2. /\ o \in Seq(Symbol) /\ Len(o) = n
      /\ \A i \in 1 .. n : o[i] = other[i]
  <2>1. /\ o \in Seq(Symbol)
        /\ Len(o) = IF 1 <= n THEN n - 1 + 1 ELSE 0
        /\ \A i \in 1 .. n - 1 + 1 : o[i] = other[1 + i - 1]
    BY Slice
  <2>2. n - 1 + 1 = n /\ \A i \in 1 .. n : 1 + i - 1 = i
    OBVIOUS
  <2>3. QED
    BY <2>1, <2>2
<1>3. \A i \in 1 .. Len(s) : s[i] = o[i]
  BY <1>1, <1>2
<1> HIDE DEF s, o
<1>4. s = o
  BY <1>1, <1>2, <1>3, SeqEqual
<1>5. QED
  BY <1>4 DEF s, o

(* The first n symbols of a text. *)
LEMMA HeadOf ==
  ASSUME NEW text \in Seq(Symbol), NEW n \in Nat, n <= Len(text)
  PROVE  /\ SubSeq(text, 1, n) \in Seq(Symbol) /\ Len(SubSeq(text, 1, n)) = n
         /\ \A j \in 1 .. n : SubSeq(text, 1, n)[j] = text[j]
<1> DEFINE s == SubSeq(text, 1, n)
<1>1. /\ s \in Seq(Symbol) /\ Len(s) = IF 1 <= n THEN n - 1 + 1 ELSE 0
      /\ \A j \in 1 .. n - 1 + 1 : s[j] = text[1 + j - 1]
  BY Slice
<1> HIDE DEF s
<1>2. /\ s \in Seq(Symbol) /\ Len(s) = n
      /\ \A j \in 1 .. n : s[j] = text[j]
  BY <1>1
<1>3. QED
  BY <1>2 DEF s

(* The first symbols of a text are a prefix of it. *)
LEMMA PrefixOf ==
  ASSUME NEW text \in Seq(Symbol), NEW n \in 1 .. Len(text)
  PROVE  IsPrefix(SubSeq(text, 1, n), text)
<1> DEFINE s == SubSeq(text, 1, n)
<1>1. Len(text) \in Nat
  BY LenProperties
<1>2. s \in Seq(Symbol) /\ Len(s) = n
  BY <1>1, HeadOf
<1> HIDE DEF s
<1>3. SubSeq(s, 1, Len(s)) = s
  BY <1>2, SubSeqFull
<1>4. SubSeq(text, 1, Len(s)) = s
  BY <1>2 DEF s
<1>5. Len(s) <= Len(text)
  BY <1>1, <1>2
<1>6. IsPrefix(s, text)
  BY <1>3, <1>4, <1>5 DEF IsPrefix
<1>7. QED
  BY <1>6 DEF s

-----------------------------------------------------------------------------
(* strtok. *)

(* Of nothing, NULL; and nothing is left. *)
LEMMA StrtokOfNothing ==
  ASSUME NEW d
  PROVE  Strtok(<< >>, d) = [token |-> << >>, left |-> << >>]
<1>1. Len(<< >>) = 0 /\ \A i \in 1 .. Len(<< >>) : << >>[i] = d
  OBVIOUS
<1>2. FirstOther(d, << >>) = 0
  BY <1>1, FirstOtherNone
<1>3. QED
  BY <1>2 DEF Strtok

LEMMA StrtokType ==
  ASSUME NEW text \in Seq(Symbol), NEW d
  PROVE  /\ Strtok(text, d).token \in Seq(Symbol)
         /\ Strtok(text, d).left \in Seq(Symbol)
<1> DEFINE start == FirstOther(d, text)
           stop == FirstOf(d, text, start)
           end == IF stop = 0 THEN Len(text) ELSE stop - 1
<1>1. Len(text) \in Nat
  BY LenProperties
<1>2. start \in 0 .. Len(text)
  BY <1>1, FirstOtherType
<1>3. CASE start = 0
  <2>1. Strtok(text, d) = [token |-> << >>, left |-> << >>]
    BY <1>3 DEF Strtok
  <2>2. << >> \in Seq(Symbol)
    OBVIOUS
  <2>3. QED
    BY <2>1, <2>2
<1>4. CASE start # 0
  <2>1. start \in Nat \ {0}
    BY <1>1, <1>2, <1>4
  <2>2. stop \in {0} \cup (start .. Len(text))
    BY <1>1, <2>1, FirstOfType
  <2>3. end \in Int /\ end <= Len(text) /\ end + 2 \in Nat \ {0}
    BY <1>1, <2>1, <2>2
  <2>4. Strtok(text, d) = [token |-> SubSeq(text, start, end),
                           left |-> SubSeq(text, end + 2, Len(text))]
    BY <1>4 DEF Strtok
  <2> HIDE DEF start, end
  <2>5. SubSeq(text, start, end) \in Seq(Symbol)
    BY <2>1, <2>3, Slice
  <2>6. SubSeq(text, end + 2, Len(text)) \in Seq(Symbol)
    BY <1>1, <2>3, Slice
  <2>7. QED
    BY <2>4, <2>5, <2>6
<1>5. QED
  BY <1>3, <1>4

Free(text, a, b, d) == \A i \in a .. b : text[i] # d
Takes(text, a, n, m, d) ==
  /\ Strtok(SubSeq(text, a, n), d).token = SubSeq(text, a, m - 1)
  /\ Strtok(SubSeq(text, a, n), d).left = SubSeq(text, m + 1, n)

(* Of the part of a text from place a to place n, the token that starts at *)
(* a ends before m, where the delimiter is or the part is over.            *)
LEMMA StrtokTakes ==
  ASSUME NEW text \in Seq(Symbol), NEW d, NEW a \in Nat \ {0},
         NEW n \in Nat, a <= n, n <= Len(text), NEW m \in a + 1 .. n + 1,
         Free(text, a, m - 1, d), m <= n => text[m] = d
  PROVE  Takes(text, a, n, m, d)
<1> DEFINE s == SubSeq(text, a, n)
           stop == FirstOf(d, s, 1)
           end == IF stop = 0 THEN Len(s) ELSE stop - 1
<1>1. /\ s \in Seq(Symbol) /\ Len(s) = n - a + 1
      /\ \A i \in 1 .. Len(s) : s[i] = text[a + i - 1]
  BY Slice
<1> HIDE DEF s
<1>2. \A i \in a .. m - 1 : text[i] # d
  BY DEF Free
<1>3. FirstOther(d, s) = 1
  <2>1. 1 \in 1 .. Len(s) /\ s[1] # d
    BY <1>1, <1>2
  <2>2. \A i \in 1 .. 1 - 1 : s[i] = d
    OBVIOUS
  <2>3. Len(s) \in Nat
    BY <1>1
  <2>4. QED
    BY <2>1, <2>2, <2>3, FirstOtherIs
<1>4. end = m - a
  <2>1. CASE m <= n
    <3>1. m - a + 1 \in 1 .. Len(s) /\ a + (m - a + 1) - 1 = m
      BY <1>1, <2>1
    <3>2. s[m - a + 1] = d
      BY <1>1, <2>1, <3>1
    <3>3. ASSUME NEW i \in 1 .. (m - a + 1) - 1
          PROVE  s[i] # d
      <4>1. i \in 1 .. Len(s) /\ a + i - 1 \in a .. m - 1
        BY <1>1, <2>1
      <4>2. QED
        BY <1>1, <1>2, <4>1
    <3>4. Len(s) \in Nat
      BY <1>1
    <3>5. stop = m - a + 1
      BY <3>1, <3>2, <3>3, <3>4, FirstOfIs
    <3>6. QED
      BY <3>5
  <2>2. CASE m = n + 1
    <3>1. ASSUME NEW i \in 1 .. Len(s)
          PROVE  s[i] # d
      <4>1. a + i - 1 \in a .. m - 1
        BY <1>1, <2>2
      <4>2. QED
        BY <1>1, <1>2, <4>1
    <3>2. Len(s) \in Nat
      BY <1>1
    <3>3. stop = 0
      BY <3>1, <3>2, FirstOfNone
    <3>4. QED
      BY <1>1, <2>2, <3>3
  <2>3. QED
    BY <2>1, <2>2
<1>5. Strtok(s, d) = [token |-> SubSeq(s, 1, m - a),
                      left |-> SubSeq(s, m - a + 2, n - a + 1)]
  <2>1. m - a \in Nat \ {0} /\ m - a + 2 = (m - a) + 2
    OBVIOUS
  <2>2. Strtok(s, d) = [token |-> SubSeq(s, 1, end),
                        left |-> SubSeq(s, end + 2, Len(s))]
    BY <1>3 DEF Strtok
  <2> HIDE DEF end
  <2>3. QED
    BY <1>1, <1>4, <2>2
<1>6. SubSeq(s, 1, m - a) = SubSeq(text, a, m - 1)
  <2>1. /\ 1 \in Nat \ {0} /\ m - a \in Int /\ m - a <= n - a + 1
        /\ a + 1 - 1 = a /\ a + (m - a) - 1 = m - 1
    OBVIOUS
  <2>2. SubSeq(s, 1, m - a) = SubSeq(text, a + 1 - 1, a + (m - a) - 1)
    BY <2>1, SliceOfSlice DEF s
  <2>3. QED
    BY <2>1, <2>2
<1>7. SubSeq(s, m - a + 2, n - a + 1) = SubSeq(text, m + 1, n)
  <2>1. /\ m - a + 2 \in Nat \ {0} /\ n - a + 1 \in Int
        /\ a + (m - a + 2) - 1 = m + 1 /\ a + (n - a + 1) - 1 = n
    OBVIOUS
  <2>2. SubSeq(s, m - a + 2, n - a + 1)
          = SubSeq(text, a + (m - a + 2) - 1, a + (n - a + 1) - 1)
    BY <2>1, SliceOfSlice DEF s
  <2>3. QED
    BY <2>1, <2>2
<1>8. QED
  BY <1>5, <1>6, <1>7 DEF s, Takes

Skips(text, a, n, m, d) ==
  Strtok(SubSeq(text, a, n), d).left = SubSeq(text, m + 1, n)

(* When the delimiter stands at place a, it is stepped over: the token ends*)
(* before the next one, at m, or the part is over.                         *)
LEMMA StrtokSkips ==
  ASSUME NEW text \in Seq(Symbol), NEW d, NEW a \in Nat \ {0},
         NEW n \in Nat, a <= n, n <= Len(text), text[a] = d,
         NEW m \in a + 1 .. n + 1, Free(text, a + 1, m - 1, d),
         m <= n => text[m] = d /\ m # a + 1
  PROVE  Skips(text, a, n, m, d)
<1> DEFINE s == SubSeq(text, a, n)
           stop == FirstOf(d, s, 2)
           end == IF stop = 0 THEN Len(s) ELSE stop - 1
<1>1. /\ s \in Seq(Symbol) /\ Len(s) = n - a + 1
      /\ \A i \in 1 .. Len(s) : s[i] = text[a + i - 1]
  BY Slice
<1> HIDE DEF s
<1>2. Len(s) \in Nat /\ 1 \in 1 .. Len(s) /\ s[1] = d
  <2>1. Len(s) \in Nat /\ 1 \in 1 .. Len(s) /\ a + 1 - 1 = a
    BY <1>1
  <2>2. s[1] = text[a + 1 - 1]
    BY <1>1, <2>1
  <2>3. QED
    BY <2>1, <2>2
<1>3. ASSUME NEW i \in 2 .. m - a
      PROVE  i \in 1 .. Len(s) /\ s[i] # d
  <2>1. i \in 1 .. Len(s) /\ a + i - 1 \in a + 1 .. m - 1
    BY <1>1
  <2>2. QED
    BY <1>1, <2>1 DEF Free
<1>4. CASE a = n
  <2>1. \A i \in 1 .. Len(s) : s[i] = d
    BY <1>1, <1>2, <1>4
  <2>2. FirstOther(d, s) = 0
    BY <1>2, <2>1, FirstOtherNone
  <2>3. Strtok(s, d).left = << >>
    BY <2>2 DEF Strtok
  <2>4. m + 1 \in Int /\ n \in Int /\ n < m + 1
    BY <1>4
  <2>5. SubSeq(text, m + 1, n) = << >>
    BY <2>4, SubSeqEmpty
  <2>6. QED
    BY <2>3, <2>5 DEF s, Skips
<1>5. CASE a < n
  <2>1. 2 \in 1 .. Len(s) /\ s[2] # d /\ \A i \in 1 .. 2 - 1 : s[i] = d
    <3>1. m >= a + 2
      BY <1>5
    <3>2. 2 \in 2 .. m - a
      BY <3>1
    <3>3. QED
      BY <1>2, <1>3, <3>2
  <2>2. FirstOther(d, s) = 2
    BY <1>2, <2>1, FirstOtherIs
  <2>3. end = m - a
    <3>1. CASE m <= n
      <4>1. m - a + 1 \in 2 .. Len(s) /\ a + (m - a + 1) - 1 = m
        BY <1>1, <3>1
      <4>2. s[m - a + 1] = d
        BY <1>1, <3>1, <4>1
      <4>3. \A i \in 2 .. (m - a + 1) - 1 : s[i] # d
        BY <1>3
      <4>4. stop = m - a + 1
        BY <1>2, <4>1, <4>2, <4>3, FirstOfIs
      <4>5. QED
        BY <4>4
    <3>2. CASE m = n + 1
      <4>1. \A i \in 2 .. Len(s) : s[i] # d
        BY <1>1, <1>3, <3>2
      <4>2. stop = 0
        BY <1>2, <4>1, FirstOfNone
      <4>3. QED
        BY <1>1, <3>2, <4>2
    <3>3. QED
      BY <3>1, <3>2
  <2>4. Strtok(s, d) = [token |-> SubSeq(s, 2, end),
                        left |-> SubSeq(s, end + 2, Len(s))]
    BY <2>2 DEF Strtok
  <2> HIDE DEF end
  <2>5. /\ m - a + 2 \in Nat \ {0} /\ n - a + 1 \in Int
        /\ a + (m - a + 2) - 1 = m + 1 /\ a + (n - a + 1) - 1 = n
    OBVIOUS
  <2>6. SubSeq(s, m - a + 2, n - a + 1)
          = SubSeq(text, a + (m - a + 2) - 1, a + (n - a + 1) - 1)
    BY <2>5, SliceOfSlice DEF s
  <2>7. Strtok(s, d).left = SubSeq(s, m - a + 2, n - a + 1)
    BY <1>1, <2>3, <2>4
  <2>8. QED
    BY <2>5, <2>6, <2>7 DEF s, Skips
<1>6. QED
  BY <1>4, <1>5

-----------------------------------------------------------------------------
(* The texts. *)

LEMMA TextTypes ==
  /\ \A v \in Values : v \in Seq(Symbol) /\ Len(v) \in Nat
                       /\ \A i \in 1 .. Len(v) : v[i] # "&"
  /\ \A k \in Keys : k \in Seq(Symbol) /\ Len(k) \in Nat
                     /\ \A i \in 1 .. Len(k) : k[i] # "&"
  /\ \A k \in Typings : k \in Seq(Symbol) /\ Len(k) \in Nat
  /\ \A t \in Tails : /\ t \in Seq(Symbol) /\ Len(t) \in Nat
                      /\ t # << >> => Len(t) > 0 /\ t[1] = "&"
<1>1. \A s \in Values \cup Keys \cup Typings \cup Tails :
        s \in Seq(Symbol) /\ Len(s) \in Nat
  <2>1. \A s \in Values \cup Keys \cup Typings \cup Tails : s \in Seq(Symbol)
    BY TextAssumption DEF TextAssumption
  <2>2. QED
    BY <2>1, LenProperties
<1>2. /\ \A v \in Values : \A i \in 1 .. Len(v) : v[i] # "&"
      /\ \A k \in Keys : \A i \in 1 .. Len(k) : k[i] # "&"
  BY TextAssumption DEF TextAssumption, Contains
<1>3. ASSUME NEW t \in Tails, t # << >>
      PROVE  Len(t) > 0 /\ t[1] = "&"
  <2>1. Head(t) = "&"
    BY <1>3, TextAssumption DEF TextAssumption
  <2>2. t \in Seq(Symbol)
    BY <1>1
  <2>3. Len(t) > 0
    BY <1>3, <2>2, EmptySeq
  <2>4. Head(t) = t[1]
    BY <2>2
  <2>5. QED
    BY <2>1, <2>3, <2>4
<1>4. QED
  BY <1>1, <1>2, <1>3

LEMMA Words ==
  \A s : \A a, b, c, d \in s : /\ <<a, b>> \in Seq(s)
                               /\ <<a, b, c>> \in Seq(s)
                               /\ <<a, b, c, d>> \in Seq(s)
OBVIOUS

(* What stands where in two texts put together. *)
Joint(s, t) == s \o t

LEMMA Joined ==
  ASSUME NEW s \in Seq(Symbol), NEW t \in Seq(Symbol)
  PROVE  /\ Joint(s, t) \in Seq(Symbol)
         /\ Len(Joint(s, t)) \in Nat /\ Len(Joint(s, t)) = Len(s) + Len(t)
         /\ \A i \in 1 .. Len(s) : Joint(s, t)[i] = s[i]
         /\ \A i \in 1 .. Len(t) : Joint(s, t)[Len(s) + i] = t[i]
<1>1. Len(s) \in Nat /\ Len(t) \in Nat
  BY LenProperties
<1>2. /\ Joint(s, t) \in Seq(Symbol) /\ Len(Joint(s, t)) = Len(s) + Len(t)
      /\ \A i \in 1 .. Len(s) + Len(t) :
           Joint(s, t)[i] = IF i <= Len(s) THEN s[i] ELSE t[i - Len(s)]
  BY ConcatProperties DEF Joint
<1>3. ASSUME NEW i \in 1 .. Len(s)
      PROVE  Joint(s, t)[i] = s[i]
  BY <1>1, <1>2
<1>4. ASSUME NEW i \in 1 .. Len(t)
      PROVE  Joint(s, t)[Len(s) + i] = t[i]
  <2>1. /\ Len(s) + i \in 1 .. Len(s) + Len(t) /\ ~(Len(s) + i <= Len(s))
        /\ Len(s) + i - Len(s) = i
    BY <1>1
  <2>2. Joint(s, t)[Len(s) + i] = t[Len(s) + i - Len(s)]
    BY <1>2, <2>1
  <2>3. QED
    BY <2>1, <2>2
<1>5. QED
  BY <1>1, <1>2, <1>3, <1>4

(* What stands where in a body. *)
Places(text, v, k, t) ==
  /\ text \in Seq(Symbol)
  /\ Len(text) = Len(v) + Len(k) + Len(t) + 5
  /\ text[1] = "name" /\ text[2] = "="
  /\ \A i \in 1 .. Len(v) : text[2 + i] = v[i]
  /\ text[Len(v) + 3] = "&"
  /\ text[Len(v) + 4] = "name"
  /\ text[Len(v) + 5] = "="
  /\ \A i \in 1 .. Len(k) : text[Len(v) + 5 + i] = k[i]
  /\ \A i \in 1 .. Len(t) : text[Len(v) + Len(k) + 5 + i] = t[i]

LEMMA BodyPlaces ==
  ASSUME NEW v \in Seq(Symbol), NEW k \in Seq(Symbol), NEW t \in Seq(Symbol)
  PROVE  Places(Body(v, k, t), v, k, t)
<1> DEFINE w1 == <<"name", "=">>
           w2 == <<"&", "name", "=">>
           t1 == Joint(w1, v)
           t2 == Joint(t1, w2)
           t3 == Joint(t2, k)
           t4 == Joint(t3, t)
<1>1. /\ w1 \in Seq(Symbol) /\ Len(w1) = 2
      /\ w1[1] = "name" /\ w1[2] = "="
      /\ w2 \in Seq(Symbol) /\ Len(w2) = 3
      /\ w2[1] = "&" /\ w2[2] = "name" /\ w2[3] = "="
  <2>1. "name" \in Symbol /\ "=" \in Symbol /\ "&" \in Symbol
    BY TextAssumption DEF TextAssumption
  <2>2. w1 \in Seq(Symbol) /\ w2 \in Seq(Symbol)
    BY <2>1, Words
  <2>3. /\ Len(w1) = 2 /\ w1[1] = "name" /\ w1[2] = "="
        /\ Len(w2) = 3 /\ w2[1] = "&" /\ w2[2] = "name" /\ w2[3] = "="
    OBVIOUS
  <2>4. QED
    BY <2>2, <2>3
<1>2. Len(v) \in Nat /\ Len(k) \in Nat /\ Len(t) \in Nat
  OBVIOUS
<1> HIDE DEF w1, w2
<1>3. /\ t1 \in Seq(Symbol)
      /\ Len(t1) = Len(v) + 2
      /\ \A i \in 1 .. Len(w1) : t1[i] = w1[i]
      /\ \A i \in 1 .. Len(v) : t1[Len(w1) + i] = v[i]
  <2>1. /\ t1 \in Seq(Symbol) /\ Len(t1) = Len(w1) + Len(v)
        /\ \A i \in 1 .. Len(w1) : t1[i] = w1[i]
        /\ \A i \in 1 .. Len(v) : t1[Len(w1) + i] = v[i]
    BY <1>1, <1>2, Joined
  <2>2. QED
    BY <1>1, <1>2, <2>1
<1> HIDE DEF t1
<1>4. /\ t2 \in Seq(Symbol)
      /\ Len(t2) = Len(v) + 5
      /\ \A i \in 1 .. Len(t1) : t2[i] = t1[i]
      /\ \A i \in 1 .. Len(w2) : t2[Len(t1) + i] = w2[i]
  <2>1. /\ t2 \in Seq(Symbol) /\ Len(t2) = Len(t1) + Len(w2)
        /\ \A i \in 1 .. Len(t1) : t2[i] = t1[i]
        /\ \A i \in 1 .. Len(w2) : t2[Len(t1) + i] = w2[i]
    BY <1>1, <1>2, <1>3, Joined
  <2>2. QED
    BY <1>1, <1>2, <1>3, <2>1
<1> HIDE DEF t2
<1>5. /\ t3 \in Seq(Symbol)
      /\ Len(t3) = Len(v) + Len(k) + 5
      /\ \A i \in 1 .. Len(t2) : t3[i] = t2[i]
      /\ \A i \in 1 .. Len(k) : t3[Len(t2) + i] = k[i]
  <2>1. /\ t3 \in Seq(Symbol) /\ Len(t3) = Len(t2) + Len(k)
        /\ \A i \in 1 .. Len(t2) : t3[i] = t2[i]
        /\ \A i \in 1 .. Len(k) : t3[Len(t2) + i] = k[i]
    BY <1>2, <1>4, Joined
  <2>2. QED
    BY <1>2, <1>4, <2>1
<1> HIDE DEF t3
<1>6. /\ t4 \in Seq(Symbol)
      /\ Len(t4) = Len(v) + Len(k) + Len(t) + 5
      /\ \A i \in 1 .. Len(t3) : t4[i] = t3[i]
      /\ \A i \in 1 .. Len(t) : t4[Len(t3) + i] = t[i]
  <2>1. /\ t4 \in Seq(Symbol) /\ Len(t4) = Len(t3) + Len(t)
        /\ \A i \in 1 .. Len(t3) : t4[i] = t3[i]
        /\ \A i \in 1 .. Len(t) : t4[Len(t3) + i] = t[i]
    BY <1>2, <1>5, Joined
  <2>2. QED
    BY <1>2, <1>5, <2>1
<1>7. Body(v, k, t) = t4
  BY DEF Body, Joint, t1, t2, t3, w1, w2
<1> HIDE DEF t4
<1>8. ASSUME NEW i \in 1 .. Len(v) + 5
      PROVE  t4[i] = t2[i]
  BY <1>2, <1>4, <1>5, <1>6
<1>9. ASSUME NEW i \in 1 .. Len(v) + 2
      PROVE  t4[i] = t1[i]
  BY <1>2, <1>3, <1>4, <1>8
<1>10. t4[1] = "name" /\ t4[2] = "="
  <2>1. t4[1] = t1[1] /\ t4[2] = t1[2]
    BY <1>2, <1>9
  <2>2. t1[1] = w1[1] /\ t1[2] = w1[2]
    BY <1>1, <1>3
  <2>3. QED
    BY <1>1, <2>1, <2>2
<1>11. ASSUME NEW i \in 1 .. Len(v)
       PROVE  t4[2 + i] = v[i]
  <2>1. 2 + i \in 1 .. Len(v) + 2
    BY <1>2
  <2>2. t1[2 + i] = v[i]
    BY <1>1, <1>3
  <2>3. QED
    BY <1>9, <2>1, <2>2
<1>12. /\ t4[Len(v) + 3] = "&"
       /\ t4[Len(v) + 4] = "name"
       /\ t4[Len(v) + 5] = "="
  <2>1. ASSUME NEW i \in 1 .. 3
        PROVE  t4[Len(v) + 2 + i] = w2[i]
    <3>1. Len(v) + 2 + i \in 1 .. Len(v) + 5
      BY <1>2
    <3>2. t2[Len(v) + 2 + i] = w2[i]
      BY <1>1, <1>3, <1>4
    <3>3. QED
      BY <1>8, <3>1, <3>2
  <2>2. /\ Len(v) + 2 + 1 = Len(v) + 3 /\ Len(v) + 2 + 2 = Len(v) + 4
        /\ Len(v) + 2 + 3 = Len(v) + 5
        /\ 1 \in 1 .. 3 /\ 2 \in 1 .. 3 /\ 3 \in 1 .. 3
    BY <1>2
  <2>3. /\ t4[Len(v) + 2 + 1] = w2[1] /\ t4[Len(v) + 2 + 2] = w2[2]
        /\ t4[Len(v) + 2 + 3] = w2[3]
    BY <2>1, <2>2
  <2>4. QED
    BY <1>1, <2>2, <2>3
<1>13. ASSUME NEW i \in 1 .. Len(k)
       PROVE  t4[Len(v) + 5 + i] = k[i]
  <2>1. Len(v) + 5 + i \in 1 .. Len(t3)
    BY <1>2, <1>5
  <2>2. t3[Len(v) + 5 + i] = k[i]
    BY <1>4, <1>5
  <2>3. QED
    BY <1>6, <2>1, <2>2
<1>14. ASSUME NEW i \in 1 .. Len(t)
       PROVE  t4[Len(v) + Len(k) + 5 + i] = t[i]
  BY <1>5, <1>6
<1>15. QED
  BY <1>6, <1>7, <1>10, <1>11, <1>12, <1>13, <1>14 DEF Places

(* What stands where in the request line of by_key. *)
LEMMA LinePlaces ==
  ASSUME NEW k \in Seq(Symbol)
  PROVE  /\ RequestLine(k) \in Seq(Symbol)
         /\ Len(RequestLine(k)) = Len(k) + 6
         /\ RequestLine(k)[1] = "GET" /\ RequestLine(k)[2] = Blank
         /\ RequestLine(k)[3] = "data" /\ RequestLine(k)[4] = "?"
         /\ \A i \in 1 .. Len(k) : RequestLine(k)[4 + i] = k[i]
         /\ RequestLine(k)[Len(k) + 5] = Blank
<1> DEFINE w1 == <<"GET", Blank, "data", "?">>
           w2 == <<Blank, "HTTP">>
           t1 == Joint(w1, k)
           t2 == Joint(t1, w2)
<1>1. /\ w1 \in Seq(Symbol) /\ Len(w1) = 4 /\ w1[1] = "GET"
      /\ w1[2] = Blank /\ w1[3] = "data" /\ w1[4] = "?"
      /\ w2 \in Seq(Symbol) /\ Len(w2) = 2 /\ w2[1] = Blank
  <2>1. /\ "GET" \in Symbol /\ Blank \in Symbol /\ "data" \in Symbol
        /\ "?" \in Symbol /\ "HTTP" \in Symbol
    BY TextAssumption DEF TextAssumption
  <2>2. w1 \in Seq(Symbol) /\ w2 \in Seq(Symbol)
    BY <2>1, Words
  <2>3. /\ Len(w1) = 4 /\ w1[1] = "GET"
        /\ w1[2] = Blank /\ w1[3] = "data" /\ w1[4] = "?"
        /\ Len(w2) = 2 /\ w2[1] = Blank
    OBVIOUS
  <2>4. QED
    BY <2>2, <2>3
<1>2. Len(k) \in Nat
  OBVIOUS
<1> HIDE DEF w1, w2
<1>3. /\ t1 \in Seq(Symbol)
      /\ Len(t1) = Len(k) + 4
      /\ \A i \in 1 .. Len(w1) : t1[i] = w1[i]
      /\ \A i \in 1 .. Len(k) : t1[Len(w1) + i] = k[i]
  <2>1. /\ t1 \in Seq(Symbol) /\ Len(t1) = Len(w1) + Len(k)
        /\ \A i \in 1 .. Len(w1) : t1[i] = w1[i]
        /\ \A i \in 1 .. Len(k) : t1[Len(w1) + i] = k[i]
    BY <1>1, <1>2, Joined
  <2>2. QED
    BY <1>1, <1>2, <2>1
<1> HIDE DEF t1
<1>4. /\ t2 \in Seq(Symbol)
      /\ Len(t2) = Len(k) + 6
      /\ \A i \in 1 .. Len(t1) : t2[i] = t1[i]
      /\ \A i \in 1 .. Len(w2) : t2[Len(t1) + i] = w2[i]
  <2>1. /\ t2 \in Seq(Symbol) /\ Len(t2) = Len(t1) + Len(w2)
        /\ \A i \in 1 .. Len(t1) : t2[i] = t1[i]
        /\ \A i \in 1 .. Len(w2) : t2[Len(t1) + i] = w2[i]
    BY <1>1, <1>2, <1>3, Joined
  <2>2. QED
    BY <1>1, <1>2, <1>3, <2>1
<1>5. RequestLine(k) = t2
  BY DEF RequestLine, Joint, t1, w1, w2
<1> HIDE DEF t2
<1>6. t2[1] = w1[1] /\ t2[2] = w1[2] /\ t2[3] = w1[3] /\ t2[4] = w1[4]
  BY <1>1, <1>2, <1>3, <1>4
<1>7. ASSUME NEW i \in 1 .. Len(k)
      PROVE  t2[4 + i] = k[i]
  <2>1. 4 + i \in 1 .. Len(t1)
    BY <1>2, <1>3
  <2>2. t1[4 + i] = k[i]
    BY <1>1, <1>3
  <2>3. QED
    BY <1>4, <2>1, <2>2
<1>8. t2[Len(k) + 5] = Blank
  <2>1. Len(t1) + 1 = Len(k) + 5 /\ 1 \in 1 .. Len(w2)
    BY <1>1, <1>2, <1>3
  <2>2. t2[Len(t1) + 1] = w2[1]
    BY <1>4, <2>1
  <2>3. QED
    BY <1>1, <2>1, <2>2
<1>9. QED
  BY <1>1, <1>4, <1>5, <1>6, <1>7, <1>8

(* The path ends with what was typed before the first blank. *)
LEMMA PathEnds ==
  ASSUME NEW k \in Seq(Symbol)
  PROVE  \E n \in 0 .. Len(k) :
           /\ \A i \in 1 .. n : k[i] # Blank
           /\ n < Len(k) => k[n + 1] = Blank
           /\ PathOf(RequestLine(k)) = SubSeq(RequestLine(k), 3, n + 4)
<1> DEFINE text == RequestLine(k)
<1>1. /\ text \in Seq(Symbol) /\ Len(text) = Len(k) + 6
      /\ text[1] = "GET" /\ text[2] = Blank
      /\ text[3] = "data" /\ text[4] = "?"
      /\ \A i \in 1 .. Len(k) : text[4 + i] = k[i]
      /\ text[Len(k) + 5] = Blank
  BY LinePlaces
<1> HIDE DEF text
<1>2. Len(k) \in Nat /\ Len(text) \in Nat
  BY <1>1, LenProperties
<1>3. "GET" # Blank /\ "data" # Blank /\ "?" # Blank
  BY Zenon DEF Blank
<1>4. PICK n \in 0 .. Len(k) : /\ \A i \in 1 .. n : k[i] # Blank
                               /\ n < Len(k) => k[n + 1] = Blank
  <2> DEFINE P == {i \in 1 .. Len(k) : k[i] = Blank}
  <2>1. CASE P = {}
    <3>1. \A i \in 1 .. Len(k) : k[i] # Blank
      BY <2>1
    <3>2. Len(k) \in 0 .. Len(k) /\ ~(Len(k) < Len(k))
      BY <1>2
    <3>3. QED
      BY <3>1, <3>2
  <2>2. CASE P # {}
    <3>1. P \in SUBSET Nat
      OBVIOUS
    <3>2. PICK m \in P : \A i \in P : m <= i
      BY <2>2, <3>1, FirstExists
    <3>3. m \in 1 .. Len(k) /\ k[m] = Blank
      OBVIOUS
    <3>4. ASSUME NEW i \in 1 .. m - 1
          PROVE  k[i] # Blank
      BY <1>2, <3>2, <3>3
    <3>5. m - 1 \in 0 .. Len(k) /\ (m - 1) + 1 = m
      BY <1>2, <3>3
    <3>6. QED
      BY <3>3, <3>4, <3>5
  <2>3. QED
    BY <2>1, <2>2
<1>5. FirstOf(Blank, text, 1) = 2
  <2>1. 2 \in 1 .. Len(text)
    BY <1>1, <1>2
  <2>2. ASSUME NEW i \in 1 .. 2 - 1
        PROVE  text[i] # Blank
    <3>1. i = 1
      OBVIOUS
    <3>2. QED
      BY <1>1, <1>3, <3>1
  <2>3. QED
    BY <1>1, <1>2, <2>1, <2>2, FirstOfIs
<1>6. FirstOf(Blank, text, 3) = n + 5
  <2>1. n + 5 \in 3 .. Len(text)
    BY <1>1, <1>2
  <2>2. text[n + 5] = Blank
    <3>1. CASE n = Len(k)
      BY <1>1, <3>1
    <3>2. CASE n < Len(k)
      <4>1. n + 1 \in 1 .. Len(k) /\ 4 + (n + 1) = n + 5
        BY <1>2, <3>2
      <4>2. text[4 + (n + 1)] = k[n + 1]
        BY <1>1, <4>1
      <4>3. QED
        BY <1>4, <3>2, <4>1, <4>2
    <3>3. QED
      BY <1>2, <3>1, <3>2
  <2>3. ASSUME NEW i \in 3 .. (n + 5) - 1
        PROVE  text[i] # Blank
    <3>1. CASE i = 3 \/ i = 4
      BY <1>1, <1>3, <3>1
    <3>2. CASE i > 4
      <4>1. i - 4 \in 1 .. Len(k) /\ i - 4 \in 1 .. n /\ 4 + (i - 4) = i
        BY <1>2, <3>2
      <4>2. text[4 + (i - 4)] = k[i - 4]
        BY <1>1, <4>1
      <4>3. QED
        BY <1>4, <4>1, <4>2
    <3>3. QED
      BY <3>1, <3>2
  <2>4. QED
    BY <1>2, <2>1, <2>2, <2>3, FirstOfIs
<1>7. PathOf(text) = SubSeq(text, 3, n + 4)
  <2>1. 2 + 1 = 3 /\ (n + 5) - 1 = n + 4
    OBVIOUS
  <2>2. PathOf(text) = SubSeq(text, 2 + 1, (n + 5) - 1)
    BY <1>5, <1>6, <2>1 DEF PathOf
  <2>3. QED
    BY <2>1, <2>2
<1>8. QED
  BY <1>4, <1>7 DEF text

-----------------------------------------------------------------------------
(* The inductive invariant holds at first. *)

LEMMA InitTextInv == Init => TextInv
<1>1. SUFFICES ASSUME Init PROVE TextInv
  OBVIOUS
<1>2. toks = << >> /\ Len(toks) = 0 /\ toks \in Seq(Seq(Symbol))
      /\ Len(toks) <= Len(Calls[job])
  <2>1. toks = << >> /\ job \in {"put", "get"}
    BY <1>1 DEF Init
  <2>2. Len(Calls.put) = 4 /\ Len(Calls.get) = 2
    BY DEF Calls
  <2>3. QED
    BY <2>1, <2>2
<1>3. CASE /\ job = "put" /\ val \in Values /\ key \in Keys /\ tail \in Tails
           /\ arrived \in 0 .. Len(Body(val, key, tail))
           /\ rest = SubSeq(Body(val, key, tail), 1, arrived)
  <2> DEFINE text == Body(val, key, tail)
  <2>1. text \in Seq(Symbol)
    BY <1>3, TextTypes, BodyPlaces DEF Places
  <2>2. arrived \in 0 .. Len(text) /\ rest = SubSeq(text, 1, arrived)
    BY <1>3
  <2> HIDE DEF text
  <2>3. rest \in Seq(Symbol)
    <3>1. Len(text) \in Nat
      BY <2>1, LenProperties
    <3>2. QED
      BY <2>1, <2>2, <3>1, Slice
  <2>4. PutReads(arrived)
    BY <1>2, <2>2 DEF PutReads, text
  <2>5. TypeOK
    BY <1>2, <1>3, <2>3 DEF TypeOK
  <2>6. QED
    BY <1>3, <2>4, <2>5 DEF TextInv
<1>4. CASE /\ job = "get" /\ val = << >> /\ key \in Typings /\ tail = << >>
           /\ arrived = 0 /\ rest = PathOf(RequestLine(key))
  <2>1. key \in Seq(Symbol) /\ Len(key) \in Nat
    BY <1>4, TextTypes
  <2>2. PICK n \in 0 .. Len(key) :
           /\ \A i \in 1 .. n : key[i] # Blank
           /\ n < Len(key) => key[n + 1] = Blank
           /\ PathOf(RequestLine(key)) = SubSeq(RequestLine(key), 3, n + 4)
    BY <2>1, PathEnds
  <2>3. rest \in Seq(Symbol)
    <3>1. /\ RequestLine(key) \in Seq(Symbol)
          /\ n + 4 \in Int /\ n + 4 <= Len(RequestLine(key))
      BY <2>1, LinePlaces
    <3>2. QED
      BY <1>4, <2>2, <3>1, Slice
  <2>4. GetReads(n)
    BY <1>2, <1>4, <2>2 DEF GetReads
  <2>5. 0 \in 0 .. Len(Body(val, key, tail))
    <3>1. << >> \in Seq(Symbol)
      OBVIOUS
    <3>2. Body(val, key, tail) \in Seq(Symbol)
      BY <1>4, <2>1, <3>1, BodyPlaces DEF Places
    <3>3. Len(Body(val, key, tail)) \in Nat
      BY <3>2, LenProperties
    <3>4. QED
      BY <3>3
  <2>6. TypeOK
    BY <1>2, <1>4, <2>3, <2>5 DEF TypeOK
  <2>7. QED
    BY <1>4, <2>4, <2>6 DEF TextInv
<1>5. QED
  BY <1>1, <1>3, <1>4 DEF Init

-----------------------------------------------------------------------------
(* One call of strtok. *)

LEMMA CallStep ==
  ASSUME TypeOK, Next
  PROVE  \E d : /\ d = Calls[job][Len(toks) + 1]
                /\ rest' = Strtok(rest, d).left
                /\ Len(toks) \in Nat /\ Len(toks) < Len(Calls[job])
                /\ Len(toks') = Len(toks) + 1
                /\ \A i \in 1 .. Len(toks) : toks'[i] = toks[i]
                /\ toks'[Len(toks) + 1] = Strtok(rest, d).token
                /\ TypeOK'
<1> DEFINE d == Calls[job][Len(toks) + 1]
           call == Strtok(rest, d)
<1>1. /\ toks' = Append(toks, call.token) /\ rest' = call.left
      /\ job' = job /\ val' = val /\ key' = key /\ tail' = tail
      /\ arrived' = arrived
      /\ Len(toks) < Len(Calls[job])
  BY DEF Next
<1>2. toks \in Seq(Seq(Symbol)) /\ rest \in Seq(Symbol)
  BY DEF TypeOK
<1>3. Len(toks) \in Nat
  BY <1>2, LenProperties
<1> HIDE DEF d
<1>4. call.token \in Seq(Symbol) /\ call.left \in Seq(Symbol)
  BY <1>2, StrtokType
<1> HIDE DEF call
<1>5. /\ toks' \in Seq(Seq(Symbol)) /\ Len(toks') = Len(toks) + 1
      /\ \A i \in 1 .. Len(toks) : toks'[i] = toks[i]
      /\ toks'[Len(toks) + 1] = call.token
  BY <1>1, <1>2, <1>4, AppendProperties
<1>6. Len(toks') <= Len(Calls[job'])
  <2>1. job \in {"put", "get"} /\ Len(Calls.put) = 4 /\ Len(Calls.get) = 2
    BY DEF TypeOK, Calls
  <2>2. Len(Calls[job]) \in Nat
    BY <2>1
  <2>3. QED
    BY <1>1, <1>3, <1>5, <2>2
<1>7. TypeOK'
  BY <1>1, <1>4, <1>5, <1>6 DEF TypeOK
<1>8. QED
  BY <1>1, <1>3, <1>5, <1>7 DEF d, call

(* What every step of put may use. *)
LEMMA PutFacts ==
  ASSUME TypeOK, job = "put"
  PROVE  /\ val \in Seq(Symbol) /\ Len(val) \in Nat
         /\ \A i \in 1 .. Len(val) : val[i] # "&"
         /\ key \in Seq(Symbol) /\ Len(key) \in Nat
         /\ \A i \in 1 .. Len(key) : key[i] # "&"
         /\ tail \in Seq(Symbol) /\ Len(tail) \in Nat
         /\ tail # << >> => Len(tail) > 0 /\ tail[1] = "&"
         /\ val # << >> => Len(val) > 0
         /\ key # << >> => Len(key) > 0
         /\ "name" # "=" /\ "name" # "&" /\ "=" # "&"
<1>1. val \in Values /\ key \in Keys /\ tail \in Tails
  BY DEF TypeOK
<1>2. val \in Seq(Symbol) /\ key \in Seq(Symbol)
  BY <1>1, TextTypes
<1>3. (val # << >> => Len(val) > 0) /\ (key # << >> => Len(key) > 0)
  BY <1>2, EmptySeq
<1>4. "name" # "=" /\ "name" # "&" /\ "=" # "&"
  OBVIOUS
<1>5. QED
  BY <1>1, <1>3, <1>4, TextTypes

(* What strtok takes out of further fields is from further fields. *)
LEMMA SliceOfTail ==
  ASSUME TypeOK, job = "put", NEW a \in Nat \ {0}, NEW b \in Int, b <= Len(tail)
  PROVE  FromTail(SubSeq(tail, a, b))
<1>1. Len(tail) \in Nat
  BY PutFacts
<1>2. CASE a <= b
  <2>1. a \in 1 .. Len(tail) + 1 /\ b \in 0 .. Len(tail)
    BY <1>1, <1>2
  <2>2. QED
    BY <2>1 DEF FromTail
<1>3. CASE b < a
  <2>1. SubSeq(tail, a, b) = << >> /\ SubSeq(tail, 1, 0) = << >>
    BY <1>3, SubSeqEmpty
  <2>2. 1 \in 1 .. Len(tail) + 1 /\ 0 \in 0 .. Len(tail)
    BY <1>1
  <2>3. QED
    BY <2>1, <2>2 DEF FromTail
<1>4. QED
  BY <1>2, <1>3

LEMMA NothingOfTail ==
  ASSUME TypeOK, job = "put"
  PROVE  FromTail(<< >>)
<1>1. 1 \in Nat \ {0} /\ 0 \in Int /\ 0 <= Len(tail) /\ 0 < 1
  BY PutFacts
<1>2. SubSeq(tail, 1, 0) = << >>
  BY SubSeqEmpty
<1>3. FromTail(SubSeq(tail, 1, 0))
  BY <1>1, SliceOfTail
<1>4. QED
  BY <1>2, <1>3

LEMMA StrtokOfTail ==
  ASSUME TypeOK, job = "put", NEW s, FromTail(s), NEW d
  PROVE  FromTail(Strtok(s, d).token) /\ FromTail(Strtok(s, d).left)
<1>1. PICK a \in 1 .. Len(tail) + 1, b \in 0 .. Len(tail) : s = SubSeq(tail, a, b)
  BY DEF FromTail
<1>2. Len(tail) \in Nat /\ tail \in Seq(Symbol)
  BY PutFacts
<1>3. CASE b < a
  <2>1. s = << >>
    BY <1>1, <1>2, <1>3, SubSeqEmpty
  <2>2. Strtok(s, d).token = << >> /\ Strtok(s, d).left = << >>
    BY <2>1, StrtokOfNothing
  <2>3. QED
    BY <2>2, NothingOfTail
<1>4. CASE a <= b
  <2> DEFINE start == FirstOther(d, s)
             stop == FirstOf(d, s, start)
             end == IF stop = 0 THEN Len(s) ELSE stop - 1
  <2>1. Len(s) \in Nat /\ Len(s) = b - a + 1
    <3>1. a \in Nat \ {0} /\ b \in Int /\ b <= Len(tail)
      BY <1>2
    <3>2. Len(SubSeq(tail, a, b)) = IF a <= b THEN b - a + 1 ELSE 0
      BY <1>2, <3>1, Slice
    <3>3. QED
      BY <1>1, <1>2, <1>4, <3>2
  <2>2. start \in 0 .. Len(s)
    BY <2>1, FirstOtherType
  <2>3. CASE start = 0
    <3>1. Strtok(s, d).token = << >> /\ Strtok(s, d).left = << >>
      BY <2>3 DEF Strtok
    <3>2. QED
      BY <3>1, NothingOfTail
  <2>4. CASE start # 0
    <3>1. start \in Nat \ {0} /\ start <= Len(s)
      BY <2>1, <2>2, <2>4
    <3>2. stop \in {0} \cup (start .. Len(s))
      BY <2>1, <3>1, FirstOfType
    <3>3. end \in Int /\ 0 <= end /\ end <= Len(s)
      BY <2>1, <3>1, <3>2
    <3>4. /\ Strtok(s, d).token = SubSeq(s, start, end)
          /\ Strtok(s, d).left = SubSeq(s, end + 2, Len(s))
      BY <2>4 DEF Strtok
    <3> HIDE DEF start, end
    <3>5. SubSeq(s, start, end) = SubSeq(tail, a + start - 1, a + end - 1)
      <4>1. /\ a \in Nat \ {0} /\ b \in Int /\ b <= Len(tail)
            /\ end <= b - a + 1
        BY <1>2, <2>1, <3>3
      <4>2. QED
        BY <1>1, <1>2, <1>4, <3>1, <3>3, <4>1, SliceOfSlice
    <3>6. SubSeq(s, end + 2, Len(s)) = SubSeq(tail, a + (end + 2) - 1, a + Len(s) - 1)
      <4>1. /\ a \in Nat \ {0} /\ b \in Int /\ b <= Len(tail)
            /\ end + 2 \in Nat \ {0} /\ Len(s) \in Int /\ Len(s) <= b - a + 1
        BY <1>2, <2>1, <3>3
      <4>2. QED
        BY <1>1, <1>2, <1>4, <4>1, SliceOfSlice
    <3>7. /\ a + start - 1 \in Nat \ {0} /\ a + end - 1 \in Int
          /\ a + end - 1 <= Len(tail)
      BY <1>2, <2>1, <3>1, <3>3
    <3>8. /\ a + (end + 2) - 1 \in Nat \ {0} /\ a + Len(s) - 1 \in Int
          /\ a + Len(s) - 1 <= Len(tail)
      BY <1>2, <2>1, <3>3
    <3>9. FromTail(SubSeq(s, start, end))
      BY <3>5, <3>7, SliceOfTail
    <3>10. FromTail(SubSeq(s, end + 2, Len(s)))
      BY <3>6, <3>8, SliceOfTail
    <3>11. QED
      BY <3>4, <3>9, <3>10
  <2>5. QED
    BY <2>3, <2>4
<1>5. QED
  BY <1>2, <1>3, <1>4

(* What comes after the key in a body is from further fields. *)
LEMMA RestOfBody ==
  ASSUME TypeOK, job = "put",
         NEW n \in Nat, n <= Len(Body(val, key, tail)),
         NEW q \in Nat, q > Len(val) + Len(key) + 5
  PROVE  FromTail(SubSeq(Body(val, key, tail), q, n))
<1> DEFINE text == Body(val, key, tail)
           e == Len(val) + Len(key) + 5
<1>1. /\ text \in Seq(Symbol) /\ Len(text) = e + Len(tail)
      /\ \A i \in 1 .. Len(tail) : text[e + i] = tail[i]
      /\ e \in Nat /\ Len(tail) \in Nat /\ tail \in Seq(Symbol)
  <2>1. Places(text, val, key, tail)
    BY PutFacts, BodyPlaces
  <2>2. QED
    BY <2>1, PutFacts DEF Places
<1>2. q > e
  OBVIOUS
<1>3. n <= Len(text)
  OBVIOUS
<1> HIDE DEF text, e
<1>4. CASE n < q
  <2>1. SubSeq(text, q, n) = << >>
    BY <1>4, SubSeqEmpty
  <2>2. QED
    BY <2>1, NothingOfTail DEF text
<1>5. CASE q <= n
  <2>1. SubSeq(text, e + 1, e + Len(tail)) = tail
    <3>1. SubSeq(text, e + 1, e + Len(tail)) = SubSeq(tail, 1, Len(tail))
      BY <1>1, SliceMoved
    <3>2. SubSeq(tail, 1, Len(tail)) = tail
      BY <1>1, SubSeqFull
    <3>3. QED
      BY <3>1, <3>2
  <2>2. /\ e + 1 \in Nat \ {0} /\ e + Len(tail) \in Int
        /\ e + Len(tail) <= Len(text) /\ e + 1 <= e + Len(tail)
        /\ q - e \in Nat \ {0} /\ n - e \in Int /\ n - e <= Len(tail)
        /\ n - e <= (e + Len(tail)) - (e + 1) + 1
        /\ (e + 1) + (q - e) - 1 = q /\ (e + 1) + (n - e) - 1 = n
    BY <1>1, <1>2, <1>3, <1>5
  <2>3. SubSeq(SubSeq(text, e + 1, e + Len(tail)), q - e, n - e)
          = SubSeq(text, (e + 1) + (q - e) - 1, (e + 1) + (n - e) - 1)
    BY <1>1, <2>2, SliceOfSlice
  <2>4. SubSeq(text, q, n) = SubSeq(tail, q - e, n - e)
    BY <2>1, <2>2, <2>3
  <2>5. FromTail(SubSeq(tail, q - e, n - e))
    BY <2>2, SliceOfTail
  <2>6. QED
    BY <2>4, <2>5 DEF text
<1>6. QED
  BY <1>4, <1>5

(* strtok(body, "=") takes the name of the value. *)
LEMMA PutCall1 ==
  ASSUME TypeOK, Next, job = "put", Len(toks) = 0,
         NEW n \in 0 .. Len(Body(val, key, tail)), PutReads(n)
  PROVE  PutReads(n)'
<1> DEFINE text == Body(val, key, tail)
<1>1. /\ text \in Seq(Symbol) /\ text[1] = "name" /\ text[2] = "="
      /\ Len(text) \in Nat
  BY PutFacts, BodyPlaces, LenProperties DEF Places
<1>2. rest = SubSeq(text, 1, n)
  BY DEF PutReads
<1>3. rest' = Strtok(rest, "=").left /\ Len(toks') = 1
  <2>1. Calls[job][Len(toks) + 1] = "="
    BY DEF Calls
  <2>2. QED
    BY <2>1, CallStep
<1>4. /\ val' = val /\ key' = key /\ tail' = tail /\ ~Rejected
  BY DEF Next
<1>5. n \in Nat /\ n \in Int /\ n <= Len(text)
  BY <1>1
<1> HIDE DEF text
<1>6. n >= 2
  <2>1. toks = << >>
    BY EmptySeq DEF TypeOK
  <2>2. PICK i \in 1 .. Len(rest) : rest[i] = "="
    BY <1>4, <2>1 DEF Rejected, Contains
  <2>3. Len(rest) = n /\ \A j \in 1 .. n : rest[j] = text[j]
    <3>1. LET s == SubSeq(text, 1, n)
          IN  Len(s) = n /\ \A j \in 1 .. n : s[j] = text[j]
      BY <1>1, <1>5, HeadOf
    <3>2. QED
      BY <1>2, <3>1
  <2>4. i \in 1 .. n
    BY <2>2, <2>3
  <2>5. text[i] = "="
    BY <2>2, <2>3, <2>4
  <2>6. i # 1
    BY <1>1, <2>5, PutFacts
  <2>7. QED
    BY <2>4, <2>6
<1>7. Strtok(SubSeq(text, 1, n), "=").left = SubSeq(text, 3, n)
  <2>1. /\ 1 \in Nat \ {0} /\ n \in Nat /\ 1 <= n /\ n <= Len(text)
        /\ 2 \in 1 + 1 .. n + 1 /\ 2 + 1 = 3
    BY <1>5, <1>6
  <2>2. Free(text, 1, 2 - 1, "=") /\ (2 <= n => text[2] = "=")
    BY <1>1, PutFacts DEF Free
  <2>3. Takes(text, 1, n, 2, "=")
    BY <1>1, <2>1, <2>2, StrtokTakes
  <2>4. QED
    BY <2>1, <2>3 DEF Takes
<1>8. rest' = SubSeq(text, 3, n)
  BY <1>2, <1>3, <1>7
<1>9. QED
  BY <1>3, <1>4, <1>8 DEF PutReads, text

(* strtok(NULL, "&") takes the value. *)
LEMMA PutCall2 ==
  ASSUME TypeOK, Next, job = "put", Len(toks) = 1,
         NEW n \in 0 .. Len(Body(val, key, tail)), PutReads(n)
  PROVE  PutReads(n)'
<1> DEFINE text == Body(val, key, tail)
<1>1. /\ text \in Seq(Symbol)
      /\ Len(text) = Len(val) + Len(key) + Len(tail) + 5
      /\ \A i \in 1 .. Len(val) : text[2 + i] = val[i]
      /\ text[Len(val) + 3] = "&"
      /\ text[Len(val) + 4] = "name" /\ text[Len(val) + 5] = "="
      /\ \A i \in 1 .. Len(key) : text[Len(val) + 5 + i] = key[i]
      /\ \A i \in 1 .. Len(tail) : text[Len(val) + Len(key) + 5 + i] = tail[i]
  <2>1. Places(text, val, key, tail)
    BY PutFacts, BodyPlaces
  <2>2. QED
    BY <2>1 DEF Places
<1>2. rest = SubSeq(text, 3, n)
  BY DEF PutReads
<1>3. /\ rest' = Strtok(rest, "&").left /\ Len(toks') = 2
      /\ toks'[2] = Strtok(rest, "&").token
  <2>1. Calls[job][Len(toks) + 1] = "&" /\ Len(toks) + 1 = 2
    BY DEF Calls
  <2>2. QED
    BY <2>1, CallStep
<1>4. val' = val /\ key' = key /\ tail' = tail
  BY DEF Next
<1>5. n \in Nat /\ n <= Len(text)
  BY <1>1, PutFacts
<1> HIDE DEF text
<1>6. CASE n < 3
  <2>1. rest = << >>
    BY <1>2, <1>5, <1>6, SubSeqEmpty
  <2>2. rest' = << >>
    BY <1>3, <2>1, StrtokOfNothing
  <2>3. FromTail(rest')
    BY <2>2, NothingOfTail
  <2>4. FromTail(rest)'
    BY <1>4, <2>3 DEF FromTail
  <2>5. QED
    BY <1>3, <1>4, <2>2, <2>4 DEF PutReads
<1>7. ASSUME n >= 3, val # << >>, rest' # << >>
      PROVE  toks'[2] = val /\ rest' = SubSeq(text, Len(val) + 4, n)
  <2>1. ASSUME NEW i \in 3 .. Len(val) + 2
        PROVE  text[i] # "&"
    <3>1. i - 2 \in 1 .. Len(val) /\ 2 + (i - 2) = i
      BY PutFacts
    <3>2. text[2 + (i - 2)] = val[i - 2]
      BY <1>1, <3>1
    <3>3. QED
      BY <3>1, <3>2, PutFacts
  <2>2. n >= Len(val) + 3
    <3>1. SUFFICES ASSUME n < Len(val) + 3 PROVE FALSE
      BY <1>5, PutFacts
    <3>2. /\ 3 \in Nat \ {0} /\ 3 <= n /\ n + 1 \in 3 + 1 .. n + 1
          /\ ~(n + 1 <= n)
      BY <1>5, <1>7
    <3>3. Free(text, 3, (n + 1) - 1, "&")
      BY <1>5, <2>1, <3>1, PutFacts DEF Free
    <3>4. Takes(text, 3, n, n + 1, "&")
      BY <1>1, <1>5, <3>2, <3>3, StrtokTakes
    <3>5. SubSeq(text, (n + 1) + 1, n) = << >>
      BY <1>5, SubSeqEmpty
    <3>6. QED
      BY <1>2, <1>3, <1>7, <3>4, <3>5 DEF Takes
  <2>3. /\ 3 \in Nat \ {0} /\ 3 <= n /\ Len(val) + 3 \in 3 + 1 .. n + 1
        /\ (Len(val) + 3) - 1 = Len(val) + 2
        /\ (Len(val) + 3) + 1 = Len(val) + 4
    BY <1>5, <1>7, <2>2, PutFacts
  <2>4. Free(text, 3, (Len(val) + 3) - 1, "&")
    BY <2>1, <2>3 DEF Free
  <2>5. Takes(text, 3, n, Len(val) + 3, "&")
    BY <1>1, <1>5, <2>3, <2>4, StrtokTakes
  <2>6. SubSeq(text, 3, Len(val) + 2) = val
    <3>1. /\ 2 + 1 = 3 /\ 2 + Len(val) = Len(val) + 2
          /\ 2 + Len(val) <= Len(text) /\ 2 \in Nat
      BY <1>1, PutFacts
    <3>2. SubSeq(text, 2 + 1, 2 + Len(val)) = SubSeq(val, 1, Len(val))
      BY <1>1, <3>1, PutFacts, SliceMoved
    <3>3. SubSeq(val, 1, Len(val)) = val
      BY PutFacts, SubSeqFull
    <3>4. QED
      BY <3>1, <3>2, <3>3
  <2>7. QED
    BY <1>2, <1>3, <2>3, <2>5, <2>6 DEF Takes
<1>8. ASSUME n >= 3, val = << >>
      PROVE  FromTail(rest)'
  <2> DEFINE e == Len(key) + 5
  <2>1. /\ Len(val) = 0 /\ e \in Nat /\ e = Len(val) + Len(key) + 5
        /\ Len(val) + 3 = 3 /\ Len(val) + 4 = 4 /\ Len(val) + 5 = 5
    BY <1>8, PutFacts
  <2>2. /\ text[3] = "&" /\ text[4] = "name" /\ text[5] = "="
        /\ \A i \in 1 .. Len(key) : text[5 + i] = key[i]
    BY <1>1, <2>1
  <2>3. ASSUME NEW i \in 3 + 1 .. e
        PROVE  text[i] # "&"
    <3>1. CASE i = 4 \/ i = 5
      BY <2>2, <3>1, PutFacts
    <3>2. CASE i > 5
      <4>1. i - 5 \in 1 .. Len(key) /\ 5 + (i - 5) = i
        BY <3>2, PutFacts
      <4>2. text[5 + (i - 5)] = key[i - 5]
        BY <2>2, <4>1
      <4>3. QED
        BY <4>1, <4>2, PutFacts
    <3>3. QED
      BY <2>1, <3>1, <3>2
  <2>4. 3 \in Nat \ {0} /\ 3 <= n
    BY <1>8
  <2>5. CASE n <= e
    <3>1. Free(text, 3 + 1, (n + 1) - 1, "&")
      BY <1>5, <2>1, <2>3, <2>5 DEF Free
    <3>2. n + 1 \in 3 + 1 .. n + 1 /\ ~(n + 1 <= n)
      BY <1>5, <2>4
    <3>3. Skips(text, 3, n, n + 1, "&")
      BY <1>1, <1>5, <2>2, <2>4, <3>1, <3>2, StrtokSkips
    <3>4. SubSeq(text, (n + 1) + 1, n) = << >>
      BY <1>5, SubSeqEmpty
    <3>5. FromTail(rest')
      BY <1>2, <1>3, <3>3, <3>4, NothingOfTail DEF Skips
    <3>6. QED
      BY <1>4, <3>5 DEF FromTail
  <2>6. CASE n > e
    <3>1. Len(tail) > 0 /\ tail[1] = "&"
      <4>1. tail # << >>
        <5>1. SUFFICES ASSUME tail = << >> PROVE FALSE
          OBVIOUS
        <5>2. Len(tail) = 0
          BY <5>1
        <5>3. QED
          BY <1>1, <1>5, <2>1, <2>6, <5>2, PutFacts
      <4>2. QED
        BY <4>1, PutFacts
    <3>2. text[e + 1] = "&"
      <4>1. 1 \in 1 .. Len(tail)
        BY <3>1, PutFacts
      <4>2. text[Len(val) + Len(key) + 5 + 1] = tail[1]
        BY <1>1, <4>1
      <4>3. QED
        BY <2>1, <3>1, <4>2
    <3>3. /\ e + 1 \in 3 + 1 .. n + 1 /\ (e + 1) - 1 = e /\ e + 1 # 3 + 1
          /\ (e + 1) + 1 \in Nat /\ (e + 1) + 1 > Len(val) + Len(key) + 5
      BY <1>5, <2>1, <2>6, PutFacts
    <3>4. Free(text, 3 + 1, (e + 1) - 1, "&")
      BY <2>3, <3>3 DEF Free
    <3> HIDE DEF e
    <3>5. Skips(text, 3, n, e + 1, "&")
      BY <1>1, <1>5, <2>2, <2>4, <3>2, <3>3, <3>4, StrtokSkips
    <3>6. FromTail(SubSeq(text, (e + 1) + 1, n))
      BY <1>5, <3>3, RestOfBody DEF text
    <3>7. FromTail(rest')
      BY <1>2, <1>3, <3>5, <3>6 DEF Skips
    <3>8. QED
      BY <1>4, <3>7 DEF FromTail
  <2>7. QED
    BY <1>5, <2>1, <2>5, <2>6
<1>9. CASE n >= 3
  BY <1>3, <1>4, <1>7, <1>8, <1>9 DEF PutReads, text
<1>10. QED
  BY <1>5, <1>6, <1>9

(* strtok(NULL, "=") takes the name of the key. *)
LEMMA PutCall3 ==
  ASSUME TypeOK, Next, job = "put", Len(toks) = 2,
         NEW n \in 0 .. Len(Body(val, key, tail)), PutReads(n)
  PROVE  PutReads(n)'
<1> DEFINE text == Body(val, key, tail)
<1>1. /\ text \in Seq(Symbol)
      /\ Len(text) = Len(val) + Len(key) + Len(tail) + 5
      /\ text[Len(val) + 4] = "name" /\ text[Len(val) + 5] = "="
      /\ \A i \in 1 .. Len(key) : text[Len(val) + 5 + i] = key[i]
      /\ \A i \in 1 .. Len(tail) : text[Len(val) + Len(key) + 5 + i] = tail[i]
  <2>1. Places(text, val, key, tail)
    BY PutFacts, BodyPlaces
  <2>2. QED
    BY <2>1 DEF Places
<1>2. /\ val # << >> /\ rest # << >>
           => toks[2] = val /\ rest = SubSeq(text, Len(val) + 4, n)
      /\ val = << >> => FromTail(rest)
  BY DEF PutReads
<1>3. /\ rest' = Strtok(rest, "=").left /\ Len(toks') = 3
      /\ toks'[2] = toks[2]
  <2>1. Calls[job][Len(toks) + 1] = "=" /\ Len(toks) + 1 = 3
    BY DEF Calls
  <2>2. QED
    BY <2>1, CallStep
<1>4. val' = val /\ key' = key /\ tail' = tail
  BY DEF Next
<1>5. n \in Nat /\ n <= Len(text)
  BY <1>1, PutFacts
<1> HIDE DEF text
<1>6. rest = << >> => rest' = << >>
  BY <1>3, StrtokOfNothing
<1>7. ASSUME val # << >>, rest # << >>
      PROVE  rest' = SubSeq(text, Len(val) + 6, n)
  <2>1. n >= Len(val) + 4
    <3>1. SUFFICES ASSUME n < Len(val) + 4 PROVE FALSE
      BY <1>5, PutFacts
    <3>2. SubSeq(text, Len(val) + 4, n) = << >>
      BY <1>5, <3>1, PutFacts, SubSeqEmpty
    <3>3. QED
      BY <1>2, <1>7, <3>2
  <2>2. /\ Len(val) + 4 \in Nat \ {0} /\ Len(val) + 4 <= n
        /\ Len(val) + 5 \in (Len(val) + 4) + 1 .. n + 1
        /\ (Len(val) + 5) + 1 = Len(val) + 6
    BY <1>5, <2>1, PutFacts
  <2>3. Free(text, Len(val) + 4, (Len(val) + 5) - 1, "=")
    <3>1. ASSUME NEW i \in Len(val) + 4 .. (Len(val) + 5) - 1
          PROVE  text[i] # "="
      <4>1. i = Len(val) + 4
        BY PutFacts
      <4>2. QED
        BY <1>1, <4>1, PutFacts
    <3>2. QED
      BY <3>1 DEF Free
  <2>4. Takes(text, Len(val) + 4, n, Len(val) + 5, "=")
    BY <1>1, <1>5, <2>2, <2>3, StrtokTakes
  <2>5. QED
    BY <1>2, <1>3, <1>7, <2>2, <2>4 DEF Takes
<1>8. ASSUME << >> \in {val, key}
      PROVE  FromTail(rest)'
  <2>1. FromTail(rest')
    <3>1. CASE rest = << >>
      BY <1>6, <3>1, NothingOfTail
    <3>2. CASE val = << >>
      BY <1>2, <1>3, <3>2, StrtokOfTail
    <3>3. CASE val # << >> /\ rest # << >>
      <4>1. key = << >>
        BY <1>8, <3>3
      <4>2. Len(key) = 0
        BY <4>1
      <4>3. Len(val) + 6 \in Nat /\ Len(val) + 6 > Len(val) + Len(key) + 5
        BY <4>2, PutFacts
      <4>4. FromTail(SubSeq(text, Len(val) + 6, n))
        BY <1>5, <4>3, RestOfBody DEF text
      <4>5. QED
        BY <1>7, <3>3, <4>4
    <3>4. QED
      BY <3>1, <3>2, <3>3
  <2>2. QED
    BY <1>4, <2>1 DEF FromTail
<1>9. QED
  BY <1>2, <1>3, <1>4, <1>6, <1>7, <1>8 DEF PutReads, text

(* strtok(NULL, "&") takes the key, or what there is of it. *)
LEMMA PutCall4 ==
  ASSUME TypeOK, Next, job = "put", Len(toks) = 3,
         NEW n \in 0 .. Len(Body(val, key, tail)), PutReads(n)
  PROVE  PutReads(n)'
<1> DEFINE text == Body(val, key, tail)
<1>1. /\ text \in Seq(Symbol)
      /\ Len(text) = Len(val) + Len(key) + Len(tail) + 5
      /\ text[Len(val) + 4] = "name" /\ text[Len(val) + 5] = "="
      /\ \A i \in 1 .. Len(key) : text[Len(val) + 5 + i] = key[i]
      /\ \A i \in 1 .. Len(tail) : text[Len(val) + Len(key) + 5 + i] = tail[i]
  <2>1. Places(text, val, key, tail)
    BY PutFacts, BodyPlaces
  <2>2. QED
    BY <2>1 DEF Places
<1>2. /\ val # << >> /\ rest # << >>
           => toks[2] = val /\ rest = SubSeq(text, Len(val) + 6, n)
      /\ << >> \in {val, key} => FromTail(rest)
  BY DEF PutReads
<1>3. /\ rest' = Strtok(rest, "&").left /\ Len(toks') = 4
      /\ toks'[2] = toks[2] /\ toks'[4] = Strtok(rest, "&").token
  <2>1. Calls[job][Len(toks) + 1] = "&" /\ Len(toks) + 1 = 4
    BY DEF Calls
  <2>2. QED
    BY <2>1, CallStep
<1>4. val' = val /\ key' = key /\ tail' = tail
  BY DEF Next
<1>5. n \in Nat /\ n <= Len(text)
  BY <1>1, PutFacts
<1> HIDE DEF text
<1>6. rest = << >> => toks'[4] = << >>
  BY <1>3, StrtokOfNothing
<1>7. ASSUME val # << >>, toks'[4] # << >>
      PROVE  /\ rest # << >> /\ toks'[2] = val
             /\ rest = SubSeq(text, Len(val) + 6, n)
  BY <1>2, <1>3, <1>6, <1>7
<1>8. ASSUME val # << >>, key # << >>, toks'[4] # << >>
      PROVE  /\ IsPrefix(toks'[4], key)
             /\ Len(val) + Len(key) + 5 <= n => toks'[4] = key
  <2> DEFINE a == Len(val) + 6
  <2>1. rest # << >> /\ rest = SubSeq(text, a, n)
    BY <1>7, <1>8
  <2>2. n >= a
    <3>1. SUFFICES ASSUME n < a PROVE FALSE
      BY <1>5, PutFacts
    <3>2. SubSeq(text, a, n) = << >>
      BY <1>5, <3>1, PutFacts, SubSeqEmpty
    <3>3. QED
      BY <2>1, <3>2
  <2>3. \E j \in 1 .. Len(key) :
          /\ a + j <= n + 1
          /\ a + j <= n => text[a + j] = "&"
          /\ Len(val) + Len(key) + 5 <= n => j = Len(key)
    <3>1. CASE n <= Len(val) + Len(key) + 5
      <4> DEFINE j == (n + 1) - a
      <4>1. j \in 1 .. Len(key) /\ a + j = n + 1
        BY <1>5, <2>2, <3>1, PutFacts
      <4>2. a + j <= n + 1 /\ ~(a + j <= n)
        BY <1>5, <4>1
      <4>3. ASSUME Len(val) + Len(key) + 5 <= n
            PROVE  j = Len(key)
        <5>1. Len(val) \in Nat /\ Len(key) \in Nat
          BY PutFacts
        <5>2. n = Len(val) + Len(key) + 5
          BY <1>5, <3>1, <4>3, <5>1
        <5>3. QED
          BY <5>1, <5>2
      <4> HIDE DEF j
      <4>4. QED
        BY <4>1, <4>2, <4>3
    <3>2. CASE n > Len(val) + Len(key) + 5
      <4>1. Len(tail) > 0 /\ tail[1] = "&"
        <5>1. tail # << >>
          <6>1. SUFFICES ASSUME tail = << >> PROVE FALSE
            OBVIOUS
          <6>2. Len(tail) = 0
            BY <6>1
          <6>3. QED
            BY <1>1, <1>5, <3>2, <6>2, PutFacts
        <5>2. QED
          BY <5>1, PutFacts
      <4>2. /\ 1 \in 1 .. Len(tail)
            /\ Len(val) + Len(key) + 5 + 1 = a + Len(key)
        BY <4>1, PutFacts
      <4>3. text[Len(val) + Len(key) + 5 + 1] = tail[1]
        BY <1>1, <4>2
      <4>4. text[a + Len(key)] = "&"
        BY <4>1, <4>2, <4>3
      <4>5. Len(key) \in 1 .. Len(key) /\ a + Len(key) <= n + 1
        BY <1>5, <1>8, <3>2, PutFacts
      <4>6. QED
        BY <4>4, <4>5
    <3>3. QED
      BY <1>5, <3>1, <3>2, PutFacts
  <2>4. PICK j \in 1 .. Len(key) :
          /\ a + j <= n + 1
          /\ a + j <= n => text[a + j] = "&"
          /\ Len(val) + Len(key) + 5 <= n => j = Len(key)
    BY <2>3
  <2>5. Free(text, a, (a + j) - 1, "&")
    <3>1. ASSUME NEW i \in a .. (a + j) - 1
          PROVE  text[i] # "&"
      <4>1. i - (Len(val) + 5) \in 1 .. Len(key)
            /\ Len(val) + 5 + (i - (Len(val) + 5)) = i
        BY PutFacts
      <4>2. text[Len(val) + 5 + (i - (Len(val) + 5))]
              = key[i - (Len(val) + 5)]
        BY <1>1, <4>1
      <4>3. QED
        BY <4>1, <4>2, PutFacts
    <3>2. QED
      BY <3>1 DEF Free
  <2>6. /\ a \in Nat \ {0} /\ a <= n /\ a + j \in a + 1 .. n + 1
    BY <1>5, <2>2, <2>4, PutFacts
  <2>7. Takes(text, a, n, a + j, "&")
    BY <1>1, <1>5, <2>4, <2>5, <2>6, StrtokTakes
  <2>8. toks'[4] = SubSeq(text, a, (a + j) - 1)
    BY <1>3, <2>1, <2>7 DEF Takes
  <2>9. SubSeq(text, a, (a + j) - 1) = SubSeq(key, 1, j)
    <3>1. /\ (Len(val) + 5) + 1 = a /\ (Len(val) + 5) + j = (a + j) - 1
          /\ Len(val) + 5 \in Nat /\ j \in Nat /\ j <= Len(key)
          /\ (Len(val) + 5) + j <= Len(text)
      BY <1>1, PutFacts
    <3>2. \A i \in 1 .. j : text[(Len(val) + 5) + i] = key[i]
      BY <1>1, PutFacts
    <3>3. SubSeq(text, (Len(val) + 5) + 1, (Len(val) + 5) + j)
            = SubSeq(key, 1, j)
      BY <1>1, <3>1, <3>2, PutFacts, SliceMoved
    <3>4. QED
      BY <3>1, <3>3
  <2>10. IsPrefix(SubSeq(key, 1, j), key)
    BY PutFacts, PrefixOf
  <2>11. SubSeq(key, 1, Len(key)) = key
    BY PutFacts, SubSeqFull
  <2>12. QED
    BY <2>4, <2>8, <2>9, <2>10, <2>11
<1>9. ASSUME << >> \in {val, key}
      PROVE  FromTail(toks[4])'
  <2>1. FromTail(toks'[4])
    BY <1>2, <1>3, <1>9, StrtokOfTail
  <2>2. QED
    BY <1>4, <2>1 DEF FromTail
<1>10. Len(Body(val, key, << >>)) = Len(val) + Len(key) + 5
  <2>1. << >> \in Seq(Symbol) /\ Len(<< >>) = 0
    OBVIOUS
  <2>2. Places(Body(val, key, << >>), val, key, << >>)
    BY <2>1, PutFacts, BodyPlaces
  <2>3. Len(Body(val, key, << >>)) = Len(val) + Len(key) + 0 + 5
    BY <2>1, <2>2 DEF Places
  <2>4. QED
    BY <2>3, PutFacts
<1>11. QED
  BY <1>3, <1>4, <1>7, <1>8, <1>9, <1>10 DEF PutReads, text

(* strtok(path, "?") takes the name of the collection. *)
LEMMA GetCall1 ==
  ASSUME TypeOK, Next, job = "get", Len(toks) = 0,
         NEW n \in 0 .. Len(key), GetReads(n)
  PROVE  GetReads(n)'
<1> DEFINE text == RequestLine(key)
<1>1. /\ text \in Seq(Symbol) /\ Len(text) = Len(key) + 6
      /\ text[3] = "data" /\ text[4] = "?" /\ Len(key) \in Nat
  BY TextTypes, LinePlaces DEF TypeOK
<1>2. /\ rest = SubSeq(text, 3, n + 4)
      /\ \A i \in 1 .. n : key[i] # Blank
      /\ n < Len(key) => key[n + 1] = Blank
  BY DEF GetReads
<1>3. rest' = Strtok(rest, "?").left /\ Len(toks') = 1
  <2>1. Calls[job][Len(toks) + 1] = "?"
    BY DEF Calls
  <2>2. QED
    BY <2>1, CallStep
<1>4. key' = key
  BY DEF Next
<1> HIDE DEF text
<1>5. /\ 3 \in Nat \ {0} /\ n + 4 \in Nat /\ 3 <= n + 4
      /\ n + 4 <= Len(text) /\ 4 \in 3 + 1 .. (n + 4) + 1 /\ 4 + 1 = 5
  BY <1>1
<1>6. Free(text, 3, 4 - 1, "?") /\ text[4] = "?"
  <2>1. "data" # "?"
    OBVIOUS
  <2>2. QED
    BY <1>1, <2>1 DEF Free
<1>7. Takes(text, 3, n + 4, 4, "?")
  BY <1>1, <1>5, <1>6, StrtokTakes
<1>8. rest' = SubSeq(text, 5, n + 4)
  BY <1>2, <1>3, <1>5, <1>7 DEF Takes
<1>9. QED
  BY <1>2, <1>3, <1>4, <1>8 DEF GetReads, text

(* strtok(NULL, " ") takes the key. *)
LEMMA GetCall2 ==
  ASSUME TypeOK, Next, job = "get", Len(toks) = 1,
         NEW n \in 0 .. Len(key), GetReads(n)
  PROVE  GetReads(n)'
<1> DEFINE text == RequestLine(key)
<1>1. /\ text \in Seq(Symbol) /\ Len(text) = Len(key) + 6
      /\ key \in Seq(Symbol) /\ Len(key) \in Nat
      /\ \A i \in 1 .. Len(key) : text[4 + i] = key[i]
  BY TextTypes, LinePlaces DEF TypeOK
<1>2. /\ rest = SubSeq(text, 5, n + 4)
      /\ \A i \in 1 .. n : key[i] # Blank
      /\ n < Len(key) => key[n + 1] = Blank
  BY DEF GetReads
<1>3. toks'[2] = Strtok(rest, Blank).token /\ Len(toks') = 2
  <2>1. Calls[job][Len(toks) + 1] = Blank /\ Len(toks) + 1 = 2
    BY DEF Calls
  <2>2. QED
    BY <2>1, CallStep
<1>4. key' = key
  BY DEF Next
<1> HIDE DEF text
<1>5. Strtok(rest, Blank).token = SubSeq(key, 1, n)
  <2>1. CASE n = 0
    <3>1. SubSeq(text, 5, n + 4) = << >> /\ SubSeq(key, 1, n) = << >>
      BY <2>1, SubSeqEmpty
    <3>2. rest = << >>
      BY <1>2, <3>1
    <3>3. Strtok(rest, Blank).token = << >>
      BY <3>2, StrtokOfNothing
    <3>4. QED
      BY <3>1, <3>3
  <2>2. CASE n > 0
    <3>1. /\ 5 \in Nat \ {0} /\ n + 4 \in Nat /\ 5 <= n + 4
          /\ n + 4 <= Len(text) /\ n + 5 \in 5 + 1 .. (n + 4) + 1
          /\ ~(n + 5 <= n + 4) /\ (n + 5) - 1 = n + 4
      BY <1>1, <2>2
    <3>2. Free(text, 5, (n + 5) - 1, Blank)
      <4>1. ASSUME NEW i \in 5 .. (n + 5) - 1
            PROVE  text[i] # Blank
        <5>1. i - 4 \in 1 .. n /\ i - 4 \in 1 .. Len(key) /\ 4 + (i - 4) = i
          BY <1>1
        <5>2. text[4 + (i - 4)] = key[i - 4]
          BY <1>1, <5>1
        <5>3. QED
          BY <1>2, <5>1, <5>2
      <4>2. QED
        BY <4>1 DEF Free
    <3>3. Takes(text, 5, n + 4, n + 5, Blank)
      BY <1>1, <3>1, <3>2, StrtokTakes
    <3>4. SubSeq(text, 5, n + 4) = SubSeq(key, 1, n)
      <4>1. 4 + 1 = 5 /\ 4 + n = n + 4 /\ 4 \in Nat /\ n \in Nat
            /\ n <= Len(key) /\ 4 + n <= Len(text)
        BY <1>1
      <4>2. \A i \in 1 .. n : text[4 + i] = key[i]
        BY <1>1
      <4>3. SubSeq(text, 4 + 1, 4 + n) = SubSeq(key, 1, n)
        BY <1>1, <4>1, <4>2, SliceMoved
      <4>4. QED
        BY <4>1, <4>3
    <3>5. QED
      BY <1>2, <3>1, <3>3, <3>4 DEF Takes
  <2>3. QED
    BY <2>1, <2>2
<1>6. QED
  BY <1>2, <1>3, <1>4, <1>5 DEF GetReads

-----------------------------------------------------------------------------
(* The theorems. *)

LEMMA NextTextInv == TextInv /\ [Next]_textVars => TextInv'
<1>1. SUFFICES ASSUME TextInv, [Next]_textVars PROVE TextInv'
  OBVIOUS
<1>2. CASE UNCHANGED textVars
  <2>1. /\ job' = job /\ val' = val /\ key' = key /\ tail' = tail
        /\ arrived' = arrived /\ rest' = rest /\ toks' = toks
    BY <1>2 DEF textVars
  <2>2. TypeOK'
    BY <1>1, <2>1 DEF TextInv, TypeOK
  <2>3. (job = "put" => PutReads(arrived))'
    <3>1. job = "put" => PutReads(arrived)
      BY <1>1 DEF TextInv
    <3>2. QED
      BY <2>1, <3>1 DEF PutReads, FromTail
  <2>4. ASSUME job = "get"
        PROVE  \E n \in 0 .. Len(key) : GetReads(n)'
    <3>1. PICK n \in 0 .. Len(key) : GetReads(n)
      BY <1>1, <2>4 DEF TextInv
    <3>2. GetReads(n)'
      BY <2>1, <3>1 DEF GetReads
    <3>3. QED
      BY <3>2
  <2>5. QED
    BY <2>1, <2>2, <2>3, <2>4 DEF TextInv
<1>3. CASE Next
  <2>1. TypeOK
    BY <1>1 DEF TextInv
  <2>2. /\ TypeOK' /\ Len(toks) \in Nat /\ Len(toks) < Len(Calls[job])
        /\ job' = job /\ val' = val /\ key' = key /\ tail' = tail
        /\ arrived' = arrived
    <3>1. TypeOK' /\ Len(toks) \in Nat /\ Len(toks) < Len(Calls[job])
      BY <1>3, <2>1, CallStep
    <3>2. QED
      BY <1>3, <3>1 DEF Next
  <2>3. ASSUME job = "put"
        PROVE  PutReads(arrived)'
    <3>1. PICK n \in 0 .. Len(Body(val, key, tail)) : n = arrived /\ PutReads(n)
      BY <1>1, <2>1, <2>3 DEF TextInv, TypeOK
    <3>2. Len(Calls[job]) = 4
      BY <2>3 DEF Calls
    <3>3. Len(toks) = 0 \/ Len(toks) = 1 \/ Len(toks) = 2 \/ Len(toks) = 3
      <4>1. Len(toks) \in Nat /\ Len(toks) < 4
        BY <2>2, <3>2, Zenon
      <4>2. \A i \in Nat : i < 4 => i = 0 \/ i = 1 \/ i = 2 \/ i = 3
        OBVIOUS
      <4>3. QED
        BY <4>1, <4>2
    <3>4. PutReads(n)'
      BY <1>3, <2>1, <2>3, <3>1, <3>3, PutCall1, PutCall2, PutCall3, PutCall4
    <3>5. n = arrived'
      BY <2>2, <3>1
    <3>6. QED
      BY <3>4, <3>5 DEF PutReads
  <2>4. ASSUME job = "get"
        PROVE  \E n \in 0 .. Len(key) : GetReads(n)'
    <3>1. PICK n \in 0 .. Len(key) : GetReads(n)
      BY <1>1, <2>4 DEF TextInv
    <3>2. Len(toks) \in {0, 1}
      <4>1. Len(Calls[job]) = 2
        BY <2>4 DEF Calls
      <4>2. Len(toks) \in Nat /\ Len(toks) < 2
        BY <2>2, <4>1, Zenon
      <4>3. \A i \in Nat : i < 2 => i = 0 \/ i = 1
        OBVIOUS
      <4>4. QED
        BY <4>2, <4>3
    <3>3. QED
      BY <1>3, <2>1, <2>4, <3>1, <3>2, GetCall1, GetCall2
  <2>5. QED
    BY <2>2, <2>3, <2>4 DEF TextInv
<1>4. QED
  BY <1>1, <1>2, <1>3

(* Whatever the texts are and wherever a body is cut, the calls of strtok  *)
(* find the fields at the places that the value and the key fix.           *)
THEOREM TextInvariant == Spec => []TextInv
BY InitTextInv, NextTextInv, PTL DEF Spec

(* put stores the value that the client means, under its key when that has *)
(* arrived and else under a prefix of it: of bodies of every length that   *)
(* are cut anywhere, with "=" in both fields and with further fields       *)
(* behind them.                                                            *)
THEOREM ReadsFields == Spec => []FieldsRead
<1>1. TextInv => FieldsRead
  <2>1. SUFFICES ASSUME TextInv, Stores, val # << >>
                 PROVE  /\ Fields.val = val
                        /\ key # << >> =>
                             /\ IsPrefix(Fields.key, key)
                             /\ Len(Body(val, key, << >>)) <= arrived
                                  => Fields.key = key
    BY DEF FieldsRead
  <2>2. job = "put" /\ Len(toks) = 4 /\ toks[4] # << >>
    BY <2>1 DEF Stores, Done, Dies, Fields, Calls
  <2>3. PutReads(arrived)
    BY <2>1, <2>2 DEF TextInv
  <2>4. /\ toks[2] = val
        /\ key # << >> =>
             /\ IsPrefix(toks[4], key)
             /\ Len(Body(val, key, << >>)) <= arrived => toks[4] = key
    BY <2>1, <2>2, <2>3 DEF PutReads
  <2>5. QED
    BY <2>4 DEF Fields
<1>2. QED
  BY <1>1, TextInvariant, PTL

(* A body with an empty value or key is stored under a key from its        *)
(* further fields, or not at all.                                          *)
THEOREM EmptyReadsOn == Spec => []EmptyTakesNext
<1>1. TextInv => EmptyTakesNext
  <2>1. SUFFICES ASSUME TextInv, Stores, << >> \in {val, key}
                 PROVE  FromTail(Fields.key)
    BY DEF EmptyTakesNext
  <2>2. job = "put" /\ Len(toks) = 4
    BY <2>1 DEF Stores, Done, Calls
  <2>3. PutReads(arrived)
    BY <2>1, <2>2 DEF TextInv
  <2>4. FromTail(toks[4])
    BY <2>1, <2>2, <2>3 DEF PutReads
  <2>5. QED
    BY <2>4 DEF Fields
<1>2. QED
  BY <1>1, TextInvariant, PTL

(* get looks up what was typed before the first blank. *)
THEOREM KeysArrive == Spec => []KeyArrives
<1>1. TextInv => KeyArrives
  <2>1. SUFFICES ASSUME TextInv, job = "get", Done
                 PROVE  \E n \in 0 .. Len(key) :
                          /\ toks[2] = SubSeq(key, 1, n)
                          /\ ~Contains(toks[2], Blank)
                          /\ n < Len(key) => key[n + 1] = Blank
    BY DEF KeyArrives
  <2>2. Len(toks) = 2 /\ key \in Seq(Symbol)
    <3>1. Len(toks) = 2
      BY <2>1 DEF Done, Calls
    <3>2. QED
      BY <2>1, <3>1, TextTypes DEF TextInv, TypeOK
  <2>3. PICK n \in 0 .. Len(key) : GetReads(n)
    BY <2>1 DEF TextInv
  <2>4. /\ toks[2] = SubSeq(key, 1, n)
        /\ n < Len(key) => key[n + 1] = Blank
        /\ \A i \in 1 .. n : key[i] # Blank
    BY <2>2, <2>3 DEF GetReads
  <2>5. ~Contains(toks[2], Blank)
    <3> DEFINE s == SubSeq(key, 1, n)
    <3>1. /\ Len(s) = IF 1 <= n THEN n - 1 + 1 ELSE 0
          /\ \A i \in 1 .. n - 1 + 1 : s[i] = key[1 + i - 1]
      <4>1. 1 \in Nat \ {0} /\ n \in Int /\ n <= Len(key)
        BY <2>2, LenProperties
      <4>2. QED
        BY <2>2, <4>1, Slice
    <3> HIDE DEF s
    <3>2. ASSUME NEW i \in 1 .. Len(s)
          PROVE  s[i] # Blank
      <4>1. i \in 1 .. n /\ i \in 1 .. n - 1 + 1 /\ 1 + i - 1 = i
        BY <3>1
      <4>2. s[i] = key[1 + i - 1]
        BY <3>1, <4>1
      <4>3. QED
        BY <2>4, <4>1, <4>2
    <3>3. ~Contains(s, Blank)
      BY <3>2 DEF Contains
    <3>4. QED
      BY <2>4, <3>3 DEF s
  <2>6. QED
    BY <2>4, <2>5
<1>2. QED
  BY <1>1, TextInvariant, PTL
=============================================================================
