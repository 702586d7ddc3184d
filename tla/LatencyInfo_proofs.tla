------------------------- MODULE LatencyInfo_proofs -------------------------
(***************************************************************************)
(* Proofs about the parser of latency histograms, for every answer of a    *)
(* node in either format: any number of entries, thresholds and rates.     *)
(***************************************************************************)
EXTENDS LatencyInfo, SequenceTheorems, WellFoundedInduction, TLAPS

(* The tokens of an answer.                                                *)
Words ==
  Namespaces \cup Operations
    \cup {"batch-index", "open", "close", "dash", "colon", "semicolon", "comma", "e", "msec", "time",
          "rror-no-data-yet-or-back-too-small", "number", "threshold"}

Token == Words \X Nat

(* What an answer is made of.                                              *)
EntryValues(v) ==
  /\ v \in Seq(Nat) /\ Len(v) >= 2
  /\ \A i \in 2 .. Len(v) : v[i] \in Nat /\ v[i] <= Whole
  /\ \A i \in 2 .. Len(v) - 1 : v[i] >= v[i + 1]

Known(e) ==
  \/ e.kind = "data" /\ e.name \in Names /\ EntryValues(e.values)
  \/ e.kind = "empty" /\ e.name \in Names
  \/ e.kind = "error"

Given ==
  /\ format \in Formats /\ latencyBucketsCount \in BucketCounts
  /\ terminated \in BOOLEAN
  /\ Len(response) \in Nat /\ DOMAIN response = 1 .. Len(response)
  /\ \A i \in 1 .. Len(response) : Known(response[i])

LEMMA Constants ==
  /\ \A r \in Rates : r \in Nat
  /\ MaxEntries \in Nat /\ MaxBuckets \in Nat /\ MaxBuckets >= 1
  /\ \A c \in BucketCounts : c \in Nat
<1>1. \A r \in Rates : r \in Nat
  BY LatencyAssumption DEF LatencyAssumption
<1>2. MaxEntries \in Nat /\ MaxBuckets \in Nat /\ MaxBuckets >= 1
  BY LatencyAssumption DEF LatencyAssumption
<1>3. \A c \in BucketCounts : c \in Nat
  BY LatencyAssumption DEF LatencyAssumption
<1> QED
  BY <1>1, <1>2, <1>3

LEMMA WholeNat == Whole \in Nat
  BY DEF Whole

LEMMA PercentsFit == \A p \in Percents : p \in Nat /\ p <= Whole
<1>1. Percents \subseteq 0 .. Whole
  BY LatencyAssumption DEF LatencyAssumption
<1> QED
  BY <1>1, WholeNat

LEMMA NamesFit == (Namespaces \cup Operations) \cap {"none", "close", "colon"} = {}
  BY LatencyAssumption DEF LatencyAssumption

LEMMA NoneApart == None \notin [labels : Seq(Nat), values : Seq(Int)]
  BY LatencyAssumption DEF LatencyAssumption

LEMMA ValuesKnown == ASSUME NEW v \in Values PROVE EntryValues(v)
<1>1. PICK r \in Rates, q \in Falling : v = <<r>> \o q
  BY DEF Values
<1>2. /\ q \in UNION {[1 .. n -> Percents] : n \in 1 .. MaxBuckets}
      /\ \A i \in 1 .. Len(q) - 1 : q[i] >= q[i + 1]
  BY DEF Falling
<1>3. PICK n \in 1 .. MaxBuckets : q \in [1 .. n -> Percents]
  BY <1>2
<1>5. r \in Nat /\ n \in Nat /\ n >= 1
  BY Constants
<1>11. \A i \in 1 .. n : q[i] \in Nat /\ q[i] <= Whole
  BY <1>3, PercentsFit
<1>6. q \in Seq(Nat) /\ Len(q) = n
  BY <1>3, <1>5, <1>11
<1>7. v \in Seq(Nat) /\ Len(v) = n + 1
  BY <1>1, <1>5, <1>6, <1>11
<1>8. \A i \in 2 .. n + 1 : v[i] = q[i - 1]
  BY <1>1, <1>5, <1>6, <1>11
<1>9. \A i \in 2 .. Len(v) - 1 : v[i] >= v[i + 1]
  <2> TAKE i \in 2 .. Len(v) - 1
  <2>1. i - 1 \in 1 .. Len(q) - 1 /\ (i - 1) + 1 = i /\ (i + 1) - 1 = i
    BY <1>5, <1>6, <1>7
  <2>2. q[i - 1] >= q[i]
    BY <1>2, <2>1
  <2> QED
    BY <1>5, <1>7, <1>8, <1>11, <2>1, <2>2
<1>10. \A i \in 2 .. Len(v) : v[i] \in Nat /\ v[i] <= Whole
  <2> TAKE i \in 2 .. Len(v)
  <2>1. i - 1 \in 1 .. n /\ i \in 2 .. n + 1
    BY <1>5, <1>7
  <2> QED
    BY <1>8, <1>11, <2>1
<1> QED
  BY <1>5, <1>7, <1>9, <1>10 DEF EntryValues

LEMMA ResponseKnown ==
  ASSUME response \in Responses, format \in Formats,
         latencyBucketsCount \in BucketCounts, terminated \in BOOLEAN
  PROVE  Given
<1>1. PICK n \in 0 .. MaxEntries : response \in [1 .. n -> Entry]
  BY DEF Responses
<1>2. n \in Nat /\ Len(response) = n /\ DOMAIN response = 1 .. n
  BY <1>1, Constants
<1>3. ASSUME NEW i \in 1 .. n PROVE Known(response[i])
  <2>1. response[i] \in Entry
    BY <1>1
  <2> QED
    BY <2>1, ValuesKnown DEF Entry, Known
<1> QED
  BY <1>2, <1>3 DEF Given

-----------------------------------------------------------------------------
(* Induction and recursion over the natural numbers, as in                *)
(* ConfigInit_proofs.                                                      *)
LEMMA LeastNat ==
  ASSUME NEW T, T \subseteq Nat, T # {}
  PROVE  \E n \in T : \A m \in T : n <= m
<1> DEFINE Less == {p \in Nat \X Nat : p[1] < p[2]}
<1>1. IsWellFoundedOn(Less, Nat)
  BY NatLessThanWellFounded DEF OpToRel
<1>2. PICK n \in T : \A m \in T : <<m, n>> \notin Less
  <2> HIDE DEF Less
  <2> QED
    BY <1>1, WFMin
<1>3. ASSUME NEW m \in T PROVE n <= m
  <2>1. m \in Nat /\ n \in Nat
    OBVIOUS
  <2>2. ~(m < n)
    <3> SUFFICES ASSUME m < n PROVE <<m, n>> \in Less
      BY <1>2
    <3> QED
      BY <2>1
  <2> QED
    BY <2>1, <2>2
<1> QED
  BY <1>3

(* Induction, over a set.                                                  *)
LEMMA NatSet ==
  ASSUME NEW T, 0 \in T, \A n \in Nat : n \in T => n + 1 \in T
  PROVE  Nat \subseteq T
<1> SUFFICES ASSUME Nat \ T # {} PROVE FALSE
  OBVIOUS
<1>1. PICK n \in Nat \ T : \A m \in Nat \ T : n <= m
  BY LeastNat
<1>2. n # 0 /\ n - 1 \in Nat /\ n - 1 < n
  BY <1>1
<1>3. n - 1 \in T
  BY <1>1, <1>2
<1> QED
  BY <1>1, <1>2, <1>3

(* There is a function for every definition that goes step by step.        *)
Runs(S, c, step, k) ==
  {f \in [0 .. k -> S] : f[0] = c /\ \A i \in 1 .. k : f[i] = step[<<f[i - 1], i>>]}

LEMMA Recursion ==
  ASSUME NEW S, NEW c \in S, NEW step \in [S \X Nat -> S], NEW k \in Nat
  PROVE  Runs(S, c, step, k) # {}
<1> DEFINE Is(f, n) == f[0] = c /\ \A i \in 1 .. n : f[i] = step[<<f[i - 1], i>>]
           T == {n \in Nat : \E f \in [0 .. n -> S] : Is(f, n)}
<1>1. 0 \in T
  <2>1. [i \in 0 .. 0 |-> c] \in [0 .. 0 -> S] /\ Is([i \in 0 .. 0 |-> c], 0)
    OBVIOUS
  <2> QED
    BY <2>1
<1>2. ASSUME NEW n \in Nat, n \in T PROVE n + 1 \in T
  <2>1. PICK f \in [0 .. n -> S] : Is(f, n)
    BY <1>2
  <2> DEFINE g == [i \in 0 .. n + 1 |-> IF i = n + 1 THEN step[<<f[n], n + 1>>] ELSE f[i]]
  <2>2. g \in [0 .. n + 1 -> S]
    <3>1. <<f[n], n + 1>> \in S \X Nat
      OBVIOUS
    <3> QED
      BY <3>1
  <2>3. g[0] = c /\ g[n] = f[n] /\ g[n + 1] = step[<<f[n], n + 1>>]
    BY <2>1, 0 # n + 1, n # n + 1
  <2>4. \A i \in 1 .. n : g[i] = f[i] /\ g[i - 1] = f[i - 1]
    OBVIOUS
  <2>5. Is(g, n + 1)
    <3> SUFFICES ASSUME NEW i \in 1 .. n + 1 PROVE g[i] = step[<<g[i - 1], i>>]
      BY <2>3
    <3> HIDE DEF g
    <3>1. CASE i = n + 1
      BY <2>3, <3>1, (n + 1) - 1 = n
    <3>2. CASE i \in 1 .. n
      BY <2>1, <2>4, <3>2
    <3> QED
      BY <3>1, <3>2
  <2> QED
    BY <2>2, <2>5, n + 1 \in Nat
<1> HIDE DEF T
<1>3. k \in T
  BY <1>1, <1>2, NatSet
<1> QED
  BY <1>3 DEF T, Runs

-----------------------------------------------------------------------------
(* Reading up to a delimiter gives what is before it and after it, reading *)
(* on without one gives everything, short of a digit.                      *)
LEMMA MinIs ==
  ASSUME NEW S, NEW n \in S, S \subseteq Nat, \A m \in S : n <= m
  PROVE  Min(S) = n
<1>1. n \in S /\ \A m \in S : n <= m
  OBVIOUS
<1>2. Min(S) \in S /\ \A m \in S : Min(S) <= m
  BY <1>1, Zenon DEF Min
<1>3. n \in Nat /\ Min(S) \in Nat /\ n <= Min(S) /\ Min(S) <= n
  BY <1>1, <1>2
<1> QED
  BY <1>3

(* What comes before and after an element, by index.                       *)
LEMMA Around ==
  ASSUME NEW S, NEW a \in Seq(S), NEW b \in Seq(S), NEW d \in S, NEW s,
         s = a \o (<<d>> \o b)
  PROVE  /\ s \in Seq(S) /\ Len(a) \in Nat /\ Len(b) \in Nat
         /\ Len(s) = Len(a) + 1 + Len(b) /\ DOMAIN s = 1 .. Len(s)
         /\ \A i \in 1 .. Len(a) : s[i] = a[i]
         /\ s[Len(a) + 1] = d
         /\ \A i \in 1 .. Len(b) : s[Len(a) + 1 + i] = b[i]
         /\ SubSeq(s, 1, Len(a)) = a
         /\ SubSeq(s, Len(a) + 2, Len(s)) = b
<1>1. <<d>> \in Seq(S) /\ Len(<<d>>) = 1 /\ <<d>>[1] = d
  OBVIOUS
<1> DEFINE c == <<d>> \o b
<1>2. /\ c \in Seq(S) /\ Len(c) = 1 + Len(b) /\ c[1] = d
      /\ \A i \in 1 .. Len(b) : c[1 + i] = b[i]
  <2>1. Len(b) \in Nat
    OBVIOUS
  <2>2. /\ c \in Seq(S) /\ Len(c) = 1 + Len(b)
        /\ \A i \in 1 .. 1 + Len(b) : c[i] = IF i <= 1 THEN <<d>>[i] ELSE b[i - 1]
    BY <1>1, ConcatProperties
  <2> HIDE DEF c
  <2>3. ASSUME NEW i \in 1 .. Len(b) PROVE c[1 + i] = b[i]
    BY <2>1, <2>2, 1 + i \in 1 .. 1 + Len(b), ~(1 + i <= 1), (1 + i) - 1 = i
  <2> QED
    BY <1>1, <2>1, <2>2, <2>3
<1> HIDE DEF c
<1>3. Len(a) \in Nat /\ Len(b) \in Nat
  OBVIOUS
<1>4. s = a \o c
  BY DEF c
<1>5. /\ s \in Seq(S) /\ Len(s) = Len(a) + Len(c)
      /\ \A i \in 1 .. Len(a) + Len(c) :
           s[i] = IF i <= Len(a) THEN a[i] ELSE c[i - Len(a)]
  BY <1>2, <1>4, ConcatProperties, SMTT(60)
<1>6. \A i \in 1 .. Len(a) : s[i] = a[i]
  BY <1>2, <1>3, <1>5
<1>7. s[Len(a) + 1] = d
  <2>1. Len(a) + 1 \in 1 .. Len(a) + Len(c) /\ ~(Len(a) + 1 <= Len(a))
        /\ (Len(a) + 1) - Len(a) = 1
    BY <1>2, <1>3
  <2> QED
    BY <1>2, <1>5, <2>1
<1>8. ASSUME NEW i \in 1 .. Len(b) PROVE s[Len(a) + 1 + i] = b[i]
  <2>1. /\ Len(a) + 1 + i \in 1 .. Len(a) + Len(c) /\ ~(Len(a) + 1 + i <= Len(a))
        /\ (Len(a) + 1 + i) - Len(a) = 1 + i
    BY <1>2, <1>3
  <2> QED
    BY <1>2, <1>5, <2>1
<1>9. SubSeq(s, 1, Len(a)) = a
  <2>1. /\ SubSeq(s, 1, Len(a)) \in Seq(S) /\ Len(SubSeq(s, 1, Len(a))) = Len(a)
        /\ \A i \in 1 .. Len(a) : SubSeq(s, 1, Len(a))[i] = s[i]
    BY <1>2, <1>3, <1>5
  <2> QED
    BY <1>6, <2>1, SeqEqual
<1>10. SubSeq(s, Len(a) + 2, Len(s)) = b
  <2> DEFINE t == SubSeq(s, Len(a) + 2, Len(s))
  <2>1. \A i \in Len(a) + 2 .. Len(s) : s[i] \in S
    BY <1>3, <1>5
  <2>2. /\ t \in Seq(S)
        /\ Len(t) = IF Len(a) + 2 <= Len(s) THEN Len(s) - (Len(a) + 2) + 1 ELSE 0
        /\ \A i \in 1 .. Len(s) - (Len(a) + 2) + 1 : t[i] = s[Len(a) + 2 + i - 1]
    <3>1. Len(a) + 2 \in Int /\ Len(s) \in Int
      BY <1>3, <1>5, <1>2
    <3> QED
      BY <2>1, <3>1, SubSeqProperties
  <2> HIDE DEF t
  <2>3. Len(t) = Len(b) /\ Len(s) - (Len(a) + 2) + 1 = Len(b)
    BY <1>2, <1>3, <1>5, <2>2
  <2>4. ASSUME NEW i \in 1 .. Len(t) PROVE t[i] = b[i]
    BY <1>3, <1>8, <2>2, <2>3, Len(a) + 2 + i - 1 = Len(a) + 1 + i
  <2>5. t = b
    BY <2>2, <2>3, <2>4, SeqEqual
  <2> QED
    BY <2>5 DEF t
<1>11. DOMAIN s = 1 .. Len(s) /\ Len(s) = Len(a) + 1 + Len(b)
  BY <1>2, <1>3, <1>5
<1> QED
  BY <1>3, <1>5, <1>6, <1>7, <1>8, <1>9, <1>10, <1>11

LEMMA ReadToDelim ==
  ASSUME NEW S, NEW a \in Seq(S), NEW b \in Seq(S), NEW delim, Text(delim) \in S,
         \A i \in 1 .. Len(a) : a[i] # Text(delim),
         NEW s, s = a \o (<<Text(delim)>> \o b)
  PROVE  ReadUntil(s, delim) = [text |-> a, eof |-> FALSE, rest |-> b]
<1> DEFINE d == Text(delim)
           n == Len(a) + 1
           at == {i \in DOMAIN s : s[i] = d}
<1> HIDE DEF d
<1>1. /\ s \in Seq(S) /\ Len(a) \in Nat /\ Len(b) \in Nat
      /\ Len(s) = n + Len(b) /\ DOMAIN s = 1 .. Len(s)
      /\ \A i \in 1 .. Len(a) : s[i] = a[i]
      /\ s[n] = d
      /\ SubSeq(s, 1, n - 1) = a
      /\ SubSeq(s, n + 1, Len(s)) = b
  <2>1. d \in S /\ s = a \o (<<d>> \o b)
    BY DEF d
  <2>2. Len(a) \in Nat
    OBVIOUS
  <2> QED
    BY <2>1, <2>2, Around, n - 1 = Len(a), n + 1 = Len(a) + 2
<1>2. Min(at) = n /\ at # {}
  <2>1. \A i \in at : n <= i
    BY <1>1 DEF d
  <2>2. n \in at /\ at \subseteq Nat
    BY <1>1
  <2> HIDE DEF at
  <2> QED
    BY <2>1, <2>2, MinIs
<1>3. ReadUntil(s, delim) = [text |-> SubSeq(s, 1, Min(at) - 1), eof |-> FALSE,
                             rest |-> SubSeq(s, Min(at) + 1, Len(s))]
  BY <1>2 DEF ReadUntil, d
<1> HIDE DEF n, at
<1> QED
  BY <1>1, <1>2, <1>3

LEMMA ReadToEnd ==
  ASSUME NEW S, NEW a \in Seq(S), NEW delim,
         \A i \in 1 .. Len(a) : a[i] # Text(delim)
  PROVE  ReadUntil(a, delim) =
           [text |-> [i \in 1 .. Len(a) |-> IF i = Len(a) THEN Shortened(a[i]) ELSE a[i]],
            eof |-> TRUE, rest |-> <<>>]
<1>1. DOMAIN a = 1 .. Len(a) /\ {i \in DOMAIN a : a[i] = Text(delim)} = {}
  OBVIOUS
<1> QED
  BY <1>1, Zenon DEF ReadUntil

-----------------------------------------------------------------------------
(* What an entry is made of.                                               *)

LEMMA TextToken ==
  /\ \A w \in Words : Text(w) \in Token
  /\ \A n \in Nat : Number(n) \in Token /\ <<"threshold", n>> \in Token
<1>1. "number" \in Words /\ "threshold" \in Words
  BY DEF Words
<1> QED
  BY <1>1 DEF Text, Number, Token

(* A list alternates with commas, and its fields are its elements.         *)
LEMMA ListedIs ==
  ASSUME NEW S, NEW s \in Seq(S), Len(s) >= 1, Text("comma") \in S
  PROVE  /\ Listed(s) \in Seq(S) /\ Len(Listed(s)) = 2 * Len(s) - 1
         /\ \A i \in 1 .. 2 * Len(s) - 1 :
              Listed(s)[i] = Text("comma") \/ \E j \in 1 .. Len(s) : Listed(s)[i] = s[j]
         /\ \A i \in 1 .. Len(s) : Listed(s)[2 * i - 1] = s[i]
<1> DEFINE n == Len(s)
<1>1. n \in Nat /\ n >= 1 /\ \A i \in 1 .. n : s[i] \in S
  OBVIOUS
<1> HIDE DEF n
<1>2. Listed(s) = [i \in 1 .. 2 * n - 1 |->
                     IF i % 2 = 1 THEN s[(i + 1) \div 2] ELSE Text("comma")]
  BY DEF Listed, n
<1>3. ASSUME NEW i \in 1 .. 2 * n - 1, i % 2 = 1 PROVE (i + 1) \div 2 \in 1 .. n
  BY <1>1, <1>3
<1>4. ASSUME NEW i \in 1 .. 2 * n - 1
      PROVE  /\ Listed(s)[i] \in S
             /\ Listed(s)[i] = Text("comma") \/ \E j \in 1 .. n : Listed(s)[i] = s[j]
  <2>1. CASE i % 2 = 1
    BY <1>1, <1>2, <1>3, <2>1
  <2>2. CASE i % 2 # 1
    BY <1>2, <2>2
  <2> QED
    BY <2>1, <2>2
<1>5. ASSUME NEW i \in 1 .. n PROVE Listed(s)[2 * i - 1] = s[i]
  <2>1. /\ 2 * i - 1 \in 1 .. 2 * n - 1 /\ (2 * i - 1) % 2 = 1
        /\ ((2 * i - 1) + 1) \div 2 = i
    BY <1>1
  <2> QED
    BY <1>2, <2>1
<1>6. Listed(s) \in Seq(S) /\ Len(Listed(s)) = 2 * n - 1
  <2>1. 2 * n - 1 \in Nat
    BY <1>1
  <2>2. Listed(s) \in [1 .. 2 * n - 1 -> S]
    <3>1. DOMAIN Listed(s) = 1 .. 2 * n - 1
      BY <1>2
    <3>2. Listed(s) = [i \in 1 .. 2 * n - 1 |-> Listed(s)[i]]
      BY <1>2
    <3> QED
      BY <1>4, <3>2
  <2> QED
    BY <2>1, <2>2
<1> QED
  BY <1>4, <1>5, <1>6 DEF n

LEMMA FieldsIs ==
  ASSUME NEW S, NEW s \in Seq(S), Len(s) >= 1, NEW text, Len(text) = 2 * Len(s) - 1,
         \A i \in 1 .. Len(s) : text[2 * i - 1] = s[i]
  PROVE  Fields(text) = s
<1>1. Len(s) \in Nat /\ s = [i \in 1 .. Len(s) |-> s[i]]
  BY SMTT(60)
<1>2. (Len(text) + 1) \div 2 = Len(s)
  <2>1. \A n \in Nat : ((2 * n - 1) + 1) \div 2 = n
    OBVIOUS
  <2> QED
    BY <1>1, <2>1, Zenon
<1>3. Fields(text) = [i \in 1 .. Len(s) |-> text[2 * i - 1]]
  BY <1>2 DEF Fields
<1> QED
  BY <1>1, <1>3, SMTT(60)

(* The numbers of an entry and its thresholds, between the commas.         *)
Numbered(e) == [i \in 1 .. Len(e.values) |-> Number(e.values[i])]
Indexed(e)  == [i \in 1 .. Len(e.values) |-> <<"threshold", i - 1>>]

LEMMA ListsIs ==
  ASSUME NEW e, EntryValues(e.values)
  PROVE  /\ Numbered(e) \in Seq(Token) /\ Len(Numbered(e)) = Len(e.values)
         /\ Indexed(e) \in Seq(Token) /\ Len(Indexed(e)) = Len(e.values)
         /\ Len(e.values) \in Nat /\ Len(e.values) >= 2
         /\ Numbers(e) = Listed(Numbered(e)) /\ Thresholds(e) = Listed(Indexed(e))
<1>1. Len(e.values) \in Nat /\ Len(e.values) >= 2 /\ DOMAIN e.values = 1 .. Len(e.values)
  BY DEF EntryValues
<1>2. \A i \in 1 .. Len(e.values) : e.values[i] \in Nat /\ i - 1 \in Nat
  BY <1>1, SMTT(60) DEF EntryValues
<1>3. \A i \in 1 .. Len(e.values) :
        Number(e.values[i]) \in Token /\ <<"threshold", i - 1>> \in Token
  BY <1>2, TextToken
<1>4. Numbered(e) \in Seq(Token) /\ Len(Numbered(e)) = Len(e.values)
  <2>1. Numbered(e) \in [1 .. Len(e.values) -> Token]
    BY <1>3 DEF Numbered
  <2> QED
    BY <1>1, <2>1
<1>5. Indexed(e) \in Seq(Token) /\ Len(Indexed(e)) = Len(e.values)
  BY <1>1, <1>3 DEF Indexed
<1>6. Numbers(e) = Listed(Numbered(e))
  BY <1>1, Zenon DEF Numbers, Numbered
<1>7. Thresholds(e) = Listed(Indexed(e))
  BY <1>1, Zenon DEF Thresholds, Indexed
<1> QED
  BY <1>1, <1>4, <1>5, <1>6, <1>7

(* The text t lists the elements of s.                                     *)
Lists(s, t) ==
  /\ t \in Seq(Token) /\ Len(t) = 2 * Len(s) - 1
  /\ \A i \in 1 .. Len(t) : t[i] = Text("comma") \/ \E j \in 1 .. Len(s) : t[i] = s[j]
  /\ Fields(t) = s

LEMMA ListedLists ==
  ASSUME NEW s \in Seq(Token), Len(s) >= 1
  PROVE  Lists(s, Listed(s))
<1> DEFINE t == Listed(s)
<1>1. Text("comma") \in Token
  BY TextToken DEF Words
<1>2. /\ t \in Seq(Token) /\ Len(t) = 2 * Len(s) - 1
      /\ \A i \in 1 .. 2 * Len(s) - 1 :
           t[i] = Text("comma") \/ \E j \in 1 .. Len(s) : t[i] = s[j]
      /\ \A i \in 1 .. Len(s) : t[2 * i - 1] = s[i]
  BY <1>1, ListedIs
<1> HIDE DEF t
<1>3. Fields(t) = s
  BY <1>2, FieldsIs
<1>4. Lists(s, t)
  BY <1>2, <1>3 DEF Lists
<1> QED
  BY <1>4 DEF t

(* No delimiter that ends a list is in it.                                 *)
LEMMA ListsRead ==
  ASSUME NEW e, EntryValues(e.values)
  PROVE  /\ Numbers(e) \in Seq(Token) /\ Thresholds(e) \in Seq(Token)
         /\ Len(Numbers(e)) = 2 * Len(e.values) - 1
         /\ \A i \in 1 .. Len(Numbers(e)) : Numbers(e)[i] # Text("semicolon")
         /\ \A i \in 1 .. Len(Thresholds(e)) : Thresholds(e)[i] # Text("semicolon")
         /\ Fields(Numbers(e)) = Numbered(e) /\ Fields(Thresholds(e)) = Indexed(e)
<1>1. /\ Numbered(e) \in Seq(Token) /\ Len(Numbered(e)) = Len(e.values)
      /\ Indexed(e) \in Seq(Token) /\ Len(Indexed(e)) = Len(e.values)
      /\ Len(e.values) >= 2 /\ Len(e.values) \in Nat
      /\ Numbers(e) = Listed(Numbered(e)) /\ Thresholds(e) = Listed(Indexed(e))
  BY ListsIs
<1>2. Len(Numbered(e)) >= 1 /\ Len(Indexed(e)) >= 1
  BY <1>1
<1>3. Lists(Numbered(e), Numbers(e)) /\ Lists(Indexed(e), Thresholds(e))
  BY <1>1, <1>2, ListedLists
<1>4. /\ \A j \in 1 .. Len(Numbered(e)) : Numbered(e)[j] # Text("semicolon")
      /\ \A j \in 1 .. Len(Indexed(e)) : Indexed(e)[j] # Text("semicolon")
      /\ Text("comma") # Text("semicolon")
  BY <1>1 DEF Numbered, Indexed, Number, Text
<1>5. /\ Numbers(e) \in Seq(Token) /\ Len(Numbers(e)) = 2 * Len(Numbered(e)) - 1
      /\ Fields(Numbers(e)) = Numbered(e)
      /\ \A i \in 1 .. Len(Numbers(e)) : Numbers(e)[i] # Text("semicolon")
  BY <1>3, <1>4 DEF Lists
<1>6. /\ Thresholds(e) \in Seq(Token) /\ Fields(Thresholds(e)) = Indexed(e)
      /\ \A i \in 1 .. Len(Thresholds(e)) : Thresholds(e)[i] # Text("semicolon")
  BY <1>3, <1>4 DEF Lists
<1> QED
  BY <1>1, <1>5, <1>6

(* The values of the last entry have lost a digit if nothing ends them.    *)
Shorter(s) == [i \in 1 .. Len(s) |-> IF i = Len(s) THEN Shortened(s[i]) ELSE s[i]]

LEMMA ShorterFields ==
  ASSUME NEW e, EntryValues(e.values)
  PROVE  Fields(Shorter(Numbers(e))) = Shorter(Numbered(e))
<1> DEFINE n == Len(e.values)
<1>1. /\ Numbered(e) \in Seq(Token) /\ Len(Numbered(e)) = n /\ n \in Nat /\ n >= 2
      /\ Numbers(e) = Listed(Numbered(e))
  BY ListsIs
<1>2. Text("comma") \in Token
  BY TextToken DEF Words
<1>3. /\ Len(Numbers(e)) = 2 * n - 1
      /\ \A i \in 1 .. n : Numbers(e)[2 * i - 1] = Numbered(e)[i]
  <2> HIDE DEF n
  <2>1. Len(Numbered(e)) >= 1
    BY <1>1
  <2>2. /\ Len(Listed(Numbered(e))) = 2 * Len(Numbered(e)) - 1
        /\ \A i \in 1 .. Len(Numbered(e)) : Listed(Numbered(e))[2 * i - 1] = Numbered(e)[i]
    BY <1>1, <1>2, <2>1, ListedIs
  <2> QED
    BY <1>1, <2>2
<1> HIDE DEF n
<1>4. Len(Shorter(Numbers(e))) = 2 * n - 1
  BY <1>1, <1>3 DEF Shorter
<1>5. (Len(Shorter(Numbers(e))) + 1) \div 2 = n
  BY <1>1, <1>4
<1>6. ASSUME NEW i \in 1 .. n PROVE Shorter(Numbers(e))[2 * i - 1] = Shorter(Numbered(e))[i]
  <2>1. 2 * i - 1 \in 1 .. 2 * n - 1 /\ (2 * i - 1 = 2 * n - 1 <=> i = n)
    BY <1>1
  <2> QED
    BY <1>1, <1>3, <2>1 DEF Shorter
<1>7. Shorter(Numbered(e)) = [i \in 1 .. n |-> Shorter(Numbered(e))[i]]
  BY <1>1 DEF Shorter
<1>8. Fields(Shorter(Numbers(e))) = [i \in 1 .. n |-> Shorter(Numbers(e))[2 * i - 1]]
  BY <1>5 DEF Fields
<1> QED
  BY <1>6, <1>7, <1>8

-----------------------------------------------------------------------------
(* The text that is left, entry by entry.                                  *)

(* A text from its first token on.                                         *)
LEMMA FirstOf ==
  ASSUME NEW S, NEW a \in S, NEW s \in Seq(S), NEW t \in Seq(S), NEW x \in Seq(S),
         Len(s) = 1 + Len(t), s[1] = a, \A i \in 1 .. Len(t) : s[1 + i] = t[i]
  PROVE  s \o x = <<a>> \o (t \o x)
<1>1. <<a>> \in Seq(S) /\ Len(<<a>>) = 1 /\ <<a>>[1] = a /\ Len(t) \in Nat
  OBVIOUS
<1> DEFINE u == <<a>> \o t
<1>2. /\ u \in Seq(S) /\ Len(u) = 1 + Len(t)
      /\ \A i \in 1 .. 1 + Len(t) : u[i] = IF i <= 1 THEN <<a>>[i] ELSE t[i - 1]
  BY <1>1, ConcatProperties
<1> HIDE DEF u
<1>3. ASSUME NEW i \in 1 .. Len(s) PROVE s[i] = u[i]
  <2>1. CASE i = 1
    BY <1>1, <1>2, <2>1
  <2>2. CASE i # 1
    <3>1. i - 1 \in 1 .. Len(t) /\ 1 + (i - 1) = i /\ ~(i <= 1) /\ i \in 1 .. 1 + Len(t)
      BY <1>1, <2>2
    <3>2. s[i] = t[i - 1]
      BY <3>1
    <3> QED
      BY <1>2, <3>1, <3>2
  <2> QED
    BY <2>1, <2>2
<1>4. s = u
  BY <1>2, <1>3, SeqEqual
<1> QED
  BY <1>1, <1>4, ConcatAssociative DEF u

LEMMA PairThen ==
  ASSUME NEW S, NEW a \in S, NEW b \in S, NEW x \in Seq(S)
  PROVE  <<a, b>> \o x = <<a>> \o (<<b>> \o x)
<1> DEFINE s == <<a, b>>
           t == <<b>>
<1>1. s \in Seq(S) /\ t \in Seq(S)
  OBVIOUS
<1>2. Len(s) = 1 + Len(t) /\ s[1] = a /\ \A i \in 1 .. Len(t) : s[1 + i] = t[i]
  OBVIOUS
<1> HIDE DEF s, t
<1>3. s \o x = <<a>> \o (t \o x)
  BY <1>1, <1>2, FirstOf
<1> QED
  BY <1>3, Zenon DEF s, t

LEMMA TripleThen ==
  ASSUME NEW S, NEW a \in S, NEW b \in S, NEW c \in S, NEW x \in Seq(S)
  PROVE  <<a, b, c>> \o x
           = <<a>> \o (<<b>> \o (<<c>> \o x))
<1> DEFINE t1 == <<a, b, c>>
           t2 == <<b, c>>
           t3 == <<c>>
<1>1. /\ t1 \in Seq(S) /\ t2 \in Seq(S) /\ Len(t1) = 1 + Len(t2) /\ t1[1] = a
      /\ \A i \in 1 .. Len(t2) : t1[1 + i] = t2[i]
  <2>1. \A i \in 1 .. 2 : i = 1 \/ i = 2
    OBVIOUS
  <2> QED
    BY <2>1
<1>2. /\ t2 \in Seq(S) /\ t3 \in Seq(S) /\ Len(t2) = 1 + Len(t3) /\ t2[1] = b
      /\ \A i \in 1 .. Len(t3) : t2[1 + i] = t3[i]
  OBVIOUS
<1> HIDE DEF t1, t2, t3
<1>3. t1 \o x = <<a>> \o (t2 \o x)
  BY <1>1, FirstOf
<1>4. t2 \o x = <<b>> \o (t3 \o x)
  BY <1>2, FirstOf
<1> QED
  BY <1>3, <1>4, Zenon DEF t1, t3

Six(a, b, c, d, e, f, x) == <<a, b, c, d, e, f>> \o x

OneByOne(a, b, c, d, e, f, x) ==
  <<a>> \o (<<b>> \o (<<c>> \o (<<d>> \o (<<e>> \o (<<f>> \o x)))))

LEMMA SixThen ==
  \A a, b, c, d, e, f \in Token, x \in Seq(Token) :
    Six(a, b, c, d, e, f, x) = OneByOne(a, b, c, d, e, f, x)
<1> TAKE a, b, c, d, e, f \in Token, x \in Seq(Token)
<1> DEFINE t1 == <<a, b, c, d, e, f>>
           t2 == <<b, c, d, e, f>>
           t3 == <<c, d, e, f>>
           t4 == <<d, e, f>>
           t5 == <<e, f>>
           t6 == <<f>>
<1>1. /\ t1 \in Seq(Token) /\ t2 \in Seq(Token) /\ Len(t1) = 1 + Len(t2) /\ t1[1] = a
      /\ \A i \in 1 .. Len(t2) : t1[1 + i] = t2[i]
  <2>1. \A i \in 1 .. 5 : i = 1 \/ i = 2 \/ i = 3 \/ i = 4 \/ i = 5
    OBVIOUS
  <2> QED
    BY <2>1
<1>2. /\ t2 \in Seq(Token) /\ t3 \in Seq(Token) /\ Len(t2) = 1 + Len(t3) /\ t2[1] = b
      /\ \A i \in 1 .. Len(t3) : t2[1 + i] = t3[i]
  <2>1. \A i \in 1 .. 4 : i = 1 \/ i = 2 \/ i = 3 \/ i = 4
    OBVIOUS
  <2> QED
    BY <2>1
<1>3. /\ t3 \in Seq(Token) /\ t4 \in Seq(Token) /\ Len(t3) = 1 + Len(t4) /\ t3[1] = c
      /\ \A i \in 1 .. Len(t4) : t3[1 + i] = t4[i]
  <2>1. \A i \in 1 .. 3 : i = 1 \/ i = 2 \/ i = 3
    OBVIOUS
  <2> QED
    BY <2>1
<1>4. /\ t4 \in Seq(Token) /\ t5 \in Seq(Token) /\ Len(t4) = 1 + Len(t5) /\ t4[1] = d
      /\ \A i \in 1 .. Len(t5) : t4[1 + i] = t5[i]
  <2>1. \A i \in 1 .. 2 : i = 1 \/ i = 2
    OBVIOUS
  <2> QED
    BY <2>1
<1>5. /\ t5 \in Seq(Token) /\ t6 \in Seq(Token) /\ Len(t5) = 1 + Len(t6) /\ t5[1] = e
      /\ \A i \in 1 .. Len(t6) : t5[1 + i] = t6[i]
  OBVIOUS
<1> HIDE DEF t1, t2, t3, t4, t5, t6
<1>6. t1 \o x = <<a>> \o (t2 \o x)
  BY <1>1, FirstOf, SMTT(60)
<1>7. t2 \o x = <<b>> \o (t3 \o x)
  BY <1>2, FirstOf, SMTT(60)
<1>8. t3 \o x = <<c>> \o (t4 \o x)
  BY <1>3, FirstOf, SMTT(60)
<1>9. t4 \o x = <<d>> \o (t5 \o x)
  BY <1>4, FirstOf, SMTT(60)
<1>10. t5 \o x = <<e>> \o (t6 \o x)
  BY <1>5, FirstOf, SMTT(60)
<1> QED
  BY <1>6, <1>7, <1>8, <1>9, <1>10, Zenon DEF t1, t6, Six, OneByOne

LEMMA EntryToken ==
  ASSUME NEW e, Known(e)
  PROVE  /\ e.kind # "error" => Body(e) \in Seq(Token) /\ Heading(e) \in Seq(Token)
         /\ Written(e) \in Seq(Token)
<1>1. \A w \in Words : Text(w) \in Token
  BY TextToken
<1>2. ASSUME e.kind # "error" PROVE Body(e) \in Seq(Token)
  <2>1. CASE e.kind = "empty"
    BY <2>1 DEF Body
  <2>2. CASE e.kind = "data"
    <3>1. EntryValues(e.values)
      BY <2>2 DEF Known
    <3>2. Numbers(e) \in Seq(Token) /\ Thresholds(e) \in Seq(Token)
      BY <3>1, ListsRead
    <3>3. /\ <<Text("msec"), Text("comma")>> \in Seq(Token)
          /\ <<Text("time"), Text("comma")>> \in Seq(Token)
          /\ <<Text("semicolon"), Text("time"), Text("comma")>> \in Seq(Token)
      <4>1. /\ Text("msec") \in Token /\ Text("comma") \in Token
            /\ Text("time") \in Token /\ Text("semicolon") \in Token
        BY <1>1 DEF Words
      <4> QED
        BY <4>1
    <3>4. <<Text("msec"), Text("comma")>> \o Numbers(e) \in Seq(Token)
      BY <3>2, <3>3, ConcatProperties
    <3>5. <<Text("semicolon"), Text("time"), Text("comma")>> \o Numbers(e) \in Seq(Token)
      BY <3>2, <3>3, ConcatProperties
    <3>6. Thresholds(e) \o (<<Text("semicolon"), Text("time"), Text("comma")>> \o Numbers(e))
            \in Seq(Token)
      BY <3>2, <3>5, ConcatProperties
    <3>7. <<Text("time"), Text("comma")>> \o (Thresholds(e)
             \o (<<Text("semicolon"), Text("time"), Text("comma")>> \o Numbers(e)))
            \in Seq(Token)
      BY <3>3, <3>6, ConcatProperties
    <3> QED
      BY <2>2, <3>4, <3>7, Zenon DEF Body
  <2> QED
    BY <1>2, <2>1, <2>2 DEF Known
<1>3. ASSUME e.kind # "error" PROVE Heading(e) \in Seq(Token)
  <2>1. e.name \in Names
    BY <1>3 DEF Known
  <2>2. CASE e.name[1] = "none"
    <3>1. Text("batch-index") \in Token /\ Text("colon") \in Token
      BY <1>1 DEF Words
    <3> QED
      BY <2>2, <3>1 DEF Heading
  <2>3. CASE e.name[1] # "none"
    <3>1. e.name[1] \in Words /\ e.name[2] \in Words
      BY <2>1, <2>3 DEF Names, Words
    <3>2. /\ Text(e.name[1]) \in Token /\ Text(e.name[2]) \in Token
          /\ Text("open") \in Token /\ Text("close") \in Token
          /\ Text("dash") \in Token /\ Text("colon") \in Token
      BY <1>1, <3>1 DEF Words
    <3> QED
      BY <2>3, <3>2 DEF Heading
  <2> QED
    BY <2>2, <2>3
<1>4. ASSUME e.kind = "error" PROVE Written(e) \in Seq(Token)
  <2>1. Text("e") \in Token /\ Text("rror-no-data-yet-or-back-too-small") \in Token
    BY <1>1 DEF Words
  <2> QED
    BY <1>4, <2>1 DEF Written
<1>5. ASSUME e.kind # "error" PROVE Written(e) \in Seq(Token)
  <2>1. Heading(e) \o Body(e) \in Seq(Token)
    BY <1>2, <1>3, <1>5, ConcatProperties
  <2> QED
    BY <1>5, <2>1 DEF Written
<1> QED
  BY <1>2, <1>3, <1>4, <1>5

LEMMA EndToken ==
  ASSUME NEW n
  PROVE  End(n) \in Seq(Token)
<1>1. Text("semicolon") \in Token
  BY TextToken DEF Words
<1> QED
  BY <1>1 DEF End

(* Rest is what its definition says: there is such a function.             *)
LEMMA RestIs ==
  ASSUME Given
  PROVE  /\ Rest[0] = <<>>
         /\ \A n \in 1 .. Len(response) :
              Rest[n] = Written(Nth(n)) \o (End(n) \o Rest[n - 1])
         /\ \A n \in 0 .. Len(response) : Rest[n] \in Seq(Token)
<1> DEFINE N == Len(response)
           S == Seq(Token)
           Before(n) == Written(Nth(n))
           Step(n, rest) == Before(n) \o (End(n) \o rest)
           Is(f) == f = [n \in 0 .. N |-> IF n = 0 THEN <<>> ELSE Step(n, f[n - 1])]
           step == [p \in S \X Nat |-> IF p[2] \in 1 .. N THEN Step(p[2], p[1]) ELSE p[1]]
<1>1. N \in Nat /\ <<>> \in S
  BY DEF Given
<1>2. \A n \in 1 .. N : Before(n) \in S /\ End(n) \in S
  <2> TAKE n \in 1 .. N
  <2>1. N - n + 1 \in 1 .. N
    BY <1>1
  <2>2. Known(Nth(n))
    BY <2>1 DEF Given, Nth
  <2> QED
    BY <2>2, EntryToken, EndToken
<1> HIDE DEF Before
<1>3. ASSUME NEW n \in 1 .. N, NEW rest \in S PROVE Step(n, rest) \in S
  <2>1. Before(n) \in S /\ End(n) \in S
    BY <1>2
  <2>2. End(n) \o rest \in S
    BY <2>1, ConcatProperties
  <2> QED
    BY <2>1, <2>2, ConcatProperties
<1> HIDE DEF Step
<1>4. step \in [S \X Nat -> S]
  <2> HIDE DEF S, N
  <2>1. ASSUME NEW p \in S \X Nat
        PROVE  (IF p[2] \in 1 .. N THEN Step(p[2], p[1]) ELSE p[1]) \in S
    BY <1>3
  <2> QED
    BY <2>1
<1>5. \E f : Is(f) /\ f \in [0 .. N -> S]
  <2> HIDE DEF N, S
  <2>1. PICK f \in [0 .. N -> S] : f[0] = <<>> /\ \A i \in 1 .. N : f[i] = step[<<f[i - 1], i>>]
    <3> HIDE DEF step
    <3>1. Runs(S, <<>>, step, N) # {}
      BY <1>1, <1>4, Recursion
    <3> QED
      BY <3>1 DEF Runs
  <2>2. ASSUME NEW i \in 1 .. N PROVE step[<<f[i - 1], i>>] = Step(i, f[i - 1])
    <3>1. <<f[i - 1], i>> \in S \X Nat
      BY <1>1
    <3> QED
      BY <3>1
  <2>3. Is(f)
    <3> HIDE DEF step
    <3>1. ASSUME NEW i \in 0 .. N PROVE f[i] = IF i = 0 THEN <<>> ELSE Step(i, f[i - 1])
      <4>1. CASE i = 0
        BY <2>1, <4>1
      <4>2. CASE i \in 1 .. N
        <5>1. f[i] = step[<<f[i - 1], i>>] /\ i # 0
          BY <2>1, <4>2, <1>1
        <5> QED
          BY <2>2, <4>2, <5>1, Zenon
      <4> QED
        BY <1>1, <4>1, <4>2
    <3>2. f = [i \in 0 .. N |-> f[i]]
      OBVIOUS
    <3>3. [i \in 0 .. N |-> f[i]] = [i \in 0 .. N |-> IF i = 0 THEN <<>> ELSE Step(i, f[i - 1])]
      BY <3>1, Zenon
    <3> QED
      BY <3>2, <3>3, Zenon
  <2> QED
    BY <2>3
<1>6. Rest = CHOOSE f : Is(f)
  BY Zenon DEF Rest, Step, Before
<1>7. Is(Rest)
  <2> HIDE DEF Is
  <2> QED
    BY <1>5, <1>6
<1>8. Rest[0] = <<>> /\ \A n \in 1 .. N : Rest[n] = Step(n, Rest[n - 1])
  BY <1>1, <1>7
<1> DEFINE T == {i \in Nat : i <= N => Rest[i] \in S}
<1>9. Nat \subseteq T
  <2> HIDE DEF N, S
  <2>1. 0 \in T
    BY <1>1, <1>8
  <2>2. ASSUME NEW i \in Nat, i \in T PROVE i + 1 \in T
    <3>1. CASE i + 1 <= N
      <4>1. i + 1 \in 1 .. N /\ (i + 1) - 1 = i /\ Rest[i] \in S
        BY <1>1, <2>2, <3>1
      <4>2. Rest[i + 1] = Step(i + 1, Rest[i])
        BY <1>8, <4>1
      <4> QED
        BY <1>3, <4>1, <4>2
    <3>2. CASE ~(i + 1 <= N)
      BY <3>2
    <3> QED
      BY <3>1, <3>2
  <2> HIDE DEF T
  <2> QED
    BY <2>1, <2>2, NatSet
<1>10. \A n \in 0 .. N : Rest[n] \in S
  BY <1>1, <1>9
<1> QED
  BY <1>8, <1>10 DEF Step, Before

-----------------------------------------------------------------------------
(* The steps of the parser, by what is left of the text.                   *)

LEMMA HeadTailOf ==
  ASSUME NEW S, NEW a \in S, NEW x \in Seq(S), NEW s, s = <<a>> \o x
  PROVE  s \in Seq(S) /\ s # <<>> /\ Head(s) = a /\ Tail(s) = x
<1> DEFINE t == <<a>>
<1>1. t \in Seq(S) /\ Len(t) = 1 /\ t[1] = a /\ Len(x) \in Nat
  OBVIOUS
<1>2. s = t \o x
  OBVIOUS
<1> HIDE DEF t
<1>3. /\ s \in Seq(S) /\ Len(s) = 1 + Len(x)
      /\ \A i \in 1 .. 1 + Len(x) : s[i] = IF i <= 1 THEN t[i] ELSE x[i - 1]
  BY <1>1, <1>2, ConcatProperties
<1>4. s # <<>> /\ s[1] = a
  BY <1>1, <1>3
<1>5. /\ Tail(s) \in Seq(S) /\ Len(Tail(s)) = Len(s) - 1
      /\ \A i \in 1 .. Len(Tail(s)) : Tail(s)[i] = s[i + 1]
  BY <1>3, <1>4, HeadTailProperties
<1>6. ASSUME NEW i \in 1 .. Len(Tail(s)) PROVE Tail(s)[i] = x[i]
  <2>1. i + 1 \in 1 .. 1 + Len(x) /\ ~(i + 1 <= 1) /\ (i + 1) - 1 = i
    BY <1>1, <1>3, <1>5
  <2> QED
    BY <1>3, <1>5, <2>1
<1>7. Tail(s) = x
  <2>1. Len(Tail(s)) = Len(x)
    BY <1>1, <1>3, <1>5
  <2> QED
    BY <1>5, <1>6, <2>1, SeqEqual
<1>8. Head(s) = s[1]
  OBVIOUS
<1> QED
  BY <1>3, <1>4, <1>7, <1>8

LEMMA ReadOne ==
  \A a \in Token, delim \in Words, x \in Seq(Token) :
    a # Text(delim) => ReadUntil(<<a>> \o (<<Text(delim)>> \o x), delim)
                         = [text |-> <<a>>, eof |-> FALSE, rest |-> x]
<1> TAKE a \in Token, delim \in Words, x \in Seq(Token)
<1> HAVE a # Text(delim)
<1>4. Text(delim) \in Token
  BY TextToken
<1> DEFINE t == <<a>>
           s == t \o (<<Text(delim)>> \o x)
<1>1. t \in Seq(Token) /\ \A i \in 1 .. Len(t) : t[i] # Text(delim)
  OBVIOUS
<1> HIDE DEF t, s
<1>2. s = t \o (<<Text(delim)>> \o x)
  BY DEF s
<1>3. ReadUntil(s, delim) = [text |-> t, eof |-> FALSE, rest |-> x]
  BY <1>4, <1>1, <1>2, ReadToDelim
<1> QED
  BY <1>3, Zenon DEF t, s

LEMMA Tokens ==
  /\ Text("batch-index") \in Token /\ Text("colon") \in Token /\ Text("open") \in Token
  /\ Text("close") \in Token /\ Text("dash") \in Token /\ Text("comma") \in Token
  /\ Text("semicolon") \in Token /\ Text("e") \in Token /\ Text("msec") \in Token
  /\ Text("time") \in Token /\ Text("rror-no-data-yet-or-back-too-small") \in Token
  BY TextToken DEF Words

(* The name is the one in the heading, and the rest of the entry is next.  *)
LEMMA ReadHeading ==
  ASSUME NEW e, Known(e), e.kind # "error", NEW x \in Seq(Token),
         unread = Heading(e) \o x
  PROVE  /\ NextIs("batch-index") \/ NextIs("open")
         /\ ReadName => name' = e.name /\ unread' = x /\ pc' = "body"
<1>1. e.name \in Names
  BY DEF Known
<1>2. CASE e.name[1] = "none"
  <2>1. e.name = <<"none", "batch-index">>
    BY <1>1, <1>2, NamesFit DEF Names
  <2> DEFINE b == Text("batch-index")
             c == Text("colon")
  <2>2. b \in Token /\ c \in Token /\ b # c /\ b # Text("open")
    BY Tokens DEF Text
  <2>3. unread = <<b, c>> \o x
    BY <1>2 DEF Heading
  <2> HIDE DEF b, c
  <2>4. unread = <<b>> \o (<<c>> \o x)
    BY <2>2, <2>3, PairThen, SMTT(60)
  <2>5. <<c>> \o x \in Seq(Token)
    <3>1. <<c>> \in Seq(Token)
      BY <2>2
    <3> QED
      BY <3>1, ConcatProperties
  <2>6. unread # <<>> /\ Head(unread) = b
    BY <2>2, <2>4, <2>5, HeadTailOf
  <2>7. ReadUntil(unread, "colon") = [text |-> <<b>>, eof |-> FALSE, rest |-> x]
    <3>1. "colon" \in Words
      BY DEF Words
    <3> QED
      BY <2>2, <2>4, <3>1, ReadOne DEF c
  <2>8. NextIs("batch-index") /\ ~NextIs("open")
    BY <2>2, <2>6 DEF NextIs, b
  <2>9. ASSUME ReadName PROVE name' = e.name /\ unread' = x /\ pc' = "body"
    BY <2>1, <2>7, <2>8, <2>9 DEF ReadName, Go
  <2> QED
    BY <2>8, <2>9
<1>3. CASE e.name[1] # "none"
  <2>1. /\ e.name = <<e.name[1], e.name[2]>>
        /\ e.name[1] \in Namespaces /\ e.name[2] \in Operations
    BY <1>1, <1>3 DEF Names
  <2>2. e.name[1] \in Words /\ e.name[2] \in Words /\ e.name[1] # "close" /\ e.name[2] # "colon"
    BY <2>1, NamesFit DEF Words
  <2> DEFINE o == Text("open")
             n == Text(e.name[1])
             c == Text("close")
             d == Text("dash")
             p == Text(e.name[2])
             l == Text("colon")
             w == <<p>> \o (<<l>> \o x)
             z == <<d>> \o w
             y == <<n>> \o (<<c>> \o z)
  <2>3. /\ o \in Token /\ n \in Token /\ c \in Token /\ d \in Token /\ p \in Token /\ l \in Token
        /\ n # c /\ p # l /\ o # Text("batch-index")
        /\ n[1] = e.name[1] /\ p[1] = e.name[2]
    <3>1. n \in Token /\ p \in Token
      BY <2>2, TextToken
    <3> QED
      BY <2>2, <3>1, Tokens DEF Text
  <2>4. unread = <<o, n, c, d, p, l>> \o x
    BY <1>3 DEF Heading
  <2> HIDE DEF o, n, c, d, p, l
  <2>5. unread = <<o>> \o y
    <3>1. Six(o, n, c, d, p, l, x) = OneByOne(o, n, c, d, p, l, x)
      <4>1. o \in Token /\ n \in Token /\ c \in Token /\ d \in Token /\ p \in Token /\ l \in Token
        BY <2>3
      <4> HIDE DEF w
      <4> QED
        BY <4>1, SixThen, SMTT(60)
    <3>2. unread = Six(o, n, c, d, p, l, x)
      BY <2>4, Zenon DEF Six
    <3>3. OneByOne(o, n, c, d, p, l, x) = <<o>> \o y
      BY Zenon DEF OneByOne
    <3> QED
      BY <3>1, <3>2, <3>3
  <2>6. ASSUME NEW a \in Token, NEW s \in Seq(Token) PROVE <<a>> \o s \in Seq(Token)
    <3>1. <<a>> \in Seq(Token)
      OBVIOUS
    <3> QED
      BY <3>1, ConcatProperties
  <2>7. w \in Seq(Token)
    BY <2>3, <2>6, Zenon
  <2>8. z \in Seq(Token)
    <3> HIDE DEF w
    <3> QED
      BY <2>3, <2>6, <2>7, Zenon
  <2>9. y \in Seq(Token)
    <3> HIDE DEF z
    <3> QED
      BY <2>3, <2>6, <2>8, Zenon
  <2>10. unread # <<>> /\ Head(unread) = o /\ Tail(unread) = y
    <3> HIDE DEF y
    <3> QED
      BY <2>3, <2>5, <2>9, HeadTailOf
  <2>11. ReadUntil(y, "close") = [text |-> <<n>>, eof |-> FALSE, rest |-> z]
    <3> HIDE DEF z
    <3>1. "close" \in Words /\ n \in Token /\ n # Text("close")
      BY <2>3 DEF Words, c
    <3> QED
      BY <2>8, <3>1, ReadOne DEF c
  <2>12. Tail(z) = w
    <3> HIDE DEF w
    <3> QED
      BY <2>3, <2>7, HeadTailOf
  <2>13. ReadUntil(w, "colon") = [text |-> <<p>>, eof |-> FALSE, rest |-> x]
    <3>1. "colon" \in Words /\ p \in Token /\ p # Text("colon")
      BY <2>3 DEF Words, l
    <3> QED
      BY <3>1, ReadOne DEF l
  <2>14. ~NextIs("batch-index") /\ NextIs("open")
    BY <2>3, <2>10 DEF NextIs, o
  <2> HIDE DEF w, z, y
  <2>15. ASSUME ReadName PROVE name' = e.name /\ unread' = x /\ pc' = "body"
    <3>1. PICK ns \in {ReadUntil(Tail(unread), "close")} :
            \E op \in {ReadUntil(Tail(ns.rest), "colon")} :
              /\ name' = <<ns.text[1][1], op.text[1][1]>>
              /\ unread' = op.rest /\ pc' = "body"
      BY <2>14, <2>15, Zenon DEF ReadName, Go
    <3>2. ns = [text |-> <<n>>, eof |-> FALSE, rest |-> z]
      BY <2>10, <2>11
    <3>3. PICK op \in {ReadUntil(Tail(ns.rest), "colon")} :
            /\ name' = <<ns.text[1][1], op.text[1][1]>>
            /\ unread' = op.rest /\ pc' = "body"
      BY <3>1
    <3>4. op = [text |-> <<p>>, eof |-> FALSE, rest |-> x]
      BY <2>12, <2>13, <3>2
    <3>5. ns.text[1][1] = n[1] /\ op.text[1][1] = p[1] /\ op.rest = x
      BY <3>2, <3>4
    <3> QED
      BY <2>1, <2>3, <3>3, <3>5
  <2> QED
    BY <2>14, <2>15
<1> QED
  BY <1>2, <1>3


-----------------------------------------------------------------------------
(* The histogram made of an entry's values, whole or short of a digit.     *)
Parsed(h, e, cut) ==
  /\ h \in [labels : Seq(Nat), values : Seq(Int)]
  /\ \E kept \in Nat :
       /\ kept = Kept(Len(e.values) - 1)
       /\ Len(h.labels) = kept + 1 /\ Len(h.values) = kept + 1
       /\ h.labels = First(kept)
       /\ h.values[1] = e.values[1] * Whole
       /\ \A i \in 2 .. kept + 1 :
            h.values[i] = e.values[1] * (Whole - Percent(e.values, i, cut))
       /\ \A i \in 2 .. kept : h.values[i] <= h.values[i + 1]
       /\ \A i \in 1 .. kept + 1 : h.values[i] <= h.values[1]

(* A bucket never counts more than all, nor less than one of a lower       *)
(* threshold.                                                              *)
LEMMA BucketWithin ==
  ASSUME NEW r \in Nat, NEW p \in Nat
  PROVE  /\ Bucket(r, p) \in Int /\ Bucket(r, p) <= r * Whole
         /\ Bucket(r, p) = r * (Whole - p)
<1>1. p * r \in Nat /\ r * Whole \in Nat
  BY WholeNat
<1>2. r * (Whole - p) = r * Whole - p * r
  BY WholeNat
<1> QED
  BY <1>1, <1>2 DEF Bucket

LEMMA BucketOrder ==
  ASSUME NEW r \in Nat, NEW p \in Nat, NEW q \in Nat, q <= p
  PROVE  Bucket(r, p) <= Bucket(r, q)
<1>1. p * r \in Nat /\ q * r \in Nat /\ r * Whole \in Nat
  BY WholeNat
<1>2. (p - q) * r \in Nat /\ (p - q) * r = p * r - q * r
  OBVIOUS
<1> QED
  BY <1>1, <1>2 DEF Bucket

(* What is read of the values.                                             *)
Decimals(numbers, e, cut) ==
  /\ Len(numbers) = Len(e.values)
  /\ numbers[1][2] = e.values[1]
  /\ \A i \in 2 .. Len(e.values) :
       numbers[i][2] \in Nat /\ numbers[i][2] = Percent(e.values, i, cut)
  /\ \A i \in 2 .. Len(e.values) - 1 : numbers[i + 1][2] <= numbers[i][2]

LEMMA DecimalsRead ==
  ASSUME NEW e, EntryValues(e.values)
  PROVE  Decimals(Numbered(e), e, FALSE) /\ Decimals(Shorter(Numbered(e)), e, TRUE)
<1> DEFINE n == Len(e.values)
           v == e.values
           a == Numbered(e)
           b == Shorter(a)
<1>1. /\ n \in Nat /\ n >= 2 /\ \A i \in 1 .. n : v[i] \in Nat
      /\ \A i \in 2 .. n - 1 : v[i] >= v[i + 1]
  BY DEF EntryValues
<1>2. Len(a) = n /\ \A i \in 1 .. n : a[i] = Number(v[i])
  BY ListsIs DEF Numbered
<1>3. Len(b) = n /\ \A i \in 1 .. n - 1 : b[i] = a[i]
  BY <1>1, <1>2 DEF Shorter
<1>4. b[n] = Shortened(a[n])
  BY <1>1, <1>2 DEF Shorter
<1> HIDE DEF n, v, a, b
<1>5. \A i \in 1 .. n : a[i][1] = "number" /\ a[i][2] = v[i]
  BY <1>2 DEF Number
<1>6. b[n][2] \in Nat /\ b[n][2] <= v[n] /\ b[n][2] = v[n] - (v[n] % 10)
  <2>1. n \in 1 .. n /\ v[n] \in Nat
    BY <1>1
  <2>2. b[n][2] = v[n] - (v[n] % 10)
    BY <1>4, <1>5, <2>1 DEF Shortened, Number
  <2>3. v[n] % 10 \in Nat /\ v[n] % 10 <= v[n]
    BY <2>1
  <2> QED
    BY <2>1, <2>2, <2>3
<1>7. \A i \in 1 .. n - 1 : b[i][2] = v[i]
  BY <1>1, <1>3, <1>5
<1>8. Decimals(a, e, FALSE)
  <2>1. \A i \in 2 .. n : a[i][2] \in Nat /\ a[i][2] = Percent(v, i, FALSE)
    BY <1>1, <1>5 DEF Percent
  <2>2. \A i \in 2 .. n - 1 : a[i + 1][2] <= a[i][2]
    <3> TAKE i \in 2 .. n - 1
    <3>1. i \in 1 .. n /\ i + 1 \in 1 .. n
      BY <1>1
    <3> QED
      BY <1>1, <1>5, <3>1
  <2>3. a[1][2] = v[1]
    BY <1>1, <1>5
  <2> QED
    BY <1>2, <2>1, <2>2, <2>3 DEF Decimals, n, v
<1>9. \A i \in 2 .. n : b[i][2] \in Nat /\ b[i][2] = Percent(v, i, TRUE)
  <2> TAKE i \in 2 .. n
  <2>1. n = Len(v)
    BY DEF n, v
  <2>2. CASE i = n
    <3>1. Percent(v, i, TRUE) = v[i] - (v[i] % 10)
      BY <2>1, <2>2 DEF Percent
    <3> QED
      BY <1>6, <2>2, <3>1
  <2>3. CASE i # n
    <3>1. Percent(v, i, TRUE) = v[i]
      BY <2>1, <2>3 DEF Percent
    <3>2. i \in 1 .. n - 1 /\ i \in 1 .. n
      BY <1>1, <2>3
    <3> QED
      BY <1>1, <1>7, <3>1, <3>2
  <2> QED
    BY <2>2, <2>3
<1>10. \A i \in 2 .. n - 1 : b[i + 1][2] <= b[i][2]
  <2> TAKE i \in 2 .. n - 1
  <2>1. i \in 1 .. n - 1 /\ (i + 1 = n \/ i + 1 \in 1 .. n - 1)
    BY <1>1
  <2>2. b[i][2] = v[i] /\ v[i] \in Nat /\ v[i + 1] \in Nat /\ v[i] >= v[i + 1]
    BY <1>1, <1>7, <2>1
  <2>3. CASE i + 1 = n
    BY <1>6, <2>2, <2>3
  <2>4. CASE i + 1 \in 1 .. n - 1
    BY <1>7, <2>2, <2>4
  <2> QED
    BY <2>1, <2>3, <2>4
<1>11. b[1][2] = v[1]
  BY <1>1, <1>7
<1>12. Decimals(b, e, TRUE)
  BY <1>3, <1>9, <1>10, <1>11 DEF Decimals, n, v
<1> QED
  BY <1>8, <1>12 DEF a, b

LEMMA MinOfTwo ==
  ASSUME NEW a \in Nat, NEW b \in Nat
  PROVE  Min({a, b}) = IF a < b THEN a ELSE b
  BY DEF Min

LEMMA HistogramParsed ==
  ASSUME Given, NEW e, EntryValues(e.values), NEW cut, NEW numbers,
         Decimals(numbers, e, cut), NEW labels, format = "latency" => labels = Indexed(e)
  PROVE  Parsed(Histogram(numbers, labels), e, cut)
<1> DEFINE sent == Len(e.values) - 1
           kept == IF latencyBucketsCount > 0 /\ latencyBucketsCount < sent
                   THEN latencyBucketsCount ELSE sent
           rate == e.values[1]
           Value(i) == IF i = 1 THEN rate * Whole ELSE Bucket(rate, numbers[i][2])
           h == Histogram(numbers, labels)
<1>1. sent \in Nat /\ sent >= 1 /\ latencyBucketsCount \in Nat
  BY Constants DEF Given, EntryValues
<1>2. rate \in Nat /\ Len(e.values) = sent + 1
  BY <1>1 DEF EntryValues
<1>3. h = [labels |-> [i \in 1 .. kept + 1 |-> IF i = 1 THEN 0 ELSE Threshold(i - 1, labels)],
           values |-> [i \in 1 .. kept + 1 |-> Value(i)]]
  <2>1. Len(numbers) - 1 = sent /\ numbers[1][2] = rate
    BY DEF Decimals
  <2> DEFINE bound == IF latencyBucketsCount > 0 /\ latencyBucketsCount < Len(numbers) - 1
                      THEN latencyBucketsCount ELSE Len(numbers) - 1
             first == numbers[1][2]
  <2>2. h = [labels |-> [i \in 1 .. bound + 1 |-> IF i = 1 THEN 0 ELSE Threshold(i - 1, labels)],
             values |-> [i \in 1 .. bound + 1 |->
                           IF i = 1 THEN first * Whole ELSE Bucket(first, numbers[i][2])]]
    BY Zenon DEF Histogram
  <2>3. bound = kept /\ first = rate
    BY <2>1
  <2> HIDE DEF bound, kept, first, rate, h
  <2> QED
    BY <2>2, <2>3
<1> HIDE DEF sent, h
<1>4. kept \in Nat /\ kept >= 1 /\ kept <= sent
  BY <1>1
<1>20. kept = Kept(sent)
  <2>1. CASE latencyBucketsCount = 0
    BY <1>1, <2>1 DEF Kept
  <2>2. CASE latencyBucketsCount > 0
    <3>1. Min({latencyBucketsCount, sent}) = kept
      BY <1>1, <2>2, MinOfTwo
    <3> QED
      BY <1>1, <2>2, <3>1 DEF Kept
  <2> QED
    BY <1>1, <2>1, <2>2
<1> HIDE DEF kept
<1>5. ASSUME NEW i \in 2 .. kept + 1 PROVE Threshold(i - 1, labels) = i - 1
  <2>1. CASE format = "latency"
    <3>1. i \in 1 .. Len(e.values) /\ (i - 1) + 1 = i
      BY <1>1, <1>2, <1>4
    <3>2. labels[i] = <<"threshold", i - 1>>
      BY <2>1, <3>1 DEF Indexed
    <3> QED
      BY <2>1, <3>1, <3>2 DEF Threshold
  <2>2. CASE format # "latency"
    BY <2>2 DEF Threshold
  <2> QED
    BY <2>1, <2>2
<1>6. ASSUME NEW i \in 1 .. kept + 1
      PROVE  (IF i = 1 THEN 0 ELSE Threshold(i - 1, labels)) = i - 1
  <2>1. i = 1 \/ i \in 2 .. kept + 1
    BY <1>4
  <2> QED
    BY <1>5, <2>1
<1>7. h.labels = [i \in 1 .. kept + 1 |-> i - 1]
  BY <1>3, <1>6
<1>8. ASSUME NEW i \in 2 .. kept + 1
      PROVE  /\ numbers[i][2] \in Nat
             /\ Value(i) = Bucket(rate, numbers[i][2])
             /\ Value(i) \in Int /\ Value(i) <= rate * Whole
             /\ Value(i) = rate * (Whole - Percent(e.values, i, cut))
  <2>1. i \in 2 .. Len(e.values) /\ i # 1
    BY <1>1, <1>2, <1>4
  <2>2. numbers[i][2] \in Nat /\ numbers[i][2] = Percent(e.values, i, cut)
    BY <2>1 DEF Decimals
  <2> HIDE DEF rate
  <2>5. rate \in Nat
    BY <1>2
  <2>3. Value(i) = Bucket(rate, numbers[i][2])
    BY <2>1
  <2> HIDE DEF Value
  <2>4. /\ Bucket(rate, numbers[i][2]) \in Int
        /\ Bucket(rate, numbers[i][2]) <= rate * Whole
        /\ Bucket(rate, numbers[i][2]) = rate * (Whole - numbers[i][2])
    <3> DEFINE p == numbers[i][2]
    <3>1. p \in Nat
      BY <2>2
    <3> HIDE DEF p
    <3>2. /\ Bucket(rate, p) \in Int /\ Bucket(rate, p) <= rate * Whole
          /\ Bucket(rate, p) = rate * (Whole - p)
      BY <2>5, <3>1, BucketWithin
    <3> QED
      BY <3>2 DEF p
  <2> QED
    BY <2>2, <2>3, <2>4
<1> HIDE DEF rate
<1>9. Value(1) = rate * Whole /\ rate * Whole \in Int
  BY <1>2, WholeNat
<1>10. ASSUME NEW i \in 2 .. kept PROVE Value(i) <= Value(i + 1)
  <2>1. i \in 2 .. kept + 1 /\ i + 1 \in 2 .. kept + 1 /\ i \in 2 .. Len(e.values) - 1
    BY <1>1, <1>2, <1>4
  <2>2. numbers[i + 1][2] <= numbers[i][2]
    BY <2>1 DEF Decimals
  <2>3. numbers[i][2] \in Nat /\ numbers[i + 1][2] \in Nat
    BY <1>8, <2>1
  <2>4. Bucket(rate, numbers[i][2]) <= Bucket(rate, numbers[i + 1][2])
    <3> DEFINE p == numbers[i][2]
               q == numbers[i + 1][2]
    <3>1. p \in Nat /\ q \in Nat /\ q <= p
      BY <2>2, <2>3
    <3> HIDE DEF p, q
    <3>2. Bucket(rate, p) <= Bucket(rate, q)
      BY <1>2, <3>1, BucketOrder
    <3> QED
      BY <3>2 DEF p, q
  <2> HIDE DEF Value
  <2> QED
    BY <1>8, <2>1, <2>4
<1> HIDE DEF Value
<1>11. ASSUME NEW i \in 1 .. kept + 1 PROVE Value(i) \in Int /\ Value(i) <= rate * Whole
  <2>1. i = 1 \/ i \in 2 .. kept + 1
    BY <1>4
  <2> QED
    BY <1>2, <1>8, <1>9, <2>1
<1>12. /\ h.values \in Seq(Int) /\ Len(h.values) = kept + 1
       /\ \A i \in 1 .. kept + 1 : h.values[i] = Value(i)
  <2>1. h.values = [i \in 1 .. kept + 1 |-> Value(i)] /\ kept + 1 \in Nat
    BY <1>3, <1>4
  <2> QED
    BY <1>11, <2>1
<1>13. h.labels \in Seq(Nat) /\ Len(h.labels) = kept + 1
  <2>1. kept + 1 \in Nat /\ \A i \in 1 .. kept + 1 : i - 1 \in Nat
    BY <1>4
  <2> QED
    BY <1>7, <2>1
<1>14. h \in [labels : Seq(Nat), values : Seq(Int)]
  BY <1>3, <1>12, <1>13
<1>15. h.values[1] = rate * Whole
  BY <1>4, <1>9, <1>12
<1>16. \A i \in 2 .. kept : h.values[i] <= h.values[i + 1]
  <2> TAKE i \in 2 .. kept
  <2>1. i \in 1 .. kept + 1 /\ i + 1 \in 1 .. kept + 1
    BY <1>4
  <2> QED
    BY <1>10, <1>12, <2>1
<1>17. \A i \in 1 .. kept + 1 : h.values[i] <= h.values[1]
  BY <1>11, <1>12, <1>15
<1>18. kept = Kept(Len(e.values) - 1)
  BY <1>1, <1>2, <1>20
<1>21. \A i \in 2 .. kept + 1 : h.values[i] = rate * (Whole - Percent(e.values, i, cut))
  <2> TAKE i \in 2 .. kept + 1
  <2>1. i \in 1 .. kept + 1
    BY <1>4
  <2> QED
    BY <1>8, <1>12, <2>1
<1>19. Parsed(h, e, cut)
  BY <1>4, <1>7, <1>12, <1>13, <1>14, <1>15, <1>16, <1>17, <1>18, <1>21 DEF Parsed, rate, First
<1> QED
  BY <1>19 DEF h

-----------------------------------------------------------------------------
(* The entry's histogram is read, whatever ends the entry.                 *)
LEMMA EndIs ==
  ASSUME Given, NEW n \in 1 .. Len(response)
  PROVE  /\ Rest[n - 1] \in Seq(Token) /\ End(n) \o Rest[n - 1] \in Seq(Token)
         /\ \/ End(n) = <<Text("semicolon")>> /\ ~(n = 1 /\ ~terminated)
            \/ End(n) = <<>> /\ n = 1 /\ ~terminated /\ Rest[n - 1] = <<>>
<1>1. n - 1 \in 0 .. Len(response) /\ n \in Nat /\ n >= 1
  BY DEF Given
<1>2. Rest[n - 1] \in Seq(Token) /\ Rest[0] = <<>>
  BY <1>1, RestIs
<1>3. End(n) \o Rest[n - 1] \in Seq(Token)
  BY <1>2, EndToken, ConcatProperties
<1>4. CASE n > 1 \/ terminated
  BY <1>1, <1>2, <1>3, <1>4 DEF End
<1>5. CASE ~(n > 1 \/ terminated)
  <2>1. n - 1 = 0 /\ n = 1
    BY <1>1, <1>5
  <2> QED
    BY <1>2, <1>3, <1>5, <2>1 DEF End
<1> QED
  BY <1>4, <1>5

LEMMA ReadValues ==
  ASSUME Given, NEW n \in 1 .. Len(response), NEW e, EntryValues(e.values),
         NEW r, r = ReadUntil(Numbers(e) \o (End(n) \o Rest[n - 1]), "semicolon")
  PROVE  r.rest = Rest[n - 1] /\ Decimals(Fields(r.text), e, n = 1 /\ ~terminated)
<1> DEFINE a == Numbers(e)
           b == Rest[n - 1]
<1>1. /\ a \in Seq(Token) /\ b \in Seq(Token) /\ Text("semicolon") \in Token
      /\ \A i \in 1 .. Len(a) : a[i] # Text("semicolon")
  BY EndIs, ListsRead, Tokens
<1>2. Fields(a) = Numbered(e) /\ Fields(Shorter(a)) = Shorter(Numbered(e))
  BY ListsRead, ShorterFields
<1>3. r = ReadUntil(a \o (End(n) \o b), "semicolon")
  OBVIOUS
<1>4. \/ End(n) = <<Text("semicolon")>> /\ ~(n = 1 /\ ~terminated)
      \/ End(n) = <<>> /\ b = <<>> /\ (n = 1 /\ ~terminated)
  BY EndIs
<1> HIDE DEF a, b
<1>5. CASE End(n) = <<Text("semicolon")>> /\ ~(n = 1 /\ ~terminated)
  <2> DEFINE s == a \o (<<Text("semicolon")>> \o b)
  <2>1. s = a \o (<<Text("semicolon")>> \o b)
    OBVIOUS
  <2> HIDE DEF s
  <2>2. ReadUntil(s, "semicolon") = [text |-> a, eof |-> FALSE, rest |-> b]
    BY <1>1, <2>1, ReadToDelim
  <2>3. r = ReadUntil(s, "semicolon")
    BY <1>3, <1>5 DEF s
  <2>4. r.text = a /\ r.rest = b
    BY <2>2, <2>3
  <2> QED
    BY <1>2, <1>5, <2>4, DecimalsRead DEF b, Decimals, Percent
<1>6. CASE End(n) = <<>> /\ b = <<>> /\ (n = 1 /\ ~terminated)
  <2>1. a \o (<<>> \o <<>>) = a
    BY <1>1, ConcatEmptySeq, <<>> \in Seq(Token)
  <2>2. ReadUntil(a, "semicolon") = [text |-> Shorter(a), eof |-> TRUE, rest |-> <<>>]
    BY <1>1, ReadToEnd, Zenon DEF Shorter
  <2>3. r = ReadUntil(a, "semicolon")
    BY <1>3, <1>6, <2>1
  <2>4. r.text = Shorter(a) /\ r.rest = b
    BY <1>6, <2>2, <2>3
  <2> QED
    BY <1>2, <1>6, <2>4, DecimalsRead DEF b, Decimals, Percent
<1> QED
  BY <1>4, <1>5, <1>6

LEMMA ReadParts ==
  ASSUME NEW unit, unit = ReadUntil(unread, "comma"),
         NEW labels, labels = IF format = "latency" THEN ReadUntil(unit.rest, "semicolon") ELSE unit,
         NEW time, time = IF format = "latency" THEN ReadUntil(labels.rest, "comma") ELSE labels,
         ~unit.eof, ~labels.eof, ~time.eof,
         NEW values, values = ReadUntil(time.rest, "semicolon"),
         ReadHistogram
  PROVE  /\ unread' = values.rest /\ pc' = "entry"
         /\ res' = [res EXCEPT ![name] = Histogram(Fields(values.text), Fields(labels.text))]
  BY Zenon DEF ReadHistogram, Go

LEMMA Apart ==
  \A p, q, r \in Seq(Token) : (p \o q) \o r = p \o (q \o r)
  BY ConcatAssociative, SMTT(60)

LEMMA ReadData ==
  ASSUME Given, NEW n \in 1 .. Len(response), NEW e, e.kind = "data", EntryValues(e.values),
         unread = Body(e) \o (End(n) \o Rest[n - 1])
  PROVE  /\ ~Empty
         /\ ReadHistogram => /\ unread' = Rest[n - 1] /\ pc' = "entry"
                             /\ \E h : /\ Parsed(h, e, n = 1 /\ ~terminated)
                                       /\ res' = [res EXCEPT ![name] = h]
<1> DEFINE x == End(n) \o Rest[n - 1]
           a == Numbers(e)
           b == Thresholds(e)
           m == Text("msec")
           t == Text("time")
           c == Text("comma")
           s == Text("semicolon")
           y == a \o x
           values == ReadUntil(y, "semicolon")
<1>1. x \in Seq(Token) /\ a \in Seq(Token) /\ b \in Seq(Token)
  BY EndIs, ListsRead
<1>2. y \in Seq(Token)
  BY <1>1, ConcatProperties
<1>3. values.rest = Rest[n - 1] /\ Decimals(Fields(values.text), e, n = 1 /\ ~terminated)
  BY ReadValues
<1>4. /\ m \in Token /\ t \in Token /\ c \in Token /\ s \in Token
      /\ m # s /\ t # s /\ m # c /\ t # c /\ c # s
  BY Tokens DEF Text
<1>5. \A i \in 1 .. Len(b) : b[i] # s
  BY ListsRead
<1>6. Fields(b) = Indexed(e)
  BY ListsRead, SMTT(60)
<1>7. /\ format = "latencies" => unread = (<<m, c>> \o a) \o x
      /\ format = "latency" => unread = (<<t, c>> \o (b \o (<<s, t, c>> \o a))) \o x
  BY DEF Body
<1>8. "comma" \in Words /\ "semicolon" \in Words
  BY DEF Words
<1>9. ASSUME NEW k \in Token, NEW z \in Seq(Token) PROVE <<k>> \o z \in Seq(Token)
  <2>1. <<k>> \in Seq(Token)
    OBVIOUS
  <2> QED
    BY <2>1, ConcatProperties
<1> HIDE DEF x, a, b, m, t, c, s
<1>10. CASE format = "latencies"
  <2>1. unread = <<m, c>> \o y
    <3>1. <<m, c>> \in Seq(Token)
      BY <1>4
    <3> DEFINE mc == <<m, c>>
    <3> HIDE DEF mc
    <3>2. (mc \o a) \o x = mc \o (a \o x)
      BY <1>1, <3>1, ConcatAssociative, SMTT(60) DEF mc
    <3> QED
      BY <1>7, <1>10, <3>2 DEF mc
  <2> HIDE DEF y
  <2>2. unread = <<m>> \o (<<c>> \o y)
    BY <1>2, <1>4, <2>1, PairThen, SMTT(60)
  <2>3. ReadUntil(unread, "comma") = [text |-> <<m>>, eof |-> FALSE, rest |-> y]
    BY <1>2, <1>4, <1>8, <2>2, ReadOne DEF c
  <2>4. Head(unread) = m
    BY <1>2, <1>4, <1>9, <2>2, HeadTailOf
  <2>5. ~Empty
    BY <1>4, <2>4 DEF Empty, NextIs, s
  <2> DEFINE unit == ReadUntil(unread, "comma")
  <2>6. unit.eof = FALSE /\ unit.rest = y
    BY <2>3
  <2>7. ASSUME ReadHistogram
        PROVE  /\ unread' = values.rest /\ pc' = "entry"
               /\ res' = [res EXCEPT ![name] = Histogram(Fields(values.text), Fields(unit.text))]
    <3>1. unit = ReadUntil(unread, "comma") /\ values = ReadUntil(unit.rest, "semicolon")
      BY <2>6
    <3>2. format # "latency"
      BY <1>10
    <3> HIDE DEF unit, values
    <3> QED
      BY <2>6, <2>7, <3>1, <3>2, ReadParts
  <2>8. Parsed(Histogram(Fields(values.text), Fields(unit.text)), e, n = 1 /\ ~terminated)
    <3>1. format # "latency"
      BY <1>10
    <3> HIDE DEF unit, values
    <3> QED
      BY <1>3, <3>1, HistogramParsed
  <2> HIDE DEF unit, values
  <2> QED
    BY <1>3, <2>5, <2>7, <2>8, Zenon
<1>11. CASE format = "latency"
  <2> DEFINE v == <<t>> \o (<<c>> \o y)
             w == b \o (<<s>> \o v)
  <2>1. v \in Seq(Token)
    BY <1>2, <1>4, <1>9
  <2>2. w \in Seq(Token)
    <3> HIDE DEF v
    <3>1. <<s>> \o v \in Seq(Token)
      BY <1>4, <1>9, <2>1
    <3> QED
      BY <1>1, <3>1, ConcatProperties
  <2>3. unread = <<t>> \o (<<c>> \o w)
    <3> DEFINE tc == <<t, c>>
               stc == <<s, t, c>>
    <3>1. tc \in Seq(Token) /\ stc \in Seq(Token)
      BY <1>4
    <3>2. unread = (tc \o (b \o (stc \o a))) \o x
      BY <1>7, <1>11
    <3>3. stc \o y = <<s>> \o v
      BY <1>2, <1>4, TripleThen, SMTT(60)
    <3> HIDE DEF tc, stc
    <3> DEFINE q == stc \o a
               r == b \o q
    <3>4. q \in Seq(Token) /\ r \in Seq(Token)
      BY <1>1, <3>1, ConcatProperties
    <3>5. (tc \o r) \o x = tc \o (r \o x)
      <4> HIDE DEF r
      <4>1. tc \in Seq(Token) /\ r \in Seq(Token) /\ x \in Seq(Token)
        BY <1>1, <3>1, <3>4
      <4> QED
        BY <4>1, Apart
    <3>6. r \o x = b \o (q \o x)
      <4> HIDE DEF q
      <4>1. b \in Seq(Token) /\ q \in Seq(Token) /\ x \in Seq(Token)
        BY <1>1, <3>4
      <4> QED
        BY <4>1, Apart
    <3>7. q \o x = stc \o y
      <4>1. stc \in Seq(Token) /\ a \in Seq(Token) /\ x \in Seq(Token)
        BY <1>1, <3>1
      <4> QED
        BY <4>1, Apart
    <3>8. unread = tc \o w
      BY <3>2, <3>3, <3>5, <3>6, <3>7
    <3> HIDE DEF w
    <3>9. <<t, c>> \o w = <<t>> \o (<<c>> \o w)
      BY <1>4, <2>2, PairThen
    <3> QED
      BY <3>8, <3>9 DEF tc
  <2>4. ReadUntil(unread, "comma") = [text |-> <<t>>, eof |-> FALSE, rest |-> w]
    <3> HIDE DEF w
    <3> QED
      BY <1>4, <1>8, <2>2, <2>3, ReadOne DEF c
  <2>5. ~Empty
    <3> HIDE DEF w
    <3>1. Head(unread) = t
      BY <1>4, <1>9, <2>2, <2>3, HeadTailOf
    <3> QED
      BY <1>4, <3>1 DEF Empty, NextIs, s
  <2>6. ReadUntil(w, "semicolon") = [text |-> b, eof |-> FALSE, rest |-> v]
    <3> HIDE DEF v
    <3>1. w = b \o (<<Text("semicolon")>> \o v)
      BY DEF s
    <3> HIDE DEF w
    <3> QED
      BY <1>1, <1>4, <1>5, <2>1, <3>1, ReadToDelim DEF s
  <2> HIDE DEF w
  <2>7. ReadUntil(v, "comma") = [text |-> <<t>>, eof |-> FALSE, rest |-> y]
    <3> HIDE DEF y
    <3> QED
      BY <1>2, <1>4, <1>8, ReadOne DEF c
  <2> HIDE DEF v
  <2> DEFINE unit == ReadUntil(unread, "comma")
             labels == ReadUntil(unit.rest, "semicolon")
             time == ReadUntil(labels.rest, "comma")
  <2>8. unit.eof = FALSE /\ unit.rest = w
    BY <2>4
  <2>9. labels.text = b /\ labels.eof = FALSE /\ labels.rest = v
    BY <2>6, <2>8
  <2>10. time.eof = FALSE /\ time.rest = y
    BY <2>7, <2>9, SMTT(60)
  <2>11. ASSUME ReadHistogram
         PROVE  /\ unread' = values.rest /\ pc' = "entry"
                /\ res' = [res EXCEPT ![name] = Histogram(Fields(values.text), Fields(labels.text))]
    <3>1. /\ unit = ReadUntil(unread, "comma")
          /\ labels = IF format = "latency" THEN ReadUntil(unit.rest, "semicolon") ELSE unit
          /\ time = IF format = "latency" THEN ReadUntil(labels.rest, "comma") ELSE labels
          /\ values = ReadUntil(time.rest, "semicolon")
      BY <1>11, <2>10
    <3> HIDE DEF unit, labels, time, values
    <3>2. ~unit.eof /\ ~labels.eof /\ ~time.eof
      BY <2>8, <2>9, <2>10
    <3> QED
      BY <2>11, <3>1, <3>2, ReadParts
  <2>12. Parsed(Histogram(Fields(values.text), Fields(labels.text)), e, n = 1 /\ ~terminated)
    <3>1. Fields(labels.text) = Indexed(e)
      BY <1>6, <2>9
    <3> HIDE DEF labels, values
    <3> QED
      BY <1>3, <3>1, HistogramParsed
  <2> HIDE DEF labels, values
  <2> QED
    BY <1>3, <2>5, <2>11, <2>12, Zenon
<1> QED
  BY <1>10, <1>11 DEF Given, Formats

-----------------------------------------------------------------------------
(* An empty entry, a message and the end of the text.                      *)
LEMMA ReadNothing ==
  ASSUME unread = <<>>
  PROVE  /\ ~NextIs("batch-index") /\ ~NextIs("open") /\ ~Empty
         /\ Skip => unread' = <<>> /\ pc' = "done"
         /\ ReadHistogram => unread' = <<>> /\ pc' = "done" /\ res' = res
<1>1. ~NextIs("batch-index") /\ ~NextIs("open") /\ ~Empty
  BY DEF NextIs, Empty
<1>2. ASSUME NEW delim
      PROVE  ReadUntil(<<>>, delim).eof = TRUE /\ ReadUntil(<<>>, delim).rest = <<>>
  <2>1. {i \in DOMAIN <<>> : <<>>[i] = Text(delim)} = {}
    OBVIOUS
  <2> QED
    BY <2>1 DEF ReadUntil
<1>3. ASSUME Skip PROVE unread' = <<>> /\ pc' = "done"
  <2>1. PICK r \in {ReadUntil(IF unread = <<>> THEN <<>> ELSE Tail(unread), "semicolon")} :
          unread' = r.rest /\ pc' = IF r.eof THEN "done" ELSE "entry"
    BY <1>3, Zenon DEF Skip, Go
  <2>2. r = ReadUntil(<<>>, "semicolon")
    OBVIOUS
  <2> QED
    BY <1>2, <2>1, <2>2
<1>4. ASSUME ReadHistogram PROVE unread' = <<>> /\ pc' = "done" /\ res' = res
  <2> DEFINE unit == ReadUntil(unread, "comma")
             labels == IF format = "latency" THEN ReadUntil(unit.rest, "semicolon") ELSE unit
             time == IF format = "latency" THEN ReadUntil(labels.rest, "comma") ELSE labels
  <2>1. unit.eof = TRUE /\ unit.rest = <<>>
    BY <1>2
  <2> HIDE DEF unit
  <2>2. labels.rest = <<>>
    BY <1>2, <2>1
  <2> HIDE DEF labels
  <2>3. time.rest = <<>>
    BY <1>2, <2>2
  <2> HIDE DEF time
  <2>4. (unit.eof \/ labels.eof \/ time.eof) => unread' = time.rest /\ pc' = "done" /\ res' = res
    BY <1>4, Zenon DEF ReadHistogram, Go, unit, labels, time
  <2> QED
    BY <2>1, <2>3, <2>4
<1> QED
  BY <1>1, <1>3, <1>4

LEMMA ReadEmpty ==
  ASSUME Given, NEW n \in 1 .. Len(response), NEW e, e.kind = "empty",
         unread = Body(e) \o (End(n) \o Rest[n - 1])
  PROVE  \/ Empty /\ Tail(unread) = Rest[n - 1]
         \/ unread = <<>> /\ n = 1
<1> DEFINE b == Rest[n - 1]
           s == Text("semicolon")
<1>1. /\ b \in Seq(Token) /\ End(n) \o b \in Seq(Token)
      /\ \/ End(n) = <<s>>
         \/ End(n) = <<>> /\ n - 1 = 0 /\ b = <<>>
  BY EndIs
<1>2. unread = <<>> \o (End(n) \o b)
  BY DEF Body
<1>3. s \in Token /\ n \in Nat
  BY Tokens DEF Given
<1> HIDE DEF b, s
<1>4. unread = End(n) \o b
  BY <1>1, <1>2, ConcatEmptySeq
<1>5. CASE End(n) = <<s>>
  <2>1. unread # <<>> /\ Head(unread) = s /\ Tail(unread) = b
    BY <1>1, <1>3, <1>4, <1>5, HeadTailOf
  <2> QED
    BY <2>1 DEF Empty, NextIs, s, b
<1>6. CASE End(n) = <<>> /\ n - 1 = 0 /\ b = <<>>
  <2>1. unread = <<>>
    BY <1>4, <1>6
  <2> QED
    BY <1>3, <1>6, <2>1
<1> QED
  BY <1>1, <1>5, <1>6

LEMMA ReadError ==
  ASSUME Given, NEW n \in 1 .. Len(response), NEW e, e.kind = "error",
         unread = Written(e) \o (End(n) \o Rest[n - 1])
  PROVE  /\ ~NextIs("batch-index") /\ ~NextIs("open")
         /\ Skip => \/ unread' = Rest[n - 1] /\ pc' = "entry"
                    \/ n = 1 /\ unread' = <<>> /\ pc' = "done"
<1> DEFINE b == Rest[n - 1]
           s == Text("semicolon")
           f == Text("e")
           g == Text("rror-no-data-yet-or-back-too-small")
           x == End(n) \o b
           y == <<g>> \o x
<1>1. /\ b \in Seq(Token) /\ x \in Seq(Token)
      /\ \/ End(n) = <<s>>
         \/ End(n) = <<>> /\ n - 1 = 0 /\ b = <<>>
  BY EndIs
<1>2. /\ s \in Token /\ f \in Token /\ g \in Token /\ n \in Nat /\ g # s
      /\ f # Text("batch-index") /\ f # Text("open")
  BY Tokens DEF Given, Text
<1>3. unread = <<f, g>> \o x
  BY DEF Written
<1> HIDE DEF b, s, f, g, x
<1>4. unread = <<f>> \o y
  <2>1. f \in Token /\ g \in Token /\ x \in Seq(Token)
    BY <1>1, <1>2
  <2>2. <<f, g>> \o x = <<f>> \o (<<g>> \o x)
    BY <2>1, PairThen, SMTT(60)
  <2> QED
    BY <1>3, <2>2
<1>5. y \in Seq(Token)
  <2>1. <<g>> \in Seq(Token)
    BY <1>2
  <2> QED
    BY <1>1, <2>1, ConcatProperties
<1>6. unread # <<>> /\ Head(unread) = f /\ Tail(unread) = y
  <2> HIDE DEF y
  <2> QED
    BY <1>2, <1>4, <1>5, HeadTailOf
<1>7. \/ ReadUntil(y, "semicolon") = [text |-> <<g>>, eof |-> FALSE, rest |-> b]
      \/ n = 1 /\ ReadUntil(y, "semicolon").eof = TRUE /\ ReadUntil(y, "semicolon").rest = <<>>
  <2>1. CASE End(n) = <<s>>
    <3>1. y = <<g>> \o (<<s>> \o b)
      BY <2>1 DEF x
    <3>2. "semicolon" \in Words
      BY DEF Words
    <3> HIDE DEF y
    <3> QED
      BY <1>1, <1>2, <3>1, <3>2, ReadOne DEF s
  <2>2. CASE End(n) = <<>> /\ n - 1 = 0 /\ b = <<>>
    <3> DEFINE z == <<g>>
    <3>1. z \in Seq(Token) /\ \A i \in 1 .. Len(z) : z[i] # Text("semicolon")
      BY <1>2 DEF s
    <3>2. x = <<>>
      BY <2>2 DEF x
    <3>3. y = z
      <4> HIDE DEF z
      <4> QED
        BY <3>1, <3>2, ConcatEmptySeq DEF y, z
    <3> HIDE DEF z
    <3>4. /\ ReadUntil(z, "semicolon").eof = TRUE
          /\ ReadUntil(z, "semicolon").rest = <<>>
      BY <3>1, ReadToEnd
    <3>5. n = 1
      BY <1>2, <2>2
    <3> HIDE DEF y
    <3> QED
      BY <3>3, <3>4, <3>5
  <2> QED
    BY <1>1, <2>1, <2>2
<1>8. ~NextIs("batch-index") /\ ~NextIs("open")
  BY <1>2, <1>6 DEF NextIs
<1> HIDE DEF y
<1>9. ASSUME Skip
      PROVE  \/ unread' = b /\ pc' = "entry"
             \/ n = 1 /\ unread' = <<>> /\ pc' = "done"
  <2>1. PICK r \in {ReadUntil(IF unread = <<>> THEN <<>> ELSE Tail(unread), "semicolon")} :
          unread' = r.rest /\ pc' = IF r.eof THEN "done" ELSE "entry"
    BY <1>9, Zenon DEF Skip, Go
  <2>2. r = ReadUntil(y, "semicolon")
    BY <1>6
  <2> QED
    BY <1>7, <2>1, <2>2
<1> QED
  BY <1>8, <1>9 DEF b

LEMMA EntryIs ==
  ASSUME Given, NEW n \in 1 .. Len(response), unread = Rest[n]
  PROVE  LET e == Nth(n)
             x == End(n) \o Rest[n - 1]
         IN  /\ Known(e) /\ x \in Seq(Token) /\ unread = Written(e) \o x
             /\ e.kind # "error" => /\ Body(e) \o x \in Seq(Token)
                                    /\ unread = Heading(e) \o (Body(e) \o x)
<1> DEFINE e == Nth(n)
           x == End(n) \o Rest[n - 1]
<1>1. Known(e)
  <2>1. Len(response) - n + 1 \in 1 .. Len(response)
    BY DEF Given
  <2> QED
    BY <2>1 DEF Given, Nth
<1>2. x \in Seq(Token)
  BY EndIs
<1>3. unread = Written(e) \o x
  BY RestIs
<1> HIDE DEF e, x
<1>4. ASSUME e.kind # "error"
      PROVE  Body(e) \o x \in Seq(Token) /\ unread = Heading(e) \o (Body(e) \o x)
  <2>1. Body(e) \in Seq(Token) /\ Heading(e) \in Seq(Token)
    BY <1>1, <1>4, EntryToken
  <2>2. unread = (Heading(e) \o Body(e)) \o x
    BY <1>3, <1>4 DEF Written
  <2>3. Body(e) \o x \in Seq(Token)
    BY <1>2, <2>1, ConcatProperties
  <2> DEFINE h == Heading(e)
             b == Body(e)
  <2>4. h \in Seq(Token) /\ b \in Seq(Token) /\ unread = (h \o b) \o x
    BY <2>1, <2>2
  <2> HIDE DEF h, b
  <2>5. unread = h \o (b \o x)
    BY <1>2, <2>4, Apart
  <2> QED
    BY <2>3, <2>5 DEF h, b
<1> QED
  BY <1>1, <1>2, <1>3, <1>4 DEF e, x

-----------------------------------------------------------------------------
(* What the parser has read and what it has made of it.                    *)
Sent(k, m) == {j \in Data(k) : j <= m}

(* Of each name, the histogram is that of the last of the first m entries. *)
ParsedUpTo(m) ==
  \A k \in Names :
    \/ Sent(k, m) = {} /\ res[k] = None
    \/ \E j \in Sent(k, m) :
         (\A i \in Sent(k, m) : i <= j) /\ Parsed(res[k], response[j], Cut(j))

ReaderInv ==
  \/ /\ pc = "entry"
     /\ \E n \in 0 .. Len(response) : unread = Rest[n] /\ ParsedUpTo(Len(response) - n)
  \/ /\ pc = "body"
     /\ \E n \in 1 .. Len(response) :
          /\ Nth(n).kind # "error" /\ name = Nth(n).name
          /\ unread = Body(Nth(n)) \o (End(n) \o Rest[n - 1])
          /\ ParsedUpTo(Len(response) - n)
  \/ pc = "done" /\ unread = <<>> /\ ParsedUpTo(Len(response))

ParserInv ==
  /\ Given /\ DOMAIN res = Names /\ name \in Names \cup {<<"none", "none">>}
  /\ ReaderInv

LEMMA Unmoved ==
  ASSUME UNCHANGED given
  PROVE  /\ response' = response /\ Rest' = Rest
         /\ \A e : Body(e)' = Body(e)
         /\ \A n : Nth(n)' = Nth(n) /\ End(n)' = End(n)
         /\ Given' <=> Given
         /\ \A h, j : Parsed(h, response[j], Cut(j))' <=> Parsed(h, response[j], Cut(j))
         /\ \A k, m : Sent(k, m)' = Sent(k, m)
<1>1. /\ format' = format /\ response' = response /\ terminated' = terminated
      /\ latencyBucketsCount' = latencyBucketsCount
  BY DEF given
<1>2. Rest' = Rest
  <2> DEFINE Is(f) == f = [n \in 0 .. Len(response) |->
                             IF n = 0 THEN <<>> ELSE Written(Nth(n)) \o (End(n) \o f[n - 1])]
  <2>1. \A n : Written(Nth(n))' = Written(Nth(n)) /\ End(n)' = End(n)
    BY <1>1 DEF Written, Heading, Body, Nth, End
  <2>2. \A f : Is(f)' <=> Is(f)
    BY <1>1, <2>1
  <2>3. Rest = CHOOSE f : Is(f)
    BY Zenon DEF Rest
  <2>4. Rest' = CHOOSE f : Is(f)'
    BY Zenon DEF Rest
  <2> HIDE DEF Is
  <2> QED
    BY <2>2, <2>3, <2>4, Zenon
<1>3. \A e : Body(e)' = Body(e)
  BY <1>1 DEF Body
<1>4. \A n : Nth(n)' = Nth(n) /\ End(n)' = End(n)
  BY <1>1 DEF Nth, End
<1>5. Given' <=> Given
  BY <1>1 DEF Given
<1>6. \A h, j : Parsed(h, response[j], Cut(j))' <=> Parsed(h, response[j], Cut(j))
  BY <1>1 DEF Parsed, Kept, Cut, Percent
<1>7. \A k, m : Sent(k, m)' = Sent(k, m)
  BY <1>1 DEF Sent, Data
<1> QED
  BY <1>1, <1>2, <1>3, <1>4, <1>5, <1>6, <1>7

(* An entry without a histogram changes nothing.                           *)
LEMMA NoData ==
  ASSUME Given, NEW m \in Nat, ParsedUpTo(m), response[m + 1].kind # "data"
  PROVE  ParsedUpTo(m + 1)
<1>1. ASSUME NEW k PROVE Sent(k, m + 1) = Sent(k, m)
  <2>1. \A j \in Data(k) : j <= m + 1 <=> j <= m
    <3> TAKE j \in Data(k)
    <3>1. j # m + 1 /\ j \in Nat
      BY DEF Data, Given
    <3> QED
      BY <3>1
  <2> QED
    BY <2>1 DEF Sent
<1> QED
  BY <1>1 DEF ParsedUpTo

(* The histogram of an entry is that of its name from then on.             *)
LEMMA DataAdded ==
  ASSUME Given, UNCHANGED given, DOMAIN res = Names, NEW m \in 0 .. Len(response) - 1,
         ParsedUpTo(m), NEW e, e = response[m + 1], e.kind = "data", e.name \in Names,
         NEW h, Parsed(h, e, Cut(m + 1)), res' = [res EXCEPT ![e.name] = h]
  PROVE  ParsedUpTo(m + 1)'
<1>1. m + 1 \in 1 .. Len(response) /\ DOMAIN response = 1 .. Len(response) /\ m \in Nat
  BY DEF Given
<1>2. /\ response' = response
      /\ \A k, i : Sent(k, i)' = Sent(k, i)
      /\ \A g, j : Parsed(g, response[j], Cut(j))' <=> Parsed(g, response[j], Cut(j))
  BY Unmoved
<1>3. ASSUME NEW k \in Names
      PROVE  \/ Sent(k, m + 1) = {} /\ res'[k] = None
             \/ \E j \in Sent(k, m + 1) :
                  (\A i \in Sent(k, m + 1) : i <= j) /\ Parsed(res'[k], response[j], Cut(j))
  <2>1. CASE k = e.name
    <3>1. m + 1 \in Sent(k, m + 1)
      BY <1>1, <2>1 DEF Sent, Data
    <3>2. \A i \in Sent(k, m + 1) : i <= m + 1
      BY DEF Sent
    <3>3. res'[k] = h
      BY <2>1
    <3> QED
      BY <3>1, <3>2, <3>3
  <2>2. CASE k # e.name
    <3>1. Sent(k, m + 1) = Sent(k, m)
      <4>1. \A j \in Data(k) : j # m + 1 /\ j \in Nat
        BY <1>1, <2>2 DEF Data
      <4>2. \A j \in Data(k) : j <= m + 1 <=> j <= m
        BY <1>1, <4>1
      <4> QED
        BY <4>2 DEF Sent
    <3>2. res'[k] = res[k]
      BY <2>2
    <3> QED
      BY <3>1, <3>2 DEF ParsedUpTo
  <2> QED
    BY <2>1, <2>2
<1> QED
  BY <1>2, <1>3 DEF ParsedUpTo

LEMMA SameParsed ==
  ASSUME UNCHANGED given, res' = res, NEW m
  PROVE  ParsedUpTo(m)' <=> ParsedUpTo(m)
  BY Unmoved DEF ParsedUpTo

LEMMA ParserInit == LatencyInit => ParserInv
<1> SUFFICES ASSUME LatencyInit PROVE ParserInv
  OBVIOUS
<1>1. Given
  BY ResponseKnown DEF LatencyInit
<1>2. /\ pc = "entry" /\ unread = Stream /\ DOMAIN res = Names
      /\ \A k \in Names : res[k] = None
      /\ name = <<"none", "none">>
  BY DEF LatencyInit
<1>3. ParsedUpTo(Len(response) - Len(response))
  <2>1. \A k : Sent(k, 0) = {}
    BY <1>1 DEF Sent, Data, Given
  <2>2. Len(response) - Len(response) = 0
    BY <1>1 DEF Given
  <2> QED
    BY <1>2, <2>1, <2>2 DEF ParsedUpTo
<1>4. Len(response) \in 0 .. Len(response)
  BY <1>1 DEF Given
<1>5. ReaderInv
  BY <1>2, <1>3, <1>4 DEF ReaderInv, Stream
<1> QED
  BY <1>1, <1>2, <1>5 DEF ParserInv

LEMMA ParserStep == ParserInv /\ [LatencyNext]_vars => ParserInv'
<1> SUFFICES ASSUME ParserInv, [LatencyNext]_vars PROVE ParserInv'
  OBVIOUS
<1>1. Given /\ DOMAIN res = Names /\ name \in Names \cup {<<"none", "none">>} /\ ReaderInv
  BY DEF ParserInv
<1>2. Len(response) \in Nat /\ Rest[0] = <<>>
  BY <1>1, RestIs DEF Given
<1>3. ASSUME NEW n \in 1 .. Len(response)
      PROVE  /\ n - 1 \in 0 .. Len(response)
             /\ Nth(n) = response[(Len(response) - n) + 1] /\ Known(Nth(n))
             /\ Len(response) - n \in 0 .. Len(response) - 1
             /\ (Len(response) - n) + 1 = Len(response) - (n - 1)
             /\ n = 1 => Len(response) - (n - 1) = Len(response)
  <2>1. (Len(response) - n) + 1 \in 1 .. Len(response)
    BY <1>2
  <2> QED
    BY <1>1, <1>2, <2>1 DEF Nth, Given
(* At the start of the n-th entry from the end, or of what it says, or at   *)
(* the end.                                                                *)
<1>12. ASSUME UNCHANGED given, NEW n \in 0 .. Len(response), NEW m, m = Len(response) - n,
              unread' = Rest[n], pc' = "entry", ParsedUpTo(m)'
       PROVE  ReaderInv'
  <2>1. n \in 0 .. Len(response') /\ unread' = Rest'[n] /\ m = Len(response') - n
    BY <1>12, Unmoved
  <2> QED
    BY <1>12, <2>1 DEF ReaderInv
<1>4. ASSUME UNCHANGED given, res' = res, NEW n \in 0 .. Len(response),
             unread' = Rest[n], pc' = "entry", ParsedUpTo(Len(response) - n)
      PROVE  ReaderInv'
  <2>1. PICK m : m = Len(response) - n
    OBVIOUS
  <2>2. ParsedUpTo(m)'
    BY <1>4, <2>1, SameParsed
  <2> QED
    BY <1>4, <1>12, <2>1, <2>2
<1>13. ASSUME UNCHANGED given, res' = res, NEW n \in 1 .. Len(response),
              Nth(n).kind # "error", name' = Nth(n).name,
              unread' = Body(Nth(n)) \o (End(n) \o Rest[n - 1]), pc' = "body",
              ParsedUpTo(Len(response) - n)
       PROVE  ReaderInv'
  <2>1. PICK m : m = Len(response) - n
    OBVIOUS
  <2>2. ParsedUpTo(m)'
    BY <1>13, <2>1, SameParsed
  <2>3. /\ n \in 1 .. Len(response') /\ m = Len(response') - n
        /\ Nth(n)' = Nth(n) /\ End(n)' = End(n) /\ Rest' = Rest
        /\ \A e : Body(e)' = Body(e)
    BY <1>13, <2>1, Unmoved, SMTT(60)
  <2>4. Body(Nth(n))' = Body(Nth(n))
    BY <1>13 DEF given, Body, Nth
  <2>5. /\ Nth(n)'.kind # "error" /\ name' = Nth(n)'.name
        /\ unread' = Body(Nth(n))' \o (End(n)' \o Rest'[n - 1])
    BY <1>13, <2>3, <2>4
  <2> QED
    BY <1>13, <2>1, <2>2, <2>3, <2>5 DEF ReaderInv
<1>5. ASSUME UNCHANGED given, res' = res,
             unread' = <<>>, pc' = "done", ParsedUpTo(Len(response))
      PROVE  ReaderInv'
  BY <1>5, Unmoved, SameParsed DEF ReaderInv
<1>6. UNCHANGED given => Given'
  BY <1>1, Unmoved
<1>7. CASE ReadName
  <2>1. pc = "entry" /\ UNCHANGED given /\ res' = res
    BY <1>7 DEF ReadName
  <2>2. NextIs("batch-index") \/ NextIs("open")
    BY <1>7 DEF ReadName
  <2>3. PICK n \in 0 .. Len(response) : unread = Rest[n] /\ ParsedUpTo(Len(response) - n)
    BY <1>1, <2>1 DEF ReaderInv
  <2>4. n \in 1 .. Len(response)
    <3>1. n # 0
      BY <1>2, <2>2, <2>3 DEF NextIs
    <3> QED
      BY <1>2, <3>1
  <2> DEFINE e == Nth(n)
             x == End(n) \o Rest[n - 1]
  <2>5. /\ Known(e) /\ unread = Written(e) \o x
        /\ e.kind # "error" => /\ Body(e) \o x \in Seq(Token)
                               /\ unread = Heading(e) \o (Body(e) \o x)
    BY <1>1, <2>3, <2>4, EntryIs
  <2>6. e.kind # "error"
    BY <1>1, <2>2, <2>4, <2>5, ReadError
  <2>7. name' = e.name /\ unread' = Body(e) \o x /\ pc' = "body"
    <3> DEFINE z == Body(e) \o x
    <3>1. z \in Seq(Token) /\ unread = Heading(e) \o z
      BY <2>5, <2>6
    <3> HIDE DEF z, e
    <3> QED
      BY <1>7, <2>5, <2>6, <3>1, ReadHeading DEF z
  <2>8. name' \in Names
    BY <2>5, <2>6, <2>7 DEF Known
  <2>9. ReaderInv'
    BY <1>13, <2>1, <2>3, <2>4, <2>6, <2>7
  <2> QED
    BY <1>1, <1>6, <2>1, <2>8, <2>9 DEF ParserInv
<1>8. CASE Skip
  <2>1. pc = "entry" /\ UNCHANGED given /\ res' = res /\ name' = name
    BY <1>8 DEF Skip
  <2>2. ~NextIs("batch-index") /\ ~NextIs("open")
    BY <1>8 DEF Skip
  <2>3. PICK n \in 0 .. Len(response) : unread = Rest[n] /\ ParsedUpTo(Len(response) - n)
    BY <1>1, <2>1 DEF ReaderInv
  <2>4. CASE n = 0
    <3>1. unread' = <<>> /\ pc' = "done"
      BY <1>2, <1>8, <2>3, <2>4, ReadNothing
    <3>2. ParsedUpTo(Len(response))
      BY <1>2, <2>3, <2>4, Len(response) - 0 = Len(response)
    <3> QED
      BY <1>1, <1>5, <1>6, <2>1, <3>1, <3>2 DEF ParserInv
  <2>5. CASE n # 0
    <3>1. n \in 1 .. Len(response)
      BY <1>2, <2>5
    <3> DEFINE e == Nth(n)
               x == End(n) \o Rest[n - 1]
    <3>2. /\ Known(e) /\ unread = Written(e) \o x
          /\ e.kind # "error" => /\ Body(e) \o x \in Seq(Token)
                                 /\ unread = Heading(e) \o (Body(e) \o x)
      BY <1>1, <2>3, <3>1, EntryIs
    <3>3. e.kind = "error"
      <4> SUFFICES ASSUME e.kind # "error" PROVE FALSE
        OBVIOUS
      <4> DEFINE z == Body(e) \o x
      <4>1. z \in Seq(Token) /\ unread = Heading(e) \o z
        BY <3>2
      <4> HIDE DEF z, e
      <4> QED
        BY <2>2, <3>2, <4>1, ReadHeading
    <3>4. \/ unread' = Rest[n - 1] /\ pc' = "entry"
          \/ n = 1 /\ unread' = <<>> /\ pc' = "done"
      BY <1>1, <1>8, <3>1, <3>2, <3>3, ReadError
    <3>5. ParsedUpTo(Len(response) - (n - 1))
      <4>1. /\ Len(response) - n \in Nat
            /\ response[(Len(response) - n) + 1].kind # "data"
        BY <1>2, <1>3, <3>1, <3>3
      <4>2. ParsedUpTo((Len(response) - n) + 1)
        BY <1>1, <2>3, <4>1, NoData
      <4> QED
        BY <1>3, <3>1, <4>2
    <3>6. n - 1 \in 0 .. Len(response) /\ (n = 1 => Len(response) - (n - 1) = Len(response))
      BY <1>3, <3>1
    <3>7. ReaderInv'
      BY <1>4, <1>5, <2>1, <3>4, <3>5, <3>6
    <3> QED
      BY <1>1, <1>6, <2>1, <3>7 DEF ParserInv
  <2> QED
    BY <2>4, <2>5
<1>9. CASE SkipEmpty
  <2>1. pc = "body" /\ UNCHANGED given /\ res' = res /\ name' = name
    BY <1>9 DEF SkipEmpty
  <2>2. Empty /\ unread' = Tail(unread) /\ pc' = "entry"
    BY <1>9 DEF SkipEmpty, Go
  <2>3. PICK n \in 1 .. Len(response) :
          /\ Nth(n).kind # "error" /\ name = Nth(n).name
          /\ unread = Body(Nth(n)) \o (End(n) \o Rest[n - 1])
          /\ ParsedUpTo(Len(response) - n)
    BY <1>1, <2>1 DEF ReaderInv
  <2> DEFINE e == Nth(n)
  <2>4. Known(e)
    BY <1>3
  <2>5. e.kind = "empty"
    <3>1. ~(e.kind = "data")
      BY <1>1, <2>2, <2>3, <2>4, ReadData DEF Known
    <3> QED
      BY <2>3, <2>4, <3>1 DEF Known
  <2>6. Tail(unread) = Rest[n - 1]
    <3>1. unread # <<>>
      BY <2>2 DEF Empty, NextIs
    <3> QED
      BY <1>1, <2>3, <2>5, <3>1, ReadEmpty
  <2>7. ParsedUpTo(Len(response) - (n - 1))
    <3>1. /\ Len(response) - n \in Nat
          /\ response[(Len(response) - n) + 1].kind # "data"
      BY <1>2, <1>3, <2>5
    <3>2. ParsedUpTo((Len(response) - n) + 1)
      BY <1>1, <2>3, <3>1, NoData
    <3> QED
      BY <1>3, <3>2
  <2>8. ReaderInv'
    BY <1>3, <1>4, <2>1, <2>2, <2>6, <2>7
  <2> QED
    BY <1>1, <1>6, <2>1, <2>8 DEF ParserInv
<1>10. CASE ReadHistogram
  <2>1. pc = "body" /\ UNCHANGED given /\ name' = name /\ ~Empty
    BY <1>10 DEF ReadHistogram
  <2>2. PICK n \in 1 .. Len(response) :
          /\ Nth(n).kind # "error" /\ name = Nth(n).name
          /\ unread = Body(Nth(n)) \o (End(n) \o Rest[n - 1])
          /\ ParsedUpTo(Len(response) - n)
    BY <1>1, <2>1 DEF ReaderInv
  <2> DEFINE e == Nth(n)
  <2>9. PICK m : m = Len(response) - n
    OBVIOUS
  <2>3. /\ Known(e) /\ e = response[m + 1] /\ m \in 0 .. Len(response) - 1 /\ m \in Nat
        /\ m + 1 = Len(response) - (n - 1) /\ n - 1 \in 0 .. Len(response)
        /\ n = 1 => m + 1 = Len(response)
    BY <1>2, <1>3, <2>9
  <2>4. CASE e.kind = "empty"
    <3>1. unread = <<>> /\ n = 1
      BY <1>1, <2>1, <2>2, <2>4, ReadEmpty
    <3>2. unread' = <<>> /\ pc' = "done" /\ res' = res
      BY <1>10, <3>1, ReadNothing
    <3>3. ParsedUpTo(m + 1)
      BY <1>1, <2>2, <2>3, <2>4, <2>9, NoData
    <3>4. ReaderInv'
      BY <1>5, <2>1, <2>3, <3>1, <3>2, <3>3
    <3> QED
      BY <1>1, <1>6, <2>1, <3>2, <3>4 DEF ParserInv
  <2>5. CASE e.kind = "data"
    <3>1. EntryValues(e.values) /\ e.name \in Names
      BY <2>3, <2>5 DEF Known
    <3>2. /\ unread' = Rest[n - 1] /\ pc' = "entry"
          /\ \E h : Parsed(h, e, n = 1 /\ ~terminated) /\ res' = [res EXCEPT ![name] = h]
      BY <1>1, <1>10, <2>2, <2>5, <3>1, ReadData
    <3>7. (n = 1 /\ ~terminated) <=> Cut(m + 1)
      BY <1>2, <2>9 DEF Cut
    <3>3. PICK h : Parsed(h, e, Cut(m + 1)) /\ res' = [res EXCEPT ![e.name] = h]
      BY <2>2, <3>2, <3>7 DEF Parsed, Percent
    <3>4. ParsedUpTo(m + 1)'
      <4>1. ParsedUpTo(m)
        BY <2>2, <2>9
      <4> HIDE DEF e
      <4> QED
        BY <1>1, <2>1, <2>3, <2>5, <3>1, <3>3, <4>1, DataAdded
    <3>5. DOMAIN res' = Names
      BY <1>1, <3>3
    <3>6. ReaderInv'
      BY <1>12, <2>1, <2>3, <3>2, <3>4
    <3> QED
      BY <1>1, <1>6, <2>1, <3>5, <3>6 DEF ParserInv
  <2> QED
    BY <2>2, <2>3, <2>4, <2>5 DEF Known
<1>11. CASE UNCHANGED vars
  <2>1. /\ UNCHANGED given /\ unread' = unread /\ name' = name /\ res' = res /\ pc' = pc
    BY <1>11 DEF vars
  <2>2. ReaderInv'
    <3>1. CASE pc = "entry"
      BY <1>1, <1>4, <2>1, <3>1 DEF ReaderInv
    <3>2. CASE pc = "body"
      BY <1>1, <1>13, <2>1, <3>2 DEF ReaderInv
    <3>3. CASE pc = "done"
      BY <1>1, <1>5, <2>1, <3>3 DEF ReaderInv
    <3> QED
      BY <1>1, <3>1, <3>2, <3>3 DEF ReaderInv
  <2> QED
    BY <1>1, <1>6, <2>1, <2>2 DEF ParserInv
<1> QED
  BY <1>7, <1>8, <1>9, <1>10, <1>11 DEF LatencyNext

LEMMA ParserInvariant == LatencySpec => []ParserInv
  BY ParserInit, ParserStep, PTL DEF LatencySpec

-----------------------------------------------------------------------------
(* What is unread is the end of the text.                                  *)
LEMMA EndOf ==
  ASSUME NEW p \in Seq(Token), NEW q \in Seq(Token), NEW s, s = p \o q
  PROVE  Len(q) <= Len(s) /\ q = SubSeq(s, Len(s) - Len(q) + 1, Len(s))
<1>1. /\ s \in Seq(Token) /\ Len(s) = Len(p) + Len(q) /\ Len(p) \in Nat /\ Len(q) \in Nat
      /\ \A i \in 1 .. Len(p) + Len(q) : s[i] = IF i <= Len(p) THEN p[i] ELSE q[i - Len(p)]
  BY ConcatProperties
<1> DEFINE t == SubSeq(s, Len(p) + 1, Len(s))
<1>2. /\ t \in Seq(Token)
      /\ Len(t) = IF Len(p) + 1 <= Len(s) THEN Len(s) - (Len(p) + 1) + 1 ELSE 0
      /\ \A i \in 1 .. Len(s) - (Len(p) + 1) + 1 : t[i] = s[Len(p) + 1 + i - 1]
  <2>1. /\ Len(p) + 1 \in Int /\ Len(s) \in Int
        /\ \A i \in Len(p) + 1 .. Len(s) : s[i] \in Token
    BY <1>1
  <2> QED
    BY <2>1, SubSeqProperties
<1> HIDE DEF t
<1>3. Len(t) = Len(q) /\ Len(s) - (Len(p) + 1) + 1 = Len(q)
  BY <1>1, <1>2
<1>4. ASSUME NEW i \in 1 .. Len(t) PROVE t[i] = q[i]
  <2>1. /\ Len(p) + 1 + i - 1 = Len(p) + i /\ Len(p) + i \in 1 .. Len(p) + Len(q)
        /\ ~(Len(p) + i <= Len(p)) /\ (Len(p) + i) - Len(p) = i
    BY <1>1, <1>3
  <2>2. t[i] = s[Len(p) + i]
    BY <1>2, <1>3, <2>1
  <2> QED
    BY <1>1, <2>1, <2>2
<1>5. t = q
  BY <1>2, <1>3, <1>4, SeqEqual
<1>6. Len(s) - Len(q) + 1 = Len(p) + 1
  BY <1>1
<1> QED
  BY <1>1, <1>5, <1>6 DEF t

LEMMA RestEnds ==
  ASSUME Given, NEW n \in 0 .. Len(response)
  PROVE  \E p \in Seq(Token) : Stream = p \o Rest[n]
<1> DEFINE N == Len(response)
           T == {i \in Nat : i <= N => \E p \in Seq(Token) : Stream = p \o Rest[N - i]}
<1>1. N \in Nat /\ \A i \in 0 .. N : Rest[i] \in Seq(Token)
  BY RestIs DEF Given
<1> HIDE DEF N
<1>2. 0 \in T
  <2>1. N - 0 = N /\ Stream = Rest[N] /\ Rest[N] \in Seq(Token)
    BY <1>1 DEF Stream, N
  <2>2. Stream = <<>> \o Rest[N] /\ <<>> \in Seq(Token)
    BY <2>1, ConcatEmptySeq
  <2> QED
    BY <2>1, <2>2
<1>3. ASSUME NEW i \in Nat, i \in T PROVE i + 1 \in T
  <2> SUFFICES ASSUME i + 1 <= N
               PROVE  \E p \in Seq(Token) : Stream = p \o Rest[N - (i + 1)]
    OBVIOUS
  <2>1. N - i \in 1 .. N /\ (N - i) - 1 = N - (i + 1) /\ i <= N
    BY <1>1
  <2>2. PICK p \in Seq(Token) : Stream = p \o Rest[N - i]
    BY <1>3, <2>1
  <2> DEFINE m == N - i
             e == Nth(m)
             w == Written(e)
             d == End(m)
             r == Rest[m - 1]
  <2>3. Rest[m] = w \o (d \o r) /\ r \in Seq(Token) /\ d \in Seq(Token)
    <3>1. m \in 1 .. Len(response) /\ m - 1 \in 0 .. Len(response)
      BY <1>1, <2>1 DEF N
    <3>2. d \in Seq(Token)
      BY EndToken
    <3> HIDE DEF m
    <3> QED
      BY <3>1, <3>2, RestIs
  <2>4. w \in Seq(Token)
    <3>1. N - m + 1 \in 1 .. N
      BY <1>1, <2>1
    <3>2. Known(e)
      BY <3>1 DEF Nth, Given, N
    <3> QED
      BY <3>2, EntryToken
  <2> HIDE DEF w, d, r
  <2>5. Stream = p \o (w \o (d \o r))
    BY <2>2, <2>3
  <2>6. w \o d \in Seq(Token)
    BY <2>3, <2>4, ConcatProperties
  <2>7. (w \o d) \o r = w \o (d \o r)
    BY <2>3, <2>4, Apart
  <2> DEFINE v == w \o d
  <2>8. v \in Seq(Token) /\ Stream = p \o (v \o r) /\ r \in Seq(Token)
    BY <2>3, <2>5, <2>6, <2>7
  <2> HIDE DEF v
  <2>9. Stream = (p \o v) \o r /\ p \o v \in Seq(Token)
    BY <2>2, <2>8, Apart, ConcatProperties
  <2>10. r = Rest[N - (i + 1)]
    BY <2>1 DEF r
  <2> QED
    BY <2>9, <2>10
<1> HIDE DEF T
<1>4. Nat \subseteq T
  BY <1>2, <1>3, NatSet
<1>5. N - n \in T /\ N - n <= N /\ N - (N - n) = n
  BY <1>1, <1>4 DEF N
<1> QED
  BY <1>5 DEF T

LEMMA UnreadEnds ==
  ASSUME ParserInv
  PROVE  \E p \in Seq(Token) : unread \in Seq(Token) /\ Stream = p \o unread
<1>1. Given /\ ReaderInv /\ \A i \in 0 .. Len(response) : Rest[i] \in Seq(Token)
  BY RestIs DEF ParserInv
<1>2. CASE pc = "entry"
  <2>1. PICK n \in 0 .. Len(response) : unread = Rest[n]
    BY <1>1, <1>2 DEF ReaderInv
  <2> QED
    BY <1>1, <2>1, RestEnds
<1>3. CASE pc = "body"
  <2>1. PICK n \in 1 .. Len(response) :
          Nth(n).kind # "error" /\ unread = Body(Nth(n)) \o (End(n) \o Rest[n - 1])
    BY <1>1, <1>3 DEF ReaderInv
  <2>2. Len(response) - n + 1 \in 1 .. Len(response) /\ n \in 0 .. Len(response)
    BY <1>1 DEF Given
  <2>3. PICK p \in Seq(Token) : Stream = p \o Rest[n]
    BY <1>1, <2>2, RestEnds
  <2> DEFINE h == Heading(Nth(n))
             x == End(n) \o Rest[n - 1]
  <2>4. h \in Seq(Token) /\ Body(Nth(n)) \in Seq(Token)
    <3>1. Known(Nth(n))
      BY <1>1, <2>2 DEF Nth, Given
    <3> QED
      BY <2>1, <3>1, EntryToken
  <2>5. x \in Seq(Token)
    BY <1>1, EndIs
  <2>6. Rest[n] = (h \o Body(Nth(n))) \o x
    BY <1>1, <2>1, RestIs DEF Written
  <2> HIDE DEF h, x
  <2>7. unread = Body(Nth(n)) \o x
    BY <2>1 DEF x
  <2>8. unread \in Seq(Token)
    BY <2>4, <2>5, <2>7, ConcatProperties
  <2>9. Rest[n] = h \o unread
    BY <2>4, <2>5, <2>6, <2>7, Apart
  <2>10. Stream = (p \o h) \o unread /\ p \o h \in Seq(Token)
    <3>1. p \in Seq(Token) /\ h \in Seq(Token) /\ unread \in Seq(Token)
      BY <2>4, <2>8
    <3>2. Stream = p \o (h \o unread)
      BY <2>3, <2>9
    <3>3. (p \o h) \o unread = p \o (h \o unread)
      BY <3>1, Apart
    <3>4. p \o h \in Seq(Token)
      BY <3>1, ConcatProperties
    <3> QED
      BY <3>2, <3>3, <3>4
  <2> QED
    BY <2>8, <2>10
<1>4. CASE pc = "done"
  <2>1. unread = <<>> /\ Stream \in Seq(Token)
    BY <1>1, <1>4 DEF ReaderInv, Stream, Given
  <2>2. Stream = Stream \o unread
    BY <2>1, ConcatEmptySeq
  <2> QED
    BY <2>1, <2>2
<1> QED
  BY <1>1, <1>2, <1>3, <1>4 DEF ReaderInv

(* Every histogram parsed is one the node has sent.                        *)
LEMMA ResParsed ==
  ASSUME ParserInv, NEW k \in Names, res[k] # None
  PROVE  \E j \in Data(k) : Parsed(res[k], response[j], Cut(j))
<1>1. PICK m : ParsedUpTo(m)
  BY DEF ParserInv, ReaderInv
<1> QED
  BY <1>1 DEF ParsedUpTo, Sent

LEMMA DataKnown ==
  ASSUME Given, NEW k \in Names, NEW j \in Data(k)
  PROVE  EntryValues(response[j].values)
  BY DEF Given, Known, Data

(* The parser's position, the name it has read and the histograms it has   *)
(* made are well formed (LatencyTypeOK).                                   *)
THEOREM LatencyTypeCorrect == LatencySpec => []LatencyTypeOK
<1>1. ASSUME ParserInv PROVE LatencyTypeOK
  <2>1. PICK p \in Seq(Token) : unread \in Seq(Token) /\ Stream = p \o unread
    BY <1>1, UnreadEnds
  <2>2. /\ Len(unread) <= Len(Stream)
        /\ unread = SubSeq(Stream, Len(Stream) - Len(unread) + 1, Len(Stream))
    BY <2>1, EndOf
  <2>3. ASSUME NEW k \in Names, res[k] # None PROVE Len(res[k].labels) = Len(res[k].values)
    <3>1. PICK j \in Data(k) : Parsed(res[k], response[j], Cut(j))
      BY <1>1, <2>3, ResParsed
    <3>2. \E kept \in Nat :
            Len(res[k].labels) = kept + 1 /\ Len(res[k].values) = kept + 1
      BY <3>1 DEF Parsed
    <3> QED
      BY <3>2
  <2>4. format \in Formats /\ latencyBucketsCount \in BucketCounts
    BY <1>1 DEF ParserInv, Given
  <2>5. name \in Names \cup {<<"none", "none">>} /\ pc \in {"entry", "body", "done"}
    BY <1>1 DEF ParserInv, ReaderInv
  <2> QED
    BY <2>2, <2>3, <2>4, <2>5 DEF LatencyTypeOK
<1> QED
  BY <1>1, ParserInvariant, PTL

(* The histograms parsed are those the node sent, with as many thresholds  *)
(* as asked for, whatever empty entries and messages come between and      *)
(* whether or not the answer ends in a delimiter (EntriesParsed).          *)
THEOREM EntriesParsedHolds == LatencySpec => []EntriesParsed
<1>1. ASSUME ParserInv PROVE EntriesParsed
  <2> SUFFICES ASSUME pc = "done", NEW k \in Names
               PROVE  IF Data(k) = {} THEN res[k] = None
                      ELSE LET j == LastData(k)
                               v == response[j].values
                               n == Kept(Len(v) - 1)
                           IN  /\ res[k] # None
                               /\ res[k].labels = First(n) /\ Len(res[k].values) = n + 1
                               /\ res[k].values[1] = v[1] * Whole
                               /\ \A i \in 2 .. n + 1 :
                                    res[k].values[i] = v[1] * (Whole - Percent(v, i, Cut(j)))
    BY DEF EntriesParsed
  <2>1. Given /\ ParsedUpTo(Len(response))
    BY <1>1 DEF ParserInv, ReaderInv
  <2>2. Sent(k, Len(response)) = Data(k)
    BY <2>1 DEF Sent, Data, Given
  <2>3. CASE Data(k) = {}
    BY <2>1, <2>2, <2>3 DEF ParsedUpTo
  <2>4. CASE Data(k) # {}
    <3>1. PICK j \in Data(k) : (\A i \in Data(k) : i <= j) /\ Parsed(res[k], response[j], Cut(j))
      BY <2>1, <2>2, <2>4 DEF ParsedUpTo
    <3>2. Data(k) \subseteq Nat
      BY <2>1 DEF Data, Given
    <3>3. LastData(k) = j
      <4> DEFINE i == CHOOSE i \in Data(k) : \A l \in Data(k) : i >= l
      <4>1. \A l \in Data(k) : j >= l
        BY <3>1, <3>2
      <4>2. i \in Data(k) /\ \A l \in Data(k) : i >= l
        BY <4>1
      <4>3. i = j
        BY <3>1, <3>2, <4>1, <4>2
      <4> QED
        BY <4>3, Zenon DEF LastData
    <3>4. PICK kept \in Nat :
            /\ kept = Kept(Len(response[j].values) - 1)
            /\ Len(res[k].values) = kept + 1
            /\ res[k].labels = First(kept)
            /\ res[k].values[1] = response[j].values[1] * Whole
            /\ \A i \in 2 .. kept + 1 :
                 res[k].values[i]
                   = response[j].values[1] * (Whole - Percent(response[j].values, i, Cut(j)))
      BY <3>1 DEF Parsed
    <3>7. res[k] # None
      <4>1. res[k] \in [labels : Seq(Nat), values : Seq(Int)]
        BY <3>1 DEF Parsed
      <4> QED
        BY <4>1, NoneApart
    <3> QED
      BY <2>4, <3>3, <3>4, <3>7
  <2> QED
    BY <2>3, <2>4
<1> QED
  BY <1>1, ParserInvariant, PTL

(* Of every histogram a higher threshold never counts fewer operations,    *)
(* and "+Inf" counts most (BucketsCumulative).                             *)
THEOREM BucketsCumulativeHolds == LatencySpec => []BucketsCumulative
<1>1. ASSUME ParserInv PROVE BucketsCumulative
  <2> SUFFICES ASSUME NEW k \in Names, res[k] # None
               PROVE  /\ \A i \in 2 .. Len(res[k].values) - 1 :
                           res[k].values[i] <= res[k].values[i + 1]
                      /\ \A i \in DOMAIN res[k].values : res[k].values[i] <= res[k].values[1]
    BY DEF BucketsCumulative
  <2>1. PICK j \in Data(k) : Parsed(res[k], response[j], Cut(j))
    BY <1>1, ResParsed
  <2>2. PICK kept \in Nat :
          /\ Len(res[k].values) = kept + 1
          /\ \A i \in 2 .. kept : res[k].values[i] <= res[k].values[i + 1]
          /\ \A i \in 1 .. kept + 1 : res[k].values[i] <= res[k].values[1]
    BY <2>1 DEF Parsed
  <2>3. res[k].values \in Seq(Int)
    BY <2>1 DEF Parsed
  <2>4. DOMAIN res[k].values = 1 .. kept + 1 /\ Len(res[k].values) - 1 = kept
    BY <2>2, <2>3
  <2> QED
    BY <2>2, <2>4
<1> QED
  BY <1>1, ParserInvariant, PTL
=============================================================================
