----------------------------- MODULE LatencyInfo -----------------------------
(***************************************************************************)
(* The parser of latency histograms: parseLatencyInfo ("latencies:", from  *)
(* 5.1 on) and parseLatencyInfoLegacy ("latency:") of                      *)
(* latency_info_parser.go, reading from a stream they share the position   *)
(* of.  Entries may be empty or an error message, and the last one may     *)
(* lack its ";": a reader that goes wrong in one entry reads the next one  *)
(* wrongly or never stops.                                                 *)
(*                                                                         *)
(* The stream is a sequence of tokens <<text, number>>.  A number is that  *)
(* of a percentage or a rate in hundredths, as the node writes it ("0.37"  *)
(* is 37); names, units and times are one token each, punctuation is       *)
(* written in words.                                                       *)
(***************************************************************************)
EXTENDS Integers, Sequences, FiniteSetsExt

CONSTANTS
  Namespaces, Operations,
  Rates,        \* operations per second, the first value of a histogram
  Percents,     \* those slower than a threshold
  MaxEntries, MaxBuckets,
  BucketCounts, \* values of latency_buckets_count
  None          \* no histogram

Formats == {"latencies", "latency"}

\* All operations, as a percentage in hundredths.
Whole == 10000

\* The percentage slower than a threshold does not grow with the threshold.
Falling == {q \in UNION {[1 .. n -> Percents] : n \in 1 .. MaxBuckets} :
              \A i \in 1 .. Len(q) - 1 : q[i] >= q[i + 1]}

Values == {<<v[1]>> \o v[2] : v \in Rates \X Falling}

Names == (Namespaces \X Operations) \cup {<<"none", "batch-index">>}

Entry == [kind : {"data"}, name : Names, values : Values]
           \cup [kind : {"empty"}, name : Names, values : {<<>>}]
           \cup [kind : {"error"}, name : {<<"none", "none">>}, values : {<<>>}]

ASSUME LatencyAssumption ==
  /\ Rates \subseteq Nat /\ Percents \subseteq 0 .. Whole
  /\ MaxEntries \in Nat /\ MaxBuckets \in Nat \ {0} /\ BucketCounts \subseteq Nat
  /\ (Namespaces \cup Operations) \cap {"none", "close", "colon"} = {}
  /\ None \notin [labels : Seq(Nat), values : Seq(Int)]

VARIABLES
  format, latencyBucketsCount,  \* of the node; of ape.toml
  response, terminated,         \* what the node says; whether it ends with ";"
  unread,                       \* by the reader
  name,                         \* namespace and operation read last
  res,                          \* the histograms parsed
  pc                            \* "entry", "body" or "done"

given == <<format, latencyBucketsCount, response, terminated>>
vars  == <<given, unread, name, res, pc>>

-----------------------------------------------------------------------------
(* What the node writes. *)

Text(t) == <<t, 0>>
Number(n) == <<"number", n>>

Listed(s) ==
  [i \in 1 .. 2 * Len(s) - 1 |-> IF i % 2 = 1 THEN s[(i + 1) \div 2] ELSE Text("comma")]

Numbers(e) == Listed([i \in DOMAIN e.values |-> Number(e.values[i])])

\* ops/sec,>1ms,>2ms,...: thresholds stand for their index.
Thresholds(e) == Listed([i \in DOMAIN e.values |-> <<"threshold", i - 1>>])

Heading(e) ==
  IF e.name[1] = "none" THEN <<Text("batch-index"), Text("colon")>>
  ELSE <<Text("open"), Text(e.name[1]), Text("close"),
         Text("dash"), Text(e.name[2]), Text("colon")>>

Body(e) ==
  CASE e.kind = "empty" -> <<>>
    [] e.kind = "data" /\ format = "latencies" ->
         <<Text("msec"), Text("comma")>> \o Numbers(e)
    [] OTHER -> <<Text("time"), Text("comma")>> \o (Thresholds(e)
                  \o (<<Text("semicolon"), Text("time"), Text("comma")>> \o Numbers(e)))

Written(e) ==
  IF e.kind = "error" THEN <<Text("e"), Text("rror-no-data-yet-or-back-too-small")>>
  ELSE Heading(e) \o Body(e)

\* What follows the n-th entry from the end: a delimiter, or nothing.
End(n) == IF n > 1 \/ terminated THEN <<Text("semicolon")>> ELSE <<>>

\* The n-th entry from the end, and the text of the last n.
Nth(n) == response[Len(response) - n + 1]

Rest[n \in 0 .. Len(response)] ==
  IF n = 0 THEN <<>> ELSE Written(Nth(n)) \o (End(n) \o Rest[n - 1])

Stream == Rest[Len(response)]

-----------------------------------------------------------------------------
(* The reader. *)

\* PeekAndExpect
NextIs(t) == unread # <<>> /\ Head(unread) = Text(t)

\* The character before a missing delimiter is dropped: a digit of a number.
Shortened(t) == IF t[1] = "number" THEN Number(t[2] - (t[2] % 10)) ELSE t

\* ReadUntil: what is before the next delim, and what is after it.
ReadUntil(s, delim) ==
  LET at == {i \in DOMAIN s : s[i] = Text(delim)} IN
  IF at # {}
  THEN [text |-> SubSeq(s, 1, Min(at) - 1), eof |-> FALSE,
        rest |-> SubSeq(s, Min(at) + 1, Len(s))]
  ELSE [text |-> [i \in DOMAIN s |-> IF i = Len(s) THEN Shortened(s[i]) ELSE s[i]],
        eof |-> TRUE, rest |-> <<>>]

\* strings.Split: every other token is a comma.
Fields(text) == [i \in 1 .. (Len(text) + 1) \div 2 |-> text[2 * i - 1]]

\* Mutant: the rate of slower operations, not of those within the threshold.
BucketOfSlower(rate, percent) == rate * percent

\* In units of a hundredth of a percent of a hundredth of an operation.
Bucket(rate, percent) == rate * Whole - percent * rate

\* The i-th threshold: its label is written in the response, or 2^(i-1).
Threshold(i, labels) ==
  IF format = "latency" THEN labels[i + 1][2] ELSE i

\* Mutant: the limit on buckets is not applied to their labels.
HistogramUnlimited(numbers, labels) ==
  LET n == IF latencyBucketsCount > 0 /\ latencyBucketsCount < Len(numbers) - 1
           THEN latencyBucketsCount ELSE Len(numbers) - 1
      rate == numbers[1][2]
  IN  [labels |-> [i \in DOMAIN numbers |-> IF i = 1 THEN 0 ELSE Threshold(i - 1, labels)],
       values |-> [i \in 1 .. n + 1 |->
                     IF i = 1 THEN rate * Whole ELSE Bucket(rate, numbers[i][2])]]

\* bucketLabels and bucketValues: "+Inf" (0) first, then as many buckets as
\* are asked for.
Histogram(numbers, labels) ==
  LET n == IF latencyBucketsCount > 0 /\ latencyBucketsCount < Len(numbers) - 1
           THEN latencyBucketsCount ELSE Len(numbers) - 1
      rate == numbers[1][2]
  IN  [labels |-> [i \in 1 .. n + 1 |-> IF i = 1 THEN 0 ELSE Threshold(i - 1, labels)],
       values |-> [i \in 1 .. n + 1 |->
                     IF i = 1 THEN rate * Whole ELSE Bucket(rate, numbers[i][2])]]

-----------------------------------------------------------------------------
Responses == UNION {[1 .. n -> Entry] : n \in 0 .. MaxEntries}

LatencyTypeOK ==
  /\ format \in Formats /\ latencyBucketsCount \in BucketCounts
  /\ Len(unread) <= Len(Stream)
  /\ unread = SubSeq(Stream, Len(Stream) - Len(unread) + 1, Len(Stream))
  /\ name \in Names \cup {<<"none", "none">>}
  /\ \A k \in Names : res[k] # None => Len(res[k].labels) = Len(res[k].values)
  /\ pc \in {"entry", "body", "done"}

LatencyInit ==
  /\ format \in Formats /\ latencyBucketsCount \in BucketCounts
  /\ response \in Responses /\ terminated \in BOOLEAN
  /\ unread = Stream
  /\ name = <<"none", "none">>
  /\ res = [k \in Names |-> None]
  /\ pc = "entry"

Go(rest, step) == unread' = rest /\ pc' = step

\* readNamespaceAndOperation: "batch-index:" or "{namespace}-operation:".
ReadName ==
  /\ pc = "entry"
  /\ \/ /\ NextIs("batch-index")
        /\ name' = <<"none", "batch-index">>
        /\ Go(ReadUntil(unread, "colon").rest, "body")
     \/ /\ NextIs("open")
        /\ \E ns \in {ReadUntil(Tail(unread), "close")} :
             \E op \in {ReadUntil(Tail(ns.rest), "colon")} :
               /\ name' = <<ns.text[1][1], op.text[1][1]>>
               /\ Go(op.rest, "body")
  /\ UNCHANGED <<given, res>>

\* Mutant: what is not an entry is looked at, not read.
SkipUnread ==
  /\ pc = "entry"
  /\ ~NextIs("batch-index") /\ ~NextIs("open")
  /\ Go(unread, IF unread = <<>> THEN "done" ELSE "entry")
  /\ UNCHANGED <<given, name, res>>

\* Anything else is skipped up to ";", its first character unseen: meeting
\* the end of the stream ends the loop.
Skip ==
  /\ pc = "entry"
  /\ ~NextIs("batch-index") /\ ~NextIs("open")
  /\ \E r \in {ReadUntil(IF unread = <<>> THEN <<>> ELSE Tail(unread), "semicolon")} :
       Go(r.rest, IF r.eof THEN "done" ELSE "entry")
  /\ UNCHANGED <<given, name, res>>

\* Mutant: an empty entry is read like any other.
EmptyUnseen == FALSE

\* The entry has no histogram.
Empty == NextIs("semicolon")

SkipEmpty ==
  /\ pc = "body"
  /\ Empty
  /\ Go(Tail(unread), "entry")
  /\ UNCHANGED <<given, name, res>>

\* The unit, or the time and the thresholds and another time, come first;
\* the stream may end in the values only.
ReadHistogram ==
  /\ pc = "body"
  /\ ~Empty
  /\ \E unit \in {ReadUntil(unread, "comma")} :
     \E labels \in {IF format = "latency" THEN ReadUntil(unit.rest, "semicolon") ELSE unit} :
     \E time \in {IF format = "latency" THEN ReadUntil(labels.rest, "comma") ELSE labels} :
     \E values \in {ReadUntil(time.rest, "semicolon")} :
       IF unit.eof \/ labels.eof \/ time.eof
       THEN Go(time.rest, "done") /\ UNCHANGED res
       ELSE /\ Go(values.rest, "entry")
            /\ res' = [res EXCEPT ![name] =
                         Histogram(Fields(values.text), Fields(labels.text))]
  /\ UNCHANGED <<given, name>>

LatencyNext == ReadName \/ Skip \/ SkipEmpty \/ ReadHistogram

LatencySpec == LatencyInit /\ [][LatencyNext]_vars /\ WF_vars(LatencyNext)

-----------------------------------------------------------------------------
(* Properties. *)

Data(k) == {i \in DOMAIN response : response[i].kind = "data" /\ response[i].name = k}

LastData(k) == CHOOSE i \in Data(k) : \A j \in Data(k) : i >= j

\* The labels of "+Inf" and the first n thresholds.
First(n) == [i \in 1 .. n + 1 |-> i - 1]

\* The answer ends with the j-th entry, and not with ";".
Cut(j) == j = Len(response) /\ ~terminated

\* What is read of v[i], of an entry that is cut or not.
Percent(v, i, cut) == IF cut /\ i = Len(v) THEN v[i] - (v[i] % 10) ELSE v[i]

\* The buckets asked for, of n that were sent.
Kept(n) == IF latencyBucketsCount = 0 THEN n ELSE Min({latencyBucketsCount, n})

(* Whatever empty entries and messages are in between, and with or without *)
(* the last ";", the histograms parsed are those the node sent last: as    *)
(* many of their first thresholds as latency_buckets_count asks for, all   *)
(* of them if it is 0, and for each the operations that were not slower.   *)
(* Only the last percentage of an answer without the last ";" is short of  *)
(* its last digit.                                                         *)
EntriesParsed ==
  pc = "done" => \A k \in Names :
    IF Data(k) = {} THEN res[k] = None
    ELSE LET j == LastData(k)
             v == response[j].values
             n == Kept(Len(v) - 1)
         IN  /\ res[k] # None
             /\ res[k].labels = First(n) /\ Len(res[k].values) = n + 1
             /\ res[k].values[1] = v[1] * Whole
             /\ \A i \in 2 .. n + 1 :
                  res[k].values[i] = v[1] * (Whole - Percent(v, i, Cut(j)))

(* Prometheus' buckets are cumulative: a higher threshold never counts     *)
(* fewer operations and "+Inf" counts most, although the node reports the  *)
(* share of the slower ones and the last share may lose its last digit.    *)
BucketsCumulative ==
  \A k \in Names : res[k] # None =>
    /\ \A i \in 2 .. Len(res[k].values) - 1 : res[k].values[i] <= res[k].values[i + 1]
    /\ \A i \in DOMAIN res[k].values : res[k].values[i] <= res[k].values[1]

(* The parser loops until the stream ends, for every response.             *)
ParserTerminates == <>(pc = "done")

=============================================================================
