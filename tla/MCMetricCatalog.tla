--------------------------- MODULE MCMetricCatalog ---------------------------
(* Model-checking instance of MetricCatalog: statistics of two namespaces,  *)
(* of a data centre, of the node, of a set, of users and of histograms,     *)
(* after mock_test_data.txt, and three hosts.                               *)
EXTENDS MetricCatalog

Plain(context, level, key, metric, ns, dc, subject) ==
  [context |-> context, level |-> level, key |-> key, device |-> <<>>, type |-> "",
   index |-> "", metric |-> metric, ns |-> ns, dc |-> dc, subject |-> subject, item |-> <<>>]

FileAge(i) ==
  [Plain("namespace", "", 1, <<"age">>, "bar", "", "") EXCEPT
     !.device = <<StorageEngine>>, !.type = "file", !.index = i]

Agent(text, version, app) ==
  [Plain("node_stats", "", 4, text, "", "", "") EXCEPT
     !.type = UserAgent, !.item = <<version, app>>]

Bucket(histogram, ns, what, le) ==
  [Plain("latencies", "", 8, <<histogram, "_", "ms", "_", what>>, ns, "", histogram) EXCEPT
     !.item = le]

Stored ==
  {FileAge("0"), FileAge("1"),
   Plain("namespace", "", 2, <<"objects">>, "test", "", ""),
   Plain("sets", "", 5, <<"objects">>, "test", "", "set2")}

Shipped ==
  {Plain("xdr", "dcStats", 5, <<"lag">>, "", "dc1", ""),
   Plain("xdr", "nsConfig", 6, <<"delay", "-", "ms">>, "test", "dc1", ""),
   Plain("xdr", "nsStats", 7, <<"lag">>, "test", "dc1", "")}

\* The first two agents differ in their count, the third in its format.
OfNode ==
  {Plain("node_stats", "", 3, <<"heap_used">>, "", "", ""),
   Plain("node_stats", "", 4, <<"pseudo_log_debug">>, "", "", ""),
   Agent(<<"MSxn", ":count=1">>, "go-1", "app"), Agent(<<"MSxo", ":count=1">>, "go-2", "app"),
   Agent(<<"MSxo", ":count=2">>, "go-2", "app"), Agent(<<"Mixn", ":count=1">>, "go-1", "app")}

Uncached ==
  {Plain("users", "", 9, <<"conns_in_use">>, "", "", "admin"),
   Plain("users", "", 9, <<"conns_in_use">>, "", "", "backup"),
   Bucket("read", "test", "bucket", <<"+Inf">>), Bucket("read", "test", "count", <<>>),
   Bucket("read", "bar", "count", <<>>), Bucket("batch-index", "", "count", <<>>)}

MCAnswers ==
  {Stored} \cup {Stored \ {s} : s \in Stored} \cup SUBSET Shipped
    \cup {{s \in OfNode : s.type # UserAgent}, OfNode, Uncached}

Segment(key, pid) ==
  [kind |-> "segment", key |-> key, sound |-> TRUE, cpid |-> pid, lpid |-> pid]

\* Two stages of one namespace, its sindex arena, a line cut short, a stranger.
Shm ==
  <<[Segment(<<>>, "") EXCEPT !.kind = "header"],
    Segment(<<"a", "e", "0", "0", "1", "0", "0", "0">>, "77"),
    Segment(<<"a", "e", "0", "0", "1", "1", "0", "0">>, "77"),
    [Segment(<<>>, "") EXCEPT !.kind = "blank"],
    Segment(<<"a", "2", "0", "0", "1", "0", "0", "0">>, "77"),
    [Segment(<<"a", "d", "0", "0", "1", "0", "0", "0">>, "77") EXCEPT !.sound = FALSE],
    Segment(<<"0", "0", "0", "0", "3", "0", "3", "9">>, "1"),
    Segment(<<"a", "d", "0", "0", "1", "0", "0", "7">>, "77"),
    Segment(<<"a", "d", "0", "0", "1", "0", "0", "8">>, "77")>>

Snmp ==
  <<[protocol |-> "icmp", names |-> <<"inmsgs">>, values |-> <<"number">>],
    [protocol |-> "tcp", names |-> <<"maxconn", "activeopens", "currestab">>,
     values |-> <<"number", "number", "number">>],
    [protocol |-> "ip", names |-> <<"forwarding", "defaultttl">>, values |-> <<"number">>],
    [protocol |-> "tcp", names |-> <<"retranssegs">>, values |-> <<"number">>]>>

Host == [refresh |-> TRUE, fileNr |-> {"file-nr"}, meminfo |-> {"shmem", "memtotal"},
         snmp |-> Snmp, devices |-> {"lo", "eth0"}, shm |-> Shm]

MCHosts == {Host, [Host EXCEPT !.refresh = FALSE]}

Named(word) == {ServerName(s) : s \in {t \in Stats : Contains(t.metric, word)}}

Lists(globs, subjects) ==
  [c \in Contexts \cup SubjectContexts |-> IF c \in Contexts THEN globs ELSE subjects]

FilterOf(a, b, subjects, enabled, blocked) ==
  [allow |-> Lists(a, subjects), block |-> Lists(b, blocked),
   allowEnabled |-> [c \in SubjectContexts |-> enabled]]

\* The last two tell the elements of an array apart.
MCFilters ==
  {FilterOf({}, {}, {}, FALSE, {}),
   FilterOf({Named("age"), Named("lag")}, {}, {"admin", "read"}, TRUE, {}),
   FilterOf({}, {Named("age"), Named(":count=2")}, {}, TRUE, {}),
   FilterOf({Named("age"), Named("lag")}, {Named("age"), Named("objects")},
            {"admin", "read"}, TRUE, {"admin", "batch-index"}),
   FilterOf({}, {{ServerName(FileAge("0"))}}, {}, FALSE, {}),
   FilterOf({{ServerName(FileAge("1"))}, Named("objects")}, {}, {}, TRUE, {})}

\* The array is listed with dots: configs/gauge_stats_list.toml:264.
MCGaugeList ==
  [c \in Contexts \cup {"sysinfo"} |->
     CASE c = "namespace" -> {<<"objects">>, <<StorageEngine, ".", "file", ".", "age">>}
       [] c = "xdr" -> {<<"lag">>}
       [] c = "node_stats" -> {}
       [] c = "sysinfo" -> {<<"allocated">>, <<"tcp", "_", "currestab">>}
       [] OTHER -> {<<"objects">>}]

\* What SeriesUniqueHolds of MetricCatalog_proofs asks of the names.
ASSUME NamesApart
=============================================================================
