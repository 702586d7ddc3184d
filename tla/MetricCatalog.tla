---------------------------- MODULE MetricCatalog ----------------------------
(***************************************************************************)
(* How a statistic of the node becomes a metric, and which metrics reach   *)
(* an executor: the caches of the statistics processors, which keep what   *)
(* was decided when a name was first met (name, type, allowed or not), the *)
(* filters of utils.go, aerospike_stat.go, and PushToPrometheus against    *)
(* processAndPushStats.                                                    *)
(*                                                                         *)
(* A name is a sequence of words, "-", "." and "_" being words of their    *)
(* own, except that storage-engine is one word.  A glob of ape.toml is the *)
(* set of the server's names it matches.  Values are left out.             *)
(***************************************************************************)
EXTENDS HostInfo

CONSTANTS
  Answers,    \* what the node may answer a refresh with: sets of statistics, see Stat
  Hosts,      \* what the host of the exporter may look like: see HostInfo
  Filters,    \* the allow and block lists the exporter may be started with
  GaugeList,  \* gauge_stats_list.toml: [section -> set of names]
  Miss        \* no entry in a cache

\* Their lists hold globs, and their metrics are kept in a cache.
Contexts == {"namespace", "node_stats", "sets", "sindex", "xdr"}

\* Their lists hold users and histograms.
SubjectContexts == {"users", "latencies"}

\* Of the request "get-{stats,config}:context=xdr;dc=d[;namespace=n]".
XdrLevels == {"dcStats", "dcConfig", "nsStats", "nsConfig"}

StorageEngine == "storage-engine"

(* A statistic as the node names it:                                       *)
(*   metric            a plain one                                         *)
(*   device.metric     one of a device (storage-engine, index-type, ...)   *)
(*   device.type[index].metric   one of an array of them                   *)
(* key is the position of its info key among those that are processed,     *)
(* device is <<>> and type and index are "" where there is none; subject   *)
(* is the user or the histogram, item the rest of its labels.  The type of *)
(* a user agent is UserAgent; its metric is the whole text, with count.    *)
Stat == [context : Contexts \cup SubjectContexts \cup HostContexts,
         level : XdrLevels \cup {""}, key : Nat,
         device : Seq(STRING), type : STRING, index : STRING, metric : Seq(STRING),
         ns : STRING, dc : STRING, subject : STRING, item : Seq(STRING)]

UserAgent == "user-agent"

Stats == (UNION Answers) \cup UNION {RefreshSystemInfo(h) : h \in Hosts}

ASSUME CatalogAssumption ==
  /\ \A a \in Answers : \A s \in a : s \in Stat /\ (s.context = "xdr" <=> s.level # "")
  /\ \A f \in Filters :
       /\ DOMAIN f = {"allow", "block", "allowEnabled"}
       /\ \A l \in {"allow", "block"} : DOMAIN f[l] = Contexts \cup SubjectContexts
       /\ \A c \in SubjectContexts : f.allowEnabled[c] \/ f.allow[c] = {}
  /\ DOMAIN GaugeList = Contexts \cup {"sysinfo"}

VARIABLES
  filter,  \* config.Cfg.Aerospike: its lists, read at the start
  cache,   \* namespaceStats, nodeMetrics, setMetrics, sindexMetrics, xdrMetrics
  answer,  \* the statistics this refresh got from the node and the host
  pending, \* those not processed yet
  scraped  \* the metrics made from the others

vars == <<filter, cache, answer, pending, scraped>>

-----------------------------------------------------------------------------
(* Names, types and filters. *)

IsArray(s)  == s.index # ""
IsCached(s) == s.context \in Contexts

ServerName(s) ==
  IF IsArray(s) THEN s.device \o <<".", s.type, "[", s.index, "]", ".">> \o s.metric
  ELSE IF s.device # <<>> THEN s.device \o <<".">> \o s.metric
  ELSE s.metric

\* constructMetricNamePrefix
MetricPrefix(s) ==
  CASE s.level \in {"nsConfig", "nsStats"} -> <<"dc", "_", "namespace", "_">>
    [] s.level = "dcConfig" -> <<"dc", "_">>
    [] OTHER -> <<>>

\* handleUserAgentsStats: dynamicStatname
AgentName == <<"user", "_", "agent", "_", "details">>

\* handleArrayStats: compositeStatName
ConstructedName(s) ==
  IF IsArray(s) THEN s.device \o <<"_", s.type, "_">> \o s.metric
  ELSE IF s.type = UserAgent THEN AgentName
  ELSE MetricPrefix(s) \o ServerName(s)

\* The namespace processor remembers by the constructed name, the others by
\* the name the node uses.
CacheKey(s) ==
  <<s.context, IF s.context = "namespace" THEN ConstructedName(s) ELSE ServerName(s)>>

LoopPatterns(name, patterns) == \E p \in patterns : name \in p

\* The globs of a context; those of SubjectContexts are not asked for.
Globs(list, context) == IF context \in Contexts THEN filter[list][context] ELSE {}

\* Mutant: the allow list is looked at first.
AllowlistFirst(s) ==
  \/ LoopPatterns(ServerName(s), Globs("allow", s.context))
  \/ /\ Globs("allow", s.context) = {}
     /\ ~LoopPatterns(ServerName(s), Globs("block", s.context))

isMetricAllowed(s) ==
  /\ ~LoopPatterns(ServerName(s), Globs("block", s.context))
  /\ \/ Globs("allow", s.context) = {}
     \/ LoopPatterns(ServerName(s), Globs("allow", s.context))

\* refreshUserStats, parseSingleLatenciesKey: an allow list that is given and
\* empty allows nobody.
IsSkipped(s) ==
  /\ s.context \in SubjectContexts
  /\ \/ filter.allowEnabled[s.context] /\ s.subject \notin filter.allow[s.context]
     \/ s.subject \in filter.block[s.context]

isGauge(context, name) ==
  name \in GaugeList[IF context \in HostContexts THEN "sysinfo" ELSE context]

\* The name without "storage-engine" is a configuration, or a listed gauge.
GetMetricType(context, name) ==
  LET rest == SelectSeq(name, LAMBDA w : w # StorageEngine) IN
  IF context \in SubjectContexts \/ Contains(rest, "-") \/ isGauge(context, rest)
  THEN "gauge" ELSE "counter"

NewAerospikeStat(s) ==
  [name |-> ConstructedName(s), allowed |-> isMetricAllowed(s),
   mtype |-> GetMetricType(s.context, ConstructedName(s))]

\* The labels that tell series of one name apart.  The histogram is part of
\* the name already; a user agent has its version and application.
Labels(s) ==
  IF IsArray(s) THEN <<s.ns, s.index>>
  ELSE IF s.context = "xdr" THEN <<s.dc, s.ns>> ELSE <<s.ns, s.subject>> \o s.item

\* Mutant: the namespace of a dc is not a label.
MetricWithoutNamespace(s, entry) ==
  [stat |-> s, entry |-> entry,
   labels |-> IF s.context = "xdr" THEN <<s.dc>> ELSE Labels(s)]

\* updateValues, but for the value
Metric(s, entry) == [stat |-> s, entry |-> entry, labels |-> Labels(s)]

\* The names s may be exported under: by the one its cache entry was made for.
Names(s) ==
  {ConstructedName(t) : t \in {u \in Stats : u = s \/ (IsCached(s) /\ CacheKey(u) = CacheKey(s))}}

-----------------------------------------------------------------------------
Keys    == {CacheKey(s) : s \in {t \in Stats : IsCached(t)}}
Entries == [name : {ConstructedName(s) : s \in Stats}, allowed : BOOLEAN,
            mtype : {"gauge", "counter"}]

ASSUME MissAssumption == Miss \notin Entries

CatalogTypeOK ==
  /\ filter \in Filters
  /\ cache \in [Keys -> {Miss} \cup Entries]
  /\ pending \subseteq answer /\ answer \subseteq Stats
  /\ \A m \in scraped : m.stat \in answer \ pending /\ m.entry \in Entries

CatalogInit ==
  /\ filter \in Filters
  /\ cache = [k \in Keys |-> Miss]
  /\ answer = {} /\ pending = {} /\ scraped = {}

\* Mutant: the list of metrics is not emptied between refreshes.
BeginRefreshAppended ==
  /\ pending = {}
  /\ \E a \in Answers, h \in Hosts : answer' = a \cup RefreshSystemInfo(h)
  /\ pending' = answer'
  /\ UNCHANGED <<filter, cache, scraped>>

BeginRefresh ==
  /\ pending = {}
  /\ \E a \in Answers, h \in Hosts : answer' = a \cup RefreshSystemInfo(h)
  /\ pending' = answer'
  /\ scraped' = {}
  /\ UNCHANGED <<filter, cache>>

\* The info keys are gone through in order, the statistics of one key in any.
ProcessStat(s) ==
  /\ s \in pending /\ IsCached(s)
  /\ \A t \in pending : IsCached(t) => s.key <= t.key
  /\ cache' = IF cache[CacheKey(s)] = Miss
              THEN [cache EXCEPT ![CacheKey(s)] = NewAerospikeStat(s)] ELSE cache
  /\ scraped' = scraped \cup {Metric(s, cache'[CacheKey(s)])}
  /\ pending' = pending \ {s}
  /\ UNCHANGED <<filter, answer>>

\* Users, latencies and host statistics are made anew every time: their order
\* does not matter.
ProcessUncached ==
  /\ pending # {} /\ \A s \in pending : ~IsCached(s)
  /\ scraped' = scraped \cup {Metric(s, NewAerospikeStat(s)) : s \in {t \in pending : ~IsSkipped(t)}}
  /\ pending' = {}
  /\ UNCHANGED <<filter, cache, answer>>

CatalogNext == BeginRefresh \/ (\E s \in Stats : ProcessStat(s)) \/ ProcessUncached

CatalogSpec == CatalogInit /\ [][CatalogNext]_vars

-----------------------------------------------------------------------------
(* What reaches Prometheus. *)

\* PushToPrometheus
PushedToPrometheus == {m \in scraped : m.entry.allowed}

\* NormalizeMetric: ".", "-" and " " become "_".
NormalizeMetric(name) ==
  [i \in DOMAIN name |-> CASE name[i] \in {".", "-"} -> "_"
                           [] name[i] = StorageEngine -> "storage_engine"
                           [] OTHER -> name[i]]

-----------------------------------------------------------------------------
(* Properties. *)

Wanted(s) ==
  IF s.context \in SubjectContexts
  THEN /\ s.subject \notin filter.block[s.context]
       /\ filter.allowEnabled[s.context] => s.subject \in filter.allow[s.context]
  ELSE s.context \in Contexts =>
         /\ \A p \in filter.block[s.context] : ServerName(s) \notin p
         /\ filter.allow[s.context] # {}
              => \E p \in filter.allow[s.context] : ServerName(s) \in p

\* The statistics that find the entry of s in the cache: s itself, and for an
\* element of an array the others of it.
SharesEntry(s) ==
  IF IsCached(s) THEN {t \in Stats : IsCached(t) /\ CacheKey(t) = CacheKey(s)} ELSE {s}

(* "when a stat falls within intersection of allow-list & block-list, we   *)
(* block that stat" (isMetricAllowed): what was answered reaches           *)
(* Prometheus exactly when the lists want it, by the name the node uses;   *)
(* users and histograms by theirs, and statistics of the host always.      *)
(* Statistics that share a cache entry reach it together: what the lists   *)
(* say of one of them, met refreshes ago perhaps, decides for all.  Where  *)
(* a glob tells the elements of an array apart this is less than what the  *)
(* code says of the filter, which "is applied on original-server-stat-name"*)
(* (NewAerospikeStat): an element is kept or dropped for another's name.   *)
FilterHonoured ==
  \A s \in answer \ pending : \E t \in SharesEntry(s) :
    \A u \in SharesEntry(s) \cap (answer \ pending) :
      Wanted(t) <=> \E m \in PushedToPrometheus : m.stat = u

\* Two texts of user agents may have version and application in common.
SameAgent(s, t) == s.type = UserAgent /\ t.type = UserAgent /\ s.item = t.item

(* What is asked of the names of a node and a host, one answer at a time:  *)
(* where two statistics of a context can end up under one exported name,   *)
(* the name has one type and the labels keep them apart.                   *)
NamesApart ==
  \A a \in Answers, h \in Hosts :
    LET all == a \cup RefreshSystemInfo(h) IN
    \A s, t \in all : \A x \in Names(s), y \in Names(t) :
      s.context = t.context /\ NormalizeMetric(x) = NormalizeMetric(y)
        => /\ GetMetricType(s.context, x) = GetMetricType(t.context, y)
           /\ Labels(s) = Labels(t) => s = t \/ SameAgent(s, t)

(* What the registry demands of a scrape, or it refuses all of it: no two  *)
(* metrics have one exported name and the same labels, and those of one    *)
(* name have one type.  Names lose the index of an array, the level of a   *)
(* data centre (through the cache) and the punctuation, keys of shared     *)
(* memory their suffix, so it takes the labels to keep them apart.  They   *)
(* do not keep apart user agents that differ in their format only.         *)
SeriesUnique ==
  \A m, n \in PushedToPrometheus :
    /\ m.stat.context = n.stat.context
    /\ NormalizeMetric(m.entry.name) = NormalizeMetric(n.entry.name)
    => /\ m.entry.mtype = n.entry.mtype
       /\ m.labels = n.labels => m = n \/ SameAgent(m.stat, n.stat)

(* "get-stats:context=xdr;dc=...;namespace=... -- Process with             *)
(* new-metric-name format" (constructMetricNamePrefix): the name of a      *)
(* metric is the one its info key calls for.                               *)
NamedByLevel == \A m \in scraped : m.entry.name = ConstructedName(m.stat)

=============================================================================
