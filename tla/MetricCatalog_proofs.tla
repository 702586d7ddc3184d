------------------------ MODULE MetricCatalog_proofs ------------------------
(***************************************************************************)
(* Proofs about MetricCatalog, for every set of statistics a node and a    *)
(* host may answer with and every pair of lists.                           *)
(***************************************************************************)
EXTENDS MetricCatalog, TLAPS

(* What was decided when an entry was made is what the lists say of one of *)
(* the statistics that share it; no entry is made twice, a metric has the  *)
(* entry of its statistic, and everything processed so far has been made a *)
(* metric or was not wanted.                                               *)
FilterInv ==
  /\ filter \in Filters
  /\ cache = [k \in Keys |-> cache[k]]
  /\ pending \subseteq answer /\ answer \subseteq Stats
  /\ \A s \in Stats :
       IsCached(s) /\ cache[CacheKey(s)] # Miss
         => \E t \in SharesEntry(s) : cache[CacheKey(s)].allowed <=> Wanted(t)
  /\ \A m \in scraped :
       /\ m.stat \in Stats
       /\ IF IsCached(m.stat) THEN m.entry # Miss /\ m.entry = cache[CacheKey(m.stat)]
          ELSE m.entry.allowed <=> Wanted(m.stat)
  /\ \A s \in answer \ pending : IsCached(s) \/ Wanted(s) => \E m \in scraped : m.stat = s

(* The filter decides what the lists say.                                  *)
LEMMA AllowedIsWanted ==
  ASSUME NEW s, ~IsSkipped(s)
  PROVE  NewAerospikeStat(s).allowed <=> Wanted(s)
<1>1. NewAerospikeStat(s).allowed <=> isMetricAllowed(s)
  BY DEF NewAerospikeStat
<1>2. CASE s.context \in Contexts
  BY <1>1, <1>2 DEF isMetricAllowed, LoopPatterns, Globs, Wanted, Contexts, SubjectContexts
<1>3. CASE s.context \in SubjectContexts
  BY <1>1, <1>3 DEF isMetricAllowed, LoopPatterns, Globs, Wanted, Contexts, SubjectContexts,
     IsSkipped
<1>4. CASE s.context \notin Contexts \cup SubjectContexts
  BY <1>1, <1>4 DEF isMetricAllowed, LoopPatterns, Globs, Wanted
<1> QED
  BY <1>2, <1>3, <1>4

LEMMA SkippedIsUnwanted ==
  ASSUME NEW s, IsSkipped(s)
  PROVE  ~Wanted(s)
BY DEF IsSkipped, Wanted

LEMMA CachedIsNotSkipped ==
  ASSUME NEW s, IsCached(s)
  PROVE  ~IsSkipped(s)
BY DEF IsCached, IsSkipped, Contexts, SubjectContexts

LEMMA EntryMade ==
  ASSUME NEW s \in Stats
  PROVE  NewAerospikeStat(s) \in Entries
<1>1. GetMetricType(s.context, ConstructedName(s)) \in {"gauge", "counter"}
  BY DEF GetMetricType
<1>2. isMetricAllowed(s) \in BOOLEAN
  BY DEF isMetricAllowed
<1> QED
  BY <1>1, <1>2 DEF NewAerospikeStat, Entries

LEMMA ProcessStatFilter ==
  ASSUME FilterInv, NEW s \in Stats, ProcessStat(s)
  PROVE  FilterInv'
<1>1. IsCached(s) /\ CacheKey(s) \in Keys /\ s \in pending /\ UNCHANGED <<filter, answer>>
  BY DEF ProcessStat, Keys
<1>2. NewAerospikeStat(s).allowed <=> Wanted(s)
  BY <1>1, AllowedIsWanted, CachedIsNotSkipped
<1>3. \A t : Wanted(t)' <=> Wanted(t)
  BY <1>1 DEF Wanted
<1>4. cache' = [k \in Keys |-> cache'[k]]
  BY <1>1 DEF ProcessStat, FilterInv
<1>5. ASSUME NEW t \in Stats, IsCached(t), cache'[CacheKey(t)] # Miss
      PROVE  \E u \in SharesEntry(t) : cache'[CacheKey(t)].allowed <=> Wanted(u)
  <2>1. CacheKey(t) \in Keys
    BY <1>5 DEF Keys
  <2>2. CASE cache'[CacheKey(t)] = cache[CacheKey(t)]
    BY <1>5, <2>2 DEF FilterInv
  <2>3. CASE CacheKey(t) = CacheKey(s) /\ cache[CacheKey(s)] = Miss
    <3>1. cache'[CacheKey(t)] = NewAerospikeStat(s)
      BY <1>1, <2>3 DEF ProcessStat, FilterInv
    <3>2. s \in SharesEntry(t)
      BY <1>1, <1>5, <2>3 DEF SharesEntry
    <3> QED
      BY <1>2, <3>1, <3>2
  <2> QED
    BY <1>1, <2>1, <2>2, <2>3 DEF ProcessStat, FilterInv
<1>6. cache'[CacheKey(s)] # Miss
  <2>1. NewAerospikeStat(s) # Miss
    BY EntryMade, MissAssumption
  <2> QED
    BY <1>1, <2>1 DEF ProcessStat, FilterInv
<1>7. \A t \in Stats : IsCached(t) /\ cache[CacheKey(t)] # Miss
        => cache'[CacheKey(t)] = cache[CacheKey(t)]
  BY <1>1 DEF ProcessStat, FilterInv, Keys
<1> DEFINE m == Metric(s, cache'[CacheKey(s)])
<1>8. m.stat = s /\ m.entry = cache'[CacheKey(s)]
  BY DEF Metric
<1>9. scraped' = scraped \cup {m} /\ pending' = pending \ {s}
  BY DEF ProcessStat
<1> HIDE DEF m
<1>10. ASSUME NEW n \in scraped'
       PROVE  /\ n.stat \in Stats
              /\ IF IsCached(n.stat) THEN n.entry # Miss /\ n.entry = cache'[CacheKey(n.stat)]
                 ELSE n.entry.allowed <=> Wanted(n.stat)
  <2>1. CASE n \in scraped
    BY <1>1, <1>6, <1>7, <2>1 DEF FilterInv
  <2>2. CASE n = m
    BY <1>1, <1>6, <1>8, <2>2
  <2> QED
    BY <1>9, <2>1, <2>2
<1>11. \A t \in answer \ pending' : IsCached(t) \/ Wanted(t) => \E n \in scraped' : n.stat = t
  BY <1>8, <1>9 DEF FilterInv
<1> QED
  BY <1>1, <1>3, <1>4, <1>5, <1>9, <1>10, <1>11
     DEF FilterInv, IsCached, CacheKey, SharesEntry

LEMMA ProcessUncachedFilter ==
  ASSUME FilterInv, ProcessUncached
  PROVE  FilterInv'
<1>1. /\ UNCHANGED <<filter, cache, answer>> /\ pending' = {} /\ \A s \in pending : ~IsCached(s)
      /\ scraped' = scraped \cup
           {Metric(s, NewAerospikeStat(s)) : s \in {t \in pending : ~IsSkipped(t)}}
  BY DEF ProcessUncached
<1>2. \A t : Wanted(t)' <=> Wanted(t)
  BY <1>1 DEF Wanted
<1>3. \A s : /\ Metric(s, NewAerospikeStat(s)).stat = s
             /\ Metric(s, NewAerospikeStat(s)).entry = NewAerospikeStat(s)
  BY DEF Metric
<1>4. ASSUME NEW m \in scraped'
      PROVE  /\ m.stat \in Stats
             /\ IF IsCached(m.stat) THEN m.entry # Miss /\ m.entry = cache[CacheKey(m.stat)]
                ELSE m.entry.allowed <=> Wanted(m.stat)
  <2>1. CASE m \in scraped
    BY <2>1 DEF FilterInv
  <2>2. ASSUME NEW s \in pending, ~IsSkipped(s), m = Metric(s, NewAerospikeStat(s))
        PROVE  m.stat \in Stats /\ ~IsCached(m.stat) /\ (m.entry.allowed <=> Wanted(m.stat))
    BY <1>1, <1>3, <2>2, AllowedIsWanted DEF FilterInv
  <2> QED
    BY <1>1, <2>1, <2>2
<1>5. ASSUME NEW t \in answer, IsCached(t) \/ Wanted(t) PROVE \E m \in scraped' : m.stat = t
  <2>1. CASE t \in pending
    <3>1. ~IsSkipped(t)
      BY <1>1, <1>5, <2>1, SkippedIsUnwanted
    <3>2. Metric(t, NewAerospikeStat(t)) \in scraped'
      BY <1>1, <2>1, <3>1
    <3> QED
      BY <1>3, <3>2
  <2>2. CASE t \notin pending
    BY <1>1, <1>5, <2>2 DEF FilterInv
  <2> QED
    BY <2>1, <2>2
<1> QED
  BY <1>1, <1>2, <1>4, <1>5 DEF FilterInv, IsCached, CacheKey, SharesEntry

(* Exactly the wanted statistics reach Prometheus, in whatever order names *)
(* were first met, refreshes ago; those that share an entry by what is     *)
(* wanted of one of them.                                                  *)
THEOREM FilterHonouredHolds == CatalogSpec => []FilterHonoured
<1>1. CatalogInit => FilterInv
  <2> SUFFICES ASSUME CatalogInit PROVE FilterInv
    OBVIOUS
  <2>1. \A s \in Stats : IsCached(s) => CacheKey(s) \in Keys
    BY DEF Keys
  <2> QED
    BY <2>1 DEF CatalogInit, FilterInv
<1>2. FilterInv /\ [CatalogNext]_vars => FilterInv'
  <2> SUFFICES ASSUME FilterInv, [CatalogNext]_vars PROVE FilterInv'
    OBVIOUS
  <2>1. CASE BeginRefresh
    <3>1. pending' = answer' /\ scraped' = {} /\ UNCHANGED <<filter, cache>>
      BY <2>1 DEF BeginRefresh
    <3>2. PICK a \in Answers, h \in Hosts : answer' = a \cup RefreshSystemInfo(h)
      BY <2>1 DEF BeginRefresh
    <3>3. answer' \subseteq Stats
      BY <3>2 DEF Stats
    <3>4. \A t : Wanted(t)' <=> Wanted(t)
      BY <3>1 DEF Wanted
    <3> QED
      BY <3>1, <3>3, <3>4 DEF FilterInv, IsCached, CacheKey, SharesEntry
  <2>2. CASE UNCHANGED vars
    <3>1. UNCHANGED <<filter, cache, answer, pending, scraped>>
      BY <2>2 DEF vars
    <3>2. \A t : Wanted(t)' <=> Wanted(t)
      BY <3>1 DEF Wanted
    <3> QED
      BY <3>1, <3>2 DEF FilterInv, IsCached, CacheKey, SharesEntry
  <2> QED
    BY <2>1, <2>2, ProcessStatFilter, ProcessUncachedFilter DEF CatalogNext
<1>3. FilterInv => FilterHonoured
  <2> SUFFICES ASSUME FilterInv, NEW s \in answer \ pending
               PROVE  \E t \in SharesEntry(s) : \A u \in SharesEntry(s) \cap (answer \ pending) :
                        Wanted(t) <=> \E m \in PushedToPrometheus : m.stat = u
    BY DEF FilterHonoured
  <2>1. CASE IsCached(s)
    <3>1. PICK n \in scraped : n.stat = s
      BY <2>1 DEF FilterInv
    <3>2. cache[CacheKey(s)] # Miss
      BY <2>1, <3>1 DEF FilterInv
    <3>3. PICK t \in SharesEntry(s) : cache[CacheKey(s)].allowed <=> Wanted(t)
      BY <2>1, <3>2 DEF FilterInv
    <3>4. ASSUME NEW u \in SharesEntry(s) \cap (answer \ pending)
          PROVE  Wanted(t) <=> \E m \in PushedToPrometheus : m.stat = u
      <4>1. IsCached(u) /\ CacheKey(u) = CacheKey(s)
        BY <2>1 DEF SharesEntry
      <4>2. \E m \in scraped : m.stat = u
        BY <4>1 DEF FilterInv
      <4>3. \A m \in scraped : m.stat = u => m.entry = cache[CacheKey(s)]
        BY <4>1 DEF FilterInv
      <4> QED
        BY <3>3, <4>2, <4>3 DEF PushedToPrometheus
    <3> QED
      BY <3>3, <3>4
  <2>2. CASE ~IsCached(s)
    BY <2>2 DEF FilterInv, PushedToPrometheus, SharesEntry
  <2> QED
    BY <2>1, <2>2
<1> QED
  BY <1>1, <1>2, <1>3, PTL DEF CatalogSpec
-----------------------------------------------------------------------------
(* Types, and where the entries of the caches come from: each was made for *)
(* a statistic that has its key, and no statistic is made a metric twice.  *)
MadeFor(e, s) ==
  /\ e.name \in Names(s)
  /\ e.mtype = GetMetricType(s.context, e.name)

EntryInv ==
  /\ filter \in Filters
  /\ cache \in [Keys -> {Miss} \cup Entries]
  /\ pending \subseteq answer /\ answer \subseteq Stats
  /\ answer # {} => \E a \in Answers, h \in Hosts : answer = a \cup RefreshSystemInfo(h)
  /\ \A s \in Stats : IsCached(s) /\ cache[CacheKey(s)] # Miss => MadeFor(cache[CacheKey(s)], s)
  /\ \A m \in scraped : /\ m.stat \in answer \ pending /\ m.entry \in Entries
                        /\ MadeFor(m.entry, m.stat)
                        /\ m = Metric(m.stat, m.entry)
  /\ \A m, n \in scraped : m.stat = n.stat => m = n

LEMMA NewEntry ==
  ASSUME NEW s \in Stats
  PROVE  /\ NewAerospikeStat(s) \in Entries
         /\ MadeFor(NewAerospikeStat(s), s)
<1>1. /\ NewAerospikeStat(s).name = ConstructedName(s)
      /\ NewAerospikeStat(s).mtype = GetMetricType(s.context, ConstructedName(s))
  BY DEF NewAerospikeStat
<1>2. ConstructedName(s) \in Names(s)
  BY DEF Names
<1> QED
  BY <1>1, <1>2, EntryMade DEF MadeFor

(* Two statistics with one key may have each other's entry.                *)
LEMMA SharedNames ==
  ASSUME NEW s \in Stats, NEW t \in Stats, NEW e, IsCached(s), IsCached(t),
         CacheKey(s) = CacheKey(t), MadeFor(e, s)
  PROVE  MadeFor(e, t)
<1>1. s.context = t.context
  BY DEF CacheKey
<1>2. Names(s) = Names(t)
  BY DEF Names
<1> QED
  BY <1>1, <1>2 DEF MadeFor

LEMMA ProcessStatEntry ==
  ASSUME EntryInv, NEW s \in Stats, ProcessStat(s)
  PROVE  EntryInv'
<1>1. /\ IsCached(s) /\ CacheKey(s) \in Keys /\ s \in pending /\ UNCHANGED <<filter, answer>>
      /\ pending' = pending \ {s}
      /\ scraped' = scraped \cup {Metric(s, cache'[CacheKey(s)])}
  BY DEF ProcessStat, Keys
<1>2. NewAerospikeStat(s) \in Entries /\ MadeFor(NewAerospikeStat(s), s)
  BY NewEntry
<1>3. cache' \in [Keys -> {Miss} \cup Entries]
  BY <1>1, <1>2 DEF ProcessStat, EntryInv
<1>4. ASSUME NEW t \in Stats, IsCached(t), cache'[CacheKey(t)] # Miss
      PROVE  MadeFor(cache'[CacheKey(t)], t)
  <2>1. CacheKey(t) \in Keys
    BY <1>4 DEF Keys
  <2>2. CASE cache'[CacheKey(t)] = cache[CacheKey(t)]
    BY <1>4, <2>2 DEF EntryInv
  <2>3. CASE CacheKey(t) = CacheKey(s) /\ cache[CacheKey(s)] = Miss
    <3>1. cache'[CacheKey(t)] = NewAerospikeStat(s)
      BY <1>1, <2>3 DEF ProcessStat, EntryInv
    <3> QED
      BY <1>1, <1>2, <1>4, <2>3, <3>1, SharedNames
  <2> QED
    BY <1>1, <2>1, <2>2, <2>3 DEF ProcessStat, EntryInv
<1>5. cache'[CacheKey(s)] \in Entries /\ MadeFor(cache'[CacheKey(s)], s)
  <2>1. CASE cache[CacheKey(s)] = Miss
    <3>1. cache'[CacheKey(s)] = NewAerospikeStat(s)
      BY <1>1, <2>1 DEF ProcessStat, EntryInv
    <3> QED
      BY <1>2, <3>1
  <2>2. CASE cache[CacheKey(s)] # Miss
    BY <1>1, <2>2 DEF ProcessStat, EntryInv
  <2> QED
    BY <2>1, <2>2
<1> DEFINE m == Metric(s, cache'[CacheKey(s)])
<1>6. m.stat = s /\ m.entry = cache'[CacheKey(s)] /\ m = Metric(m.stat, m.entry)
  BY DEF Metric
<1>7. scraped' = scraped \cup {m}
  BY <1>1
<1> HIDE DEF m
<1>8. \A n \in scraped' : /\ n.stat \in answer' \ pending' /\ n.entry \in Entries
                          /\ MadeFor(n.entry, n.stat) /\ n = Metric(n.stat, n.entry)
  BY <1>1, <1>5, <1>6, <1>7 DEF EntryInv
<1>9. \A n, o \in scraped' : n.stat = o.stat => n = o
  BY <1>1, <1>6, <1>7 DEF EntryInv
<1> QED
  BY <1>1, <1>3, <1>4, <1>8, <1>9 DEF EntryInv

LEMMA ProcessUncachedEntry ==
  ASSUME EntryInv, ProcessUncached
  PROVE  EntryInv'
<1> DEFINE New(s) == Metric(s, NewAerospikeStat(s))
<1>1. /\ UNCHANGED <<filter, cache, answer>> /\ pending' = {}
      /\ scraped' = scraped \cup {New(s) : s \in {t \in pending : ~IsSkipped(t)}}
  BY DEF ProcessUncached
<1>2. ASSUME NEW s \in pending
      PROVE  /\ New(s).stat = s /\ New(s).entry \in Entries /\ MadeFor(New(s).entry, s)
             /\ New(s) = Metric(New(s).stat, New(s).entry)
  <2>1. New(s).stat = s /\ New(s).entry = NewAerospikeStat(s)
    BY DEF Metric
  <2>2. s \in Stats
    BY DEF EntryInv
  <2> QED
    BY <2>1, <2>2, NewEntry
<1> HIDE DEF New
<1>3. \A m \in scraped' :
        m \in scraped \/ \E s \in pending : m = New(s)
  BY <1>1
<1>4. \A m \in scraped' : /\ m.stat \in answer' \ pending' /\ m.entry \in Entries
                          /\ MadeFor(m.entry, m.stat) /\ m = Metric(m.stat, m.entry)
  BY <1>1, <1>2, <1>3 DEF EntryInv
<1>5. \A m, n \in scraped' : m.stat = n.stat => m = n
  BY <1>1, <1>2, <1>3 DEF EntryInv
<1> QED
  BY <1>1, <1>4, <1>5 DEF EntryInv

LEMMA EntryInvariance == CatalogSpec => []EntryInv
<1>1. CatalogInit => EntryInv
  <2>1. \A s \in Stats : IsCached(s) => CacheKey(s) \in Keys
    BY DEF Keys
  <2> QED
    BY <2>1 DEF CatalogInit, EntryInv
<1>2. EntryInv /\ [CatalogNext]_vars => EntryInv'
  <2> SUFFICES ASSUME EntryInv, [CatalogNext]_vars PROVE EntryInv'
    OBVIOUS
  <2>1. CASE BeginRefresh
    <3>1. pending' = answer' /\ scraped' = {} /\ UNCHANGED <<filter, cache>>
      BY <2>1 DEF BeginRefresh
    <3>2. PICK a \in Answers, h \in Hosts : answer' = a \cup RefreshSystemInfo(h)
      BY <2>1 DEF BeginRefresh
    <3>3. answer' \subseteq Stats
      BY <3>2 DEF Stats
    <3> QED
      BY <3>1, <3>2, <3>3 DEF EntryInv
  <2>2. CASE UNCHANGED vars
    BY <2>2 DEF vars, EntryInv
  <2> QED
    BY <2>1, <2>2, ProcessStatEntry, ProcessUncachedEntry DEF CatalogNext
<1> QED
  BY <1>1, <1>2, PTL DEF CatalogSpec

(* Caches hold entries of known statistics, and metrics are made of what   *)
(* this refresh was answered only.                                         *)
THEOREM CatalogTypeCorrect == CatalogSpec => []CatalogTypeOK
<1>1. EntryInv => CatalogTypeOK
  BY DEF EntryInv, CatalogTypeOK
<1> QED
  BY <1>1, EntryInvariance, PTL

(* No refresh has Prometheus refuse a scrape, in whatever order statistics *)
(* were met and whichever node their names were first met on, as long as   *)
(* no two statistics of one answer collide by name and labels.             *)
THEOREM SeriesUniqueHolds ==
  ASSUME NamesApart
  PROVE  CatalogSpec => []SeriesUnique
<1>1. ASSUME EntryInv PROVE SeriesUnique
  <2> SUFFICES ASSUME NEW m \in PushedToPrometheus, NEW n \in PushedToPrometheus,
                      m.stat.context = n.stat.context,
                      NormalizeMetric(m.entry.name) = NormalizeMetric(n.entry.name)
               PROVE  /\ m.entry.mtype = n.entry.mtype
                      /\ m.labels = n.labels => m = n \/ SameAgent(m.stat, n.stat)
    BY DEF SeriesUnique
  <2>1. m \in scraped /\ n \in scraped
    BY DEF PushedToPrometheus
  <2>2. /\ m.stat \in answer /\ n.stat \in answer
        /\ MadeFor(m.entry, m.stat) /\ MadeFor(n.entry, n.stat)
        /\ m = Metric(m.stat, m.entry) /\ n = Metric(n.stat, n.entry)
    BY <1>1, <2>1 DEF EntryInv
  <2>3. PICK a \in Answers, h \in Hosts : answer = a \cup RefreshSystemInfo(h)
    BY <1>1, <2>2 DEF EntryInv
  <2>4. m.labels = Labels(m.stat) /\ n.labels = Labels(n.stat)
    BY <2>2 DEF Metric
  <2>5. /\ GetMetricType(m.stat.context, m.entry.name) = GetMetricType(n.stat.context, n.entry.name)
        /\ m.labels = n.labels => m.stat = n.stat \/ SameAgent(m.stat, n.stat)
    BY <2>2, <2>3, <2>4 DEF NamesApart, MadeFor
  <2>6. m.stat = n.stat => m = n
    BY <1>1, <2>1 DEF EntryInv
  <2> QED
    BY <2>2, <2>5, <2>6 DEF MadeFor
<1> QED
  BY <1>1, EntryInvariance, PTL
=============================================================================
