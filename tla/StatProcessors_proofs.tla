------------------------ MODULE StatProcessors_proofs ------------------------
(***************************************************************************)
(* Proofs about StatProcessors, for every set of namespaces, histograms    *)
(* and configurations.                                                     *)
(***************************************************************************)
EXTENDS StatProcessors, TLAPS

(* Types depend on NoNilMapWrite: what a namespace that does not answer    *)
(* keeps has to be a map.                                                  *)
MapInv == ProcessorsTypeOK /\ NoNilMapWrite

(* Asking for pass two makes the maps it will need.                        *)
LEMMA PassTwoKeysMap ==
  ASSUME MapInv, PassTwoKeys
  PROVE  MapInv'
<1> USE ProcessorsAssumption DEF MapInv, ProcessorsTypeOK, NoNilMapWrite
<1> DEFINE listed == {n \in Namespaces : namespaces[n] # Absent}
<1>1. NamespaceLatencyBenchmarks' = EnsureMaps(listed)
  BY DEF PassTwoKeys
<1>2. NamespaceLatencyBenchmarks' \in
        [Namespaces -> {NoMap} \cup SUBSET (Hists \cup {ReRepl})]
  BY <1>1 DEF EnsureMaps
<1>3. \A n \in listed : NamespaceLatencyBenchmarks'[n] # NoMap
  BY <1>1 DEF EnsureMaps
<1>4. keys' =
        [namespaces |-> listed,
         rosters    |-> {n \in listed : namespaceSCstatus[n]},
         pressure   |-> canSendIndexPressureInfoKey,
         command    |-> build,
         latencies  |-> LatencyKeys(NamespaceLatencyBenchmarks'),
         service    |-> {h \in ServiceLatencyBenchmarks : AsksByHistogram}]
  BY DEF PassTwoKeys
<1>5. keys' \in [namespaces : SUBSET Namespaces, rosters : SUBSET Namespaces,
                 pressure : BOOLEAN, command : Builds,
                 latencies : SUBSET (Namespaces \X (Hists \cup {ReRepl})),
                 service : SUBSET ServiceHists]
  <2>1. LatencyKeys(NamespaceLatencyBenchmarks') \subseteq
          Namespaces \X (Hists \cup {ReRepl})
    BY DEF LatencyKeys
  <2>2. canSendIndexPressureInfoKey \in BOOLEAN
    BY DEF canSendIndexPressureInfoKey
  <2> QED
    BY <1>4, <2>1, <2>2
<1>6. keys'.namespaces = listed
  BY <1>4
<1>7. idxPressureAge' \in 0 .. FETCH_INTERVAL
  BY DEF PassTwoKeys
<1> QED
  BY <1>2, <1>3, <1>5, <1>6, <1>7 DEF PassTwoKeys, node

(* So do the answers, whether or not a namespace is still there.           *)
LEMMA RefreshMap ==
  ASSUME MapInv, Refresh
  PROVE  MapInv'
<1> USE ProcessorsAssumption DEF MapInv, ProcessorsTypeOK, NoNilMapWrite
<1>1. phase = "asked"
  BY DEF Refresh
<1>2. \A n \in keys.namespaces : BenchmarksOf(n) \in SUBSET (Hists \cup {ReRepl})
  BY <1>1 DEF BenchmarksOf
<1>3. NamespaceLatencyBenchmarks' \in
        [Namespaces -> {NoMap} \cup SUBSET (Hists \cup {ReRepl})]
  BY <1>2 DEF Refresh
<1> DEFINE answered == {n \in keys.namespaces : namespaces[n] # Absent}
<1>4. answered \subseteq Namespaces
  BY <1>1
<1>5. FlashSeen(answered) \in BOOLEAN
  BY <1>4 DEF FlashSeen
<1>6. SCstatus(answered) \in [Namespaces -> BOOLEAN]
  BY <1>4 DEF SCstatus
<1>7. isFlashStatSentByServer' \in BOOLEAN /\ namespaceSCstatus' \in [Namespaces -> BOOLEAN]
        /\ settled' \subseteq Namespaces
  BY <1>4, <1>5, <1>6 DEF Refresh
<1>8. phase' = "idle" /\ keys' = NoKeys /\ ServiceLatencyBenchmarks' \subseteq ServiceHists
        /\ UNCHANGED <<node, idxPressureAge>>
  BY DEF Refresh, ServiceBenchmarks
<1>9. keys' \in [namespaces : SUBSET Namespaces, rosters : SUBSET Namespaces,
                 pressure : BOOLEAN, command : Builds,
                 latencies : SUBSET (Namespaces \X (Hists \cup {ReRepl})),
                 service : SUBSET ServiceHists]
  BY <1>8 DEF NoKeys, Builds
<1> QED
  BY <1>3, <1>7, <1>8, <1>9 DEF node

(* MapInv is inductive.                                                    *)
LEMMA MapInvariance == ProcessorsSpec => []MapInv
<1> USE ProcessorsAssumption DEF MapInv, ProcessorsTypeOK, NoNilMapWrite
<1>1. ASSUME ProcessorsInit
      PROVE  MapInv
  <2>1. NoKeys \in [namespaces : SUBSET Namespaces, rosters : SUBSET Namespaces,
                    pressure : BOOLEAN, command : Builds,
                    latencies : SUBSET (Namespaces \X (Hists \cup {ReRepl})),
                    service : SUBSET ServiceHists]
    BY DEF NoKeys, Builds
  <2>2. idxPressureAge \in 0 .. FETCH_INTERVAL
    BY <1>1 DEF ProcessorsInit
  <2>3. NamespaceLatencyBenchmarks \in
          [Namespaces -> {NoMap} \cup SUBSET (Hists \cup {ReRepl})]
    BY <1>1 DEF ProcessorsInit
  <2> QED
    BY <1>1, <2>1, <2>2, <2>3 DEF ProcessorsInit
<1>2. MapInv /\ [ProcessorsNext]_vars => MapInv'
  <2> SUFFICES ASSUME MapInv, [ProcessorsNext]_vars
               PROVE  MapInv'
    OBVIOUS
  <2>1. CASE PassTwoFailed
    BY <2>1 DEF PassTwoFailed, NoKeys, Builds, node, memory
  <2>2. ASSUME NEW n \in Namespaces, Reconfigure(n)
        PROVE  MapInv'
    BY <2>2 DEF Reconfigure, memory
  <2>3. CASE ReconfigureService
    BY <2>3 DEF ReconfigureService, memory
  <2>4. CASE Minute
    BY <2>4 DEF Minute, node
  <2>5. CASE UNCHANGED vars
    BY <2>5 DEF vars, node, memory
  <2> QED
    BY <2>1, <2>2, <2>3, <2>4, <2>5, PassTwoKeysMap, RefreshMap DEF ProcessorsNext
<1> QED
  BY <1>1, <1>2, PTL DEF ProcessorsSpec

(* The state of the processors keeps its shape.                            *)
THEOREM ProcessorsTypeCorrect == ProcessorsSpec => []ProcessorsTypeOK
<1>1. MapInv => ProcessorsTypeOK
  BY DEF MapInv
<1> QED
  BY <1>1, MapInvariance, PTL

(* The exporter never writes into a map that was not made.                 *)
THEOREM NoNilMapWriteHolds == ProcessorsSpec => []NoNilMapWrite
<1>1. MapInv => NoNilMapWrite
  BY DEF MapInv
<1> QED
  BY <1>1, MapInvariance, PTL

-----------------------------------------------------------------------------
(***************************************************************************)
(* What is remembered of a namespace that has not changed since it was     *)
(* refreshed is its configuration, and requests are made from that memory. *)
(***************************************************************************)
MemoryFollowsConfig ==
  \A n \in settled :
    /\ namespaces[n] # Absent
    /\ namespaceSCstatus[n] = namespaces[n].sc
    /\ NamespaceLatencyBenchmarks[n] = namespaces[n].hists \cup {ReRepl}

RequestInv == MapInv /\ MemoryFollowsConfig /\ RequestsFollowConfig

(* The requests of a settled namespace are those of its configuration.     *)
LEMMA PassTwoKeysRequest ==
  ASSUME RequestInv, PassTwoKeys
  PROVE  MemoryFollowsConfig' /\ RequestsFollowConfig'
<1> USE ProcessorsAssumption DEF RequestInv, MapInv, ProcessorsTypeOK
<1> DEFINE listed == {n \in Namespaces : namespaces[n] # Absent}
<1>1. NamespaceLatencyBenchmarks' = EnsureMaps(listed)
  BY DEF PassTwoKeys
<1>2. UNCHANGED <<namespaces, settled, namespaceSCstatus>>
  BY DEF PassTwoKeys, node
<1>3. ASSUME NEW n \in settled
      PROVE  /\ namespaces[n] # Absent /\ namespaceSCstatus[n] = namespaces[n].sc
             /\ NamespaceLatencyBenchmarks'[n] = namespaces[n].hists \cup {ReRepl}
             /\ namespaces[n].hists \subseteq Hists
  <2>1. namespaces[n] \in Config
    BY DEF MemoryFollowsConfig
  <2>2. namespaces[n].hists \subseteq Hists
    BY <2>1
  <2>3. NamespaceLatencyBenchmarks[n] # NoMap
    BY <2>2 DEF MemoryFollowsConfig
  <2> QED
    BY <1>1, <2>2, <2>3 DEF MemoryFollowsConfig, EnsureMaps
<1>4. MemoryFollowsConfig'
  BY <1>2, <1>3 DEF MemoryFollowsConfig
<1>5. RequestsFollowConfig'
  <2> SUFFICES ASSUME NEW n \in settled, n \in keys'.namespaces
               PROVE  /\ n \in keys'.rosters <=> namespaces[n].sc
                      /\ keys'.command = "latencies" =>
                           {h \in Hists \cup {ReRepl} : <<n, h>> \in keys'.latencies}
                             = namespaces[n].hists \cup {ReRepl}
    BY <1>2 DEF RequestsFollowConfig
  <2>1. /\ keys'.rosters = {m \in listed : namespaceSCstatus[m]}
        /\ keys'.command = build
        /\ keys'.latencies = LatencyKeys(NamespaceLatencyBenchmarks')
    BY DEF PassTwoKeys
  <2>2. n \in listed
    BY <1>3
  <2>3. n \in keys'.rosters <=> namespaces[n].sc
    BY <2>1, <2>2, <1>3
  <2>4. NamespaceLatencyBenchmarks'[n] # NoMap
    BY <1>3
  <2>5. ASSUME build = "latencies"
        PROVE  \A h \in Hists \cup {ReRepl} :
                 <<n, h>> \in keys'.latencies <=> h \in namespaces[n].hists \cup {ReRepl}
    BY <2>1, <2>4, <2>5, <1>3 DEF LatencyKeys, AsksByHistogram
  <2> QED
    BY <2>1, <2>3, <2>5, <1>3
<1> QED
  BY <1>4, <1>5

(* A namespace is settled only if its answer was read.                     *)
LEMMA RefreshRequest ==
  ASSUME RequestInv, Refresh
  PROVE  MemoryFollowsConfig' /\ RequestsFollowConfig'
<1> USE ProcessorsAssumption DEF RequestInv, MapInv, ProcessorsTypeOK
<1>1. phase = "asked" /\ phase' = "idle" /\ UNCHANGED namespaces
  BY DEF Refresh, node
<1> DEFINE answered == {n \in keys.namespaces : namespaces[n] # Absent}
<1>2. settled' = answered /\ namespaceSCstatus' = SCstatus(answered)
  BY DEF Refresh
<1>3. answered \subseteq Namespaces
  BY <1>1
<1>4. ASSUME NEW n \in answered
      PROVE  /\ namespaceSCstatus'[n] = namespaces[n].sc
             /\ NamespaceLatencyBenchmarks'[n] = namespaces[n].hists \cup {ReRepl}
  <2>1. namespaceSCstatus'[n] = namespaces[n].sc
    BY <1>2, <1>3 DEF SCstatus
  <2>2. NamespaceLatencyBenchmarks'[n] = BenchmarksOf(n)
    BY <1>3 DEF Refresh
  <2> QED
    BY <2>1, <2>2 DEF BenchmarksOf
<1>5. MemoryFollowsConfig'
  BY <1>1, <1>2, <1>4 DEF MemoryFollowsConfig
<1>6. RequestsFollowConfig'
  BY <1>1 DEF RequestsFollowConfig
<1> QED
  BY <1>5, <1>6

(* RequestInv is inductive, given MapInv.                                  *)
LEMMA RequestInvariance == ProcessorsSpec => []RequestInv
<1>1. ProcessorsInit /\ MapInv => RequestInv
  BY DEF ProcessorsInit, RequestInv, MemoryFollowsConfig, RequestsFollowConfig
<1>2. RequestInv /\ MapInv' /\ [ProcessorsNext]_vars => RequestInv'
  <2> SUFFICES ASSUME RequestInv, [ProcessorsNext]_vars
               PROVE  MemoryFollowsConfig' /\ RequestsFollowConfig'
    BY DEF RequestInv
  <2> USE DEF RequestInv, MapInv, ProcessorsTypeOK, MemoryFollowsConfig,
              RequestsFollowConfig
  <2>1. CASE PassTwoFailed
    BY <2>1 DEF PassTwoFailed, node, memory
  <2>2. ASSUME NEW n \in Namespaces, Reconfigure(n)
        PROVE  MemoryFollowsConfig' /\ RequestsFollowConfig'
    BY <2>2 DEF Reconfigure, memory
  <2>3. CASE ReconfigureService
    BY <2>3 DEF ReconfigureService, memory
  <2>4. CASE Minute
    BY <2>4 DEF Minute, node
  <2>5. CASE UNCHANGED vars
    BY <2>5 DEF vars, node, memory
  <2> QED
    BY <2>1, <2>2, <2>3, <2>4, <2>5, PassTwoKeysRequest, RefreshRequest DEF ProcessorsNext
<1> QED
  BY <1>1, <1>2, MapInvariance, PTL DEF ProcessorsSpec

(* Whatever was switched, replaced or failed before, a settled namespace   *)
(* is asked for exactly what its configuration enables.                    *)
THEOREM RequestsFollowConfigHolds == ProcessorsSpec => []RequestsFollowConfig
<1>1. RequestInv => RequestsFollowConfig
  BY DEF RequestInv
<1> QED
  BY <1>1, RequestInvariance, PTL

=============================================================================
