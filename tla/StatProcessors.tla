--------------------------- MODULE StatProcessors ---------------------------
(***************************************************************************)
(* What the statistics processors of internal/pkg/statprocessors remember  *)
(* from one refresh to the next: the histograms to ask for, the namespaces *)
(* under strong consistency and the time of the last index-pressure query. *)
(* PassTwoKeys turns this memory into requests before the answers of the   *)
(* same refresh are seen; Refresh updates it from those answers.  Between  *)
(* the two the node may be reconfigured or replaced, or not answer.        *)
(*                                                                         *)
(* A refresh is two steps here; its network calls are those of             *)
(* StatsRefresher, which also makes refreshes not overlap.                 *)
(***************************************************************************)
EXTENDS Naturals

CONSTANTS
  Namespaces,     \* namespaces the node may have
  Hists,          \* histogram statistics of a namespace (isStatLatencyHistRelated)
  ServiceHists,   \* histogram statistics of the service context
  ReRepl,         \* the histogram "re-repl", asked for without being listed
  Config,         \* how a namespace may be configured
  Absent,         \* in place of a configuration: the node has no such namespace
  NoMap,          \* a map that was never made: nil
  FETCH_INTERVAL  \* idxPressureFetchInterval, in minutes

ASSUME ProcessorsAssumption ==
  /\ ReRepl \notin Hists
  /\ Config \subseteq [sc : BOOLEAN, flash : BOOLEAN, hists : SUBSET Hists]
  /\ Absent \notin Config
  /\ \A b \in SUBSET (Hists \cup {ReRepl}) : b # NoMap
  /\ FETCH_INTERVAL \in Nat

Builds == {"latencies", "latency", "unparsed"}  \* >= 5.1, older, neither

VARIABLES
  namespaces, serviceHists, build,  \* the node
  NamespaceLatencyBenchmarks, ServiceLatencyBenchmarks,  \* sharedState
  namespaceSCstatus, isFlashStatSentByServer,
  idxPressureAge,  \* minutes since idxPressurePreviousFetchTime, up to FETCH_INTERVAL
  phase, keys,     \* of the refresh under way: what it asks for in pass two
  settled          \* history: namespaces refreshed since their last change

node   == <<namespaces, serviceHists, build>>
memory == <<NamespaceLatencyBenchmarks, ServiceLatencyBenchmarks,
            namespaceSCstatus, isFlashStatSentByServer, idxPressureAge>>
vars   == <<node, memory, phase, keys, settled>>

NoKeys == [namespaces |-> {}, rosters |-> {}, pressure |-> FALSE,
           command |-> "unparsed", latencies |-> {}, service |-> {}]

ProcessorsTypeOK ==
  /\ namespaces \in [Namespaces -> Config \cup {Absent}]
  /\ serviceHists \subseteq ServiceHists
  /\ build \in Builds
  /\ NamespaceLatencyBenchmarks \in
       [Namespaces -> {NoMap} \cup SUBSET (Hists \cup {ReRepl})]
  /\ ServiceLatencyBenchmarks \subseteq ServiceHists
  /\ namespaceSCstatus \in [Namespaces -> BOOLEAN]
  /\ isFlashStatSentByServer \in BOOLEAN
  /\ idxPressureAge \in 0 .. FETCH_INTERVAL
  /\ phase \in {"idle", "asked"}
  /\ keys \in [namespaces : SUBSET Namespaces, rosters : SUBSET Namespaces,
               pressure : BOOLEAN, command : Builds,
               latencies : SUBSET (Namespaces \X (Hists \cup {ReRepl})),
               service : SUBSET ServiceHists]
  /\ phase = "idle" => keys = NoKeys
  /\ settled \subseteq Namespaces

ProcessorsInit ==
  /\ namespaces \in [Namespaces -> Config \cup {Absent}]
  /\ serviceHists \in SUBSET ServiceHists
  /\ build \in Builds
  /\ NamespaceLatencyBenchmarks = [n \in Namespaces |-> NoMap]
  /\ ServiceLatencyBenchmarks = {}
  /\ namespaceSCstatus = [n \in Namespaces |-> FALSE]
  /\ isFlashStatSentByServer = FALSE
  /\ idxPressureAge = 0
  /\ phase = "idle"
  /\ keys = NoKeys
  /\ settled = {}

-----------------------------------------------------------------------------
(* Pass two is asked. *)

canSendIndexPressureInfoKey ==
  isFlashStatSentByServer /\ idxPressureAge >= FETCH_INTERVAL

\* LatencyStatsProcessor.PassTwoKeys: older nodes get one command, "latency:".
AsksByHistogram == build = "latencies"

\* getLatenciesCommands: whatever is remembered of any namespace is asked for.
LatencyKeys(benchmarks) ==
  {k \in Namespaces \X (Hists \cup {ReRepl}) :
     AsksByHistogram /\ benchmarks[k[1]] # NoMap /\ k[2] \in benchmarks[k[1]]}

\* Mutant: the maps are made for the namespaces of the first refresh only.
EnsureMapsOnce(listed) ==
  [n \in Namespaces |->
     IF n \in listed /\ \A m \in Namespaces : NamespaceLatencyBenchmarks[m] = NoMap
     THEN {} ELSE NamespaceLatencyBenchmarks[n]]

\* Each namespace listed by pass one gets a map, if it has none.
EnsureMaps(listed) ==
  [n \in Namespaces |->
     IF n \in listed /\ NamespaceLatencyBenchmarks[n] = NoMap
     THEN {} ELSE NamespaceLatencyBenchmarks[n]]

\* The namespaces, the node, then the latencies processor: the last one reads
\* the maps the first one made.
PassTwoKeys ==
  /\ phase = "idle"
  /\ phase' = "asked"
  /\ \E listed \in {{n \in Namespaces : namespaces[n] # Absent}} :
       /\ NamespaceLatencyBenchmarks' = EnsureMaps(listed)
       /\ keys' =
            [namespaces |-> listed,
             rosters    |-> {n \in listed : namespaceSCstatus[n]},
             pressure   |-> canSendIndexPressureInfoKey,
             command    |-> build,
             latencies  |-> LatencyKeys(NamespaceLatencyBenchmarks'),
             service    |-> {h \in ServiceLatencyBenchmarks : AsksByHistogram}]
  /\ idxPressureAge' = IF canSendIndexPressureInfoKey THEN 0 ELSE idxPressureAge
  /\ UNCHANGED <<node, ServiceLatencyBenchmarks, namespaceSCstatus,
                 isFlashStatSentByServer, settled>>

-----------------------------------------------------------------------------
(* Pass two is answered, or not. *)

\* Mutant: a histogram that is switched off is not deleted.
BenchmarksKept(n) ==
  NamespaceLatencyBenchmarks[n] \cup {ReRepl}
    \cup (IF namespaces[n] = Absent THEN {} ELSE namespaces[n].hists)

\* The answer names every histogram statistic, on or off; a namespace the
\* node does not have is answered with an error, which names none.
BenchmarksOf(n) ==
  {ReRepl} \cup (IF namespaces[n] = Absent
                 THEN NamespaceLatencyBenchmarks[n] ELSE namespaces[n].hists)

\* Mutant: the flag follows the last namespace looked at.
FlashOfLast(answered) ==
  IF answered = {} THEN isFlashStatSentByServer
  ELSE namespaces[CHOOSE n \in answered : TRUE].flash

\* setFlagFlashStatSentByServer: once set, never reset.
FlashSeen(answered) ==
  isFlashStatSentByServer \/ \E n \in answered : namespaces[n].flash

\* Mutant: only strong consistency that is on is written down.
SCstatusOnlyOn(answered) ==
  [n \in Namespaces |->
     namespaceSCstatus[n] \/ (n \in answered /\ namespaces[n].sc)]

SCstatus(answered) ==
  [n \in Namespaces |->
     IF n \in answered THEN namespaces[n].sc ELSE namespaceSCstatus[n]]

\* The service context names every histogram statistic too, on or off.
ServiceBenchmarks == serviceHists

Refresh ==
  /\ phase = "asked"
  /\ phase' = "idle"
  /\ keys' = NoKeys
  /\ \E answered \in {{n \in keys.namespaces : namespaces[n] # Absent}} :
       /\ isFlashStatSentByServer' = FlashSeen(answered)
       /\ namespaceSCstatus' = SCstatus(answered)
       /\ settled' = answered
  /\ NamespaceLatencyBenchmarks' =
       [n \in Namespaces |-> IF n \in keys.namespaces
                             THEN BenchmarksOf(n) ELSE NamespaceLatencyBenchmarks[n]]
  /\ ServiceLatencyBenchmarks' = ServiceBenchmarks
  /\ UNCHANGED <<node, idxPressureAge>>

\* Mutant: the keys outlive the refresh that failed.
PassTwoFailedKept ==
  /\ phase = "asked"
  /\ phase' = "idle"
  /\ UNCHANGED <<node, memory, keys, settled>>

PassTwoFailed ==
  /\ phase = "asked"
  /\ phase' = "idle"
  /\ keys' = NoKeys
  /\ UNCHANGED <<node, memory, settled>>

-----------------------------------------------------------------------------
(* The node and the clock. *)

\* A namespace is reconfigured, removed or added, or the node is replaced.
Reconfigure(n) ==
  /\ \E c \in (Config \cup {Absent}) \ {namespaces[n]} :
       namespaces' = [namespaces EXCEPT ![n] = c]
  /\ settled' = settled \ {n}
  /\ UNCHANGED <<serviceHists, build, memory, phase, keys>>

ReconfigureService ==
  /\ \/ serviceHists' \in (SUBSET ServiceHists) \ {serviceHists} /\ UNCHANGED build
     \/ build' \in Builds \ {build} /\ UNCHANGED serviceHists
  /\ UNCHANGED <<namespaces, memory, phase, keys, settled>>

Minute ==
  /\ idxPressureAge < FETCH_INTERVAL
  /\ idxPressureAge' = idxPressureAge + 1
  /\ UNCHANGED <<node, NamespaceLatencyBenchmarks, ServiceLatencyBenchmarks,
                 namespaceSCstatus, isFlashStatSentByServer, phase, keys, settled>>

ProcessorsNext ==
  \/ PassTwoKeys \/ Refresh \/ PassTwoFailed
  \/ \E n \in Namespaces : Reconfigure(n)
  \/ ReconfigureService
  \/ Minute

ProcessorsSpec == ProcessorsInit /\ [][ProcessorsNext]_vars

\* Refreshes recur, as scrapes and ticks do, and time passes.
ProcessorsFairSpec ==
  /\ ProcessorsSpec
  /\ WF_vars(PassTwoKeys) /\ WF_vars(Refresh \/ PassTwoFailed) /\ WF_vars(Minute)

-----------------------------------------------------------------------------
(* Properties. *)

(* refreshNamespaceStats writes into the map of every namespace that was   *)
(* asked for (sp_namespaces.go:280), whatever the node answers: the map    *)
(* must have been made by then, or the exporter panics.                    *)
NoNilMapWrite ==
  phase = "asked" =>
    \A n \in keys.namespaces : NamespaceLatencyBenchmarks[n] # NoMap

(* The requests are made from what an earlier refresh saw.  For a namespace *)
(* whose configuration did not change since, they are what its             *)
(* configuration calls for now: exactly the enabled histograms and re-repl, *)
(* and the roster just where there is strong consistency, through any      *)
(* sequence of switches, replaced nodes and failed refreshes before.       *)
RequestsFollowConfig ==
  phase = "asked" =>
    \A n \in settled \cap keys.namespaces :
      /\ n \in keys.rosters <=> namespaces[n].sc
      /\ keys.command = "latencies" =>
           {h \in Hists \cup {ReRepl} : <<n, h>> \in keys.latencies}
             = namespaces[n].hists \cup {ReRepl}

FlashForGood(n) == <>[](namespaces[n] # Absent /\ namespaces[n].flash)

(* The clock of index-pressure is reset when the key is asked for, not when *)
(* it is answered, so a failed refresh costs a whole interval.  Still, with *)
(* a flash index that stays and refreshes that stop failing, index-pressure *)
(* is fetched again and again, whatever the other namespaces do.           *)
IndexPressureRecurs ==
  \A n \in Namespaces :
    FlashForGood(n) /\ <>[][~PassTwoFailed]_vars
      => []<><<Refresh /\ keys.pressure>>_vars

=============================================================================
