---------------------------- MODULE OtelExecutor ----------------------------
(***************************************************************************)
(* The OpenTelemetry executor of internal/pkg/executors/otel_executor.go   *)
(* and otel_metrics.go.  Two goroutines run without a lock between them:   *)
(*  - the ticker refreshes and stores the results in gauges and counters   *)
(*    that are created on first use and never removed;                     *)
(*  - the SDK's periodic reader (external) calls back every gauge and      *)
(*    counter ever registered, one after the other, and hands the batch to *)
(*    Export, which drops it or sends it to the endpoint.                  *)
(* A callback observes its gauge or counter only while the server is       *)
(* connected; the node_up gauges are observed always.                      *)
(*                                                                         *)
(* One counter stands for all those of a node: a node has different series *)
(* when its labels differ.  With delta temporality the SDK reports the     *)
(* growth since the last collection that observed the series, hence the    *)
(* whole value when the last collection did not: a spike.                  *)
(***************************************************************************)
EXTENDS StatsRefresher

CONSTANTS
  Ticker,           \* the one caller of the data provider
  RefreshesPerPush, \* push_interval / server_stat_fetch_interval
  MaxSettled        \* bound on the history counter settled

ASSUME OtelAssumption ==
  /\ Callers = {Ticker}
  /\ RefreshesPerPush \in Nat \ {0}
  /\ MaxSettled \in Nat

VARIABLES
  \* ticker goroutine and what it writes
  publish,        \* what is left to publish of the last refresh
  refreshCounter, \* successful refreshes since a failure, 3 means more than 2
  nodeUp,         \* value of each node_up gauge, Absent before its creation
  created,        \* nodes whose counters are registered
  \* periodic reader (external), and the batch it is making
  reader, toObserve, observed, batchUp, spikes,
  reported,       \* series observed by the last collection
  \* history
  beat,           \* refreshes begun since the last collection, up to one too many
  settled         \* regular, undisturbed collections in a row, up to MaxSettled

readerVars == <<reader, toObserve, observed, batchUp, spikes, reported>>
tickerVars == <<publish, refreshCounter, nodeUp, created>>
historyVars == <<beat, settled>>
otelVars   == <<statsVars, tickerVars, readerVars, historyVars>>

Absent == 2

\* The label sets of node_up: a node's, or the common labels alone.
LabelSets == Idents \cup {NoReply}

OtelTypeOK ==
  /\ StatsTypeOK
  /\ publish \in {"none", "reset", "down", "create", "up", "count", "push"}
  /\ refreshCounter \in 0 .. 3
  /\ nodeUp \in [LabelSets -> {0, 1, Absent}]
  /\ created \subseteq Idents
  /\ reader \in {"idle", "observing", "export", "connected"}
  /\ toObserve \subseteq created /\ observed \subseteq created
  /\ batchUp \in [LabelSets -> {0, 1, Absent}]
  /\ spikes \subseteq observed
  /\ reported \subseteq created
  /\ beat \in 0 .. RefreshesPerPush + 1
  /\ settled \in 0 .. MaxSettled

OtelInit ==
  /\ StatsInit
  /\ publish = "none"
  /\ refreshCounter = 0
  /\ nodeUp = [l \in LabelSets |-> Absent]
  /\ created = {}
  /\ reader = "idle"
  /\ toObserve = {} /\ observed = {}
  /\ batchUp = [l \in LabelSets |-> Absent]
  /\ spikes = {}
  /\ reported = {}
  /\ beat = 0
  /\ settled = MaxSettled

-----------------------------------------------------------------------------
(* The ticker goroutine: handleAerospikeMetrics. *)

\* Timing is free: a refresh may take longer than any interval.  beat and
\* settled only record whether it was as the intervals say when nothing does:
\* RefreshesPerPush refreshes begin before each collection, and none begins
\* and ends during one.

\* ticker.C fires; a tick during a refresh waits for its end
Tick ==
  /\ publish = "none"
  /\ beat' = IF beat <= RefreshesPerPush THEN beat + 1 ELSE beat
  /\ settled' = IF beat < RefreshesPerPush THEN settled ELSE 0
  /\ StartRefresh(Ticker)
  /\ UNCHANGED <<tickerVars, readerVars>>

\* Refresh has returned.
Refreshed ==
  /\ publish = "none"
  /\ TakeOutcome(Ticker) /\ Watch(Ticker)
  /\ publish' = IF phase[Ticker] = "ok" THEN "create" ELSE "reset"
  /\ UNCHANGED <<refreshCounter, nodeUp, created, readerVars, historyVars>>

\* A step of the ticker goroutine after the refresh.
Publish(from, to) ==
  /\ publish = from
  /\ publish' = to
  /\ UNCHANGED <<statsVars, readerVars, beat>>

\* refreshCounter.Store(0): as good as a restart of the exporter
ResetCounter ==
  /\ Publish("reset", "down")
  /\ refreshCounter' = 0
  /\ settled' = IF reader = "idle" THEN MaxSettled ELSE settled
  /\ UNCHANGED <<nodeUp, created>>

\* Mutant: the labels of the node are left out.
SendNodeDownUnlabelled ==
  /\ Publish("down", "none")
  /\ nodeUp' = [nodeUp EXCEPT ![NoReply] = 0]
  /\ UNCHANGED <<refreshCounter, created, settled>>

\* sendNodeUp(0), under the common labels alone as long as no node is known;
\* a gauge created here starts at 0 anyway
SendNodeDown ==
  /\ Publish("down", "none")
  /\ nodeUp' = [nodeUp EXCEPT ![labels] = 0]
  /\ UNCHANGED <<refreshCounter, created, settled>>

\* getNodeUpGaugeMetric: the gauge is registered with the value 0
CreateNodeUp ==
  /\ Publish("create", "up")
  /\ nodeUp' = [nodeUp EXCEPT ![labels] = IF @ = Absent THEN 0 ELSE @]
  /\ UNCHANGED <<refreshCounter, created, settled>>

\* sendNodeUp(1): value.Store
SendNodeUp ==
  /\ Publish("up", "count")
  /\ nodeUp' = [nodeUp EXCEPT ![labels] = 1]
  /\ UNCHANGED <<refreshCounter, created, settled>>

\* Mutant: the first refresh after a failure is not counted.
CountRefreshFromOne ==
  /\ Publish("count", "push")
  /\ refreshCounter' = IF refreshCounter \in 1 .. 2 THEN refreshCounter + 1 ELSE refreshCounter
  /\ settled' = IF reader # "idle" /\ beat > 0 THEN 0 ELSE settled
  /\ UNCHANGED <<nodeUp, created>>

\* refreshCounter.Add(1)
CountRefresh ==
  /\ Publish("count", "push")
  /\ refreshCounter' = IF refreshCounter < 3 THEN refreshCounter + 1 ELSE 3
  /\ settled' = IF reader # "idle" /\ beat > 0 THEN 0 ELSE settled
  /\ UNCHANGED <<nodeUp, created>>

\* processAndPushStats.  A counter is registered with 0 and then given its
\* value: a collection in between observes 0, which is no growth, and the whole
\* value is what the next one finds new.  One action stands for both, as if
\* that collection had not observed the counter.
PushStats ==
  /\ Publish("push", "none")
  /\ created' = created \cup {labels}
  /\ UNCHANGED <<refreshCounter, nodeUp, settled>>

TickerStep ==
  \/ CallStep(Ticker)
       /\ UNCHANGED <<refreshVars, tickerVars, readerVars, historyVars>>
  \/ RefreshStep(Ticker)
       /\ UNCHANGED <<tickerVars, readerVars, historyVars>>
  \/ Refreshed \/ ResetCounter \/ SendNodeDown
  \/ CreateNodeUp \/ SendNodeUp \/ CountRefresh \/ PushStats

-----------------------------------------------------------------------------
(* The periodic reader. *)

StartCollect ==
  /\ reader = "idle"
  /\ reader' = "observing"
  /\ batchUp' = nodeUp
  /\ toObserve' = created
  /\ observed' = {}
  /\ beat' = 0
  /\ settled' = IF beat # RefreshesPerPush THEN 0
                ELSE IF settled < MaxSettled THEN settled + 1 ELSE settled
  /\ UNCHANGED <<statsVars, tickerVars, spikes, reported>>

\* The callback of one counter.
Observe(i) ==
  /\ reader = "observing"
  /\ i \in toObserve
  /\ toObserve' = toObserve \ {i}
  /\ observed' = IF IsServerConnected THEN observed \cup {i} ELSE observed
  /\ UNCHANGED <<statsVars, tickerVars, reader, batchUp, spikes, reported,
                 historyVars>>

\* The deltas are computed and remembered whatever becomes of the batch.
EndCollect ==
  /\ reader = "observing"
  /\ toObserve = {}
  /\ reader' = "export"
  /\ spikes' = observed \ reported
  /\ reported' = observed
  /\ UNCHANGED <<statsVars, tickerVars, toObserve, observed, batchUp,
                 historyVars>>

EndExport ==
  /\ reader' = "idle"
  /\ observed' = {} /\ spikes' = {}
  /\ batchUp' = [l \in LabelSets |-> Absent]
  /\ UNCHANGED <<statsVars, tickerVars, toObserve, reported, historyVars>>

\* Export: first IsServerConnected() is read, then refreshCounter.
ExportConnected ==
  /\ reader = "export" /\ IsServerConnected
  /\ reader' = "connected"
  /\ UNCHANGED <<statsVars, tickerVars, toObserve, observed, batchUp, spikes,
                 reported, historyVars>>

ExportDropped ==
  /\ reader = "connected" /\ refreshCounter <= 2
  /\ EndExport

\* The batch goes to the endpoint.
Send ==
  /\ \/ reader = "export" /\ ~IsServerConnected
     \/ reader = "connected" /\ refreshCounter > 2
  /\ EndExport

ReaderStep ==
  \/ StartCollect \/ EndCollect \/ ExportConnected \/ ExportDropped \/ Send
  \/ \E i \in Idents : Observe(i)

-----------------------------------------------------------------------------
Disturbance ==
  /\ Environment
  /\ settled' = IF server = "down" THEN settled ELSE 0
  /\ UNCHANGED <<refreshVars, tickerVars, readerVars, beat>>

OtelNext == Tick \/ TickerStep \/ ReaderStep \/ Disturbance

OtelSpec == OtelInit /\ [][OtelNext]_otelVars

\* Both goroutines run; the ticker ticks and the reader collects for ever.
OtelFairness ==
  WF_otelVars(Tick) /\ WF_otelVars(TickerStep) /\ WF_otelVars(ReaderStep)

OtelFairSpec == OtelSpec /\ OtelFairness

-----------------------------------------------------------------------------
(* Properties. *)

\* Node and network are left alone for good, and refreshes are in time.
StaysRegular == <>[](settled = MaxSettled)

(* "do not send metrics to end point to avoid large spikes in delta when   *)
(* exporter restarts" (Export), and "Reset counter, so when server comes   *)
(* back we do not send large counter value again" (handleAerospikeMetrics):*)
(* a counter is not sent without a baseline, its whole value taken for its *)
(* growth, even if this is only asked while the node is left alone and the *)
(* refreshes keep their step with the collections.                         *)
NoSpike ==
  [][Send => spikes = {} \/ settled < MaxSettled]_otelVars

(* "this metric will have to be send irrespective of Aerospike Server is   *)
(* available or not" (getNodeUpGaugeMetric): however the node has settled, *)
(* batches with node_up keep being sent.                                   *)
NodeUpIsSent == StaysRegular => []<><<Send>>_otelVars

(* A node that is gone is reported: with the server down for good, batches *)
(* keep being sent and, from some moment on, all of them say node_up 0     *)
(* under the labels the exporter last knew.                                *)
DownIsReported ==
  <>[](server = "down") => /\ []<><<Send>>_otelVars
                           /\ <>[][Send => batchUp[labels] = 0]_otelVars

=============================================================================
