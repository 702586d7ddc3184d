-------------------------- MODULE Lifecycle_proofs --------------------------
(***************************************************************************)
(* Proofs about Lifecycle, for every number of scrapes and signals and     *)
(* every choice of the times.  ExitStatus does not rest on who is in time; *)
(* LastBatchUnlessLate and NodeUpReturned do: their invariants bound one   *)
(* timer by another, and Tick, which counts both down, keeps them apart    *)
(* because time passes only while no goroutine has anything to do.         *)
(***************************************************************************)
EXTENDS Lifecycle, FiniteSetTheorems, TLAPS

LEMMA MainType ==
  ASSUME LifecycleTypeOK, MainStep \/ HandlerStep \/ SendSignal PROVE LifecycleTypeOK'
<1> USE LifecycleAssumption DEF LifecycleTypeOK, mainVars, signalVars, httpVars, otelVars, Timers
<1>1. CASE ConfigRead
  BY <1>1 DEF ConfigRead
<1>2. CASE HandleSignals
  BY <1>2 DEF HandleSignals
<1>3. CASE StartExecutors
  BY <1>3 DEF StartExecutors
<1>4. CASE TakeSignal
  BY <1>4 DEF TakeSignal
<1>5. CASE Exit
  BY <1>5 DEF Exit
<1>6. CASE SendSignal
  BY <1>6 DEF SendSignal
<1> QED
  BY <1>1, <1>2, <1>3, <1>4, <1>5, <1>6 DEF MainStep, HandlerStep

LEMMA HttpType ==
  ASSUME LifecycleTypeOK, HttpStep PROVE LifecycleTypeOK'
<1> USE LifecycleAssumption DEF LifecycleTypeOK, mainVars, signalVars, httpVars, otelVars, Timers
<1>1. CASE InitializeHttp
  BY <1>1 DEF InitializeHttp
<1>2. CASE HttpFails
  BY <1>2 DEF HttpFails
<1>3. CASE Listen
  BY <1>3 DEF Listen
<1>4. CASE ServeEnds
  BY <1>4 DEF ServeEnds
<1>5. CASE ShutDown
  BY <1>5 DEF ShutDown
<1>6. CASE ShutDownEnds
  BY <1>6 DEF ShutDownEnds
<1> QED
  BY <1>1, <1>2, <1>3, <1>4, <1>5, <1>6 DEF HttpStep

LEMMA ScrapeType ==
  ASSUME LifecycleTypeOK, NEW s \in Scrapes, Accept(s) \/ Collect(s) \/ Answer(s)
  PROVE  LifecycleTypeOK'
<1> USE LifecycleAssumption DEF LifecycleTypeOK, mainVars, signalVars, httpVars, otelVars, Timers
<1>1. CASE Accept(s)
  BY <1>1 DEF Accept
<1>2. CASE Collect(s)
  <2>1. PICK d \in RefreshTimes : left' = [left EXCEPT ![s] = d]
    BY <1>2 DEF Collect
  <2>2. left' \in [Timers -> Nat]
    BY <2>1, d \in Nat
  <2>3. /\ policies' \subseteq {"prometheus", "otel"}
        /\ status' \in {"running", "ok", "fatal", "panic", "killed"}
    BY <1>2 DEF Collect, MakePolicy
  <2> QED
    BY <1>2, <2>2, <2>3 DEF Collect
<1>3. CASE Answer(s)
  BY <1>3 DEF Answer
<1> QED
  BY <1>1, <1>2, <1>3

LEMMA OtelType ==
  ASSUME LifecycleTypeOK, OtelStep PROVE LifecycleTypeOK'
<1> USE LifecycleAssumption DEF LifecycleTypeOK, mainVars, signalVars, httpVars, otelVars, Timers
<1>1. CASE InitializeOtel
  BY <1>1 DEF InitializeOtel
<1>2. CASE OtelFails
  BY <1>2 DEF OtelFails
<1>3. CASE OtelTick
  <2>1. late' \in BOOLEAN
    BY <1>3 DEF OtelTick
  <2>2. PICK d \in RefreshTimes : left' = [left EXCEPT !["ticker"] = FetchInterval, !["otel"] = d]
    BY <1>3 DEF OtelTick
  <2>3. left' \in [Timers -> Nat]
    BY <2>2, d \in Nat
  <2>4. /\ policies' \subseteq {"prometheus", "otel"}
        /\ status' \in {"running", "ok", "fatal", "panic", "killed"}
    BY <1>3 DEF OtelTick, MakePolicy
  <2>5. otel' = "refreshing" /\ UNCHANGED <<main, enabled, signalVars, httpVars, flushed>>
    BY <1>3 DEF OtelTick
  <2> QED
    BY <2>1, <2>3, <2>4, <2>5
<1>4. CASE OtelRefreshed
  BY <1>4 DEF OtelRefreshed
<1>5. CASE OtelShutDown
  <2>1. late' \in BOOLEAN
    BY <1>5 DEF OtelShutDown
  <2>2. left' \in [Timers -> Nat]
    BY <1>5 DEF OtelShutDown
  <2> QED
    BY <1>5, <2>1, <2>2 DEF OtelShutDown
<1>6. CASE OtelFlushed
  BY <1>6 DEF OtelFlushed
<1> QED
  BY <1>1, <1>2, <1>3, <1>4, <1>5, <1>6 DEF OtelStep

LEMMA NextType ==
  ASSUME LifecycleTypeOK, [LifecycleNext]_vars PROVE LifecycleTypeOK'
<1>1. CASE Tick
  BY <1>1, LifecycleAssumption
  DEF Tick, LifecycleTypeOK, mainVars, signalVars, httpVars, otelVars, Timers
<1>2. CASE UNCHANGED vars
  BY <1>2 DEF vars, LifecycleTypeOK, mainVars, signalVars, httpVars, otelVars
<1> QED
  BY <1>1, <1>2, MainType, HttpType, ScrapeType, OtelType DEF LifecycleNext, ProgramStep

(* The types of the process: in particular the channel of HandleSignals    *)
(* never holds more than its capacity, however many signals come.          *)
THEOREM LifecycleTypeCorrect == LifecycleSpec => []LifecycleTypeOK
<1>1. ASSUME LifecycleInit PROVE LifecycleTypeOK
  <2>1. signals \in 0 .. MaxSignals
    BY <1>1, LifecycleAssumption DEF LifecycleInit
  <2>2. left \in [Timers -> Nat] /\ deadline \in [Scrapes -> 0 .. WriteTimeout]
    BY <1>1, LifecycleAssumption DEF LifecycleInit
  <2>3. scrape \in [Scrapes -> {"none", "waiting", "refreshing", "answered", "cut"}]
    BY <1>1 DEF LifecycleInit
  <2> QED
    BY <1>1, <2>1, <2>2, <2>3 DEF LifecycleInit, LifecycleTypeOK
<1>2. LifecycleTypeOK /\ [LifecycleNext]_vars => LifecycleTypeOK'
  BY NextType
<1> QED
  BY <1>1, <1>2, PTL DEF LifecycleSpec
-----------------------------------------------------------------------------
(* ProcessExit is made before the handler waits, closed by it once, and    *)
(* never waited for again by it: a second close would be a panic.          *)
ExitInv ==
  /\ ExitStatus
  /\ main \in {"config", "signals"} <=> handler = "off"
  /\ handler = "waiting" => processExit = "open"
  /\ main \in {"config", "signals", "executors"} => server = "off" /\ otel = "off"

LEMMA MainExit ==
  ASSUME ExitInv, MainStep, status = "running" PROVE ExitInv'
<1> USE DEF ExitInv, ExitStatus, signalVars, httpVars, otelVars
<1>1. CASE ConfigRead
  BY <1>1 DEF ConfigRead
<1>2. CASE HandleSignals
  BY <1>2 DEF HandleSignals
<1>3. CASE StartExecutors
  BY <1>3 DEF StartExecutors
<1> QED
  BY <1>1, <1>2, <1>3 DEF MainStep

LEMMA SignalsExit ==
  ASSUME ExitInv, HandlerStep \/ SendSignal, status = "running" PROVE ExitInv'
<1> USE DEF ExitInv, ExitStatus, mainVars, signalVars, httpVars, otelVars
<1>1. CASE TakeSignal
  BY <1>1 DEF TakeSignal
<1>2. CASE Exit
  BY <1>2 DEF Exit
<1>3. CASE SendSignal
  BY <1>3 DEF SendSignal
<1> QED
  BY <1>1, <1>2, <1>3 DEF HandlerStep

LEMMA HttpExit ==
  ASSUME ExitInv, HttpStep, status = "running" PROVE ExitInv'
<1> USE DEF ExitInv, ExitStatus, mainVars, signalVars, otelVars
<1>1. CASE InitializeHttp
  BY <1>1 DEF InitializeHttp
<1>2. CASE HttpFails
  BY <1>2 DEF HttpFails
<1>3. CASE Listen
  BY <1>3 DEF Listen
<1>4. CASE ServeEnds
  BY <1>4 DEF ServeEnds
<1>5. CASE ShutDown
  BY <1>5 DEF ShutDown
<1>6. CASE ShutDownEnds
  BY <1>6 DEF ShutDownEnds
<1> QED
  BY <1>1, <1>2, <1>3, <1>4, <1>5, <1>6 DEF HttpStep

LEMMA OtelExit ==
  ASSUME LifecycleTypeOK, ExitInv, OtelStep, status = "running" PROVE ExitInv'
<1> USE DEF ExitInv, ExitStatus, mainVars, signalVars, httpVars
<1>1. CASE InitializeOtel
  BY <1>1 DEF InitializeOtel
<1>2. CASE OtelFails
  BY <1>2 DEF OtelFails
<1>3. CASE OtelTick
  BY <1>3 DEF OtelTick, MakePolicy
<1>4. CASE OtelRefreshed
  BY <1>4 DEF OtelRefreshed
<1>5. CASE OtelShutDown
  BY <1>5 DEF OtelShutDown
<1>6. CASE OtelFlushed
  BY <1>6 DEF OtelFlushed
<1> QED
  BY <1>1, <1>2, <1>3, <1>4, <1>5, <1>6 DEF OtelStep

LEMMA NextExit ==
  ASSUME LifecycleTypeOK, ExitInv, [LifecycleNext]_vars PROVE ExitInv'
<1>1. CASE UNCHANGED vars
  BY <1>1 DEF vars, mainVars, signalVars, httpVars, otelVars, ExitInv, ExitStatus
<1>2. ASSUME NEW s \in Scrapes, Collect(s) \/ Answer(s) \/ Accept(s), status = "running"
      PROVE  ExitInv'
  <2>1. CASE Collect(s)
    <3>1. scrape'[s] = "refreshing"
      BY <2>1 DEF Collect, LifecycleTypeOK
    <3> QED
      BY <1>2, <2>1, <3>1 DEF Collect, MakePolicy, signalVars, otelVars, ExitInv, ExitStatus
  <2>2. CASE Answer(s) \/ Accept(s)
    BY <1>2, <2>2 DEF Answer, Accept, mainVars, signalVars, otelVars, ExitInv, ExitStatus
  <2> QED
    BY <1>2, <2>1, <2>2
<1>3. CASE Tick /\ status = "running"
  BY <1>3 DEF Tick, mainVars, signalVars, otelVars, ExitInv, ExitStatus
<1>4. ASSUME LifecycleNext PROVE status = "running"
  BY <1>4 DEF LifecycleNext
<1> QED
  BY <1>1, <1>2, <1>3, <1>4, MainExit, SignalsExit, HttpExit, OtelExit
  DEF LifecycleNext, ProgramStep

(* However many signals come, and in whichever order the goroutines learn  *)
(* of them, a shutdown does not end the process with 1: only what the      *)
(* configuration, the start of an executor, the client policy of its first *)
(* refresh or an instrument after a refresh does.                          *)
THEOREM ExitStatusHolds == LifecycleSpec => []ExitStatus
<1>1. LifecycleInit => ExitInv
  BY DEF LifecycleInit, ExitInv, ExitStatus
<1>2. LifecycleTypeOK /\ ExitInv /\ [LifecycleNext]_vars => ExitInv'
  BY NextExit
<1>3. ExitInv => ExitStatus
  BY DEF ExitInv
<1> QED
  BY <1>1, <1>2, <1>3, LifecycleTypeCorrect, PTL DEF LifecycleSpec
-----------------------------------------------------------------------------
(* The last batch.  Once the handler sleeps and nothing is late, no time   *)
(* passes before the ticker goroutine has begun its last push, and that    *)
(* push has less to go than the handler; until then ProcessExit is open    *)
(* and the goroutine cannot have left its loop.                            *)
BatchInv ==
  /\ LastBatchUnlessLate
  /\ otel \in {"flushing", "done"} => processExit = "closed"
  /\ handler = "sleeping" => processExit = "closed"
  /\ otel = "failed" => status # "running"
  /\ otel = "done" => flushed
  /\ handler = "sleeping" /\ status = "running" /\ ~late =>
       /\ otel # "refreshing"
       /\ main = "executors" \/ otel \in {"init", "select"} => left["exit"] = ExitDelay
       /\ otel = "flushing" => left["otel"] < left["exit"]

LEMMA MainBatch ==
  ASSUME LifecycleTypeOK, ExitInv, BatchInv, status = "running",
         MainStep \/ HandlerStep \/ SendSignal
  PROVE  BatchInv'
<1> USE LifecycleAssumption
    DEF BatchInv, LastBatchUnlessLate, mainVars, signalVars, httpVars, otelVars
<1>1. CASE MainStep
  BY <1>1 DEF MainStep, ConfigRead, HandleSignals, StartExecutors, ExitInv
<1>2. CASE TakeSignal
  <2>1. processExit = "open" /\ status' = "running" /\ left'["exit"] = ExitDelay
    BY <1>2 DEF TakeSignal, ExitInv, LifecycleTypeOK, Timers
  <2> QED
    BY <1>2, <2>1 DEF TakeSignal
<1>3. CASE Exit
  BY <1>3 DEF Exit, LifecycleTypeOK, Timers
<1>4. CASE SendSignal
  BY <1>4 DEF SendSignal
<1> QED
  BY <1>1, <1>2, <1>3, <1>4 DEF HandlerStep

(* The HTTP server has timers of its own.                                  *)
LEMMA HttpBatch ==
  ASSUME LifecycleTypeOK, BatchInv, status = "running",
         HttpStep \/ \E s \in Scrapes : Accept(s) \/ Collect(s) \/ Answer(s)
  PROVE  BatchInv'
<1>1. left'["exit"] = left["exit"] /\ left'["otel"] = left["otel"]
  BY LifecycleAssumption DEF HttpStep, InitializeHttp, HttpFails, Listen, ServeEnds, ShutDown,
     ShutDownEnds, Accept, Collect, Answer, LifecycleTypeOK, Timers
<1>2. UNCHANGED <<main, signalVars, otelVars>> /\ status' \in {"running", "fatal"}
  BY DEF HttpStep, InitializeHttp, HttpFails, Listen, ServeEnds, ShutDown, ShutDownEnds,
     Accept, Collect, Answer, MakePolicy, mainVars
<1> QED
  BY <1>1, <1>2 DEF BatchInv, LastBatchUnlessLate, signalVars, otelVars

LEMMA OtelBatch ==
  ASSUME LifecycleTypeOK, ExitInv, BatchInv, status = "running", OtelStep
  PROVE  BatchInv'
<1> USE LifecycleAssumption
    DEF BatchInv, LastBatchUnlessLate, mainVars, signalVars, httpVars
<1>1. CASE InitializeOtel
  BY <1>1 DEF InitializeOtel, LifecycleTypeOK, Timers
<1>2. CASE OtelFails
  BY <1>2 DEF OtelFails
<1>3. CASE OtelTick
  <2>1. status' \in {"running", "fatal"}
    BY <1>3 DEF OtelTick, MakePolicy
  <2>2. handler = "sleeping" => late'
    BY <1>3 DEF OtelTick
  <2> QED
    BY <1>3, <2>1, <2>2 DEF OtelTick
<1>4. CASE OtelRefreshed
  BY <1>4 DEF OtelRefreshed
<1>5. CASE OtelShutDown
  <2>1. ASSUME ~late' PROVE ~late /\ (handler = "sleeping" => left'["otel"] < left'["exit"])
    <3>1. PICK d \in PushTimes : left' = [left EXCEPT !["otel"] = d] /\ ~(d >= ExitDelay) /\ ~late
      BY <1>5, <2>1 DEF OtelShutDown
    <3>2. handler = "sleeping" => left["exit"] = ExitDelay
      BY <1>5, <3>1 DEF OtelShutDown
    <3> QED
      BY <3>1, <3>2, d \in Nat, ExitDelay \in Nat DEF LifecycleTypeOK, Timers
  <2> QED
    BY <1>5, <2>1 DEF OtelShutDown
<1>6. CASE OtelFlushed
  BY <1>6 DEF OtelFlushed
<1> QED
  BY <1>1, <1>2, <1>3, <1>4, <1>5, <1>6 DEF OtelStep

(* Time passes only while the ticker goroutine is busy.                    *)
LEMMA TickBatch ==
  ASSUME LifecycleTypeOK, BatchInv, status = "running", Tick
  PROVE  BatchInv'
<1>1. UNCHANGED <<mainVars, signalVars, otelVars, status>> /\ main = "select"
  BY DEF Tick, Busy
<1>2. ASSUME handler = "sleeping", ~late
      PROVE  otel \notin {"init", "select"}
  BY <1>2 DEF Tick, Busy, BatchInv
<1>3. ASSUME otel = "flushing", left["otel"] < left["exit"]
      PROVE  left'["otel"] < left'["exit"]
  BY <1>3 DEF Tick, Busy, LifecycleTypeOK, Timers
<1> QED
  BY <1>1, <1>2, <1>3 DEF BatchInv, LastBatchUnlessLate, mainVars, signalVars, otelVars

(* A process that ends orderly has pushed its last batch, unless the       *)
(* ticker goroutine was busy when the signal came, or took one more tick   *)
(* first, or the push takes ExitDelay: for all times and interleavings.    *)
THEOREM LastBatchUnlessLateHolds == LifecycleSpec => []LastBatchUnlessLate
<1>1. LifecycleInit => BatchInv
  BY DEF LifecycleInit, BatchInv, LastBatchUnlessLate
<1>2. LifecycleTypeOK /\ ExitInv /\ BatchInv /\ [LifecycleNext]_vars => BatchInv'
  <2>1. ASSUME BatchInv, UNCHANGED vars PROVE BatchInv'
    BY <2>1 DEF BatchInv, LastBatchUnlessLate, vars, mainVars, signalVars, otelVars
  <2> QED
    BY <2>1, MainBatch, HttpBatch, OtelBatch, TickBatch DEF LifecycleNext, ProgramStep
<1>3. LifecycleInit => ExitInv
  BY DEF LifecycleInit, ExitInv, ExitStatus
<1>4. LifecycleTypeOK /\ ExitInv /\ [LifecycleNext]_vars => ExitInv'
  BY NextExit
<1>5. BatchInv => LastBatchUnlessLate
  BY DEF BatchInv
<1> QED
  BY <1>1, <1>2, <1>3, <1>4, <1>5, LifecycleTypeCorrect, PTL DEF LifecycleSpec

-----------------------------------------------------------------------------
(* Scrapes.  The mutex of Collect lets any of those that wait go first, so *)
(* that a request can have to wait for all the others there are: as long   *)
(* as it waits, its deadline leaves time for what is left of the refresh   *)
(* under way and for one of Longest each of all that have not had theirs.  *)
Unserved == {s \in Scrapes : scrape[s] \in {"none", "waiting"}}

ScrapeInv(Longest) ==
  /\ NodeUpReturned
  /\ \A s, t \in Scrapes : scrape[s] = "refreshing" /\ scrape[t] = "refreshing" => s = t
  /\ \A s \in Scrapes :
       /\ scrape[s] = "refreshing" => left[s] <= Longest /\ left[s] < deadline[s]
       /\ scrape[s] = "waiting" =>
            /\ Longest * Cardinality(Unserved) < deadline[s]
            /\ \A t \in Scrapes : scrape[t] = "refreshing" =>
                 left[t] + Longest * Cardinality(Unserved) < deadline[s]

(* Steps of the others leave the scrapes and their timers alone.           *)
LEMMA OthersScrape ==
  ASSUME LifecycleTypeOK, NEW M \in Nat, ScrapeInv(M),
         MainStep \/ HandlerStep \/ SendSignal \/ HttpStep \/ OtelStep \/ UNCHANGED vars
  PROVE  ScrapeInv(M)'
<1>1. UNCHANGED <<scrape, deadline>>
  BY DEF MainStep, ConfigRead, HandleSignals, StartExecutors, HandlerStep, TakeSignal, Exit,
     SendSignal, HttpStep, InitializeHttp, HttpFails, Listen, ServeEnds, ShutDown, ShutDownEnds,
     OtelStep, InitializeOtel, OtelFails, OtelTick, OtelRefreshed, OtelShutDown, OtelFlushed,
     vars, httpVars
<1>2. \A s \in Scrapes : left'[s] = left[s]
  <2> USE LifecycleAssumption DEF LifecycleTypeOK, Timers
  <2>1. CASE MainStep \/ HandlerStep \/ SendSignal
    BY <2>1 DEF MainStep, ConfigRead, HandleSignals, StartExecutors, HandlerStep, TakeSignal,
       Exit, SendSignal
  <2>2. CASE HttpStep
    BY <2>2 DEF HttpStep, InitializeHttp, HttpFails, Listen, ServeEnds, ShutDown, ShutDownEnds
  <2>3. CASE OtelStep
    BY <2>3 DEF OtelStep, InitializeOtel, OtelFails, OtelTick, OtelRefreshed, OtelShutDown,
       OtelFlushed
  <2>4. CASE UNCHANGED vars
    BY <2>4 DEF vars
  <2> QED
    BY <2>1, <2>2, <2>3, <2>4
<1> QED
  BY <1>1, <1>2 DEF ScrapeInv, NodeUpReturned, Unserved
(* What those that wait may have to wait for all together.                 *)
LEMMA Waits ==
  ASSUME IsFiniteSet(Scrapes), NEW M \in Nat
  PROVE  /\ Cardinality(Unserved) \in Nat
         /\ M * Cardinality(Unserved) \in Nat
         /\ M * Cardinality(Unserved) <= M * Cardinality(Scrapes)
         /\ \A t \in Scrapes : t \notin Unserved =>
              M + M * Cardinality(Unserved) <= M * Cardinality(Scrapes)
<1> DEFINE n == Cardinality(Unserved)
           k == Cardinality(Scrapes)
<1>1. n \in Nat /\ k \in Nat /\ n <= k
  BY FS_Subset, FS_CardinalityType DEF Unserved
<1>2. M * n \in Nat /\ M * n <= M * k
  <2>1. PICK d \in Nat : k = n + d
    BY <1>1, k - n \in Nat, k = n + (k - n)
  <2> QED
    BY <1>1, <2>1
<1>3. ASSUME NEW t \in Scrapes, t \notin Unserved PROVE M + M * n <= M * k
  <2>1. n <= k - 1
    <3>1. Cardinality(Scrapes \ {t}) = k - 1 /\ IsFiniteSet(Scrapes \ {t})
      BY <1>3, FS_RemoveElement
    <3>2. Unserved \in SUBSET (Scrapes \ {t})
      BY <1>3 DEF Unserved
    <3> QED
      BY <3>1, <3>2, FS_Subset
  <2>2. PICK d \in Nat : k = n + 1 + d
    BY <1>1, <2>1, (k - 1) - n \in Nat, k = n + 1 + ((k - 1) - n)
  <2> QED
    BY <1>1, <2>2
<1> QED
  BY <1>1, <1>2, <1>3

LEMMA StepScrape ==
  ASSUME LifecycleTypeOK, IsFiniteSet(Scrapes), NEW M \in Nat, RefreshTimes \subseteq 0 .. M,
         M * Cardinality(Scrapes) < WriteTimeout, ScrapeInv(M),
         NEW s \in Scrapes, Accept(s) \/ Collect(s) \/ Answer(s)
  PROVE  ScrapeInv(M)'
<1> USE LifecycleAssumption DEF ScrapeInv, NodeUpReturned, LifecycleTypeOK, Timers
<1> DEFINE load == M * Cardinality(Unserved)
<1>0. load \in Nat /\ load <= M * Cardinality(Scrapes)
  BY Waits
<1>1. CASE Accept(s)
  <2>1. Unserved' = Unserved
    BY <1>1 DEF Accept, Unserved
  <2>2. \A t \in Scrapes : scrape[t] = "refreshing" => left[t] + load < WriteTimeout
    <3> SUFFICES ASSUME NEW t \in Scrapes, scrape[t] = "refreshing"
                 PROVE  left[t] + load < WriteTimeout
      OBVIOUS
    <3>1. M + load <= M * Cardinality(Scrapes)
      BY Waits DEF Unserved
    <3>2. M * Cardinality(Scrapes) \in Nat
      BY FS_CardinalityType
    <3> QED
      BY <1>0, <3>1, <3>2
  <2>3. load < WriteTimeout
    BY <1>0, FS_CardinalityType
  <2> HIDE DEF load
  <2>4. load' = load
    BY <2>1 DEF load
  <2> QED
    BY <1>1, <2>2, <2>3, <2>4 DEF Accept, load
<1>2. CASE Collect(s)
  <2>1. PICK d \in RefreshTimes : left' = [left EXCEPT ![s] = d]
    BY <1>2 DEF Collect
  <2>2. d \in Nat /\ d <= M
    BY <2>1
  <2>3. load = M + load' /\ load' \in Nat
    <3>1. Unserved' = Unserved \ {s} /\ s \in Unserved
      BY <1>2 DEF Collect, Unserved
    <3>2. IsFiniteSet(Unserved)
      BY FS_Subset DEF Unserved
    <3>3. Cardinality(Unserved)' = Cardinality(Unserved) - 1 /\ Cardinality(Unserved)' \in Nat
      BY <3>1, <3>2, FS_RemoveElement, FS_CardinalityType
    <3>4. Cardinality(Unserved) \in Nat
      BY <3>2, FS_CardinalityType
    <3> QED
      BY <3>3, <3>4
  <2> HIDE DEF load
  <2> QED
    BY <1>0, <1>2, <2>1, <2>2, <2>3 DEF Collect, load
<1>3. CASE Answer(s)
  <2>1. Unserved' = Unserved
    BY <1>3 DEF Answer, Unserved
  <2> QED
    BY <1>3, <2>1 DEF Answer
<1> QED
  BY <1>1, <1>2, <1>3

(* While a request waits, time passes only for a refresh that goes on.     *)
LEMMA TickScrape ==
  ASSUME LifecycleTypeOK, IsFiniteSet(Scrapes), NEW M \in Nat, ScrapeInv(M), Tick
  PROVE  ScrapeInv(M)'
<1> USE LifecycleAssumption DEF ScrapeInv, NodeUpReturned, LifecycleTypeOK, Timers
<1> DEFINE load == M * Cardinality(Unserved)
<1>1. load \in Nat
  BY Waits
<1>2. UNCHANGED scrape /\ Unserved' = Unserved
  BY DEF Tick, Unserved
<1>3. \A s \in Scrapes :
        /\ left'[s] = IF left[s] > 0 THEN left[s] - 1 ELSE 0
        /\ deadline'[s] = IF deadline[s] > 0 THEN deadline[s] - 1 ELSE 0
  BY DEF Tick
<1>4. \A s \in Scrapes : scrape[s] = "refreshing" => left[s] > 0
  BY DEF Tick, Busy
<1>5. \A s \in Scrapes : scrape[s] = "waiting" => \E t \in Scrapes : scrape[t] = "refreshing"
  BY DEF Tick, Busy
<1> HIDE DEF load
<1>6. load' = load
  BY <1>2 DEF load
<1>7. ASSUME NEW s \in Scrapes, scrape[s] = "waiting"
      PROVE  /\ load < deadline'[s]
             /\ \A t \in Scrapes : scrape[t] = "refreshing" => left'[t] + load < deadline'[s]
  BY <1>1, <1>3, <1>4, <1>5, <1>7 DEF load
<1> QED
  BY <1>2, <1>3, <1>4, <1>6, <1>7 DEF load

(* No answer to a scrape is cut off, if the refreshes of all requests      *)
(* there are, one after the other, end within WriteTimeout: then a request *)
(* is answered in time whatever the order in which they get the mutex, and *)
(* whenever they come.  The hypothesis is what the defaults break with one *)
(* request already: three attempts of five seconds against ten.            *)
THEOREM NodeUpReturnedInTime ==
  ASSUME IsFiniteSet(Scrapes), NEW M \in Nat, RefreshTimes \subseteq 0 .. M,
         M * Cardinality(Scrapes) < WriteTimeout
  PROVE  LifecycleSpec => []NodeUpReturned
<1>1. LifecycleInit => ScrapeInv(M)
  BY DEF LifecycleInit, ScrapeInv, NodeUpReturned
<1>2. LifecycleTypeOK /\ ScrapeInv(M) /\ [LifecycleNext]_vars => ScrapeInv(M)'
  <2> SUFFICES ASSUME LifecycleTypeOK, ScrapeInv(M), [LifecycleNext]_vars
               PROVE  ScrapeInv(M)'
    OBVIOUS
  <2>1. ASSUME NEW s \in Scrapes, Accept(s) \/ Collect(s) \/ Answer(s) PROVE ScrapeInv(M)'
    BY <2>1, StepScrape
  <2>2. CASE Tick
    BY <2>2, TickScrape
  <2> QED
    BY <2>1, <2>2, OthersScrape DEF LifecycleNext, ProgramStep
<1>3. ScrapeInv(M) => NodeUpReturned
  BY DEF ScrapeInv
<1> QED
  BY <1>1, <1>2, <1>3, LifecycleTypeCorrect, PTL DEF LifecycleSpec
=============================================================================
