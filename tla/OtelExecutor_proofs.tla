------------------------ MODULE OtelExecutor_proofs ------------------------
(***************************************************************************)
(* Proofs about OtelExecutor, for every number of connections and          *)
(* identities, every ratio of the two intervals and every behaviour of the *)
(* node that AeroServer knows.                                             *)
(***************************************************************************)
EXTENDS OtelExecutor, AeroServer_proofs

(* With one caller there is nobody for its calls to overlap with.          *)
LEMMA TickerSerial == ASSUME NEW w \in Callers PROVE Serial(w)
BY OtelAssumption DEF Serial

LEMMA RefreshStepAero ==
  ASSUME NEW w \in Callers, RefreshStep(w)
  PROVE  [AeroNext]_aeroVars
<1>1. UNCHANGED aeroVars \/ \E o \in Operation : BeginCall(w, o)
  BY DEF RefreshStep, PassOneDone, PassTwoFailed, PassTwoDone, UsersDone, Leave, Operation
<1> QED
  BY <1>1, TickerSerial DEF AeroNext

(* The two goroutines use the provider as AeroServer relies on, although   *)
(* no lock is between them: the reader only looks at the connection.  What *)
(* is proved of AeroServer holds of this executor too.                     *)
THEOREM OtelImplementsAero == OtelSpec => AeroSpec
<1>1. OtelInit => AeroInit
  BY DEF OtelInit, StatsInit
<1>2. [OtelNext]_otelVars => [AeroNext]_aeroVars
  <2> SUFFICES ASSUME [OtelNext]_otelVars PROVE [AeroNext]_aeroVars
    OBVIOUS
  <2>1. Ticker \in Callers
    BY OtelAssumption
  <2>2. CASE Tick
    BY <2>1, <2>2, TickerSerial DEF Tick, StartRefresh, AeroNext, Operation
  <2>3. CASE TickerStep
    <3>1. CASE CallStep(Ticker)
      BY <2>1, <3>1 DEF AeroNext
    <3>2. CASE RefreshStep(Ticker)
      BY <2>1, <3>2, RefreshStepAero
    <3>3. CASE Refreshed
      BY <2>1, <3>3 DEF Refreshed, AeroNext
    <3>4. CASE \/ ResetCounter \/ SendNodeDown \/ CreateNodeUp \/ SendNodeUp
               \/ CountRefresh \/ PushStats
      BY <3>4 DEF ResetCounter, SendNodeDown, CreateNodeUp, SendNodeUp, CountRefresh,
         PushStats, Publish, statsVars
    <3> QED
      BY <2>3, <3>1, <3>2, <3>3, <3>4 DEF TickerStep
  <2>4. CASE ReaderStep
    BY <2>4 DEF ReaderStep, StartCollect, Observe, EndCollect, ExportConnected,
       ExportDropped, Send, EndExport, statsVars
  <2>5. CASE Disturbance
    BY <2>5 DEF Disturbance, AeroNext
  <2>6. CASE UNCHANGED otelVars
    BY <2>6 DEF otelVars, statsVars
  <2> QED
    BY <2>2, <2>3, <2>4, <2>5, <2>6 DEF OtelNext
<1> QED
  BY <1>1, <1>2, PTL DEF OtelSpec, AeroSpec

-----------------------------------------------------------------------------
(* A refresh that succeeded has labels to publish under: those of a node,  *)
(* and they stay until all of it is published; a collection starts with    *)
(* nothing left of the last one.                                           *)
OtelInv ==
  /\ OtelTypeOK
  /\ phase[Ticker] \in {"passOne", "passTwo"} => op[Ticker] = "info"
  /\ phase[Ticker] \in {"users", "ok"} => labels \in Idents
  /\ publish \in {"create", "up", "count", "push"} => labels \in Idents
  /\ publish # "none" => phase[Ticker] = "idle"
  /\ reader = "idle" => spikes = {}

LEMMA OtelCallStep ==
  ASSUME AeroTypeOK, CallStep(Ticker) PROVE op' = op
BY DEF CallStep, Reuse, Dial, DialFail, LoginOk, LoginFail, UserAgentSet, UserAgentFail,
   InfoAnswered, InfoDenied, InfoFailed, UsersAnswered, RoleViolation, UsersFailed, GiveUp

LEMMA OtelRefreshStep ==
  ASSUME OtelInv, ConnInv, AeroTypeOK', RefreshStep(Ticker),
         UNCHANGED <<tickerVars, readerVars, historyVars>>
  PROVE  OtelInv'
<1> USE DEF OtelInv, OtelTypeOK, StatsTypeOK, RefreshTypeOK, Phase, tickerVars, readerVars,
        historyVars
<1>1. Ticker \in Callers /\ AeroTypeOK
  BY OtelAssumption
<1>2. reply[Ticker] \in Idents \cup {NoReply} /\ shouldFetch[Ticker] \in BOOLEAN
  BY <1>1 DEF AeroTypeOK
<1>3. publish = "none"
  BY DEF RefreshStep, PassOneDone, PassTwoFailed, PassTwoDone, UsersDone, Returned
<1>4. CASE PassOneDone(Ticker)
  BY <1>1, <1>3, <1>4 DEF PassOneDone, Leave, Enter, BeginCall, AeroTypeOK
<1>5. CASE PassTwoFailed(Ticker)
  BY <1>1, <1>3, <1>5 DEF PassTwoFailed, Leave, Enter
<1>6. CASE PassTwoDone(Ticker)
  <2>1. labels' \in Idents
    BY <1>1, <1>2, <1>6 DEF PassTwoDone, Returned, ConnInv, InfoAnswersOrFails
  <2> QED
    BY <1>1, <1>2, <1>3, <1>6, <2>1 DEF PassTwoDone, Leave, Enter, LabelSets
<1>7. CASE UsersDone(Ticker)
  BY <1>1, <1>2, <1>3, <1>7 DEF UsersDone, Returned, Leave, Enter
<1> QED
  BY <1>4, <1>5, <1>6, <1>7 DEF RefreshStep

LEMMA OtelTicker ==
  ASSUME OtelInv, ConnInv, AeroTypeOK', Tick \/ TickerStep
  PROVE  OtelInv'
<1> USE OtelAssumption DEF OtelInv, OtelTypeOK, StatsTypeOK, RefreshTypeOK, Phase
<1>1. Ticker \in Callers /\ AeroTypeOK
  OBVIOUS
<1>2. CASE Tick
  BY <1>1, <1>2 DEF Tick, StartRefresh, BeginCall, Enter, AeroTypeOK, tickerVars, readerVars
<1>3. CASE CallStep(Ticker) /\ UNCHANGED <<refreshVars, tickerVars, readerVars, historyVars>>
  BY <1>1, <1>3, OtelCallStep DEF refreshVars, tickerVars, readerVars, historyVars
<1>4. CASE Refreshed
  BY <1>1, <1>4 DEF Refreshed, TakeOutcome, Enter, readerVars, historyVars
<1>5. CASE ResetCounter \/ SendNodeDown \/ CreateNodeUp \/ SendNodeUp
  <2> USE DEF Publish, statsVars, aeroVars, refreshVars, readerVars, LabelSets, Absent
  <2>1. CASE ResetCounter
    BY <1>1, <2>1 DEF ResetCounter
  <2>2. CASE SendNodeDown
    BY <1>1, <2>2 DEF SendNodeDown
  <2>3. CASE CreateNodeUp
    BY <1>1, <2>3 DEF CreateNodeUp
  <2>4. CASE SendNodeUp
    BY <1>1, <2>4 DEF SendNodeUp
  <2> QED
    BY <1>5, <2>1, <2>2, <2>3, <2>4
<1>6. CASE CountRefresh \/ PushStats
  BY <1>1, <1>6 DEF CountRefresh, PushStats, Publish, statsVars, aeroVars, refreshVars, readerVars
<1> QED
  BY <1>2, <1>3, <1>4, <1>5, <1>6, OtelRefreshStep DEF TickerStep

LEMMA OtelReader ==
  ASSUME OtelInv, ReaderStep PROVE OtelInv'
<1> USE OtelAssumption DEF OtelInv, OtelTypeOK, StatsTypeOK, RefreshTypeOK, statsVars, aeroVars,
        refreshVars, tickerVars, historyVars
<1>1. AeroTypeOK'
  BY DEF AeroTypeOK, ReaderStep, StartCollect, Observe, EndCollect, ExportConnected,
     ExportDropped, Send, EndExport
<1>2. CASE StartCollect
  BY <1>1, <1>2 DEF StartCollect
<1>3. ASSUME NEW i \in Idents, Observe(i) PROVE OtelInv'
  BY <1>1, <1>3 DEF Observe
<1>4. CASE EndCollect
  BY <1>1, <1>4 DEF EndCollect
<1>5. CASE ExportConnected
  BY <1>1, <1>5 DEF ExportConnected
<1>6. CASE ExportDropped \/ Send
  BY <1>1, <1>6 DEF ExportDropped, Send, EndExport, Absent
<1> QED
  BY <1>2, <1>3, <1>4, <1>5, <1>6 DEF ReaderStep

LEMMA OtelInvariance == OtelSpec => []OtelInv
<1>1. OtelInit /\ AeroTypeOK => OtelInv
  BY OtelAssumption DEF OtelInit, StatsInit, RefreshInit, OtelInv, OtelTypeOK, StatsTypeOK,
     RefreshTypeOK, Phase, LabelSets, Absent
<1>2. OtelInv /\ ConnInv /\ AeroTypeOK' /\ [OtelNext]_otelVars => OtelInv'
  <2> SUFFICES ASSUME OtelInv, ConnInv, AeroTypeOK', [OtelNext]_otelVars PROVE OtelInv'
    OBVIOUS
  <2>1. CASE Disturbance
    BY <2>1, OtelAssumption DEF Disturbance, Environment, ServerChange, ServerDown, ServerStart,
       PrivilegeChange, NetDrop, callVars, OtelInv, OtelTypeOK, StatsTypeOK, RefreshTypeOK,
       refreshVars, tickerVars, readerVars
  <2>2. CASE UNCHANGED otelVars
    BY <2>2 DEF otelVars, statsVars, aeroVars, refreshVars, tickerVars, readerVars, historyVars,
       OtelInv, OtelTypeOK, StatsTypeOK, RefreshTypeOK
  <2> QED
    BY <2>1, <2>2, OtelTicker, OtelReader DEF OtelNext
<1> QED
  BY <1>1, <1>2, OtelImplementsAero, TypeCorrect, ConnInvariance, PTL DEF OtelSpec

(* The types of the OpenTelemetry executor; in particular nothing is ever  *)
(* registered for a node that is not known, and the reader observes no     *)
(* counter that is not registered.                                         *)
THEOREM OtelTypeCorrect == OtelSpec => []OtelTypeOK
<1>1. OtelInv => OtelTypeOK
  BY DEF OtelInv
<1> QED
  BY <1>1, OtelInvariance, PTL

=============================================================================
