----------------------- MODULE PrometheusImpl_proofs -----------------------
(***************************************************************************)
(* Proofs about PrometheusImpl, and through it about StatsRefresher, for   *)
(* every number of scrapes, connections and identities, every behaviour of *)
(* the node that AeroServer knows, and every RETRY_COUNT its assumption    *)
(* allows.                                                                 *)
(*                                                                         *)
(* First, the mutex of Collect provides what AeroServer relies on, so that *)
(* every step here is one of AeroServer's and its theorems hold here.      *)
(* From them follows what a refresh returns, and from that what a scrape   *)
(* is answered: the promise of ScrapeService.                              *)
(***************************************************************************)
EXTENDS PrometheusImpl, AeroServer_proofs

(* A scrape is inside a refresh exactly as long as it holds the mutex, and *)
(* inside a call only while it refreshes.                                  *)
Control ==
  /\ TypeInv
  /\ PromTypeOK
  /\ \A r \in Callers : scrape[r] = "collecting" <=> mutex = r
  /\ \A r \in Callers : scrape[r] = "collecting" <=> phase[r] # "idle"
  /\ \A r \in Callers : pc[r] # "idle" => Refreshing(r)

(* A step of a call touches the locals of its caller only, answers it with *)
(* the node that runs, and neither ends a node nor counts a fault.         *)
LEMMA CallStepFrame ==
  ASSUME AeroTypeOK, NEW w \in Callers, CallStep(w)
  PROVE  /\ pc[w] # "idle"
         /\ \A v \in Callers \ {w} : pc'[v] = pc[v] /\ reply'[v] = reply[v]
         /\ reply'[w] \in {reply[w], ident}
         /\ UNCHANGED <<ident, op, faults>>
<1> USE DEF AeroTypeOK, serverVars, sessionVars, connVars, resultVars
<1>1. CASE Reuse(w) \/ Dial(w) \/ DialFail(w)
  BY <1>1 DEF Reuse, Dial, DialFail, AtLoop, Goto, NextAttempt
<1>2. CASE LoginOk(w) \/ LoginFail(w)
  BY <1>2 DEF LoginOk, LoginFail, Goto, NextAttempt
<1>3. CASE UserAgentSet(w) \/ UserAgentFail(w)
  BY <1>3 DEF UserAgentSet, UserAgentFail, Goto, NextAttempt
<1>4. CASE InfoAnswered(w) \/ InfoDenied(w) \/ InfoFailed(w)
  BY <1>4 DEF InfoAnswered, InfoDenied, InfoFailed, Return, NextAttempt
<1>5. CASE UsersAnswered(w) \/ RoleViolation(w) \/ UsersFailed(w)
  BY <1>5 DEF UsersAnswered, RoleViolation, UsersFailed, Return, NextAttempt
<1>6. CASE GiveUp(w)
  BY <1>6 DEF GiveUp, Return
<1> QED
  BY <1>1, <1>2, <1>3, <1>4, <1>5, <1>6 DEF CallStep

(* The holder of the mutex calls alone.                                    *)
LEMMA HolderSerial ==
  ASSUME Control, NEW r \in Callers, mutex \in {r, NoOne}
  PROVE  Serial(r)
BY PromAssumption DEF Control, Serial, Refreshing

(* Every step of a scrape is one of AeroServer, or none of its concern.    *)
LEMMA StepsAero ==
  ASSUME Control, [PromNext]_scrapeVars
  PROVE  [AeroNext]_aeroVars
<1>1. ASSUME NEW r \in Callers, Arrive(r) PROVE [AeroNext]_aeroVars
  BY <1>1 DEF Arrive, WatchAgain, AeroNext
<1>2. ASSUME NEW r \in Callers, Lock(r) PROVE [AeroNext]_aeroVars
  BY <1>2, HolderSerial DEF Lock, StartRefresh, AeroNext, Operation
<1>3. ASSUME NEW r \in Callers, CallStep(r) PROVE [AeroNext]_aeroVars
  BY <1>3 DEF AeroNext
<1>4. ASSUME NEW r \in Callers, RefreshStep(r) PROVE [AeroNext]_aeroVars
  <2>1. phase[r] # "idle"
    BY <1>4 DEF RefreshStep, PassOneDone, PassTwoFailed, PassTwoDone, UsersDone, Returned
  <2>2. Serial(r)
    BY <2>1, HolderSerial DEF Control
  <2>3. UNCHANGED aeroVars \/ \E o \in Operation : BeginCall(r, o)
    BY <1>4 DEF RefreshStep, PassOneDone, PassTwoFailed, PassTwoDone, UsersDone, Leave,
         Operation
  <2> QED
    BY <2>2, <2>3 DEF AeroNext
<1>5. ASSUME NEW r \in Callers, CollectFailed(r) \/ CollectUp(r) \/ Respond(r)
      PROVE  UNCHANGED aeroVars
  BY <1>5 DEF CollectFailed, CollectUp, Respond, Emit, statsVars
<1>6. CASE UNCHANGED scrapeVars
  BY <1>6 DEF scrapeVars, statsVars
<1>7. CASE Environment
  BY <1>7 DEF AeroNext
<1> QED
  BY <1>1, <1>2, <1>3, <1>4, <1>5, <1>6, <1>7 DEF PromNext, ScrapeStep

(* Control is kept by each action.                                         *)
LEMMA StepsControl ==
  ASSUME Control, [PromNext]_scrapeVars
  PROVE  Control'
<1>1. TypeInv' /\ AeroTypeOK'
  BY StepsAero, NextType DEF Control, TypeInv
<1>2. AeroTypeOK
  BY DEF Control, TypeInv
<1> USE DEF Control, PromTypeOK, StatsTypeOK, RefreshTypeOK, Phase, ScrapeState, Refreshing
<1>3. ASSUME NEW r \in Callers, Arrive(r) PROVE Control'
  <2>1. pc' = pc /\ UNCHANGED <<refreshVars, mutex>> /\ ident \in Idents
    BY <1>2, <1>3 DEF Arrive, WatchAgain, Watch, AeroTypeOK
  <2>2. answer' \in [Callers -> Answers] /\ seen' \in [Callers -> SUBSET Idents]
    BY <1>3, <2>1 DEF Arrive, Answers
  <2> QED
    BY <1>1, <1>3, <2>1, <2>2 DEF Arrive, refreshVars
<1>4. ASSUME NEW r \in Callers, Lock(r) PROVE Control'
  BY <1>1, <1>2, <1>4, PromAssumption DEF Lock, StartRefresh, BeginCall, Enter, AeroTypeOK
<1>5. ASSUME NEW r \in Callers, CallStep(r) /\ UNCHANGED <<refreshVars, promVars>>
      PROVE Control'
  BY <1>1, <1>2, <1>5, CallStepFrame DEF refreshVars, promVars
<1>6. ASSUME NEW r \in Callers, RefreshStep(r) /\ UNCHANGED promVars PROVE Control'
  <2>1. CASE PassOneDone(r)
    BY <1>1, <1>2, <1>6, <2>1 DEF PassOneDone, Returned, Leave, Enter, BeginCall, AeroTypeOK,
       promVars, aeroVars
  <2>2. CASE PassTwoFailed(r)
    BY <1>1, <1>2, <1>6, <2>2 DEF PassTwoFailed, Returned, Leave, Enter, promVars, aeroVars
  <2>3. CASE PassTwoDone(r)
    <3>1. reply[r] \in Idents \cup {NoReply}
      BY <1>2 DEF AeroTypeOK
    <3> QED
      BY <1>1, <1>2, <1>6, <2>3, <3>1 DEF PassTwoDone, Returned, Leave, Enter, BeginCall,
         AeroTypeOK, promVars, aeroVars
  <2>4. CASE UsersDone(r)
    <3>1. reply[r] \in Idents \cup {NoReply} /\ shouldFetch[r] \in BOOLEAN
      BY <1>2 DEF AeroTypeOK
    <3> QED
      BY <1>1, <1>6, <2>4, <3>1 DEF UsersDone, Returned, Leave, Enter, promVars, aeroVars
  <2> QED
    BY <1>6, <2>1, <2>2, <2>3, <2>4 DEF RefreshStep
<1>7. ASSUME NEW r \in Callers, CollectFailed(r) \/ CollectUp(r) PROVE Control'
  <2>1. PICK a \in Answers : Emit(r, a)
    BY <1>7 DEF CollectFailed, CollectUp, Answers, Service!Up, Service!Down
  <2>2. pc[r] = "idle"
    BY <1>7 DEF CollectFailed, CollectUp
  <2> QED
    BY <1>1, <2>1, <2>2, PromAssumption DEF Emit, TakeOutcome, Enter, aeroVars
<1>8. ASSUME NEW r \in Callers, Respond(r) PROVE Control'
  BY <1>1, <1>8 DEF Respond, statsVars, aeroVars, refreshVars
<1>9. CASE Environment /\ Observe /\ UNCHANGED <<refreshVars, mutex, scrape, answer>>
  <2>1. pc' = pc
    BY <1>9 DEF Environment, ServerChange, ServerDown, ServerStart, PrivilegeChange, NetDrop,
       callVars
  <2>2. ident' \in Idents
    BY <1>1 DEF AeroTypeOK
  <2>3. seen' \in [Callers -> SUBSET Idents]
    BY <1>9, <2>2 DEF Observe
  <2> QED
    BY <1>1, <1>9, <2>1, <2>3 DEF refreshVars
<1>10. CASE UNCHANGED scrapeVars
  BY <1>1, <1>10 DEF scrapeVars, statsVars, aeroVars, refreshVars, promVars
<1> QED
  BY <1>3, <1>4, <1>5, <1>6, <1>7, <1>8, <1>9, <1>10 DEF PromNext, ScrapeStep

LEMMA ControlInvariance == PromSpec => []Control
<1>1. PromInit => Control
  <2> SUFFICES ASSUME PromInit PROVE Control
    OBVIOUS
  <2>1. TypeInv /\ AeroTypeOK
    BY InitType DEF PromInit, StatsInit, TypeInv
  <2> QED
    BY <2>1, PromAssumption DEF PromInit, StatsInit, AeroInit, RefreshInit, Control,
       PromTypeOK, StatsTypeOK, RefreshTypeOK, Phase, ScrapeState, Refreshing, Answers
<1>2. Control /\ [PromNext]_scrapeVars => Control'
  BY StepsControl
<1> QED
  BY <1>1, <1>2, PTL DEF PromSpec

(* The types of the Prometheus executor and of all it is composed of.      *)
THEOREM PromTypeCorrect == PromSpec => []PromTypeOK
<1>1. Control => PromTypeOK
  BY DEF Control
<1> QED
  BY <1>1, ControlInvariance, PTL

(* "Protect against concurrent scrapes": nothing but the scrape that holds *)
(* the mutex is inside a refresh or a call.                                *)
THEOREM ScrapesSerialisedHolds == PromSpec => []ScrapesSerialised
<1>1. Control => ScrapesSerialised
  BY DEF Control, ScrapesSerialised, Refreshing
<1> QED
  BY <1>1, ControlInvariance, PTL

(* The executor is a legitimate user of the data provider: its mutex makes *)
(* Serial true, so that what is proved of AeroServer holds of it.          *)
THEOREM PromImplementsAero == PromSpec => AeroSpec
<1>1. PromInit => AeroInit
  BY DEF PromInit, StatsInit
<1>2. Control /\ [PromNext]_scrapeVars => [AeroNext]_aeroVars
  BY StepsAero
<1> QED
  BY <1>1, <1>2, ControlInvariance, PTL DEF PromSpec, AeroSpec

-----------------------------------------------------------------------------
(* What a scrape that has been gathered may say: see ScrapeService.        *)
Answered(r) ==
  \/ \E i \in seen[r], u \in seen[r] \cup {NoReply} : answer[r] = Service!Up(i, i, u)
  \/ faults[r] >= 2 /\ \E l \in Idents \cup {NoReply} : answer[r] = Service!Down(l)

(* Where what is answered comes from: each call is of the kind its phase   *)
(* began; replies are of nodes that ran since the scrape arrived; nothing  *)
(* is left of an earlier refresh; and the shared labels are those of the   *)
(* one refresh that goes on.                                               *)
Origin(r) ==
  /\ phase[r] \in {"passOne", "passTwo"} => op[r] = "info"
  /\ phase[r] = "users" => op[r] = "users"
  /\ phase[r] = "idle" => stats[r] = NoReply /\ users[r] = NoReply
  /\ scrape[r] = "none" => seen[r] = {}
  /\ scrape[r] # "none" => ident \in seen[r]
  /\ scrape[r] = "collecting" => {reply[r], users[r]} \subseteq seen[r] \cup {NoReply}
  /\ phase[r] \in {"users", "ok"} => stats[r] \in seen[r] /\ stats[r] = labels
  /\ phase[r] = "failed" => faults[r] >= 2
  /\ scrape[r] = "emitted" => Answered(r)

OriginInv == \A r \in Callers : Origin(r)

(* The environment touches nothing of a call, and faults are not forgotten.*)
LEMMA EnvironmentFrame ==
  ASSUME AeroTypeOK, Environment
  PROVE  /\ UNCHANGED <<op, pc, err, reply>>
         /\ \A r \in Callers : faults[r] >= 2 => faults'[r] >= 2
         /\ ident' = ident \/ faults' = faults
BY AeroAssumption DEF AeroTypeOK, FaultCap, Environment, ServerChange, ServerDown,
  ServerStart, PrivilegeChange, NetDrop, callVars, serverVars

(* A call of a refresh that has returned without an error holds an answer. *)
LEMMA ReturnedInfo ==
  ASSUME Control, ConnInv, OriginInv, NEW r \in Callers,
         Returned(r, "passOne") \/ Returned(r, "passTwo")
  PROVE  /\ err[r] => reply[r] = NoReply
         /\ ~err[r] => reply[r] \in seen[r]
<1>1. op[r] = "info" /\ pc[r] = "idle" /\ scrape[r] = "collecting"
  BY DEF Returned, OriginInv, Origin, Control
<1>2. err[r] <=> reply[r] = NoReply
  BY <1>1 DEF ConnInv, InfoAnswersOrFails
<1>3. reply[r] \in seen[r] \cup {NoReply}
  BY <1>1 DEF OriginInv, Origin
<1> QED
  BY <1>2, <1>3

(* One that has returned with an error met faults.                         *)
LEMMA ReturnedFaults ==
  ASSUME Control, FaultInv, OriginInv, NEW r \in Callers, pc[r] = "idle", err[r],
         phase[r] \in {"passOne", "passTwo", "users"}
  PROVE  faults[r] >= 2
<1>1. faults[r] >= (IF op[r] = "info" THEN RETRY_COUNT - 1 ELSE 2)
  BY DEF FaultInv, FailureNeedsFaults
<1>2. faults[r] \in Nat
  BY AeroAssumption DEF Control, TypeInv, AeroTypeOK, FaultCap
<1> QED
  BY <1>1, <1>2, AeroAssumption

LEMMA StepsOrigin ==
  ASSUME Control, Control', FaultInv, OriginInv, [PromNext]_scrapeVars
  PROVE  OriginInv'
<1>1. AeroTypeOK /\ PromTypeOK /\ ConnInv
  BY DEF Control, TypeInv, FaultInv
<1>2. ASSUME NEW r \in Callers, Arrive(r) PROVE OriginInv'
  <2>1. scrape[r] = "none" /\ phase[r] = "idle"
    BY <1>2 DEF Arrive, WatchAgain
  <2>2. \A v \in Callers \ {r} :
          UNCHANGED <<op[v], reply[v], faults[v], scrape[v], seen[v], answer[v]>>
    BY <1>1, <1>2 DEF Arrive, WatchAgain, Watch, AeroTypeOK, PromTypeOK
  <2>3. scrape'[r] = "waiting" /\ seen'[r] = {ident}
    BY <1>1, <1>2 DEF Arrive, PromTypeOK
  <2>4. UNCHANGED <<ident, labels, phase, stats, users>>
    BY <1>2 DEF Arrive, WatchAgain, Watch, serverVars, refreshVars
  <2>5. ASSUME NEW v \in Callers \ {r} PROVE Origin(v)'
    BY <2>2, <2>4 DEF OriginInv, Origin, Answered
  <2>6. Origin(r)'
    BY <2>1, <2>3, <2>4 DEF OriginInv, Origin
  <2> QED
    BY <2>5, <2>6 DEF OriginInv
<1>3. ASSUME NEW r \in Callers, Lock(r) PROVE OriginInv'
  <2>1. \A v \in Callers \ {r} : UNCHANGED <<op[v], reply[v], scrape[v], phase[v]>>
    BY <1>1, <1>3 DEF Lock, StartRefresh, BeginCall, Enter, AeroTypeOK, PromTypeOK, StatsTypeOK,
       RefreshTypeOK
  <2>2. /\ scrape[r] = "waiting" /\ scrape'[r] = "collecting" /\ phase[r] = "idle"
        /\ phase'[r] = "passOne" /\ op'[r] = "info" /\ reply'[r] = NoReply
    BY <1>1, <1>3 DEF Lock, StartRefresh, BeginCall, Enter, AeroTypeOK, PromTypeOK, StatsTypeOK,
       RefreshTypeOK
  <2>3. UNCHANGED <<ident, labels, stats, users, faults, seen, answer>>
    BY <1>3 DEF Lock, StartRefresh, BeginCall, serverVars
  <2>4. ASSUME NEW v \in Callers \ {r} PROVE Origin(v)'
    BY <2>1, <2>3 DEF OriginInv, Origin, Answered
  <2>5. Origin(r)'
    BY <2>2, <2>3 DEF OriginInv, Origin
  <2> QED
    BY <2>4, <2>5 DEF OriginInv
<1>4. ASSUME NEW r \in Callers, CallStep(r) /\ UNCHANGED <<refreshVars, promVars>>
      PROVE OriginInv'
  <2>1. ASSUME NEW v \in Callers \ {r} PROVE Origin(v)'
    BY <1>1, <1>4, CallStepFrame DEF OriginInv, Origin, Answered, refreshVars, promVars
  <2>2. Origin(r)'
    BY <1>1, <1>4, CallStepFrame DEF OriginInv, Origin, Answered, refreshVars, promVars
  <2> QED
    BY <2>1, <2>2 DEF OriginInv
<1>5. ASSUME NEW r \in Callers, RefreshStep(r), UNCHANGED promVars PROVE OriginInv'
  <2>1. Refreshing(r) /\ pc[r] = "idle" /\ scrape[r] = "collecting" /\ mutex = r
    BY <1>5 DEF RefreshStep, PassOneDone, PassTwoFailed, PassTwoDone, UsersDone, Returned,
       Refreshing, Control
  <2>2. \A v \in Callers \ {r} : phase[v] = "idle"
    BY <2>1 DEF Control
  <2>3. /\ \A v \in Callers \ {r} :
             UNCHANGED <<op[v], reply[v], phase[v], stats[v], users[v]>>
        /\ UNCHANGED <<ident, faults, scrape, seen, answer>>
    BY <1>1, <1>5 DEF RefreshStep, PassOneDone, PassTwoFailed, PassTwoDone, UsersDone, Leave,
       Enter, BeginCall, AeroTypeOK, PromTypeOK, StatsTypeOK, RefreshTypeOK, aeroVars,
       serverVars, promVars
  <2>4. ASSUME NEW v \in Callers \ {r} PROVE Origin(v)'
    BY <2>2, <2>3 DEF OriginInv, Origin, Answered
  <2>5. Origin(r)'
    <3> USE <1>1, <2>1, <2>3 DEF OriginInv, Origin, Leave, Enter, BeginCall, AeroTypeOK,
            PromTypeOK, StatsTypeOK, RefreshTypeOK, aeroVars
    <3>1. CASE PassOneDone(r)
      BY <3>1, ReturnedFaults DEF PassOneDone, Returned
    <3>2. CASE PassTwoFailed(r)
      BY <3>2, ReturnedFaults DEF PassTwoFailed, Returned
    <3>3. CASE PassTwoDone(r)
      BY <3>3, ReturnedInfo DEF PassTwoDone, Returned
    <3>4. CASE UsersDone(r)
      BY <3>4, ReturnedFaults DEF UsersDone, Returned
    <3> QED
      BY <1>5, <3>1, <3>2, <3>3, <3>4 DEF RefreshStep
  <2> QED
    BY <2>4, <2>5 DEF OriginInv
<1>6. ASSUME NEW r \in Callers, CollectFailed(r) \/ CollectUp(r) PROVE OriginInv'
  <2>1. PICK a : Emit(r, a) /\ \/ phase[r] = "failed" /\ a = Service!Down(labels)
                               \/ phase[r] = "ok" /\ a = Service!Up(labels, stats[r], users[r])
    BY <1>6 DEF CollectFailed, CollectUp
  <2>2. scrape[r] = "collecting"
    BY <1>6 DEF CollectFailed, CollectUp
  <2>3. \A v \in Callers \ {r} :
          UNCHANGED <<scrape[v], phase[v], stats[v], users[v], answer[v]>>
    BY <1>1, <2>1 DEF Emit, TakeOutcome, Enter, PromTypeOK, StatsTypeOK, RefreshTypeOK
  <2>4. UNCHANGED <<ident, labels, op, reply, faults, seen>>
    BY <2>1 DEF Emit, TakeOutcome, aeroVars
  <2>5. ASSUME NEW v \in Callers \ {r} PROVE Origin(v)'
    BY <2>3, <2>4 DEF OriginInv, Origin, Answered
  <2>6. Origin(r)'
    <3>1. /\ scrape'[r] = "emitted" /\ phase'[r] = "idle" /\ answer'[r] = a
          /\ stats'[r] = NoReply /\ users'[r] = NoReply
      BY <1>1, <2>1 DEF Emit, TakeOutcome, Enter, PromTypeOK, StatsTypeOK, RefreshTypeOK
    <3>2. labels \in Idents \cup {NoReply}
      BY <1>1 DEF PromTypeOK, StatsTypeOK, RefreshTypeOK
    <3>3. Answered(r)'
      BY <2>1, <2>2, <2>4, <3>1, <3>2 DEF Answered, OriginInv, Origin
    <3> QED
      BY <2>2, <2>4, <3>1, <3>3 DEF OriginInv, Origin
  <2> QED
    BY <2>5, <2>6 DEF OriginInv
<1>7. ASSUME NEW r \in Callers, Respond(r) PROVE OriginInv'
  <2>1. ASSUME NEW v \in Callers \ {r} PROVE Origin(v)'
    BY <1>1, <1>7 DEF Respond, OriginInv, Origin, Answered, statsVars, aeroVars, refreshVars,
       PromTypeOK
  <2>2. Origin(r)'
    <3>1. scrape'[r] = "none" /\ seen'[r] = {} /\ phase'[r] = "idle"
      BY <1>1, <1>7 DEF Respond, PromTypeOK, Control
    <3> QED
      BY <1>7, <3>1 DEF Respond, OriginInv, Origin, statsVars, aeroVars, refreshVars, Control
  <2> QED
    BY <2>1, <2>2 DEF OriginInv
<1>8. CASE Environment /\ Observe /\ UNCHANGED <<refreshVars, mutex, scrape, answer>>
  <2>1. ASSUME NEW r \in Callers PROVE Origin(r)'
    <3>1. /\ seen'[r] = IF scrape[r] # "none" THEN seen[r] \cup {ident'} ELSE {}
          /\ UNCHANGED <<labels, phase, stats, users, scrape, answer>>
      BY <1>8 DEF Observe, refreshVars
    <3>2. UNCHANGED <<op, reply>> /\ (faults[r] >= 2 => faults'[r] >= 2)
      BY <1>1, <1>8, EnvironmentFrame
    <3>3. scrape[r] = "emitted" => Answered(r)'
      BY <3>1, <3>2 DEF Answered, OriginInv, Origin
    <3>4. phase[r] # "idle" => scrape[r] # "none"
      BY DEF Control
    <3> QED
      BY <3>1, <3>2, <3>3, <3>4 DEF OriginInv, Origin
  <2> QED
    BY <2>1 DEF OriginInv
<1>9. CASE UNCHANGED scrapeVars
  BY <1>9 DEF scrapeVars, statsVars, aeroVars, refreshVars, promVars, OriginInv, Origin, Answered
<1> QED
  BY <1>2, <1>3, <1>4, <1>5, <1>6, <1>7, <1>8, <1>9 DEF PromNext, ScrapeStep

LEMMA OriginInvariance == PromSpec => []OriginInv
<1>1. PromInit => OriginInv
  BY DEF PromInit, StatsInit, RefreshInit, OriginInv, Origin
<1>2. Control /\ Control' /\ FaultInv /\ OriginInv /\ [PromNext]_scrapeVars => OriginInv'
  BY StepsOrigin
<1> QED
  BY <1>1, <1>2, ControlInvariance, PromImplementsAero, FaultInvariance, PTL DEF PromSpec

(* Statistics go out only with the labels of the node that answered them.  *)
THEOREM LabelsMatchStatsHolds == PromSpec => []LabelsMatchStats
<1>1. OriginInv => LabelsMatchStats
  BY DEF OriginInv, Origin, LabelsMatchStats
<1> QED
  BY <1>1, OriginInvariance, PTL

(* A refresh of up to three calls fails only if the node stopped answering *)
(* or two connections were cut since its scrape arrived.                   *)
THEOREM FailedScrapeNeedsFaults == PromSpec => []FailedRefreshNeedsFaults
<1>1. OriginInv => FailedRefreshNeedsFaults
  BY DEF OriginInv, Origin, FailedRefreshNeedsFaults
<1> QED
  BY <1>1, OriginInvariance, PTL

-----------------------------------------------------------------------------
(* The refinement.  The mapping of PrometheusImpl, under names of its own. *)
Pending   == {r \in Callers : scrape[r] # "none"}
Disturbed == {r \in Callers : scrape[r] # "none" /\ faults[r] >= 2}
Given     == [r \in Callers |-> IF scrape[r] = "none" THEN answer[r] ELSE NoAnswer]

LEMMA InitService == PromInit => Service!Init
BY AeroAssumption DEF PromInit, StatsInit, AeroInit, Service!Init

(* Steps inside a scrape are none the requester sees.                      *)
LEMMA Hidden ==
  ASSUME UNCHANGED <<ident, faults, seen>>,
         \A r \in Callers :
           \/ UNCHANGED <<scrape[r], answer[r]>>
           \/ scrape[r] # "none" /\ scrape'[r] # "none"
  PROVE  UNCHANGED Service!serviceVars
<1>1. Pending' = Pending /\ Disturbed' = Disturbed /\ Given' = Given
  BY DEF Pending, Disturbed, Given
<1> QED
  BY <1>1 DEF Service!serviceVars, Pending, Disturbed, Given

LEMMA ArriveAsks ==
  ASSUME Control, NEW r \in Callers, Arrive(r)
  PROVE  Service!Ask(r)
<1>1. AeroTypeOK /\ PromTypeOK
  BY DEF Control, TypeInv
<1>2. /\ scrape[r] = "none" /\ scrape' = [scrape EXCEPT ![r] = "waiting"]
      /\ seen' = [seen EXCEPT ![r] = {ident}] /\ answer' = [answer EXCEPT ![r] = NoAnswer]
      /\ ident' = ident
      /\ \A v \in Callers \ {r} : faults'[v] = faults[v]
  BY <1>1 DEF Arrive, WatchAgain, Watch, AeroTypeOK, serverVars
<1>3. r \notin Pending /\ Pending' = Pending \cup {r}
  BY <1>1, <1>2 DEF Pending, PromTypeOK
<1>4. Disturbed' \in {Disturbed, Disturbed \cup {r}}
  BY <1>1, <1>2 DEF Disturbed, PromTypeOK
<1>5. Given' = [Given EXCEPT ![r] = NoAnswer]
  BY <1>1, <1>2 DEF Given, PromTypeOK
<1> QED
  BY <1>2, <1>3, <1>4, <1>5 DEF Service!Ask, Pending, Disturbed, Given

LEMMA RespondAnswers ==
  ASSUME Control, OriginInv, NEW r \in Callers, Respond(r)
  PROVE  Service!Answer(r)
<1>1. PromTypeOK
  BY DEF Control
<1>2. /\ scrape[r] = "emitted" /\ scrape' = [scrape EXCEPT ![r] = "none"]
      /\ seen' = [seen EXCEPT ![r] = {}] /\ UNCHANGED <<ident, faults, answer>>
  BY DEF Respond, statsVars, aeroVars
<1>3. r \in Pending /\ Pending' = Pending \ {r} /\ Disturbed' = Disturbed \ {r}
  BY <1>1, <1>2 DEF Pending, Disturbed, PromTypeOK
<1>4. Given' = [Given EXCEPT ![r] = answer[r]]
  BY <1>1, <1>2 DEF Given, PromTypeOK
<1>5. Answered(r)
  BY <1>2 DEF OriginInv, Origin
<1>6. CASE \E i \in seen[r], u \in seen[r] \cup {NoReply} : answer[r] = Service!Up(i, i, u)
  <2>1. Service!AnswerUp(r)
    BY <1>3, <1>4, <1>6 DEF Service!AnswerUp, Pending, Given
  <2> QED
    BY <1>2, <1>3, <2>1 DEF Service!Answer, Pending, Disturbed
<1>7. CASE faults[r] >= 2 /\ \E l \in Idents \cup {NoReply} : answer[r] = Service!Down(l)
  <2>1. r \in Disturbed
    BY <1>2, <1>7 DEF Disturbed
  <2>2. Service!AnswerDown(r)
    BY <1>3, <1>4, <1>7, <2>1 DEF Service!AnswerDown, Pending, Disturbed, Given
  <2> QED
    BY <1>2, <1>3, <2>2 DEF Service!Answer, Pending, Disturbed
<1> QED
  BY <1>5, <1>6, <1>7 DEF Answered

LEMMA EnvironmentServes ==
  ASSUME Control, Control', OriginInv, Environment, Observe,
         UNCHANGED <<refreshVars, mutex, scrape, answer>>
  PROVE  Service!NodeChange \/ Service!Disturb
<1>1. AeroTypeOK /\ PromTypeOK /\ ident' \in Idents
  BY DEF Control, TypeInv, AeroTypeOK
<1>2. Pending' = Pending /\ Given' = Given
  BY DEF Pending, Given
<1>3. seen' = [r \in Callers |-> IF r \in Pending THEN seen[r] \cup {ident'} ELSE {}]
  BY DEF Observe, Pending
<1>4. CASE faults' = faults
  <2>1. Disturbed' = Disturbed
    BY <1>4 DEF Disturbed
  <2> QED
    BY <1>1, <1>2, <1>3, <2>1 DEF Service!NodeChange, Pending, Disturbed, Given
<1>5. CASE ident' = ident
  <2>1. \A r \in Callers : seen'[r] = seen[r]
    BY <1>3, <1>5 DEF OriginInv, Origin, Pending
  <2>2. seen' = seen
    BY <1>1, <1>3, <2>1 DEF PromTypeOK
  <2>3. Disturbed \subseteq Disturbed' /\ Disturbed' \in SUBSET Pending
    BY <1>1, EnvironmentFrame DEF Disturbed, Pending
  <2> QED
    BY <1>2, <1>5, <2>2, <2>3 DEF Service!Disturb, Pending, Disturbed, Given
<1> QED
  BY <1>1, <1>4, <1>5, EnvironmentFrame

LEMMA StepsServe ==
  ASSUME Control, Control', OriginInv, [PromNext]_scrapeVars
  PROVE  [Service!Next]_(Service!serviceVars)
<1>1. AeroTypeOK /\ PromTypeOK
  BY DEF Control, TypeInv
<1>2. ASSUME NEW r \in Callers, Arrive(r) PROVE Service!Next
  BY <1>2, ArriveAsks DEF Service!Next
<1>3. ASSUME NEW r \in Callers, Respond(r) PROVE Service!Next
  BY <1>3, RespondAnswers DEF Service!Next
<1>4. CASE Environment /\ Observe /\ UNCHANGED <<refreshVars, mutex, scrape, answer>>
  BY <1>4, EnvironmentServes DEF Service!Next
<1>5. ASSUME NEW r \in Callers, Lock(r) PROVE UNCHANGED Service!serviceVars
  <2>1. UNCHANGED <<ident, faults, seen, answer>>
    BY <1>5 DEF Lock, StartRefresh, BeginCall, serverVars
  <2>2. \A v \in Callers : scrape'[v] = scrape[v] \/ (scrape[v] # "none" /\ scrape'[v] # "none")
    BY <1>1, <1>5 DEF Lock, PromTypeOK
  <2> QED
    BY <2>1, <2>2, Hidden
<1>6. ASSUME NEW r \in Callers, CallStep(r), UNCHANGED <<refreshVars, promVars>>
      PROVE  UNCHANGED Service!serviceVars
  BY <1>1, <1>6, CallStepFrame, Hidden DEF promVars
<1>7. ASSUME NEW r \in Callers, RefreshStep(r), UNCHANGED promVars
      PROVE  UNCHANGED Service!serviceVars
  <2>1. UNCHANGED <<ident, faults>>
    BY <1>7 DEF RefreshStep, PassOneDone, PassTwoFailed, PassTwoDone, UsersDone, Leave,
       BeginCall, aeroVars, serverVars
  <2> QED
    BY <1>7, <2>1, Hidden DEF promVars
<1>8. ASSUME NEW r \in Callers, CollectFailed(r) \/ CollectUp(r)
      PROVE  UNCHANGED Service!serviceVars
  <2>1. PICK a : Emit(r, a) /\ scrape[r] = "collecting"
    BY <1>8 DEF CollectFailed, CollectUp
  <2>2. UNCHANGED <<ident, faults, seen>>
    BY <2>1 DEF Emit, aeroVars
  <2>3. \A v \in Callers :
          \/ UNCHANGED <<scrape[v], answer[v]>>
          \/ scrape[v] # "none" /\ scrape'[v] # "none"
    BY <1>1, <2>1 DEF Emit, PromTypeOK
  <2> QED
    BY <2>2, <2>3, Hidden
<1>9. CASE UNCHANGED scrapeVars
  BY <1>9, Hidden DEF scrapeVars, statsVars, aeroVars, promVars
<1> QED
  BY <1>2, <1>3, <1>4, <1>5, <1>6, <1>7, <1>8, <1>9 DEF PromNext, ScrapeStep

(* The promise of ScrapeService is kept, whatever the node and the network *)
(* do and however many scrapes overlap: see KeepsPromise.                  *)
THEOREM KeepsPromiseHolds == PromSpec => KeepsPromise
<1>1. Control /\ Control' /\ OriginInv /\ [PromNext]_scrapeVars
        => [Service!Next]_(Service!serviceVars)
  BY StepsServe
<1> QED
  BY <1>1, InitService, ControlInvariance, OriginInvariance, PTL
  DEF PromSpec, KeepsPromise, Service!Spec

-----------------------------------------------------------------------------
(* The flag is on while users are queried: nobody else can turn it off     *)
(* meanwhile, so that what the query stores never turns it on again.       *)
FlagInv == \A r \in Callers : phase[r] = "users" => shouldFetchUserStatistics

LEMMA StepsFlag ==
  ASSUME Control, FlagInv, [PromNext]_scrapeVars
  PROVE  /\ FlagInv'
         /\ ~shouldFetchUserStatistics =>
              /\ ~shouldFetchUserStatistics'
              /\ \A w \in Callers : phase'[w] = "users" => phase[w] = "users"
<1>1. PromTypeOK /\ StatsTypeOK /\ RefreshTypeOK
  BY DEF Control, PromTypeOK, StatsTypeOK
<1> USE DEF FlagInv
<1>2. ASSUME NEW r \in Callers, RefreshStep(r)
      PROVE  FlagInv' /\ (~shouldFetchUserStatistics =>
               /\ ~shouldFetchUserStatistics'
               /\ \A w \in Callers : phase'[w] = "users" => phase[w] = "users")
  <2>1. phase[r] # "idle"
    BY <1>2 DEF RefreshStep, PassOneDone, PassTwoFailed, PassTwoDone, UsersDone, Returned
  <2>2. \A v \in Callers \ {r} : phase[v] = "idle"
    BY <2>1, PromAssumption DEF Control
  <2>3. CASE PassOneDone(r) \/ PassTwoFailed(r)
    BY <1>1, <2>3 DEF PassOneDone, PassTwoFailed, Leave, Enter, RefreshTypeOK
  <2>4. CASE PassTwoDone(r)
    BY <1>1, <2>2, <2>4 DEF PassTwoDone, Returned, CanRefreshUserStats, Leave, Enter, RefreshTypeOK
  <2>5. CASE UsersDone(r)
    BY <1>1, <2>2, <2>5 DEF UsersDone, Returned, Leave, Enter, RefreshTypeOK
  <2> QED
    BY <1>2, <2>3, <2>4, <2>5 DEF RefreshStep
<1>3. ASSUME NEW r \in Callers,
             \/ Arrive(r) \/ Lock(r) \/ (CallStep(r) /\ UNCHANGED <<refreshVars, promVars>>)
             \/ CollectFailed(r) \/ CollectUp(r) \/ Respond(r)
      PROVE  /\ UNCHANGED shouldFetchUserStatistics
             /\ \A w \in Callers : phase'[w] = "users" => phase[w] = "users"
  <2>1. CASE Arrive(r) \/ Respond(r) \/ (CallStep(r) /\ UNCHANGED <<refreshVars, promVars>>)
    BY <2>1 DEF Arrive, WatchAgain, Respond, statsVars, refreshVars
  <2>2. CASE Lock(r)
    BY <1>1, <2>2 DEF Lock, StartRefresh, Enter, RefreshTypeOK
  <2>3. CASE CollectFailed(r) \/ CollectUp(r)
    <3>1. TakeOutcome(r)
      BY <2>3 DEF CollectFailed, CollectUp, Emit
    <3> QED
      BY <1>1, <3>1 DEF TakeOutcome, Enter, RefreshTypeOK
  <2> QED
    BY <1>3, <2>1, <2>2, <2>3
<1>4. CASE Environment /\ UNCHANGED <<refreshVars, mutex, scrape, answer>>
  BY <1>4 DEF refreshVars
<1>5. CASE UNCHANGED scrapeVars
  BY <1>5 DEF scrapeVars, statsVars, refreshVars
<1> QED
  BY <1>2, <1>3, <1>4, <1>5 DEF PromNext, ScrapeStep

(* Once a role violation or an old build has turned users statistics off,  *)
(* no users query is begun any more.                                       *)
THEOREM UserStatsStayOffHolds == PromSpec => UserStatsStayOff
<1>1. PromInit => FlagInv
  BY DEF PromInit, StatsInit, RefreshInit, FlagInv
<1>2. Control /\ FlagInv /\ [PromNext]_scrapeVars => FlagInv'
  BY StepsFlag
<1>3. Control /\ FlagInv /\ [PromNext]_scrapeVars =>
        [~shouldFetchUserStatistics =>
           /\ ~shouldFetchUserStatistics'
           /\ \A w \in Callers : phase'[w] = "users" => phase[w] = "users"]_statsVars
  BY StepsFlag
<1> QED
  BY <1>1, <1>2, <1>3, ControlInvariance, PTL DEF PromSpec, UserStatsStayOff
=============================================================================
