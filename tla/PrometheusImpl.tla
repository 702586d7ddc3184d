--------------------------- MODULE PrometheusImpl ---------------------------
(***************************************************************************)
(* The Prometheus executor: concurrent scrapes of /metrics, each running   *)
(* PrometheusImpl.Collect of internal/pkg/executors/prometheus.go in its   *)
(* own goroutine.  Collect holds a package-wide mutex while it refreshes   *)
(* and emits; what it has emitted is gathered and written afterwards,      *)
(* outside the mutex.  The counter of scrapes, aerospike_node_ticks, is    *)
(* left out: it only grows.                                                *)
(***************************************************************************)
EXTENDS StatsRefresher

CONSTANTS NoOne, NoAnswer

ASSUME PromAssumption == NoOne \notin Callers

VARIABLES
  mutex,      \* the scrape holding mutex
  scrape,     \* where each scrape is
  answer,     \* node_up and the samples emitted
  seen        \* history: nodes that ran while the scrape was pending

promVars  == <<mutex, scrape, answer, seen>>
scrapeVars == <<statsVars, promVars>>

ScrapeState == {"none", "waiting", "collecting", "emitted"}

\* The promise, as the scrapes of this module keep it.
Service == INSTANCE ScrapeService
  WITH Requests <- Callers,
       pending <- {r \in Callers : scrape[r] # "none"},
       disturbed <- {r \in Callers : scrape[r] # "none" /\ faults[r] >= 2},
       answer <- [r \in Callers |-> IF scrape[r] = "none" THEN answer[r] ELSE NoAnswer]

Answers ==
  [up : BOOLEAN, labels : Idents \cup {NoReply},
   stats : Idents \cup {NoReply}, users : Idents \cup {NoReply}] \cup {NoAnswer}

PromTypeOK ==
  /\ StatsTypeOK
  /\ mutex \in Callers \cup {NoOne}
  /\ scrape \in [Callers -> ScrapeState]
  /\ answer \in [Callers -> Answers]
  /\ seen \in [Callers -> SUBSET Idents]

PromInit ==
  /\ StatsInit
  /\ mutex = NoOne
  /\ scrape = [r \in Callers |-> "none"]
  /\ answer = [r \in Callers |-> NoAnswer]
  /\ seen = [r \in Callers |-> {}]

-----------------------------------------------------------------------------
\* GET /metrics: the gatherer starts Collect.
Arrive(r) ==
  /\ scrape[r] = "none"
  /\ scrape' = [scrape EXCEPT ![r] = "waiting"]
  /\ WatchAgain(r)
  /\ seen' = [seen EXCEPT ![r] = {ident}]
  /\ answer' = [answer EXCEPT ![r] = NoAnswer]
  /\ UNCHANGED mutex

\* Mutant: nothing protects against concurrent scrapes.
LockIgnored(r) ==
  /\ scrape[r] = "waiting"
  /\ mutex' = r
  /\ StartRefresh(r)
  /\ scrape' = [scrape EXCEPT ![r] = "collecting"]
  /\ UNCHANGED <<answer, seen>>

\* mutex.Lock(); Refresh() begins
Lock(r) ==
  /\ scrape[r] = "waiting"
  /\ mutex = NoOne
  /\ mutex' = r
  /\ StartRefresh(r)
  /\ scrape' = [scrape EXCEPT ![r] = "collecting"]
  /\ UNCHANGED <<answer, seen>>

\* Emission, and the deferred unlock.
Emit(r, a) ==
  /\ answer' = [answer EXCEPT ![r] = a]
  /\ mutex' = NoOne
  /\ TakeOutcome(r)
  /\ scrape' = [scrape EXCEPT ![r] = "emitted"]
  /\ UNCHANGED <<aeroVars, seen>>

\* Mutant: the early return leaves the mutex locked.
CollectFailedLocked(r) ==
  /\ scrape[r] = "collecting" /\ phase[r] = "failed"
  /\ answer' = [answer EXCEPT ![r] = Service!Down(labels)]
  /\ TakeOutcome(r)
  /\ scrape' = [scrape EXCEPT ![r] = "emitted"]
  /\ UNCHANGED <<aeroVars, mutex, seen>>

\* node_up 0, under whatever labels the shared state has
CollectFailed(r) ==
  /\ scrape[r] = "collecting" /\ phase[r] = "failed"
  /\ Emit(r, Service!Down(labels))

\* node_up 1, the refreshed statistics, the host's
CollectUp(r) ==
  /\ scrape[r] = "collecting" /\ phase[r] = "ok"
  /\ Emit(r, Service!Up(labels, stats[r], users[r]))

\* All is gathered and the response is written.
Respond(r) ==
  /\ scrape[r] = "emitted"
  /\ scrape' = [scrape EXCEPT ![r] = "none"]
  /\ seen' = [seen EXCEPT ![r] = {}]
  /\ UNCHANGED <<statsVars, mutex, answer>>

\* History: a node that starts is seen by every pending scrape.
Observe ==
  seen' = [r \in Callers |-> IF scrape[r] # "none" THEN seen[r] \cup {ident'} ELSE {}]

ScrapeStep(r) ==
  \/ CallStep(r) /\ UNCHANGED <<refreshVars, promVars>>
  \/ RefreshStep(r) /\ UNCHANGED promVars
  \/ CollectFailed(r) \/ CollectUp(r) \/ Respond(r)

PromNext ==
  \/ \E r \in Callers : Arrive(r) \/ Lock(r) \/ ScrapeStep(r)
  \/ /\ Environment
     /\ Observe
     /\ UNCHANGED <<refreshVars, mutex, scrape, answer>>

PromSpec == PromInit /\ [][PromNext]_scrapeVars

\* Goroutines run; sync.Mutex hands over to a waiter that starves.
PromFairness ==
  \A r \in Callers : WF_scrapeVars(ScrapeStep(r)) /\ SF_scrapeVars(Lock(r))

PromFairSpec == PromSpec /\ PromFairness

-----------------------------------------------------------------------------
(* Properties. *)

(* "Protect against concurrent scrapes" (Collect): calls of two scrapes    *)
(* never overlap on the one connection, and nothing but the scrape that    *)
(* holds the mutex is inside a refresh.                                    *)
ScrapesSerialised ==
  \A r \in Callers :
    pc[r] # "idle" \/ phase[r] # "idle" => mutex = r

(* Every scrape is answered, with node_up 1 or 0: no failure leaves the    *)
(* mutex locked, and no scrape waits for it for ever.                      *)
EveryScrapeAnswered ==
  \A r \in Callers : (scrape[r] = "waiting") ~> (scrape[r] = "none")

(* The exporter keeps the promise of ScrapeService: node_up 1 carries      *)
(* statistics that are no older than the scrape itself, under the labels   *)
(* of the node they came from, although labels and connection are shared   *)
(* with every other scrape; node_up 0 is reported only if, while the       *)
(* scrape was pending, the node stopped answering or two connections were  *)
(* cut.                                                                    *)
KeepsPromise == Service!Spec

=============================================================================
