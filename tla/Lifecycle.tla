----------------------------- MODULE Lifecycle -----------------------------
(***************************************************************************)
(* The life of the process: cmd/main.go, HandleSignals of                  *)
(* internal/pkg/commons/utils.go, and the Initialize functions of the two  *)
(* executors, which either or both run.                                    *)
(*                                                                         *)
(* Goroutines and the time they take are what matters here: the signal     *)
(* handler exits ExitDelay after a signal, whatever the others still do;   *)
(* the HTTP server gives up an answer WriteTimeout after its request; the  *)
(* shutdowns allow themselves ShutdownTimeout.  What a refresh does is in  *)
(* StatsRefresher; what is left of it is how long it takes, and that the   *)
(* first one of an executor makes its client policy (see Credentials) or   *)
(* ends the process.  log.Fatal is status 1, wherever it is called.        *)
(*                                                                         *)
(* Timers count down, all at once, in Tick.  Goroutines are prompt: time   *)
(* passes only while none of them has anything to do.                      *)
(***************************************************************************)
EXTENDS Naturals, FiniteSets

CONSTANTS
  Scrapes,          \* requests for /metrics
  MaxSignals,       \* bound on the signals sent
  ExitDelay,        \* from a signal to os.Exit
  ShutdownTimeout,  \* http.Server.Shutdown
  WriteTimeout,     \* Agent.timeout
  FetchInterval,    \* OpenTelemetry.server_stat_fetch_interval
  RefreshTimes,     \* what a refresh may take: nothing up to a timeout per attempt
  PushTimes         \* what the last push may take

ASSUME LifecycleAssumption ==
  /\ MaxSignals \in Nat
  /\ {ExitDelay, ShutdownTimeout, WriteTimeout, FetchInterval} \subseteq Nat \ {0}
  /\ RefreshTimes \subseteq Nat /\ RefreshTimes # {}
  /\ PushTimes \subseteq Nat /\ PushTimes # {}
  /\ {"exit", "shutdown", "otel", "ticker"} \cap Scrapes = {}

VARIABLES
  main,         \* where main() is
  enabled,      \* the executors the configuration enables
  policies,     \* those whose client policy is made
  signals,      \* signals sent so far
  sigChan,      \* signals in the channel, whose capacity is 1
  processExit,  \* the channel ProcessExit
  handler,      \* the goroutine of HandleSignals
  server,       \* the goroutine of ListenAndServe
  shutter,      \* the goroutine that shuts the server down
  scrape,       \* each request
  otel,         \* the ticker goroutine of the OpenTelemetry executor
  flushed,      \* meterProvider.Shutdown has returned
  status,       \* "running", or how the process ended: 0, 1, 2, by a signal
  left,         \* the timers
  deadline,     \* of the answer to each request
  late          \* history: a reason why the last push may not end in time

mainVars   == <<main, enabled, policies>>
signalVars == <<signals, sigChan, processExit, handler>>
httpVars   == <<server, shutter, scrape, deadline>>
otelVars   == <<otel, flushed, late>>
vars == <<mainVars, signalVars, httpVars, otelVars, status, left>>

Timers == {"exit", "shutdown", "otel", "ticker"} \cup Scrapes

LifecycleTypeOK ==
  /\ main \in {"config", "signals", "executors", "select"}
  /\ enabled \in (SUBSET {"prometheus", "otel"}) \ {{}}
  /\ policies \subseteq {"prometheus", "otel"}
  /\ signals \in 0 .. MaxSignals /\ sigChan \in {0, 1}
  /\ processExit \in {"nil", "open", "closed"}
  /\ handler \in {"off", "waiting", "sleeping"}
  /\ server \in {"off", "init", "starting", "serving", "closed", "failed"}
  /\ shutter \in {"off", "waiting", "shutting", "done"}
  /\ scrape \in [Scrapes -> {"none", "waiting", "refreshing", "answered", "cut"}]
  /\ otel \in {"off", "init", "select", "refreshing", "flushing", "done", "failed"}
  /\ flushed \in BOOLEAN /\ late \in BOOLEAN
  /\ status \in {"running", "ok", "fatal", "panic", "killed"}
  /\ left \in [Timers -> Nat] /\ deadline \in [Scrapes -> 0 .. WriteTimeout]

LifecycleInit ==
  /\ main = "config"
  /\ enabled \in (SUBSET {"prometheus", "otel"}) \ {{}}
  /\ policies = {}
  /\ signals = 0 /\ sigChan = 0
  /\ processExit = "nil"
  /\ handler = "off"
  /\ server = "off" /\ shutter = "off"
  /\ scrape = [s \in Scrapes |-> "none"]
  /\ otel = "off" /\ flushed = FALSE /\ late = FALSE
  /\ status = "running"
  /\ left = [t \in Timers |-> 0]
  /\ deadline = [s \in Scrapes |-> 0]

-----------------------------------------------------------------------------
(* main *)

\* parseCommandlineArgs, InitConfig and InitGaugeStats (see ConfigInit): the
\* usage or version is all that is asked for, a check of the configuration
\* is fatal, or metric labels are written to a map that is nil.
ConfigRead ==
  /\ main = "config"
  /\ \/ main' = "signals" /\ UNCHANGED status
     \/ status' \in {"ok", "fatal", "panic"} /\ UNCHANGED main
  /\ UNCHANGED <<enabled, policies, signalVars, httpVars, otelVars, left>>

HandleSignals ==
  /\ main = "signals"
  /\ main' = "executors"
  /\ processExit' = "open"
  /\ handler' = "waiting"
  /\ UNCHANGED <<enabled, policies, signals, sigChan, httpVars, otelVars, status, left>>

\* startExecutor, for each of them
StartExecutors ==
  /\ main = "executors"
  /\ main' = "select"
  /\ server' = IF "prometheus" \in enabled THEN "init" ELSE "off"
  /\ otel' = IF "otel" \in enabled THEN "init" ELSE "off"
  /\ UNCHANGED <<enabled, policies, signalVars, shutter, scrape, deadline, flushed,
                 late, status, left>>

\* createClientPolicy, in the first refresh of an executor's provider: every
\* error is fatal, and a policy that is made is kept.
MakePolicy(executor) ==
  \/ policies' = policies \cup {executor} /\ UNCHANGED status
  \/ executor \notin policies /\ status' = "fatal" /\ UNCHANGED policies

-----------------------------------------------------------------------------
(* Signals *)

\* Mutant: the channel has no capacity bound.
SendSignalQueued ==
  /\ signals < MaxSignals
  /\ signals' = signals + 1
  /\ IF handler = "off"
     THEN status' = "killed" /\ UNCHANGED sigChan
     ELSE sigChan' = sigChan + 1 /\ UNCHANGED status
  /\ UNCHANGED <<mainVars, processExit, handler, httpVars, otelVars, left>>

\* Without signal.Notify a signal ends the process; with it, one that finds
\* the channel full is dropped.
SendSignal ==
  /\ signals < MaxSignals
  /\ signals' = signals + 1
  /\ IF handler = "off"
     THEN status' = "killed" /\ UNCHANGED sigChan
     ELSE sigChan' = 1 /\ UNCHANGED status
  /\ UNCHANGED <<mainVars, processExit, handler, httpVars, otelVars, left>>

\* Mutant: the listeners are told after the sleep, just before the exit.
TakeSignalTellLate ==
  /\ handler = "waiting" /\ sigChan = 1
  /\ sigChan' = 0
  /\ handler' = "sleeping"
  /\ left' = [left EXCEPT !["exit"] = ExitDelay]
  /\ late' = (otel = "refreshing")
  /\ UNCHANGED <<mainVars, signals, processExit, httpVars, otel, flushed, status>>

\* close(ProcessExit), which panics when it is closed already
TakeSignal ==
  /\ handler = "waiting" /\ sigChan = 1
  /\ sigChan' = 0
  /\ handler' = "sleeping"
  /\ processExit' = "closed"
  /\ status' = IF processExit = "closed" THEN "panic" ELSE status
  /\ left' = [left EXCEPT !["exit"] = ExitDelay]
  /\ late' = (otel = "refreshing")
  /\ UNCHANGED <<mainVars, signals, httpVars, otel, flushed>>

\* Mutant: the handler takes the next signal instead of exiting.
ExitForgotten ==
  /\ handler = "sleeping" /\ left["exit"] = 0
  /\ handler' = "waiting"
  /\ UNCHANGED <<mainVars, signals, sigChan, processExit, httpVars, otelVars,
                 status, left>>

\* os.Exit(0)
Exit ==
  /\ handler = "sleeping" /\ left["exit"] = 0
  /\ status' = "ok"
  /\ UNCHANGED <<mainVars, signalVars, httpVars, otelVars, left>>

-----------------------------------------------------------------------------
(* The Prometheus executor: three kinds of goroutines. *)

Open(s) == scrape[s] \in {"waiting", "refreshing"}

\* PrometheusHttpExecutor.Initialize
InitializeHttp ==
  /\ server = "init"
  /\ server' = "starting"
  /\ shutter' = "waiting"
  /\ UNCHANGED <<mainVars, signalVars, scrape, deadline, otelVars, status, left>>

\* log.Fatalf: a secret cannot be read, or the address cannot be bound
HttpFails ==
  /\ server \in {"init", "starting"}
  /\ server' = "failed"
  /\ status' = "fatal"
  /\ UNCHANGED <<mainVars, signalVars, shutter, scrape, deadline, otelVars, left>>

\* ListenAndServe listens, unless Shutdown has been called before
Listen ==
  /\ server = "starting"
  /\ server' = IF shutter = "waiting" THEN "serving" ELSE "closed"
  /\ UNCHANGED <<mainVars, signalVars, shutter, scrape, deadline, otelVars,
                 status, left>>

\* Mutant: every error of ListenAndServe is fatal, ErrServerClosed too.
ServeEndsFatally ==
  /\ server = "serving" /\ shutter # "waiting"
  /\ server' = "closed"
  /\ status' = "fatal"
  /\ UNCHANGED <<mainVars, signalVars, shutter, scrape, deadline, otelVars, left>>

\* ListenAndServe returns ErrServerClosed, which is no error
ServeEnds ==
  /\ server = "serving" /\ shutter # "waiting"
  /\ server' = "closed"
  /\ UNCHANGED <<mainVars, signalVars, shutter, scrape, deadline, otelVars,
                 status, left>>

ShutDown ==
  /\ shutter = "waiting" /\ processExit = "closed"
  /\ shutter' = "shutting"
  /\ left' = [left EXCEPT !["shutdown"] = ShutdownTimeout]
  /\ UNCHANGED <<mainVars, signalVars, server, scrape, deadline, otelVars, status>>

\* Shutdown returns when no request is open, or at its timeout
ShutDownEnds ==
  /\ shutter = "shutting"
  /\ left["shutdown"] = 0 \/ \A s \in Scrapes : ~Open(s)
  /\ shutter' = "done"
  /\ UNCHANGED <<mainVars, signalVars, server, scrape, deadline, otelVars,
                 status, left>>

\* A request for /metrics, which waits for the mutex of Collect.
Accept(s) ==
  /\ server = "serving" /\ shutter = "waiting"
  /\ scrape[s] = "none"
  /\ scrape' = [scrape EXCEPT ![s] = "waiting"]
  /\ deadline' = [deadline EXCEPT ![s] = WriteTimeout]
  /\ UNCHANGED <<mainVars, signalVars, server, shutter, otelVars, status, left>>

Collect(s) ==
  /\ scrape[s] = "waiting"
  /\ \A t \in Scrapes : scrape[t] # "refreshing"
  /\ scrape' = [scrape EXCEPT ![s] = "refreshing"]
  /\ \E d \in RefreshTimes : left' = [left EXCEPT ![s] = d]
  /\ MakePolicy("prometheus")
  /\ UNCHANGED <<main, enabled, signalVars, server, shutter, deadline, otelVars>>

\* Mutant: a refresh that took its time is tried once more.
AnswerRetried(s) ==
  /\ scrape[s] = "refreshing" /\ left[s] = 0
  /\ \/ /\ scrape' = [scrape EXCEPT ![s] = IF deadline[s] > 0 THEN "answered" ELSE "cut"]
        /\ UNCHANGED left
     \/ /\ deadline[s] < WriteTimeout
        /\ \E d \in RefreshTimes : left' = [left EXCEPT ![s] = d]
        /\ UNCHANGED scrape
  /\ UNCHANGED <<mainVars, signalVars, server, shutter, deadline, otelVars, status>>

\* The handler writes the answer, which is lost when the deadline has passed.
Answer(s) ==
  /\ scrape[s] = "refreshing" /\ left[s] = 0
  /\ scrape' = [scrape EXCEPT ![s] = IF deadline[s] > 0 THEN "answered" ELSE "cut"]
  /\ UNCHANGED <<mainVars, signalVars, server, shutter, deadline, otelVars,
                 status, left>>

-----------------------------------------------------------------------------
(* The OpenTelemetry executor. *)

InitializeOtel ==
  /\ otel = "init"
  /\ otel' = "select"
  /\ left' = [left EXCEPT !["ticker"] = FetchInterval]
  /\ UNCHANGED <<mainVars, signalVars, httpVars, flushed, late, status>>

\* log.Fatalf: no resource, no exporter
OtelFails ==
  /\ otel = "init"
  /\ otel' = "failed"
  /\ status' = "fatal"
  /\ UNCHANGED <<mainVars, signalVars, httpVars, flushed, late, left>>

\* The select takes either case when the ticker has fired and ProcessExit is
\* closed.  A tick during a refresh waits for its end.
OtelTick ==
  /\ otel = "select" /\ left["ticker"] = 0
  /\ otel' = "refreshing"
  /\ \E d \in RefreshTimes :
       left' = [left EXCEPT !["ticker"] = FetchInterval, !["otel"] = d]
  /\ late' = (late \/ processExit = "closed")
  /\ MakePolicy("otel")
  /\ UNCHANGED <<main, enabled, signalVars, httpVars, flushed>>

\* What was refreshed is given to the instruments; log.Fatalf: the SDK makes
\* none, or registers no callback
OtelRefreshed ==
  /\ otel = "refreshing" /\ left["otel"] = 0
  /\ \/ otel' = "select" /\ UNCHANGED status
     \/ status' = "fatal" /\ UNCHANGED otel
  /\ UNCHANGED <<mainVars, signalVars, httpVars, flushed, late, left>>

\* meterProvider.Shutdown collects and pushes once more
OtelShutDown ==
  /\ otel = "select" /\ processExit = "closed"
  /\ otel' = "flushing"
  /\ \E d \in PushTimes : /\ left' = [left EXCEPT !["otel"] = d]
                          /\ late' = (late \/ d >= ExitDelay)
  /\ UNCHANGED <<mainVars, signalVars, httpVars, flushed, status>>

OtelFlushed ==
  /\ otel = "flushing" /\ left["otel"] = 0
  /\ otel' = "done"
  /\ flushed' = TRUE
  /\ UNCHANGED <<mainVars, signalVars, httpVars, late, status, left>>

-----------------------------------------------------------------------------
MainStep    == ConfigRead \/ HandleSignals \/ StartExecutors
HandlerStep == TakeSignal \/ Exit
HttpStep    == InitializeHttp \/ HttpFails \/ Listen \/ ServeEnds
                 \/ ShutDown \/ ShutDownEnds
OtelStep    == InitializeOtel \/ OtelFails \/ OtelTick \/ OtelRefreshed
                 \/ OtelShutDown \/ OtelFlushed

ProgramStep ==
  MainStep \/ HandlerStep \/ HttpStep \/ OtelStep \/ \E s \in Scrapes : Collect(s) \/ Answer(s)

\* A goroutine has something to do: exactly when ENABLED ProgramStep, spelt
\* out for the proofs.
Busy ==
  \/ main # "select"
  \/ handler = "waiting" /\ sigChan = 1
  \/ handler = "sleeping" /\ left["exit"] = 0
  \/ server \in {"init", "starting"}
  \/ server = "serving" /\ shutter # "waiting"
  \/ shutter = "waiting" /\ processExit = "closed"
  \/ shutter = "shutting" /\ (left["shutdown"] = 0 \/ \A s \in Scrapes : ~Open(s))
  \/ \E s \in Scrapes : scrape[s] = "waiting" /\ \A t \in Scrapes : scrape[t] # "refreshing"
  \/ \E s \in Scrapes : scrape[s] = "refreshing" /\ left[s] = 0
  \/ otel = "init"
  \/ otel = "select" /\ (left["ticker"] = 0 \/ processExit = "closed")
  \/ otel \in {"refreshing", "flushing"} /\ left["otel"] = 0

Tick ==
  /\ ~Busy
  /\ left' = [t \in Timers |-> IF left[t] > 0 THEN left[t] - 1 ELSE 0]
  /\ deadline' = [s \in Scrapes |-> IF deadline[s] > 0 THEN deadline[s] - 1 ELSE 0]
  /\ UNCHANGED <<mainVars, signalVars, server, shutter, scrape, otelVars, status>>

LifecycleNext ==
  /\ status = "running"
  /\ ProgramStep \/ SendSignal \/ Tick \/ \E s \in Scrapes : Accept(s)

LifecycleSpec == LifecycleInit /\ [][LifecycleNext]_vars

\* Goroutines run and time passes; signals and requests may come or not.
LifecycleFairSpec ==
  /\ LifecycleSpec
  /\ WF_vars(status = "running" /\ ProgramStep) /\ WF_vars(status = "running" /\ Tick)

-----------------------------------------------------------------------------
(* Properties. *)

(* "shutdown gracefully to ensure exit code 0" (Initialize of the          *)
(* Prometheus executor): it is never the shutdown that ends a process with *)
(* 1, however many signals come and in whichever order the goroutines find *)
(* out.  What does is a configuration, an executor that cannot start, the  *)
(* first refresh of one whose client policy cannot be made, while the      *)
(* server already answers, or an instrument the OpenTelemetry SDK refuses  *)
(* after a refresh.  A signal ends it by itself only before the handler is *)
(* there, a panic only before the signals are.                             *)
ExitStatus ==
  /\ status = "fatal" =>
       \/ main = "config"
       \/ "failed" \in {server, otel}
       \/ "prometheus" \notin policies /\ \E s \in Scrapes : scrape[s] = "refreshing"
       \/ otel = "refreshing" /\ ("otel" \notin policies \/ left["otel"] = 0)
  /\ status = "killed" => handler = "off"
  /\ status = "panic" => main = "config"

(* One signal is enough: it ends the process, whatever the goroutines are  *)
(* in the middle of (HandleSignals, and the select {} main ends with).     *)
SignalExits == (sigChan = 1) ~> (status # "running")

(* What the exporter does keep of "pushes any last exports to the          *)
(* receiver" (the ticker goroutine): a process that ends orderly has       *)
(* pushed its last batch, unless the ticker goroutine was busy when the    *)
(* signal came, or took one more tick first, or the push is slow.          *)
LastBatchUnlessLate == status = "ok" /\ otel \notin {"off", "init"} => flushed \/ late

(* "This metric is returned by the exporter when it is up and running,     *)
(* regardless of whether it can connect to the Aerospike Server."          *)
(* (README.md, aerospike_node_up): no answer to a scrape is cut off.       *)
NodeUpReturned == \A s \in Scrapes : scrape[s] # "cut"

=============================================================================
