# Verification of the Aerospike Prometheus exporter

TLA+ modules, TLC runs and TLAPS proofs about the exporter in `src/`. The
exporter is a Go program that connects to one Aerospike node, reads its
statistics with info requests and offers them in two ways, either or both: it
answers scrapes of `/metrics` (Prometheus), and it pushes batches to an OTLP
endpoint (OpenTelemetry). It keeps little data and no files. What is hard in it is that
one connection and one set of labels are shared by goroutines that run
together, that every network operation may fail or hang, and that a few values
are remembered from one refresh to the next.

## Inventory

| Component (source under `src/internal/pkg`) | State | Operations | Hard behaviour | What makes it correct |
|---|---|---|---|---|
| Data provider (`dataprovider/aero_server.go`) | `aeroConnection`, `clientPolicy` | `RequestInfo`, `FetchUsersDetails`, `IsServerConnected` | any network operation fails or hangs, the node restarts as another node, retries, authentication | no leaked connection, no request before the login, an answer or an error and never neither, failure only for a reason, every call ends |
| Refresher (`statprocessors/statsrefresh.go`) | labels in `sharedState` | `Refresh`, `RefreshUserStats` | a failure between the update of the labels and the end of the refresh, the node replaced between two passes | statistics under the labels of the node they came from |
| Users processor (`sp_users.go`) | `ShouldFetchUserStatistics` | `canRefreshUserStats`, `Refresh` | the flag is overwritten by every query | users queries stop after a role violation |
| Prometheus executor (`executors/prometheus.go`, `prometheus_httplistener.go`) | `mutex`, `ticks` | `Collect`, the `/metrics` handler | overlapping scrapes, early returns, a live counter read later | each scrape gets one answer, made of data no older than itself |
| OpenTelemetry executor (`otel_executor.go`, `otel_metrics.go`) | `gauges`, `counters`, `refreshCounter` | ticker loop, callbacks, `Export` | two goroutines without a lock, deltas computed from what the last collection saw | no counter sent without a baseline, node_up always sent and right |
| Namespace, node, set, sindex, xdr processors (`sp_*.go`) | caches of metrics, benchmarks, roster flags, time of the last index-pressure query | `PassOneKeys`, `PassTwoKeys`, `Refresh` | what is asked in a cycle depends on what earlier cycles answered, the configuration changes in between | what is enabled is asked for, what is disabled is not |
| Latency processor and parser (`sp_latency.go`, `latency_info_parser.go`) | none of its own | `parseLatencyInfo` | positions in an answer, missing data, end of input | each bucket has the value the node sent |
| Metric catalogue (`utils.go`, `aerospike_stat.go`, `config/gauge_stats.go`) | the lists of the configuration | `isMetricAllowed`, `GetMetricType` | block list against allow list, the caches in front of both | a metric is under its own name, type and permission |
| Host system information (`host_sysinfo_*.go`, `sp_host_systeminfo.go`) | none | `RefreshSystemInfo` | lines of `/proc` that are read, skipped or end the reading; keys of shared memory are signed, 32 bits read into 64 | Aerospike's segments are recognised, their labels keep segments apart |
| Configuration (`config/*.go`) | `Cfg` | `InitConfig` | lists with an older and a newer name, defaults, eight-bit numbers, metadata requests that fail one by one, a map that may be nil | what gets ready can run, no list and no label is lost |
| Credentials and TLS (`commons/utils.go`, `createClientPolicy`) | `clientPolicy` | `GetSecret`, `getCertificate`, `LoadServerOrClientCertificates`, `LoadCACert` | six functions check parts of one configuration at three times | a policy in use is complete |
| Signals and start-up (`commons/utils.go`, `cmd/main.go`) | `ProcessExit`, the goroutines | `HandleSignals`, the `Initialize` functions | exit one second after a signal, against shutdowns of up to ten; a shutdown that looks like a failure | one signal ends the process with the right status; the last batch is sent |

`main.go` starts each executor that is enabled, in a goroutine of its own. Each
has its own data provider, refresher, processors and labels, so that what they
share is the process: the configuration, `ProcessExit`, and its end. Within one
executor nothing in the provider or the refresher serialises its callers; the
mutex of `Collect` and the single ticker goroutine do.

## The modules

| Module | Models | Composed of |
|---|---|---|
| `AeroServer` | the connection: dialling, login, user agent, info requests, users queries, retries; the node and the network (external) | — |
| `StatsRefresher` | one refresh: two info calls and a users query, the shared labels, the users flag | extends `AeroServer` |
| `PrometheusImpl` | concurrent scrapes of `/metrics`: mutex, `Collect`, the answer | extends `StatsRefresher`; implements `ScrapeService` |
| `ScrapeService` | the promise to whoever scrapes: no connection, no retries, no mutex | abstract |
| `OtelExecutor` | the ticker goroutine and the SDK's periodic reader (external), without a lock between them | extends `StatsRefresher` |
| `StatProcessors` | what the processors remember from one refresh to the next and ask for because of it | — |
| `HostInfo` | the files of `/proc` and the statistics made of them: operators, no state | — |
| `MetricCatalog` | how a statistic of the node, a user, a histogram or the host becomes a metric: names, types, filters, labels, and the caches in front of them | extends `HostInfo` |
| `LatencyInfo` | both parsers of latency histograms | — |
| `ConfigInit` | start-up up to the executors: the file, its defaults and checks, metadata requests | — |
| `Credentials` | secrets, certificates, the client policy and the scheme of the listener | extends `ConfigInit` |
| `Lifecycle` | the process: `main`, signals, both executors' goroutines, deadlines, exit | — |
| `AeroServer_proofs`, `StatProcessors_proofs`, `OtelExecutor_proofs`, `MetricCatalog_proofs`, `ConfigInit_proofs`, `Lifecycle_proofs`, `LatencyInfo_proofs` | the proofs | extend the module they are about, `ConfigInit_proofs` `Credentials`, `OtelExecutor_proofs` also `AeroServer_proofs` |
| `PrometheusImpl_proofs` | the proofs about `StatsRefresher`, `PrometheusImpl` and the refinement | extends `PrometheusImpl` and `AeroServer_proofs` |

`MC*.tla` and `MC*.cfg` are the instances TLC checks. Definitions whose comment
begins with "Mutant:" are plausible bugs of the definition that follows them;
each property of a passing run is broken by one of them under the run's own
constants, which shows that the run is able to see the bug.

### How the modules correspond to the code

*AeroServer.* `pc` is where a call is in the loop of
`fetchRequestInfoFromAerospike` or `fetchUsersRoles`: at the head of the loop,
in `Login`, in `setUserAgent`, or in the request itself. Every network
operation is one action per outcome, so that the node may stop, hang, change or
cut the connection between any two of them. `aeroConnection` is the pointer;
`opened` is what `IsConnected()` says; `live` is whether the other end still
exists, which the exporter learns only when it uses the connection. An I/O
error or a timeout closes a connection inside the client library (`Close`);
whether the code also forgets it differs from one error path to the next, and
the actions keep the difference: `InfoFailed` closes and forgets,
`UserAgentFail` and `UsersFailed` keep the pointer. `BeginCall` renews the
locals, which keep their last values after `Return` so that properties can
speak of what was returned. `faults` and `Watch` are history: how often a
caller's connections were cut since it last looked.

*StatsRefresher.* `phase` is where `Refresh` is between its three calls. A
statistic is abstracted to the identity of the node whose answer it was made
from, so that `stats`, `users` and `labels` can be told apart when a node is
replaced in between. Identities in `Legacy` have a build older than 5.6,
those in `Unversioned` one that does not parse.

*PrometheusImpl.* `Arrive` is the HTTP handler calling the gatherer, `Lock` the
mutex at the head of `Collect`, `CollectFailed` and `CollectUp` its two ways
out, with the deferred unlock, `Respond` the written response.

*OtelExecutor.* `publish` is how far `handleAerospikeMetrics` has got after a
refresh. A gauge of `node_up` is registered with 0 and stored in two actions,
the counter of refreshes is an action, and the registration and the store of a
counter are one: a collection between those two sends a 0, and the next one the
spike it would have sent anyway. What `handleSystemInfoMetrics` pushes after
every tick, after a failed refresh too, goes the way of statistics, bears no
label of the node, and is left out. `reader` is the SDK: it calls back every
gauge and counter, computes deltas, and hands the batch to `Export`, which reads `IsServerConnected()` and `refreshCounter` in
two steps. One counter stands for all counters of a node.

*StatProcessors.* A refresh is two actions, `PassTwoKeys` and `Refresh` or
`PassTwoFailed`, because the node may be reconfigured in between; the calls
themselves are in `StatsRefresher`.

*HostInfo.* A host is a record of the files that are read; a file that cannot
be read has nothing in it. A key of shared memory is the sequence of its
hexadecimal digits, so that sign extension, the shifts and `%08x` are what they
do to digits.

*MetricCatalog.* A statistic is a record of the parts of its name. A glob is
the set of names it matches. `ProcessStat` is one turn of the loop over an
answer: info keys in order, the statistics of one key in any, as Go's maps have
none; `cache` is never emptied. What is made anew in every refresh (users,
histograms, the host) is one action, `ProcessUncached`. The elements of an
array share a cache entry, so that a glob which names an index decides by the
order of a Go map: `FilterHonoured` says what is left of the lists then, that
the elements share the decision on one of them, and two of the lists of
`MCMetricCatalog` are of that kind.

*LatencyInfo.* The stream is a sequence of tokens, and `unread` the reader's
position. Numbers are in hundredths, as written by the node; punctuation is
written in words, which the provers can tell from names. The text is put
together from its end (`Rest[n]` is that of the last n entries), as the reader
takes it from its beginning. A turn of the parser's loop is `ReadName` and then
`SkipEmpty` or `ReadHistogram`, or `Skip`.

*ConfigInit* and *Credentials.* `phase` is where `InitConfig` is; `fatal` and
`panic` end the process. The file is a record, its absent keys `Undefined`
where the code asks `md.IsDefined` and zero elsewhere. A secret or certificate
is the value's part before the colon and the rest; a text is a sequence of
characters, because what is cut off its end matters. `createClientPolicy` runs
in the first scrape or tick, any time after start-up.

*Lifecycle.* One variable per goroutine, and timers that count down together in
`Tick`, which happens only while no goroutine has anything to do (`Busy`): what
races is what takes time. A refresh and the last push take one of the times
given. `policies` says for which executors `createClientPolicy` has been
through: the first refresh of each, in a scrape or a tick, makes its client
policy or ends the process (`MakePolicy`); an instrument the SDK refuses
(`OtelRefreshed`) and a configuration (`ConfigRead`) end it too. The handler's `os.Exit` ends every behaviour. `late` is history: the ticker
goroutine was not waiting when the signal came, took one more tick before it
looked at `ProcessExit`, or the push is slower than the exit.

## What is checked

In a "violation" run TLC refutes a claim that a comment or a document of the
repository makes; see the next section.

| Run | Question | Instance | Result |
|---|---|---|---|
| `stats_refresher` | Do the connection, its retries and its authentication stay right whatever the node does, does a refresh fail only for a reason, and leave users statistics off once they are off? | 1 caller, 2 sockets, 3 attempts, a current, an old and an unversioned build, all modes and privileges | holds |
| `prometheus_impl` | Do overlapping scrapes keep the promise of `ScrapeService`, and is each answered? | 2 scrapes, 2 identities, node stopping, cutting and being replaced | holds |
| `otel_executor` | Do the unlocked ticker and reader report a dead node and keep sending `node_up`? | one refresh per push (the intervals of the shipped `ape.toml`), node up or down | holds |
| `restart_spike` | Is no counter sent without a baseline after a start? | four refreshes per push (the defaults of `config.go:175-181`), node up or down | violation |
| `denied_node_up` | Does `otel_executor` keep sending `node_up` with a node that keeps the connection and answers `ERROR`? | modes up and denying | violation |
| `stat_processors` | Is exactly what is enabled asked for, and index-pressure fetched again and again? | 2 namespaces, 3 configurations and absence, 3 kinds of build | holds |
| `metric_catalog` | Do the caches let through what the lists want, and never two series alike? | 19 statistics of 6 contexts and a host with 9 lines of shared memory, 6 sets of lists, two of which tell the elements of an array apart | holds |
| `xdr_names` | Has every metric the name its info key calls for? | the same | violation |
| `latency_info` | Does the parser end, with every bucket sent and no more than are asked for, in cumulative buckets? | every response of up to 3 entries (data, empty, error), both formats, with and without the last `;`, with and without a limit on buckets | holds |
| `lifecycle` | Does a signal end the process, with the last batch and not with status 1, and is every scrape answered in time? | 2 scrapes, 2 signals, either or both executors | holds |
| `scrape_deadline` | The last, with the times of `ape.toml` and a node that hangs | 1 scrape, a refresh of 15 s, an answer of 10 s | violation |
| `config_init` | Can what gets ready run, with every list, label, secret and certificate of its file? | 1,187 files, each unlike a plain one in one group of keys that are read together | holds |

**Why the bounds are enough.** Two sockets are as many as can matter while at
most one is open (`OneSocket`, proved): the one held and the one dialled next.
One caller is enough below a refresh, as calls are serialised (`Serial`, proved
of both executors); `prometheus_impl` has two, and the theorems any number,
making any calls. Three attempts are `RETRY_COUNT` in the code (the proofs
cover every larger number). Two identities let a node be replaced once between any two steps, and again. In
`OtelExecutor`, `MaxSettled` bounds a history counter only, which `NoSpike`
alone looks at: in `restart_spike` four collections in step with the refreshes
are more than the three refreshes `Export` waits for.
Two namespaces let one be switched while the other is not; `FETCH_INTERVAL` is
one step of the clock, since only "elapsed or not" is ever tested. The
statistics of `MCMetricCatalog` hold a pair of array elements, a name shared by
two levels of XDR, a name shared by three contexts, and names with and without
a hyphen: the coincidences the caches could confuse; its host has segments that
differ in one field of their key each. Three entries put each kind of entry of
a latency answer before, between and after the others. The times of
`MCLifecycle` are small but in the order of the code's and `ape.toml`'s: an
exit comes before a shutdown gives up, a refresh may end before, with or after
either, and two refreshes, one after the other, end before the deadline of an
answer, which is the case in which `NodeUpReturned` can hold; `scrape_deadline` has the case in which it cannot.
Two signals are one more than the channel holds. Groups of keys in
`MCConfigInit` are independent: no function reads two of them.

**Deadlock** is checked except for `LatencyInfo`, which stops when the stream
has been read, and for `Lifecycle` and `Credentials`, where the process ends or
start-up is over.

**Fairness.** `RefreshFairness` says that a goroutine inside a refresh, and
inside each call of it, goes on: every operation on the connection ends, by an
answer, an error or the timeout that `SetTimeout` puts on it. Nothing is assumed of the node. A
scrape that waits for the mutex has strong fairness, because `sync.Mutex` hands
over to a waiter that starves. The OpenTelemetry ticker and reader are periodic
for ever. `ProcessorsFairSpec` says that refreshes recur and time passes, not
that refreshes succeed: `IndexPressureRecurs` assumes that failures stop.
`LifecycleFairSpec` says that goroutines run and time passes; signals and
requests may come or not.

**Refinement.** `KeepsPromise` is `Service!Spec`, with
`Service == INSTANCE ScrapeService` under the mapping in `PrometheusImpl`: a
scrape is pending until it is answered, its answer becomes visible with the
response, and it counts as disturbed when the node misbehaved or two
connections were cut since it arrived. The promise is that `node_up 1` comes
with statistics of a node that ran during this very scrape, under that node's
labels, and that `node_up 0` comes only after a disturbance.

## Where code and documents disagree

Four are violation runs; TLC's trace shows how each comes about.

- `restart_spike` (`otel_executor.go:65`): `Export` holds batches back until
  three refreshes have succeeded, "to avoid large spikes in delta when exporter
  restarts". With the defaults of `config.go:175-181` four refreshes precede
  the first batch, so nothing is held back and every counter is sent whole.
- `denied_node_up` (`otel_executor.go:65`): a node that keeps the connection
  and answers a lone `ERROR:` leaves `refreshCounter` at 0 with the connection
  open, and every batch is dropped, `node_up` included, which "will have to be
  send irrespective of Aerospike Server is available or not".
- `scrape_deadline` (`prometheus_httplistener.go:100`): the server gives up an
  answer after `Agent.timeout`, 10 s as shipped; a refresh of a node that hangs
  takes three attempts of 5 s. The scrape that would report `node_up 0` is cut
  off, although `node_up` "is returned by the exporter when it is up and
  running, regardless of whether it can connect" (`README.md:459`).
- `xdr_names` (`sp_xdr.go:123`): a statistic that both a data centre and its
  namespaces have is exported under the name of whichever came first, not under
  the "new-metric-name format" of its own request.

Others met while modelling, which no run is spent on:

- `Export` holds a batch back only while the connection is open
  (`otel_executor.go:65`). A node that accepts connections and hangs opens it
  with every `Dial`, and the request that times out closes it. A collection in
  between observes counters without a baseline, `Export` finds the connection
  closed and sends them whole, with `refreshCounter` just reset "so when server
  comes back we do not send large counter value again" (`:274`). With
  `Modes = {"up", "hung"}` TLC finds `NoSpike` violated with one refresh per
  push too, and `NodeUpIsSent`, as with a node that denies.
- The permission of an array is asked for the element a Go map yields first and
  kept for all (`sp_namespaces.go:245`): a glob that names an index keeps or
  drops all elements, although the "allowed-regex is applied on
  original-server-stat-name" (`aerospike_stat.go:40`). Where only one of two
  elements is blocked, TLC drops either both or neither under `metric_catalog`;
  `FilterHonoured` says no more than that they go together.
- `IsAllowed` is never looked at on the OpenTelemetry path
  (`otel_metrics.go:48`): allow and block lists have no effect on it.
- The list of gauges names array statistics with dots, the exporter looks them
  up with underscores (`utils.go:165`): they are exported as counters.
- The last percentage of a latency answer without a trailing `;` loses its last
  digit (`latency_info_parser.go:70`); `:266` speaks of zero buckets being
  dropped and none is.
- One role violation turns users statistics off until a restart
  (`statsrefresh.go:174`).
- The `node_up` gauge of a node that was replaced keeps saying 1
  (`otel_metrics.go:228`).
- `ape.toml:176` says an empty list excludes all metrics; the code and
  `README.md:289` that it allows all.
- The last batch is lost when the signal comes during a refresh or the push
  takes longer than the second `HandleSignals` sleeps (`commons/utils.go:333`);
  `LastBatchUnlessLate` says what is kept.
- The condition for the configured cipher suites is inverted
  (`commons/utils.go:350`): they are ignored.
- `README.md:248` writes AWS, Azure and GCP; `cloudinfo.go` knows the lower-case
  names only. Cloud labels replace labels of the file of the same name, and
  make the exporter panic when the file has none (`config.go:292`).
- An invalid `auth_mode` is found at the first scrape, not at start-up; a root
  CA that does not parse is ignored; a secret with a colon in it is refused.
- The key of a shared-memory segment that is negative in `/proc` is printed
  with 16 digits (`host_sysinfo_utils.go:199`).

## What is proved

Every theorem holds for every value of the constants its module's assumptions
allow: any callers, sockets and identities and every `RETRY_COUNT` of at least
3, any namespaces, histograms and configurations, any set of files, statistics,
lists, scrapes, signals and times, answers and secrets of any length. The named
assumptions are all that is taken, and TLC evaluates each of them on the
instances: nil values differ from what they stand beside, there is an identity,
records have their fields, texts are texts, words of the latency protocol are
no names of namespaces. Two theorems have hypotheses of their own, given with them below. Each invariant is shown to hold
initially and to be kept by every action, one step per action, and to imply the
property.

What is proved by induction over a text or the entries of an answer does not
use the library's induction theorems, whose operator parameters no prover here
can instantiate. A set takes the place of the operator: `NatSet` says that a
set of numbers that has 0 and with each number the next has them all, and
`Recursion` that a recursive function with a given step exists and is the one
defined. Both are lemmas of `ConfigInit_proofs` and of `LatencyInfo_proofs`.

| Theorem | Property | By |
|---|---|---|
| `TypeCorrect` | `AeroTypeOK` | `TypeInv`: an attempt past the head of the loop is within the bound already, or the last failure would count one too many |
| `OneSocketHolds`, `AuthenticatedRequestsHolds`, `InfoAnswersOrFailsHolds`, `RoleViolationNotRetriedHolds` | of the same names | `ConnInv`, which adds: calls do not overlap; a call past the head of the loop has an open connection; what is alive is open; what is alive outside a login is logged in; an info call that has spent an attempt holds an error |
| `FailureNeedsFaultsHolds` | `FailureNeedsFaults` | `FaultInv`, a count: attempts spent and a dead connection still held never outnumber the one a call may begin with and the cuts since. Users queries keep their connection on most errors and need a longer case analysis (`UsersBudget`) |
| `NoNeedlessReconnectHolds` | `NoNeedlessReconnect` | `ConnInv`, action by action |
| `PromTypeCorrect`, `ScrapesSerialisedHolds` | `PromTypeOK`, `ScrapesSerialised` | `Control`: who is inside a refresh or a call holds the mutex, and where the scrape, the refresh and the call are agrees |
| `PromImplementsAero` | `PromSpec => AeroSpec` | every step is one of `AeroNext` or leaves its variables alone; the rely condition `Serial`, that calls do not overlap, is what `Control` gives. All theorems above carry over |
| `LabelsMatchStatsHolds` | `LabelsMatchStats` | `OriginInv`: what a refresh has gathered so far comes from a node that ran since the scrape arrived, and the labels are stored by the pass that made the statistics |
| `FailedScrapeNeedsFaults` | `FailedRefreshNeedsFaults` | `FailureNeedsFaultsHolds`, and that a refresh ends with the first call that fails, whose cuts were counted since the scrape arrived |
| `KeepsPromiseHolds` | `KeepsPromise` | the two above: initial states map to initial states, `Arrive` and `Respond` to steps of `ScrapeService`, every other step to a stutter or a fault |
| `UserStatsStayOffHolds` | `UserStatsStayOff` | `FlagInv`: a users call, whose outcome will overwrite the flag, is in progress only while the flag is up |
| `OtelImplementsAero`, `OtelTypeCorrect` | `OtelSpec => AeroSpec`; `OtelTypeOK` | the reader calls nothing of the provider; `OtelInv`: publishing and refreshing never overlap, and what is published is of a node that is known |
| `ProcessorsTypeCorrect`, `NoNilMapWriteHolds` | `ProcessorsTypeOK`, `NoNilMapWrite` | `MapInv`, both at once: a namespace that does not answer keeps what it had, which has the right type only if its map was made |
| `RequestsFollowConfigHolds` | `RequestsFollowConfig` | `RequestInv`: what is remembered of a settled namespace is its configuration (`MemoryFollowsConfig`), whichever phase a refresh is in |
| `FilterHonouredHolds` | `FilterHonoured` | `FilterInv`: an entry of a cache has the permission of a statistic that shares it, by the name that one has at the node; what is scraped is what was processed, with the permission of its entry. Nothing is assumed of the lists |
| `UsableWhenReadyHolds`, `NoListLostHolds` | of the same names | `ReadInv` and `ListInv`: what each phase of `InitConfig` leaves behind, and that no later one changes it |
| `ExitStatusHolds` | `ExitStatus` | `ExitInv`: `ProcessExit` is open while the handler waits, and the handler, which alone closes it, never waits again; executors start after the handler; a fatal step leaves the state it is fatal in, and no step of a shutdown is one |
| `LifecycleTypeCorrect`, `LastBatchUnlessLateHolds` | `LifecycleTypeOK`, `LastBatchUnlessLate` | `BatchInv`: between the signal and the exit nothing is late only while the clock of the exit has not begun to run, or the push has less to go than the exit, or is over; time passes only when no goroutine is ready |
| `NodeUpReturnedInTime` | `NodeUpReturned` | `ScrapeInv`, a load: what is left of the refresh in progress and M for every scrape that waits, against the deadline of each. Hypotheses: there are finitely many scrapes, a refresh takes M at most, and all of them one after the other less than `WriteTimeout`. `scrape_deadline` breaks the last |
| `ConfigTypeCorrect` | `ConfigTypeOK` | `TypeInv` and `AskedInv`: each phase has its configuration, and the requests answered are a beginning of those of the file's cloud |
| `LabelsCompleteHolds` | `LabelsComplete` | `LabelInv`: until the end the labels are those of the file, and what is stored is what was answered before the first failure |
| `PolicyCompleteHolds` | `PolicyComplete` | `PolicyInv`: what `ValidateAndUpdate` asks of the certificates still holds when the policy is made, long after; the part about line ends is an induction over the text of the secret (`Without`) |
| `CatalogTypeCorrect` | `CatalogTypeOK` | `EntryInv`: an entry of a cache, and of a metric, was made for a statistic that has its key; metrics are of the statistics of the answer |
| `SeriesUniqueHolds` | `SeriesUnique` | `EntryInv`: the name of an entry is one of `Names`, those a cache may have kept for the statistic, and labels are the statistic's own. Hypothesis: `NamesApart`, which speaks of the statistics a node sends and of nothing the exporter remembers: where two of them can end up under one name, their types agree and their labels differ. TLC evaluates it in `MCMetricCatalog` |
| `LatencyTypeCorrect`, `EntriesParsedHolds`, `BucketsCumulativeHolds` | `LatencyTypeOK`, `EntriesParsed`, `BucketsCumulative` | `ParserInv`: whenever the parser is at the head of its loop, what is unread is the text of the last n entries (`Rest[n]`), and the histograms are those of the entries before. A suffix has no delimiter an entry did not write, which is an induction over entries (`RestEnds`); each bucket is that of the percentage sent, whole or, the last of an answer that is cut, short of a digit (`Parsed`); that buckets are in order is arithmetic on falling percentages, the last of which may be shortened |

Only model-checked is liveness, which needs fairness and `ENABLED`, out of the
prover's reach: `CallTerminates`, `EveryScrapeAnswered`, `DownIsReported`,
`NodeUpIsSent`, `IndexPressureRecurs`, `ParserTerminates`, `SignalExits`.
`FailedRefreshNeedsFaults` and `UserStatsStayOff` are proved of
`PrometheusImpl`, for any number of overlapping scrapes; of `StatsSpec`, any
caller that does not overlap another, TLC checks them. Every other property of the passing runs is proved.

## What is not modelled

- Values of statistics: `ParseStats`, `TryConvert`, `SanitizeUTF8`, and every
  value of the host. Which statistics there are does not depend on them.
- Cipher suites and protocol versions, which are handed to `crypto/tls`.
- The client library, the OpenTelemetry SDK, the Prometheus registry, the node
  and the network, except as the code uses them (marked external).
- The mock data provider, a test double.
- `/health` and `/` of the listener, the headers of pushes: they keep no state.
- `IsServerConnected` reads its pointer twice; the model reads it once, so that
  the nil dereference between the two reads is not in it.
- The storage behind slices: `append(commonLabels, ...)` may write into memory
  another goroutine still reads (`otel_executor.go:280`).
- A credential is the same for the lifetime of the process, as the policy that
  holds it.

## Plan

Done: the connection, the refresh, both executors, the memory of the
processors, the catalogue of metrics with users, histograms, user agents and
the host, the latency parsers, configuration and credentials, the life of the
process; the proofs of the table above, the refinement of `ScrapeService` among
them.

Left, most useful first:

1. `FailedRefreshNeedsFaults` and `UserStatsStayOff` of `OtelSpec` and
   `StatsSpec`, from the same invariants as of `PromSpec`.
2. What `Export` does hold back: for which intervals `NoSpike` holds after a
   start, as a theorem about an exporter whose node stays up.
3. The hazards without a property: the storage behind label slices
   (`otel_executor.go:280`) and the two reads of `IsServerConnected`
   (`aero_server.go:55`) need a model of memory the proofs do not reach yet.
