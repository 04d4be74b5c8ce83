# Verification of elasticsearch-k8s-metrics-adapter

TLA+ models, TLC runs and TLAPS proofs for the Elasticsearch Kubernetes metrics
adapter: a process that serves the custom and external metrics APIs of
Kubernetes by aggregating *metric servers*, each of them an Elasticsearch
cluster or an existing metrics adapter (`metric_server_type: custom`).

Paths below are relative to the repository; modules are in this directory.

## 1. The system

```
                     scheduler: one job (goroutine) per metric server
   ticker ──tick──▶  list custom, then external metrics ◀──HTTP── backend
                         │ error              │ list
                         ▼                    ▼
                    monitoring.OnError   monitoring.Update*  then  registry.Update*
                         │                                             │
   /readyz  ◀── isReadyAndHealthy                                      ▼
   API request ──▶ aggregation provider ──▶ registry.Get*Client ──▶ client.Get* ──HTTP──▶ backend
```

| Component | State | Operations | Correct when |
|---|---|---|---|
| registry (`pkg/registry`) | two maps, metric → servers sorted by priority; a read-write mutex | `UpdateCustomMetrics`, `UpdateExternalMetrics`, `Get*MetricClient`, `ListAll*Metrics` | a metric is listed exactly while some server announces it; a lookup gives the announcing server of the highest priority, and a 404 if there is none; the announcement of one server leaves those of the others alone |
| scheduler (`pkg/scheduler`) | per job: position in the refresh, a `sync.Once`; a `WaitGroup` shared by all | `Start`, `refreshMetrics`, `publishError`, `WaitInitialSync` | the API is served only after every server was retrieved once; an error never stops a job, nor makes the counter of the `WaitGroup` negative |
| monitoring (`pkg/monitoring`) | failures and successes per type and server name; a read-write mutex | `OnError`, `Update*Metrics`, `/readyz` | ready exactly when every server was retrieved for each of its types and none has reached the threshold of *consecutive* failures |
| clients (`pkg/client/...`) | the namer and (Elasticsearch) the metadata of the metrics found by the last listing; a mutex, read-write for Elasticsearch and exclusive for other servers | `ListCustomMetricInfos`, `ListExternalMetrics`, `GetMetricByName`, `GetMetricBySelector`, `GetExternalMetric` | a metric the registry sends to a client is one the client knows; what it asks its server for is what its last listing said, as long as it asks |
| namer (`pkg/config/name.go`) | aliases and original names | `Register`, `Get` | an alias leads back to a name that was listed under it |
| aggregation provider (`pkg/provider`) | none | API request → registry → client | answers come from a server that announced the metric |
| configuration (`pkg/config`) | none after startup | `From`, `validate`, `FindMetadata` | the other components' assumptions hold; the metrics are those that the patterns select |
| `main.go` | startup sequence | `newMetricsClients`, listeners, `Start`, `WaitInitialSync`, serve | every entry of the file is served, or the process ends; `/readyz` waits for nothing that no job retrieves |

Where it is hard. Every metric server has a goroutine of its own; the API
requests and the probes of `/readyz` run in others. A refresh has up to seven
steps (list, tell monitoring, tell the registry, for each of two types), and
each of the three components it writes has its own lock, so that everything
else can run between any two of the steps: the client already has its new
namer while the registry still sends it requests for its old metrics.
Backends fail, recover and change their metrics at any time. Several servers
may have the same name (`validate` does not reject it). The readiness counters
are consecutive-failure counters per type, but the second type is not asked
when the first one fails. `PROJECT.json` lists each hazard at its line, with the
properties that would show it.

## 2. The modules

| Module | Models | How |
|---|---|---|
| `MetricServers` | the servers of the configuration | a `Client` is an entry of the configuration: `NameOf`, `Priority`, `MetricTypes`, `ServerType`. Names need not be distinct; `DistinctNames` says that they are and is a hypothesis only where it is needed |
| `Registry` | `registry.go`, `clients.go` | `customMetrics` and `externalMetrics` are functions from the metrics that have an entry to sequences of servers. An update or a lookup holds the mutex from its first line to its last: one action each. |
| `MetricClients` | one map of the registry, as a value | what `Registry` makes of its maps, with the source's names (`addOrUpdateClient`, `removeClient`, ...). `From` numbers the entries by position, so that priorities are distinct and sorting has one result |
| `ServedMetrics` | what the registry promises | *abstract*: the state is only who announces what. `Registry` implements it under the mapping `ServedBy` |
| `Scheduler` | `scheduler.go`, `job.go` | one action per step of `refreshMetrics` and per listener called, in the order in which `main()` registers them. Whether a listing succeeds, fails or hangs is left open |
| `Monitoring` | the counters of `monitoring/server.go` | `OnError`, `Update`, `isReadyAndHealthy`, of which the last is a state function |
| `ReadinessHistory` | the same, with a history | records the outcome of the calls, to say what readiness should be without the counters |
| `ReadyHandler` | `readyHandler` | the status is computed under the lock, the body is encoded entry by entry without it, between the reports of the jobs. What the Go runtime does about a map read and written at once (ends the process, or not) is a nondeterministic choice |
| `Adapter` | the composition | `Scheduler`, `Registry` and `Monitoring` are instances whose actions are conjoined: a step of a job is a step of `Scheduler` and of the component it calls. Adds the backends (environment), the clients' namers and the API requests |
| `MetricsClient` | what a client promises for custom metrics | *abstract*: the state is what each name stands for, and where each request is. Both clients below implement it (`Promise`) |
| `ElasticsearchClient` | `client.go`, `discovery.go`, `name.go` | one client in detail: the discovery mapping by mapping, the three assignments under the write lock, requests Pod by Pod under the read lock. What a mapping contains and what a search finds are choices |
| `Query` | the outcomes of `query.go` | the answer of Elasticsearch part by part (missing, of another type, as expected) and what `getMetricForPod` makes of it. `ElasticsearchClient` takes the outcomes of its searches from here |
| `CustomApiClient` | `custom_api/client.go` | the three calls of a refresh, the exclusive lock, requests by name, by selector and for external metrics, and the call that is made while the lock is held |
| `Configuration` | `config.go`, `metric_types.go`, what the clients' constructors and `discoverMetrics` refuse | `UnmarshalYAML`, `validate`, `From`, `FindMetadata`, `NewClient`, `discoverMetrics` up to the first mapping, as functions of an entry |
| `Startup` | `main.go` | from the file to an API that is served, or to the end of the process: parse, build the clients one after the other, start the jobs, wait, serve |
| `MappingDocument` | the walk of `discovery.go` through a mapping | `Walk` on JSON documents, against how Elasticsearch writes a tree of fields. Extends `Startup`, whose configurations it is evaluated with; recursive, so that no theorem is about it |
| `MetricClientsProofs`, `RegistryProofs`, `SchedulerProofs`, `MonitoringProofs`, `ElasticsearchClientProofs`, `CustomApiClientProofs`, `AdapterProofs`, `StartupProofs` | | the theorems (section 5) |
| `MC*` | | values for TLC |

State and code:

- `job[c]` in `Scheduler` is the next call of the goroutine of `c`: `New` (no goroutine yet),
  `Idle` (waiting for the ticker), `list`, `fail` (`publishError`), `monitor` and
  `register` (the two listeners), each with a metric type, and `Sync`
  (`syncDone.Do(wg.Done)`).
- `wg` and `syncDone` are the `WaitGroup` and the `Once` of each job; `main` is
  where `main()` is.
- `clientFailures[type][name]` and `clientSuccesses[type][name]` are the maps of
  the monitoring server. Failures are counted up to the threshold: the code
  only compares with it (`>=`), so the counter is exact for every larger value
  (the bound is `FailureThreshold` itself). Successes count up to
  `MaxSuccesses` = 1 for the same reason: the code only asks whether there
  was one.
- `known[c]` in `Adapter` is the namer the client keeps after a listing, with the names
  under which the client finds a metric afterwards; before the first listing it is a nil interface. For another
  metrics server these are all the names it lists. So they are for an Elasticsearch cluster without a `rename`
  directive, whose namer is the identity. With a directive `discoverMetrics` lists a static field without registering it
  (`discovery.go:93`): such a field may be listed and not known. `StaticFields[c]` are the static fields of `c`,
  `Unregistered(c)` those with that exception, and `Discovers` says which lists go with which names.
  `listed[c]` is the local variable of `refreshMetrics` that holds the list;
  `request[r]` is an API request between the lookup and the call of the client, and
  `answer[r]` what the registry returned.
- `metrics`, `indexedMetrics` and `namer` are the fields of the Elasticsearch
  `MetricsClient`, `recorder` the maps that a discovery fills before it has the lock.
  `readers` are the requests that hold the read lock; a request that arrives
  while a writer waits or writes is `queued`, as with Go's `sync.RWMutex`, and gets
  the lock when that writer is done. `request[r]` has the name, the field and the
  metadata that `valueFor` found so far.
- `namer` and `holder` in `CustomApiClient` are `customMetricNamer` and who holds the
  mutex; `job` and `request[r]` are where the refresh and the requests are. `listing` is a history
  variable: the list the namer was made from. `announced` is what the registry has of the client.
- `file`, `config`, `monitored` and `clients` in `Startup` are the file, what `From` returned,
  what `NewServer` was given and the slice of `newMetricsClients`; `retrieved` and `synced`
  are what the jobs reached.

Abstractions. Metrics and servers are model values: a metric stands for its
whole `CustomMetricInfo` or `ExternalMetricInfo`. In `Adapter` a client's call to its backend
is one step: it holds the client's lock throughout, and only the job
writes what that lock protects; the two client modules show what happens inside. `Adapter` has
the metrics under the names they are listed with, whether a directive made them or not. In the client modules the `rename` directive is any
function `AliasOf`, so that aliases collide, and a new namer is any choice among the names that collide
(the order of registration is that of a Go map, or of the answer); metadata is the metric set to
search in and whether the search is the configured one of a static field (`Search != nil`). In `Configuration` a
regular expression compiles or not, and matches a set of fields. Values, selectors and time
stamps are left out.

## 3. The runs

| Run | Question | Bounds, and why they are enough |
|---|---|---|
| `registry` | do the lists stay well formed, does the registry keep its promise? | three servers, two custom metrics and an external one, one reader. A list of three is the smallest that tells sort order, replacement in place and removal from the middle apart; with two metrics an update can keep one, drop the other. The proofs drop the bound |
| `scheduler` | is the `WaitGroup` exact, is the API served in the end, does a hanging call of one job hold up another? | three jobs: custom only, external only, both |
| `ready_handler` | do the counters say what the history says? does a 200 with its body read later still make sense? | the default threshold (a configured 0 becomes 3), so that failures below, at and after it occur; a server of both types and one of one; one probe at a time. Deadlock is allowed: the runtime may end the process |
| `ready_handler_torn` | *violation*, section 6 | the same, but with a configured threshold of 2, which two errors reach |
| `adapter` | do registry, clients and monitoring agree at all times? what can a request meet, and when is it refused? | an Elasticsearch cluster and an existing adapter of custom metrics with a higher priority, both with a `rename` directive and free to fail and change between any two steps; one metric of each type, the custom one a static field of the cluster. So the cluster lists it always and knows it or not, and the adapter, whose names are all registered, lists it or not: a lookup falls from one to the other and back. Two custom metrics would take TLC beyond its time; `adapter_converges` has two. One request at a time: requests write nothing shared, so a second one adds no behaviour for the first |
| `adapter_converges` | is a failure detected, a recovery too, and does the registry converge? | one server of both types: the interplay of its types is the question. Threshold 2, since a threshold of 1 would hide a lost increment; two custom metrics, so that one can go while the other stays. That several servers are waited for is the question of `scheduler` |
| `adapter_external` | *violation*, section 6 | an Elasticsearch cluster and an existing adapter of both types, one request |
| `es_client` | can a request see half of a discovery, does the client keep its promise, can either side starve? | a server that renames two fields to one alias; one of the fields is in both metric sets and the other is a static field of one of them; two requests of up to two Pods, so that one can queue behind the writer while the other reads, and the writer can come between two Pods |
| `es_static_renamed` | *violation*, section 6 | the same, with one request |
| `custom_api` | does a request ask for what is listed, does the client keep its promise, does anybody starve for the lock? | two resources, two names with one alias, so that an alias collides within a resource and across resources; two custom requests and an external one, so that the refresh and two others can wait for one that calls |
| `startup` | does what is accepted satisfy the assumptions above, and does it select what was written? is the API served in the end? | one entry of every kind the code tells apart; of a few kinds, every file of two entries, also with the same name and with a static field that is wrong in different ways in different orders. Each accepted configuration meets every mapping of up to two fields with objects inside, up to three levels deep, with fields called `type` |
| `startup_panics` | *violation*, section 6 | the same |

Every property has a *mutant* in `PROJECT.json`: a definition of the model
replaced by a variant with a plausible mistake (defined beside it as "Faulty
variant"), with which TLC finds the property violated.

## 4. Fairness

What runs: the Go scheduler runs every goroutine that can run, and a ticker ticks for as long as the
process lives. So every module with liveness has weak fairness of `main()`, of the steps of
the jobs and of the requests that have begun. Requests themselves arrive freely, without end
or not at all, and nothing is assumed of what the backends have.

What may hang: a call to a backend. `refreshMetrics` sets no timeout, the calls of the Elasticsearch client
have none at all (`context.TODO()`), and those of another metrics server have one only if it is
configured. `Scheduler`, `ElasticsearchClient` and `CustomApiClient` therefore have *no* fairness of
calls. Where a property needs them to return it says so in a premise that names exactly the calls it
needs: `Returns(c)` (the job's own, not those of other jobs), `SearchesReturn`
(not the mappings), `CallsReturn`. What remains is what the code does promise: a hanging
job does not stop the other jobs (`KeepsRefreshing`), and a mapping that never comes does not stop the
requests to the same client (`RequestsAnswered`). What it does not promise: `WaitInitialSync` waits
for a hanging client for ever, and a hanging search keeps the discovery waiting, which keeps new
requests out. `Adapter` is about backends that fail rather than hang, and has fairness of a job's calls; `Startup`
takes a backend that is `up` to answer.

Locks. That a waiting writer keeps new readers out, and a leaving writer lets in those that
queued, is how `sync.RWMutex` works and is part of the actions of `ElasticsearchClient`.
`CustomApiClient` has a `sync.RWMutex` too, but takes it only with `Lock`, that is, as the `sync.Mutex` inside it, whose
starvation mode hands the lock to a goroutine that has waited for more than a millisecond; hence strong fairness of the steps that take the lock.

## 5. The proofs

Everything in the eight proof modules is checked by TLAPS, for any sets of servers, names,
metrics, requests and so on. Assumptions on constants are stated, by name, in the module that declares
them, and TLC evaluates them in the runs. The only hypothesis that a theorem adds to them is
`DistinctNames` (no two entries have one name, which `validate` does not check); `ListedAsked` and
`OnlyAdaptersPanic` have one of their own, under which a finding of section 6 cannot occur.

**Registry.** Assumptions: those of `MetricServers` (each server has a name,
a priority of its own, a type); no set need be finite. The inductive
invariant is `TypeOK` with `ListsWellFormed`: every list is non-empty, sorted by
priority, without two servers of the same name. It has to be the
conjunction: removal keeps a list sorted only if it was, and an addition keeps the
names distinct only if a server is *replaced* where its name is found.

- `TypeCorrect`, `AlwaysWellFormed`: no order of updates breaks the invariant.
- `AlwaysABackend`: the internal error of `getBestMetricClient` ("no backend for
  metric") is dead code; a metric whose last server goes away is deleted.
- `KeepsOperations`, `KeepsPromise`: if names are distinct, each operation of `Registry`
  does what `ServedMetrics` says of it, and so `Registry` implements `ServedMetrics`. The proof
  follows an update through its three parts (`removedMetrics`, `addOrUpdateClient`,
  `removeClient`) and shows that together they change the announcement of one
  server only; and that the first of a sorted list is a server of the highest
  priority. `DistinctNames` is necessary: with two entries of one name, which
  `validate` accepts, each replaces the other.
- `KeepsNames` (`NamesKept`): what is left of that promise whatever names are equal. It is about names instead of
  servers (`AnnouncedBy`): an update replaces what its name announces and concerns no other name, and a lookup
  is answered `NotFound` exactly when no name announces the metric.

The supporting lemmas (`MetricClientsProofs`) say that a sorted permutation of a list exists (`SortExists`: by
the rank of each element, since induction over data is not available), what
adding and removing do to the set of servers in a list, and what a whole update
does to a map. They are about maps as values, so that the composition uses them too.

**Scheduler.** The inductive invariant says that `wg` is the number of
jobs that have not completed a refresh. `WaitGroupCounts` (the counter is never negative, and
`Done` is called once for each job) and `ServesAfterSync` follow. `NobodyIsStuck` is the half of
`KeepsRefreshing` and `EventuallyServing` that needs no fairness: from the moment `main()` waits every job
has a next call, of a type of its entry, whatever failed before; and `main()` waits
for a client that has completed no refresh, or not at all.

**Monitoring.** Two invariants, one for each question. `CountersFit`: the failures of a server's
name are the number of errors that its recorded outcomes *end* with (`Counts`), and a success was counted exactly
for the types that were retrieved. With distinct names `ReadinessIsHistory` follows for any number
of servers and any threshold; two servers of one name would share a counter. `ProbeFits`: what a 200 was
decided on, that nothing is missing, is never taken back, and the probe reads only entries of the map it is
at. `NeverShowsMissing` follows, with no condition on names.

**Elasticsearch client.** Assumptions: those on the constants in `ElasticsearchClient` (any number of
metric sets, fields, requests and Pods; without a directive every name is its own
alias). The heart of the inductive invariant `IInv` is `MapsFit`: the same fields are
listed and have metadata, each metadata is of a set that selects or declares the
field, a field of a mapping is listed under its alias, which is registered, and every alias
leads to a field that is listed under it. The recorder's maps always fit (`RecorderFits`); the
client's maps fit except between the three assignments
(`StoreFits`), when nobody reads (`LockExact`). From there:

- `SearchesCurrent`: what a request found is still true when Elasticsearch answers.
- `AliasAlwaysHasMetadata`: with a `rename` directive, `valueFor` never returns "no metadata".
- `SearchesRight`: a search is made in a set of its field; only a static field has its own.
- `MappedAsked`: a field of a mapping can be asked for under the name it is listed with.
- `ListedAsked`: *everything* listed can be asked for, if a server that renames has no static
  fields. The hypothesis is necessary: see `es_static_renamed` below.
- `LockIsServed`: who holds the read lock is reading, nobody reads while the maps are replaced, and no
  request stays queued once the writer is gone. This is the safety half of `WriterGetsLock` and
  `RequestsAnswered`: nothing waits on a free lock.
- `KeepsPromise`: the client implements `MetricsClient`. Each step maps to
  one of the abstract client or changes nothing that a user sees: the first two of the three assignments
  happen while nobody asks, and the abstract `Refresh` may take any of their intermediate states.

**Custom metrics API client.** The inductive invariant says that the lock is held exactly over the assignment of
the namer and over each call (`LockExact`), that requests come after the first namer (`NamerSet`), that
each namer is made of the names of its listing (`AliasesFit`), and that what is being asked for is what
the namer leads to (`AsksCurrent`). `TypeCorrect`, `AlwaysAsksListed`, `LockHeldByOne` (that is, `LockExact`) and
`KeepsPromise` (it implements `MetricsClient`) follow. `NamerSet` is what keeps custom requests from the nil namer that external ones meet.

**Composition.** Assumptions: the configuration has finitely many entries (`ClientAssumption`), the configured threshold is
a natural number (`ThresholdAssumption`), and only Elasticsearch clusters have static fields (`StaticFieldsAssumption`, which
`validate` sees to). Any clients may rename, those of Elasticsearch included. First that the composition implements its parts:
`ImplementsScheduler`, `ImplementsRegistry` and `ImplementsMonitoring` say that each of its behaviours, seen
from one component, is a behaviour of that component's own module. The first needs no
invariant: each step of `Adapter` is one of `Scheduler` or leaves it alone. The others do, since
`Registry` and `Monitoring` may be told only what the entry of a client serves.

What relates the components is the inductive invariant `IInv`, the conjunction of
the scheduler's invariant and of `Fits`. Its heart is `JobsFit`: *what a job does next fits what was done
before*. What its listeners are about to be told is what was listed, which for custom metrics is what the
namer knows and static fields it may not know (`KnowsListed`, `ListingFits`); it asks only for the types of its entry (`TypeFits`); and it gets
past a type, and to the end of its refresh, only when the monitoring server has counted a success of that
type and the namer is set (`RefreshFits`). `ServersFit` adds that whoever is in the registry can
answer, and `RequestsFit` that this stays so between the lookup and the call, during which the registry may have
changed. TLC checked `IInv` on the bounds of `adapter`, with distinct and with equal names, before it was proved.

- `ReachesAServer`: the order listing, registry, API keeps requests from a nil namer. It holds whatever
  names clients share: nothing ever makes a namer nil again.
- `ServesRetrieved`: `/readyz` has counted every type of every client when the API starts.
- `MatchesClients`: with distinct names, and but between a listing and the update of the registry, the registry sends to
  a client *all* the custom metrics its namer knows, and nothing else but the static fields of an Elasticsearch
  cluster that renames. The exception is the finding `es_static_renamed`. With equal names the first half is false: a client takes
  the place of the other.
- `SendsOnlyKnown`: with any names, a request for a custom metric is not found or goes to a client that knows the
  metric, or has it as such a static field, or has just listed others and is about to tell the registry. The two share one
  induction (`InStep`): what the registry sends to a client is part of what the client lists, whatever the names, since an
  update gives nothing to another client (`UpdateGivesNobodyElse`); it is all of it when names are distinct.
- `RefusesOnlyGone`: the window between the lookup and the call. A client that the registry chose answers "unknown" only when
  a refresh came in between (the registry does not send it the metric any more, or is about to be told), or for such a
  static field. It follows from `InStep` at the time of the call.
- `WhatRequestsReturn`: what an API request ends with. For a custom metric: not found, asked, or unknown to the
  client, and never the internal error of the registry. For an external metric: not found or a panic, and never an
  answer, as `adapter_external` shows in one instance.
- `OnlyAdaptersPanic`: if every entry is an Elasticsearch cluster or has no external metrics
  (`NoExternal`), no request panics. This is how to configure around `adapter_external`.
- `LooksUpBest`: with distinct names, a lookup is never worse than a settled client that knows the metric.
  It follows from `MatchesClients` and from the order of the lists.

A theorem of an instance cannot be cited with this version of tlapm, so that the facts about `Scheduler`
and `Monitoring` that the composition uses are proved once more, of `Sched` and `Mon`; those about the
maps of the registry are lemmas of `MetricClientsProofs`, and `SameRegistry` says that the instance's operators
are the same.

**Startup.** Assumption: a file is a sequence of entries, of any length, each with any metric sets (`FileAssumption`). The
inductive invariant says that a configuration that was returned is `From` of an accepted file, that the
clients are entries of it, each once, and all of them from `WaitInitialSync` on, and that a client in `synced` was
retrieved for all its types. From it:

- `AcceptsAsAssumed`: the assumptions of `MetricServers` hold of every accepted file.
- `WaitsForWhatIsRefreshed`: what `NewServer` counts, from the file, is what the jobs of the clients refresh. An
  entry the switch of `newMetricsClients` passes over would break this; `validate` accepts none.
- `ServesAllEntries`: the API is served only when all entries of the file, and all their types, were retrieved.
- `SelectsWhatIsWritten`: the default field set and the compilation in place neither lose nor add a field. It is
  the part of `RecordsWhatIsConfigured` that does not depend on the walk.
- `PanicsOnlyForTemplates`: if the process panics, the file has an Elasticsearch cluster with custom metrics and a
  static field whose body is no template. Which field decides is the first one that is wrong, in the order of the file;
  that there is a first one is `FirstField`.
- `UsableGoesOn`: if all entries are `Usable`, the file is accepted, each client is built, no refresh panics, and one
  whose backend answers goes to its end. It is the safety half of `UsableIsServed`.

**Only model-checked.** Liveness, for fairness and `ENABLED` are beyond the prover: `KeepsRefreshing`, `EventuallyServing`,
`DetectsFailure`, `Recovers`, `Converges`, `WriterGetsLock`, `RequestsAnswered` (both clients), `RefreshCompletes` and
`UsableIsServed`. What can be said of some of them without fairness is proved: `NobodyIsStuck`, `LockIsServed`,
`LockHeldByOne`, `UsableGoesOn`. And `RecordsWhatIsConfigured`, which is about the recursive walk through a mapping: it needs induction over
the document.

## 6. Findings

Each is a behaviour TLC found; after it, what the proofs say of when it can occur.

- `adapter_external`. `README.md:95` says that metrics served by a third-party metric
  server can be exposed, and `registry` lists and routes the external ones.
  But `GetExternalMetric` (`pkg/client/custom_api/client.go:222`) reads
  `externalMetricNamer`, to which no code ever gives a value: the request
  dereferences a nil interface. No external metric is ever answered (`WhatRequestsReturn`); without
  entries that register one nothing panics (`OnlyAdaptersPanic`).
- `ready_handler_torn`. `/readyz` encodes its response from the live maps after
  `isReadyAndHealthy` released the lock: an error reported in between gives a status 200
  whose body shows a server at the threshold (the maps are also read while they
  may be written, which the Go runtime may detect and end the process). What a 200 does not show is
  a server that was never retrieved (`NeverShowsMissing`).
- `es_static_renamed`. `discoverMetrics` (`pkg/client/elasticsearch/discovery.go:93`) lists a static field
  under its name but does not register it with the namer. With a `rename` directive the namer
  is not the identity, so that `valueFor` answers each request for it with "metric name alias ...
  not found", although `README.md:36` calls the name that "as it will be exposed to Kubernetes".
  Without a directive, or without static fields, all that is listed can be asked for (`ListedAsked`). In the
  composition the registry sends such requests on (the run `adapter` has one): it is the one way for a settled client to be sent
  a metric that it refuses (`MatchesClients`, `RefusesOnlyGone`).
- `startup_panics`. `pkg/config/config.go:156` says "Ensure that configuration is valid", but the body of a
  static field's search is compiled only in the discovery, with `template.Must` (`discovery.go:76`): a malformed one
  panics in the goroutine of the job and ends the process. A malformed `rename` expression or jq path, which is
  not validated either, fails every refresh of its server, so that the API is served for none. Nothing
  else of an accepted file ends the process with a panic of a refresh (`PanicsOnlyForTemplates`), and a file without such mistakes is
  served (`UsableGoesOn`, `UsableIsServed`).

## 7. Not modelled, and why

- The 17,485 lines of generated OpenAPI definitions, of 20,721 lines in all: constants. They are
  why the mapped share of the repository is small; of the hand-written code outside tests, fixtures,
  logs and traces most is mapped.
- Values: the conversion of what a search found to a quantity, time stamps, and
  the overflow of `int64(value*1000.0)`, whose result Go leaves to the architecture. The repository states no
  range of values to check.
- The text of queries, templates and jq paths: they are well formed or not.
- Which credentials, certificates and timeouts `NewRestClientConfig` copies from where: input and
  output of one function. Whether it refuses an entry is modelled.
- `ReadinessProbe` is read from the YAML key `failureThreshold` (`pkg/config/config.go:72`), so that the threshold is
  written `failureThreshold: {failureThreshold: 5}`. No document shows the key; the threshold is a constant here.
- A negative threshold, which `From` accepts: no count of failures is below it, so that an adapter with an entry is
  never ready. `ThresholdAssumption` leaves it out.
- Answers of the wrong shape: a mapping whose parts are not JSON objects panics in the type assertions of
  `discovery.go:140` and `:206`. The environment of `MappingDocument` is what Elasticsearch writes.
- What a listing that never returns should lead to: `refreshMetrics` then reports neither an error nor a success, and nothing
  in the repository says that it is to be noticed. The liveness properties have its return as a premise (section 4).
- A field that is itself called `properties`: `Walk` takes it for the structure of the mapping.
  `RecordsWhatIsConfigured` is about the other names. Mappings whose JSON has types Elasticsearch never
  writes are left out too.
- `WithClients` of the scheduler called after listeners were set, which `main()` does not do.
- Prometheus metrics, logs, traces, profiling: nothing reads them back.
- The Kubernetes API server library, Elasticsearch, client-go: code outside the repository. A request is
  what reaches the provider; what is used of them is marked external.

## 8. Plan

Done: servers; registry with its abstract specification, with distinct and with equal names; scheduler;
monitoring and the readiness handler; the composition; both clients with their common abstract specification; the
outcomes of a search; configuration, startup and the walk through a mapping. Proofs of every
component, of the composition and of startup; each invariant that a run checks is a theorem, but for the walk's, and
each finding has a theorem about what it takes.

Left:

1. The calls of the clients in `Adapter`. A call is one step there, two in `MetricsClient`, so that `Adapter` does not
   implement `MetricsClient` as it stands: its `Call` would have to be split in two, with the lock of the client in between.
   That the step abstracts theirs (the lock is held throughout, `known` is what `valueFor` finds, with the exception of
   `Unregistered`) is an argument of section 2, not a theorem.
2. `Startup` in terms of `Scheduler`: its refresh is one step, where `Scheduler` has up to seven. Here
   `Startup` is the more abstract one, with the files that `Scheduler` does not know.
3. The liveness properties, once the prover can reason about `ENABLED`.
