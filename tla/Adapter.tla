------------------------------ MODULE Adapter ------------------------------
(***************************************************************************)
(* The adapter: the jobs of the scheduler refresh the clients and tell the *)
(* monitoring server, then the registry; API requests look a client up in  *)
(* the registry (pkg/provider) and call it.  The components are the        *)
(* modules Scheduler, Registry and Monitoring; this one adds the clients   *)
(* (pkg/client) and the backends they ask.                                 *)
(*                                                                         *)
(* A client call is one step.  It holds the client's lock from the lookup  *)
(* of the alias to the answer of the backend, and nothing but the job of   *)
(* the client writes what the lock protects.                               *)
(***************************************************************************)
EXTENDS MetricServers, Integers, Sequences, FiniteSets

CONSTANTS
    CustomMetric, ExternalMetric,
    Request,              \* the API requests that may be in flight
    ConfiguredThreshold,
    Renames,              \* the clients with a `rename` directive
    StaticFields          \* StaticFields[c]: the fields with a search of their own

ASSUME ClientAssumption == IsFiniteSet(Client)

ASSUME RenamesAssumption == Renames \subseteq Client

\* validate() refuses metricSets, where these are, for other metrics servers.
ASSUME StaticFieldsAssumption ==
    /\ StaticFields \in [Client -> SUBSET CustomMetric]
    /\ \A c \in Client : ServerType[c] = "custom" => StaticFields[c] = {}

\* A negative one is accepted too: then no adapter with an entry is ever ready.
ASSUME ThresholdAssumption == ConfiguredThreshold \in Nat

VARIABLES
    main, job, wg, syncDone,            \* Scheduler
    customMetrics, externalMetrics,     \* Registry
    answer,                             \* what the registry told a request
    clientFailures, clientSuccesses,    \* Monitoring
    backend,  \* backend[c][t]: what the backend of c would list, or down
    listed,   \* listed[c]: what the last listing returned to the job
    known,    \* known[c]: the custom metrics the namer of the client knows
    request   \* request[r]: where the request is, or what it returned

schedVars == <<main, job, wg, syncDone>>
registryVars == <<customMetrics, externalMetrics>>
monVars == <<clientFailures, clientSuccesses>>
clientVars == <<listed, known>>
vars == <<schedVars, registryVars, monVars, clientVars, answer, backend, request>>

Sched == INSTANCE Scheduler
Reg   == INSTANCE Registry WITH Reader <- Request
Mon   == INSTANCE Monitoring

\* A client of Elasticsearch answers ListExternalMetrics without asking.
Asks(c, type) ==
    HasType(c, type) /\ ~(ServerType[c] = "elasticsearch" /\ type = "external")

\* What a listing finds: the metrics it lists, and the names among them that the
\* client can be asked for afterwards.
Found(infos, names) == [up |-> TRUE, infos |-> infos, names |-> names]
Down     == [up |-> FALSE, infos |-> {}, names |-> {}]
NotAsked == Found({}, {})

\* A static field is listed but not registered with the namer, and only the
\* namer of a client without a `rename` directive knows it nevertheless.
Unregistered(c) == IF c \in Renames THEN StaticFields[c] ELSE {}

\* All static fields are listed, except that under a `rename` directive a field
\* of a mapping takes the place of the static field it is called after.
Discovers(c, infos, names) ==
    /\ names \subseteq infos /\ infos \ names \subseteq Unregistered(c)
    /\ StaticFields[c] \subseteq infos \/ (c \in Renames /\ names # {})

Backends(c, type) ==
    IF ~Asks(c, type) THEN {NotAsked}
    ELSE {Down} \cup
         IF type = "custom"
         THEN {b \in {Found(infos, names) : infos, names \in SUBSET CustomMetric} :
                  Discovers(c, b.infos, b.names)}
         ELSE {Found(infos, {}) : infos \in SUBSET ExternalMetric}

\* The namer of a client, which before the first listing is a nil interface.
Namer(names) == [up |-> TRUE, names |-> names]
NilNamer     == [up |-> FALSE, names |-> {}]

Idle == [at |-> "idle", outcome |-> "none", type |-> "custom"]

Init ==
    /\ Sched!Init /\ Reg!Init /\ Mon!Init
    /\ backend \in [Client -> [custom   : UNION {Backends(c, "custom") : c \in Client},
                              external : UNION {Backends(c, "external") : c \in Client}]]
    /\ \A c \in Client, t \in MetricType : backend[c][t] \in Backends(c, t)
    /\ listed = [c \in Client |-> {}]
    /\ known = [c \in Client |-> NilNamer]
    /\ request = [r \in Request |-> Idle]

-----------------------------------------------------------------------------
(* The backends: other servers, which come and go and change. *)

BackendChanges(c, type) ==
    /\ \E b \in Backends(c, type) \ {backend[c][type]} :
          backend' = [backend EXCEPT ![c][type] = b]
    /\ UNCHANGED <<schedVars, registryVars, monVars, clientVars, answer, request>>

-----------------------------------------------------------------------------
(* main() and the jobs *)

Main ==
    /\ Sched!Main
    /\ UNCHANGED <<registryVars, monVars, clientVars, answer, backend, request>>

Tick(c) ==
    /\ Sched!Tick(c)
    /\ UNCHANGED <<registryVars, monVars, clientVars, answer, backend, request>>

\* Faulty variant: the client keeps its first namer.
ListCustomMetricInfosOnce(c) ==
    LET found == backend[c].custom
    IN  \/ /\ found.up
           /\ Sched!ListSucceeds(c, "custom")
           /\ listed' = [listed EXCEPT ![c] = found.infos]
           /\ known' = IF known[c].up THEN known
                     ELSE [known EXCEPT ![c] = Namer(found.names)]
        \/ /\ ~found.up
           /\ Sched!ListFails(c, "custom")
           /\ UNCHANGED clientVars

\* Faulty variant: the list is added to the one before, the namer is new.
ListCustomMetricInfosMerged(c) ==
    LET found == backend[c].custom
    IN  \/ /\ found.up
           /\ Sched!ListSucceeds(c, "custom")
           /\ listed' = [listed EXCEPT ![c] =
                 found.infos \cup known[c].names]
           /\ known' = [known EXCEPT ![c] = Namer(found.names)]
        \/ /\ ~found.up
           /\ Sched!ListFails(c, "custom")
           /\ UNCHANGED clientVars

\* Faulty variant: the client keeps no namer, as for external metrics.
ListCustomMetricInfosNever(c) ==
    LET found == backend[c].custom
    IN  /\ UNCHANGED known
        /\ \/ /\ found.up
              /\ Sched!ListSucceeds(c, "custom")
              /\ listed' = [listed EXCEPT ![c] = found.infos]
           \/ /\ ~found.up
              /\ Sched!ListFails(c, "custom")
              /\ UNCHANGED listed

\* Listing custom metrics makes a new namer, which the client keeps.  The two
\* kinds of clients differ in what they register with it (see Discovers).
ListCustomMetricInfos(c) ==
    LET found == backend[c].custom
    IN  \/ /\ found.up
           /\ Sched!ListSucceeds(c, "custom")
           /\ listed' = [listed EXCEPT ![c] = found.infos]
           /\ known' = [known EXCEPT ![c] = Namer(found.names)]
        \/ /\ ~found.up
           /\ Sched!ListFails(c, "custom")
           /\ UNCHANGED clientVars

\* Listing external metrics makes none.
ListExternalMetrics(c) ==
    LET found == backend[c].external
    IN  /\ UNCHANGED known
        /\ \/ /\ found.up
              /\ Sched!ListSucceeds(c, "external")
              /\ listed' = [listed EXCEPT ![c] = found.infos]
           \/ /\ ~found.up
              /\ Sched!ListFails(c, "external")
              /\ UNCHANGED listed

List(c) ==
    /\ ListCustomMetricInfos(c) \/ ListExternalMetrics(c)
    /\ UNCHANGED <<registryVars, monVars, answer, backend, request>>

PublishError(c, type) ==
    /\ Sched!PublishError(c, type)
    /\ Mon!OnError(c, type)
    /\ UNCHANGED <<registryVars, clientVars, answer, backend, request>>

NotifyMonitoring(c, type) ==
    /\ Sched!NotifyMonitoring(c, type)
    /\ Mon!Update(c, type)
    /\ UNCHANGED <<registryVars, clientVars, answer, backend, request>>

NotifyRegistry(c, type) ==
    /\ Sched!NotifyRegistry(c, type)
    /\ IF type = "custom" THEN Reg!UpdateCustomMetrics(c, listed[c])
                          ELSE Reg!UpdateExternalMetrics(c, listed[c])
    /\ UNCHANGED <<monVars, clientVars, answer, backend, request>>

CompleteRefresh(c) ==
    /\ Sched!CompleteRefresh(c)
    /\ UNCHANGED <<registryVars, monVars, clientVars, answer, backend, request>>

Job(c) ==
    \/ Tick(c)
    \/ List(c)
    \/ \E type \in MetricType :
          \/ PublishError(c, type)
          \/ NotifyMonitoring(c, type)
          \/ NotifyRegistry(c, type)
    \/ CompleteRefresh(c)

-----------------------------------------------------------------------------
(* An API request: the aggregation provider asks the registry for a client, *)
(* then calls that client with the metric.                                  *)

\* Faulty variant: the error of the registry is not looked at.
LookupIgnoreError(r, type, m) ==
    /\ main = "serving"
    /\ request[r].at = "idle"
    /\ IF type = "custom" THEN Reg!GetCustomMetricClient(r, m)
                          ELSE Reg!GetExternalMetricClient(r, m)
    /\ request' = [request EXCEPT ![r] = [at |-> "call", type |-> type, metric |-> m]]
    /\ UNCHANGED <<schedVars, monVars, clientVars, backend>>

Lookup(r, type, m) ==
    /\ main = "serving"
    /\ request[r].at = "idle"
    /\ IF type = "custom" THEN Reg!GetCustomMetricClient(r, m)
                          ELSE Reg!GetExternalMetricClient(r, m)
    /\ request' = [request EXCEPT ![r] =
          IF answer'[r].kind = "client"
          THEN [at |-> "call", type |-> type, metric |-> m]
          ELSE [at |-> "idle", type |-> type, outcome |-> answer'[r].kind]]
    /\ UNCHANGED <<schedVars, monVars, clientVars, backend>>

\* GetMetricByName, GetMetricBySelector.  A namer without a rename directive
\* knows any name; the client of Elasticsearch also wants its own metadata.
CustomOutcome(c, m) ==
    IF ~known[c].up THEN "panic"
    ELSE IF m \in known[c].names THEN "asked"
    ELSE IF ServerType[c] = "elasticsearch" \/ c \in Renames THEN "unknown"
    ELSE "asked"

\* GetExternalMetric.  No code gives externalMetricNamer a value.
ExternalOutcome(c) ==
    IF ServerType[c] = "elasticsearch" THEN "nil" ELSE "panic"

Call(r) ==
    /\ request[r].at = "call"
    /\ LET c == answer[r].client
           t == request[r].type
       IN  request' = [request EXCEPT ![r] =
             [at |-> "idle", type |-> t,
              outcome |-> IF t = "custom" THEN CustomOutcome(c, request[r].metric)
                                          ELSE ExternalOutcome(c)]]
    /\ UNCHANGED <<schedVars, registryVars, monVars, clientVars, answer, backend>>

-----------------------------------------------------------------------------
Next ==
    \/ \E c \in Client, t \in MetricType : BackendChanges(c, t)
    \/ Main
    \/ \E c \in Client : Job(c)
    \/ \E r \in Request :
          \/ \E m \in CustomMetric : Lookup(r, "custom", m)
          \/ \E m \in ExternalMetric : Lookup(r, "external", m)
          \/ Call(r)

Spec == Init /\ [][Next]_vars

\* Goroutines that can run do, the ticker ticks and backends answer or fail;
\* nothing is asked of the backends' states or of the API clients.
Fairness ==
    /\ WF_vars(Main)
    /\ \A c \in Client : WF_vars(Job(c))
    /\ \A r \in Request : WF_vars(Call(r))

FairSpec == Spec /\ Fairness

-----------------------------------------------------------------------------
Outcomes == {"none", "notFound", "noBackend", "asked", "unknown", "panic", "nil"}

\* The state of the composition has its type; that of each component is
\* described in its own module.
TypeOK ==
    /\ Sched!TypeOK /\ Reg!TypeOK /\ Mon!TypeOK
    /\ \A c \in Client, t \in MetricType : backend[c][t] \in Backends(c, t)
    /\ listed \in [Client -> (SUBSET CustomMetric) \cup (SUBSET ExternalMetric)]
    /\ known \in [Client -> {NilNamer} \cup {Namer(S) : S \in SUBSET CustomMetric}]
    /\ \A r \in Request :
          IF request[r].at = "call"
          THEN answer[r].kind = "client"
          ELSE request[r].at = "idle" /\ request[r].outcome \in Outcomes

ServesCustom(c) == Reg!ServedBy(customMetrics)[c]
ServesExternal(c) == Reg!ServedBy(externalMetrics)[c]

\* The job of c has new custom metrics it has not given to the registry yet.
Publishing(c) == job[c] \in {Sched!At("monitor", "custom"), Sched!At("register", "custom")}

\* The registry and the client agree: outside the window between the listing
\* and the registry's update, the registry sends to a client all the custom
\* metrics whose names the client knows, and no other but the static fields of
\* one that renames, whatever failed in between (discoverMetrics,
\* ListCustomMetricInfos, refreshMetrics, UpdateCustomMetrics).
RegistryMatchesClients ==
    \A c \in Client : ~Publishing(c) =>
        /\ known[c].names \subseteq ServesCustom(c)
        /\ ServesCustom(c) \subseteq known[c].names \cup Unregistered(c)

\* A request that the registry sends on reaches a client that can answer: for a
\* custom metric its namer is not nil any more, since a client is in the registry
\* only after its first listing; for an external one it is not a client of
\* Elasticsearch, whose GetExternalMetric returns neither a list nor an error.
RequestsReachAServer ==
    \A r \in Request : request[r].at = "idle" =>
        /\ request[r].outcome # "nil"
        /\ request[r].type = "custom" => request[r].outcome # "panic"

\* The API runs only when every client has been through one complete refresh:
\* monitoring counts a success for each of its types and its namer is set.
ServingMeansRetrieved ==
    main = "serving" =>
        \A c \in Client :
            Mon!Synced(c) /\ (HasType(c, "custom") => known[c].up)

\* A lookup does at least as well as any client that has settled: when the
\* client knows the metric and is not between two lists, the request goes to
\* it or to a client of higher priority, and never gets a 404.
LookupNotWorseThanKnown ==
    [][\A r \in Request, m \in CustomMetric, c \in Client :
          /\ Lookup(r, "custom", m)
          /\ ~Publishing(c) /\ m \in known[c].names
          => /\ answer'[r].kind = "client"
             /\ Priority[answer'[r].client] >= Priority[c]]_vars

\* A client that the registry chose refuses a request only when a refresh came
\* between the lookup and the call: the registry no longer sends it the metric,
\* or is about to be told.  The static fields of a client of Elasticsearch that
\* renames are the exception (GetCustomMetricClient, valueFor, GetMetricByName).
RefusedOnlyWhenGone ==
    [][\A r \in Request :
          LET c == answer[r].client
              m == request[r].metric
          IN  Call(r) /\ request'[r].outcome = "unknown" =>
                  \/ Publishing(c) \/ m \notin ServesCustom(c)
                  \/ m \in Unregistered(c)]_vars

\* Metrics served by an existing metrics adapter can be requested: asking for
\* an external metric that the registry lists does not panic.
ExternalRequestsNeverPanic ==
    \A r \in Request : request[r].at = "idle" /\ request[r].type = "external"
                          => request[r].outcome # "panic"

-----------------------------------------------------------------------------
BackendUp(c) == \A t \in MetricType : backend[c][t].up

\* A backend that stays down for one type makes the adapter not ready, even
\* when the other type of the same client comes and goes: a failure to list
\* custom metrics ends the refresh, and is counted itself.
DetectsFailure ==
    \A c \in Client, t \in MetricType :
        HasType(c, t) /\ <>[](~backend[c][t].up) => <>[](~Mon!isReadyAndHealthy)

\* When all backends stay up the adapter becomes ready, and stays so.
Recovers ==
    <>[](\A c \in Client : BackendUp(c)) => <>[]Mon!isReadyAndHealthy

\* The registry ends up with what a stable backend lists.  External metrics
\* are refreshed only in the refreshes whose custom metrics succeed.
Converges ==
    \A c \in Client :
        /\ \A S \in SUBSET CustomMetric :
              /\ HasType(c, "custom")
              /\ <>[](backend[c].custom.up /\ backend[c].custom.infos = S)
              => <>[](ServesCustom(c) = S)
        /\ \A S \in SUBSET ExternalMetric :
              /\ HasType(c, "external")
              /\ <>[](BackendUp(c) /\ backend[c].external.infos = S)
              => <>[](ServesExternal(c) = S)
=============================================================================
