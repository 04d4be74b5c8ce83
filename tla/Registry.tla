------------------------------ MODULE Registry ------------------------------
(***************************************************************************)
(* The registry (pkg/registry): which clients serve each metric, best      *)
(* client first.  Every update holds the write lock and every read the     *)
(* read lock from its first to its last access, so each is one step.       *)
(***************************************************************************)
EXTENDS MetricClients

CONSTANTS
    CustomMetric,    \* the provider.CustomMetricInfo keys
    ExternalMetric,  \* the provider.ExternalMetricInfo keys
    Reader           \* the callers: the API handlers

VARIABLES
    customMetrics,    \* metric -> metricClients, for the metrics present
    externalMetrics,
    answer            \* answer[r]: what the last call of reader r returned

registryVars == <<customMetrics, externalMetrics>>
vars == <<customMetrics, externalMetrics, answer>>

NoAnswer      == [kind |-> "none"]   \* no call has returned yet
List200(list) == [kind |-> "list", list |-> list]

-----------------------------------------------------------------------------
Init ==
    /\ customMetrics = [m \in {} |-> <<>>]
    /\ externalMetrics = [m \in {} |-> <<>>]
    /\ answer = [r \in Reader |-> NoAnswer]

UpdateCustomMetrics(c, infos) ==
    /\ customMetrics' = UpdateMetrics(customMetrics, c, infos)
    /\ UNCHANGED externalMetrics

UpdateExternalMetrics(c, infos) ==
    /\ externalMetrics' = UpdateMetrics(externalMetrics, c, infos)
    /\ UNCHANGED customMetrics

Answers(r, a) ==
    /\ answer' = [answer EXCEPT ![r] = a]
    /\ UNCHANGED registryVars

GetCustomMetricClient(r, m) == Answers(r, GetMetricClient(customMetrics, m))
GetExternalMetricClient(r, m) == Answers(r, GetMetricClient(externalMetrics, m))

\* Faulty variant: the keys are appended to a slice that already has as many
\* zero values as there are keys.
ListAllCustomMetricsAppended(r) ==
    Answers(r, List200(DOMAIN customMetrics \cup {"zero value"}))

ListAllCustomMetrics(r) == Answers(r, List200(DOMAIN customMetrics))
ListAllExternalMetrics(r) == Answers(r, List200(DOMAIN externalMetrics))

Update ==
    /\ \E c \in Client :
          \/ \E infos \in SUBSET CustomMetric : UpdateCustomMetrics(c, infos)
          \/ \E infos \in SUBSET ExternalMetric : UpdateExternalMetrics(c, infos)
    /\ UNCHANGED answer

Read ==
    \E r \in Reader :
        \/ \E m \in CustomMetric : GetCustomMetricClient(r, m)
        \/ \E m \in ExternalMetric : GetExternalMetricClient(r, m)
        \/ ListAllCustomMetrics(r)
        \/ ListAllExternalMetrics(r)

Next == Update \/ Read

Spec == Init /\ [][Next]_vars

-----------------------------------------------------------------------------
Answer ==
    {NoAnswer, NotFound, NoBackend}
        \cup {Client200(c) : c \in Client}
        \cup {List200(S) : S \in (SUBSET CustomMetric) \cup (SUBSET ExternalMetric)}

\* The two maps associate metrics with lists of clients, and a call returns
\* one of the answers the code can build.
TypeOK ==
    /\ IsRegistryOf(customMetrics, CustomMetric)
    /\ IsRegistryOf(externalMetrics, ExternalMetric)
    /\ answer \in [Reader -> Answer]

\* The structure every method of the registry relies on, whatever the order
\* of the updates of clients that come and go (registry.go, clients.go).
ListsWellFormed ==
    \A metrics \in {customMetrics, externalMetrics} :
        Listed(metrics) /\ OneClientPerName(metrics) /\ BestFirst(metrics)

\* A metric is either unknown (404) or has a client: the internal error of
\* getBestMetricClient() never reaches a caller.
NeverWithoutBackend == \A r \in Reader : answer[r] # NoBackend

-----------------------------------------------------------------------------
\* What the registry promises (see ServedMetrics): a client serves exactly
\* the metrics of its own last update, and a lookup gives the client of
\* highest priority among those that serve the metric.
Promise == INSTANCE ServedMetrics WITH
    servedCustom <- ServedBy(customMetrics),
    servedExternal <- ServedBy(externalMetrics)

PromiseKept == Promise!Spec

\* Each operation does what the promise says of that operation: an update with
\* a list of metrics makes the client serve exactly that list, and a call is
\* answered for the metric it asks for.
OperationsKept ==
    [][/\ \A c \in Client :
             /\ \A S \in SUBSET CustomMetric :
                   UpdateCustomMetrics(c, S) => Promise!AnnounceCustom(c, S)
             /\ \A S \in SUBSET ExternalMetric :
                   UpdateExternalMetrics(c, S) => Promise!AnnounceExternal(c, S)
       /\ \A r \in Reader :
             /\ \A m \in CustomMetric :
                   GetCustomMetricClient(r, m) => Promise!LookupCustom(r, m)
             /\ \A m \in ExternalMetric :
                   GetExternalMetricClient(r, m) => Promise!LookupExternal(r, m)
             /\ ListAllCustomMetrics(r) => Promise!ListCustom(r)
             /\ ListAllExternalMetrics(r) => Promise!ListExternal(r)]_vars

\* What the operations do to and for the names, whether two clients share one
\* or not: an update replaces what its name announces and concerns no other
\* name, and a lookup gives NotFound exactly when no name announces the metric
\* and a client of a name that does otherwise.
ByName ==
    /\ \A c \in Client :
          /\ \A S \in SUBSET CustomMetric : UpdateCustomMetrics(c, S) =>
                /\ AnnouncedBy(customMetrics)' =
                      [AnnouncedBy(customMetrics) EXCEPT ![NameOf[c]] = S]
                /\ AnnouncedBy(externalMetrics)' = AnnouncedBy(externalMetrics)
          /\ \A S \in SUBSET ExternalMetric : UpdateExternalMetrics(c, S) =>
                /\ AnnouncedBy(externalMetrics)' =
                      [AnnouncedBy(externalMetrics) EXCEPT ![NameOf[c]] = S]
                /\ AnnouncedBy(customMetrics)' = AnnouncedBy(customMetrics)
    /\ \A r \in Reader :
          /\ \A m \in CustomMetric : GetCustomMetricClient(r, m) =>
                Finds(answer'[r], customMetrics, m)
          /\ \A m \in ExternalMetric : GetExternalMetricClient(r, m) =>
                Finds(answer'[r], externalMetrics, m)

\* When two entries of the configuration share a name (nothing forbids it), the
\* announcement heard last stands for that name, and no other name loses a metric.
NamesKept == [][ByName]_vars
=============================================================================
