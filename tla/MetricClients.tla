--------------------------- MODULE MetricClients ---------------------------
(***************************************************************************)
(* What the registry keeps for the metrics of one type: a map from a       *)
(* metric to the sorted list of the clients that serve it, and what the    *)
(* methods of the registry and of metricClients make of it.                *)
(***************************************************************************)
EXTENDS MetricServers, Sequences, SequencesExt

(***************************************************************************)
(* metricClients: a sorted list of clients.                                *)
(***************************************************************************)
\* sort.Sort with Less: the client of higher priority comes first.
HigherFirst(list) ==
    \A i, j \in DOMAIN list : i < j => Priority[list[i]] > Priority[list[j]]

SortByPriority(list) ==
    CHOOSE sorted \in [DOMAIN list -> ToSet(list)] :
        ToSet(sorted) = ToSet(list) /\ HigherFirst(sorted)

\* Faulty variant: the list is not sorted again.
addOrUpdateClientUnsorted(list, c) ==
    LET found == {i \in DOMAIN list : NameOf[list[i]] = NameOf[c]}
    IN  IF found = {} THEN Append(list, c) ELSE ReplaceAt(list, Min(found), c)

\* A client of that name is replaced where it stands (its priority may be
\* another one), a new one is appended; then the list is sorted.
addOrUpdateClient(list, c) ==
    LET found == {i \in DOMAIN list : NameOf[list[i]] = NameOf[c]}
    IN  SortByPriority(IF found = {} THEN Append(list, c)
                                     ELSE ReplaceAt(list, Min(found), c))

removeClient(list, name) ==
    LET found == {i \in DOMAIN list : NameOf[list[i]] = name}
    IN  IF found = {} THEN list ELSE SortByPriority(RemoveAt(list, Min(found)))

(***************************************************************************)
(* One map of the registry: `metrics` is customMetrics or externalMetrics. *)
(***************************************************************************)
\* Faulty variant: only the best client of each metric is looked at.
getMetricsFromBest(metrics, name) ==
    {m \in DOMAIN metrics : NameOf[metrics[m][1]] = name}

getMetricsFrom(metrics, name) ==
    {m \in DOMAIN metrics : \E c \in ToSet(metrics[m]) : NameOf[c] = name}

\* Faulty variant: a metric nobody serves any more keeps its empty list.
RemoveOutdatedKeepEmpty(metrics, name, infos) ==
    LET outdated == getMetricsFrom(metrics, name) \ infos
    IN  [m \in DOMAIN metrics |->
            IF m \in outdated THEN removeClient(metrics[m], name) ELSE metrics[m]]

\* Faulty variant: what a client no longer serves is not looked for.
RemoveOutdatedNothing(metrics, name, infos) == metrics

\* Metrics the client no longer serves lose it, and go when nobody is left.
RemoveOutdated(metrics, name, infos) ==
    LET outdated == getMetricsFrom(metrics, name) \ infos
        left(m)  == IF m \in outdated THEN removeClient(metrics[m], name)
                                      ELSE metrics[m]
    IN  [m \in {n \in DOMAIN metrics : n \in outdated => left(n) # <<>>} |->
            left(m)]

UpdateMetrics(metrics, c, infos) ==
    LET kept    == RemoveOutdated(metrics, NameOf[c], infos)
        list(m) == IF m \in DOMAIN kept THEN kept[m] ELSE <<>>
    IN  [m \in DOMAIN kept \cup infos |->
            IF m \in infos THEN addOrUpdateClient(list(m), c) ELSE list(m)]

NotFound     == [kind |-> "notFound"]   \* a StatusError, HTTP 404
NoBackend    == [kind |-> "noBackend"]  \* a plain error, HTTP 500
Client200(c) == [kind |-> "client", client |-> c]

\* Faulty variant: the client listed last instead of the first.
GetMetricClientLast(metrics, m) ==
    IF m \notin DOMAIN metrics THEN NotFound
    ELSE IF metrics[m] = <<>> THEN NoBackend
    ELSE Client200(Last(metrics[m]))

GetMetricClient(metrics, m) ==
    IF m \notin DOMAIN metrics THEN NotFound
    ELSE IF metrics[m] = <<>> THEN NoBackend
    ELSE Client200(metrics[m][1])

-----------------------------------------------------------------------------
IsRegistryOf(metrics, Metric) == \E S \in SUBSET Metric : metrics \in [S -> Seq(Client)]

\* However the updates of several clients interleave, the list of a metric
\* is never left empty, ...
Listed(metrics) == \A m \in DOMAIN metrics : metrics[m] # <<>>

\* ... holds at most one client of each name, so that removing a client by
\* its name leaves none behind, ...
OneClientPerName(metrics) ==
    \A m \in DOMAIN metrics : \A i, j \in DOMAIN metrics[m] :
        NameOf[metrics[m][i]] = NameOf[metrics[m][j]] => i = j

\* ... and is sorted, so that the first client is the best one.
BestFirst(metrics) == \A m \in DOMAIN metrics : HigherFirst(metrics[m])

\* Who serves what: the map read from the clients to the metrics.
ServedBy(metrics) ==
    [c \in Client |-> {m \in DOMAIN metrics : c \in ToSet(metrics[m])}]

\* The metrics that some client of each name serves.
AnnouncedBy(metrics) == [n \in Name |-> getMetricsFrom(metrics, n)]

\* What a lookup answers, in terms of what the names announce.
Finds(found, metrics, m) ==
    \/ /\ found = NotFound
       /\ \A n \in Name : m \notin AnnouncedBy(metrics)[n]
    \/ \E c \in Client :
          found = Client200(c) /\ m \in AnnouncedBy(metrics)[NameOf[c]]
=============================================================================
