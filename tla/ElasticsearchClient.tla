------------------------ MODULE ElasticsearchClient ------------------------
(***************************************************************************)
(* One client of Elasticsearch (pkg/client/elasticsearch): the job         *)
(* discovers metrics while API requests look them up and search.           *)
(*                                                                         *)
(* The discovery reads the mappings without a lock, one metric set after   *)
(* the other, then replaces three maps under the write lock.  A request    *)
(* takes the read lock once for each Pod, and holds it over the search.    *)
(* The lock is Go's sync.RWMutex: a writer that waits keeps new readers    *)
(* out, and lets in, when it is done, those that queued meanwhile.         *)
(*                                                                         *)
(* What a search gives is in the module Query, what the client promises in *)
(* the module MetricsClient.                                               *)
(***************************************************************************)
EXTENDS Query

CONSTANTS
    Name,          \* the names of fields and of metrics
    Renamed,       \* whether the server has a `rename` directive
    AliasOf,       \* AliasOf[f]: the name the directive gives to field f
    LastSet,       \* the metric sets are 1..LastSet
    Static,        \* Static[s]: the static fields of set s
    Selected,      \* Selected[s]: the fields that match a pattern of set s
    Request,
    MaxPods        \* the Pods that match a selector: at most so many

MetricSet == 1..LastSet

ASSUME RenameAssumption ==
    /\ Renamed \in BOOLEAN
    /\ AliasOf \in [Name -> Name]
    /\ ~Renamed => \A f \in Name : AliasOf[f] = f

ASSUME MetricSetsAssumption ==
    /\ LastSet \in Nat \ {0}
    /\ Static \in [MetricSet -> SUBSET Name]
    /\ Selected \in [MetricSet -> SUBSET Name]

ASSUME MaxPodsAssumption == MaxPods \in Nat

VARIABLES
    metrics,         \* field -> name under which it is listed
    indexedMetrics,  \* field -> metadata
    namer,           \* alias -> field, with a `rename` directive
    recorder,        \* the three maps of the discovery in progress
    job,             \* where discoverMetrics and the refresh are
    readers,         \* the requests that hold the read lock
    announced,       \* the metrics the registry has of this client
    request          \* request[r]: where it is, and what it has so far

storeVars == <<metrics, indexedMetrics, namer>>
vars == <<storeVars, recorder, job, readers, announced, request>>

Empty == [f \in {} |-> f]

\* What assigning the entries of one map to another makes of it.
With(old, new) ==
    [x \in DOMAIN old \cup DOMAIN new |-> IF x \in DOMAIN new THEN new[x] ELSE old[x]]
Steps == {"idle", "mapping", "lock", "wait", "metrics", "indexed", "namer",
          "announce"}

\* What is known of a metric: where to search, and if with its own search.
Metadata == [set : MetricSet, search : BOOLEAN]
NoMetadata == [set |-> 0, search |-> FALSE]

Idle == [at |-> "idle", outcome |-> "none"]

Init ==
    /\ metrics = Empty /\ indexedMetrics = Empty /\ namer = Empty
    /\ recorder = [metrics |-> Empty, indexed |-> Empty, namer |-> Empty]
    /\ job = [at |-> "idle", set |-> 1]
    /\ readers = {}
    /\ announced = {}
    /\ request = [r \in Request |-> Idle]

-----------------------------------------------------------------------------
(* The lock *)

Writing == job.at \in {"metrics", "indexed", "namer"}
WriterPending == job.at = "wait" \/ Writing

\* Those that queued behind the writer hold the read lock when it is done.
Queued == {r \in Request : request[r].at = "queued"}

Admitted ==
    [r \in Request |-> IF r \in Queued THEN [request[r] EXCEPT !.at = "alias"]
                                       ELSE request[r]]

-----------------------------------------------------------------------------
(* The job *)

StaticFields == UNION {Static[s] : s \in MetricSet}

\* A static field of several sets is that of the last one.
StaticRecord ==
    [metrics |-> [f \in StaticFields |-> f],
     indexed |-> [f \in StaticFields |->
        [set    |-> CHOOSE s \in MetricSet :
                       /\ f \in Static[s]
                       /\ \A t \in MetricSet : f \in Static[t] => t <= s,
         search |-> TRUE]],
     namer   |-> Empty]

\* discoverMetrics begins with the static fields, which need no mapping.
Discover ==
    /\ job.at = "idle"
    /\ job' = [at |-> "mapping", set |-> 1]
    /\ recorder' = StaticRecord
    /\ UNCHANGED <<storeVars, readers, announced, request>>

\* The fields of a mapping come in the order of a Go map: of those with the
\* same alias the last one counts, whichever that is.
Register(fields) ==
    {picked \in [{AliasOf[f] : f \in fields} -> fields] :
        \A a \in DOMAIN picked : AliasOf[picked[a]] = a}

\* Faulty variant: a static field found in a mapping keeps its own search, in
\* the wrong set.
RecordKeepSearch(fields, set, picked) ==
    [metrics |-> With(recorder.metrics, [f \in fields |-> AliasOf[f]]),
     indexed |-> With(recorder.indexed, [f \in fields |->
                    [set |-> set, search |-> f \in DOMAIN recorder.indexed]]),
     namer   |-> With(recorder.namer, picked)]

\* A field of the mapping replaces a static field of the same name.
Record(fields, set, picked) ==
    [metrics |-> With(recorder.metrics, [f \in fields |-> AliasOf[f]]),
     indexed |-> With(recorder.indexed, [f \in fields |->
                    [set |-> set, search |-> FALSE]]),
     namer   |-> With(recorder.namer, picked)]

\* The mapping of a metric set, as it is when it is asked for.
GetMapping ==
    /\ job.at = "mapping"
    /\ \E fields \in SUBSET Selected[job.set] : \E picked \in Register(fields) :
          recorder' = Record(fields, job.set, picked)
    /\ job' = IF job.set < LastSet THEN [job EXCEPT !.set = @ + 1]
                                   ELSE [at |-> "lock", set |-> 1]
    /\ UNCHANGED <<storeVars, readers, announced, request>>

\* One mapping that cannot be read ends the discovery.
GetMappingFails ==
    /\ job.at = "mapping"
    /\ job' = [at |-> "idle", set |-> 1]
    /\ UNCHANGED <<storeVars, recorder, readers, announced, request>>

Lock ==
    /\ job.at = "lock"
    /\ job' = [job EXCEPT !.at = "wait"]
    /\ UNCHANGED <<storeVars, recorder, readers, announced, request>>

\* Faulty variant: the writer does not wait for the readers.
LockedAtOnce ==
    /\ job.at = "wait"
    /\ job' = [job EXCEPT !.at = "metrics"]
    /\ UNCHANGED <<storeVars, recorder, readers, announced, request>>

Locked ==
    /\ job.at = "wait"
    /\ readers = {}
    /\ job' = [job EXCEPT !.at = "metrics"]
    /\ UNCHANGED <<storeVars, recorder, readers, announced, request>>

\* Faulty variant: what was listed before stays listed.
SetMetricsMerged ==
    /\ job.at = "metrics"
    /\ metrics' = With(metrics, recorder.metrics)
    /\ job' = [job EXCEPT !.at = "indexed"]
    /\ UNCHANGED <<indexedMetrics, namer, recorder, readers, announced, request>>

SetMetrics ==
    /\ job.at = "metrics"
    /\ metrics' = recorder.metrics
    /\ job' = [job EXCEPT !.at = "indexed"]
    /\ UNCHANGED <<indexedMetrics, namer, recorder, readers, announced, request>>

SetIndexedMetrics ==
    /\ job.at = "indexed"
    /\ indexedMetrics' = recorder.indexed
    /\ job' = [job EXCEPT !.at = "namer"]
    /\ UNCHANGED <<metrics, namer, recorder, readers, announced, request>>

\* Faulty variant: the new aliases are added to the old ones.
SetNamerMerged ==
    /\ job.at = "namer"
    /\ namer' = With(namer, recorder.namer)
    /\ job' = [job EXCEPT !.at = "announce"]
    /\ readers' = Queued
    /\ request' = Admitted
    /\ UNCHANGED <<metrics, indexedMetrics, recorder, announced>>

\* The last assignment, then the deferred Unlock.
SetNamer ==
    /\ job.at = "namer"
    /\ namer' = recorder.namer
    /\ job' = [job EXCEPT !.at = "announce"]
    /\ readers' = Queued
    /\ request' = Admitted
    /\ UNCHANGED <<metrics, indexedMetrics, recorder, announced>>

\* ListCustomMetricInfos copies the names, which nobody else writes, and the
\* job gives them to the registry.
Listing == {metrics[f] : f \in DOMAIN metrics}

Announce ==
    /\ job.at = "announce"
    /\ announced' = Listing
    /\ job' = [job EXCEPT !.at = "idle"]
    /\ recorder' = [metrics |-> Empty, indexed |-> Empty, namer |-> Empty]
    /\ UNCHANGED <<storeVars, readers, request>>

\* All but the calls to Elasticsearch, which may hang: they have no timeout.
JobProceeds ==
    \/ Discover
    \/ Lock \/ Locked \/ SetMetrics \/ SetIndexedMetrics \/ SetNamer
    \/ Announce

Job == GetMapping \/ GetMappingFails \/ JobProceeds

-----------------------------------------------------------------------------
(* A request.  valueFor is called once for each Pod. *)

Finish(r, outcome) ==
    /\ request' = [request EXCEPT ![r] = [at |-> "idle", outcome |-> outcome]]
    /\ readers' = readers \ {r}

\* GetMetricByName has one Pod; GetMetricBySelector those of the selector.
Begin(r, m, byName, pods) ==
    /\ request[r].at = "idle"
    /\ byName => pods = 1
    /\ request' = [request EXCEPT ![r] =
          IF pods = 0 THEN [at |-> "idle", outcome |-> "values"]
          ELSE [at |-> "rlock", metric |-> m, byName |-> byName, pods |-> pods,
                field |-> m, metadata |-> NoMetadata]]
    /\ UNCHANGED <<storeVars, recorder, job, readers, announced>>

\* Faulty variant: the request reads although the maps are being replaced.
RLockAtOnce(r) ==
    /\ request[r].at = "rlock"
    /\ request' = [request EXCEPT ![r].at = "alias"]
    /\ readers' = readers \cup {r}
    /\ UNCHANGED <<storeVars, recorder, job, announced>>

RLock(r) ==
    /\ request[r].at = "rlock"
    /\ IF WriterPending
       THEN /\ request' = [request EXCEPT ![r].at = "queued"]
            /\ UNCHANGED readers
       ELSE /\ request' = [request EXCEPT ![r].at = "alias"]
            /\ readers' = readers \cup {r}
    /\ UNCHANGED <<storeVars, recorder, job, announced>>

\* Faulty variant: the read lock is not released when the alias is unknown.
GetNameKeepsLock(r) ==
    /\ request[r].at = "alias"
    /\ LET m == request[r].metric
       IN  request' = [request EXCEPT ![r] =
             IF Renamed /\ m \notin DOMAIN namer
             THEN [at |-> "idle", outcome |-> "no alias"]
             ELSE [request[r] EXCEPT !.at = "metadata",
                                     !.field = IF Renamed THEN namer[m] ELSE m]]
    /\ UNCHANGED <<storeVars, recorder, job, readers, announced>>

\* namer.Get: without a directive every name is that of a field.
GetName(r) ==
    /\ request[r].at = "alias"
    /\ LET m == request[r].metric
       IN  IF Renamed /\ m \notin DOMAIN namer
           THEN Finish(r, "no alias")
           ELSE /\ request' = [request EXCEPT ![r].at = "metadata",
                                  ![r].field = IF Renamed THEN namer[m] ELSE m]
                /\ UNCHANGED readers
    /\ UNCHANGED <<storeVars, recorder, job, announced>>

GetMetadata(r) ==
    /\ request[r].at = "metadata"
    /\ LET f == request[r].field
       IN  IF f \notin DOMAIN indexedMetrics
           THEN Finish(r, "no metadata")
           ELSE /\ request' = [request EXCEPT ![r].at = "search",
                                              ![r].metadata = indexedMetrics[f]]
                /\ UNCHANGED readers
    /\ UNCHANGED <<storeVars, recorder, job, announced>>

\* Faulty variant: the list ends one Pod too late.
NextPodOffByOne(r) ==
    IF request[r].pods = 0 THEN Finish(r, "values")
    ELSE /\ request' = [request EXCEPT ![r].at = "rlock", ![r].pods = @ - 1,
                           ![r].field = request[r].metric, ![r].metadata = NoMetadata]
         /\ readers' = readers \ {r}

\* The next Pod, or the end of the list.
NextPod(r) ==
    IF request[r].pods = 1 THEN Finish(r, "values")
    ELSE /\ request' = [request EXCEPT ![r].at = "rlock", ![r].pods = @ - 1,
                           ![r].field = request[r].metric, ![r].metadata = NoMetadata]
         /\ readers' = readers \ {r}

Outcomes(r) == getMetricForPod(request[r].metadata.search)

Found(r) ==
    /\ request[r].at = "search"
    /\ "found" \in Outcomes(r)
    /\ NextPod(r)
    /\ UNCHANGED <<storeVars, recorder, job, announced>>

\* Faulty variant: the error is returned without the deferred RUnlock.
NotFoundKeepsLock(r) ==
    /\ request[r].at = "search"
    /\ "not found" \in Outcomes(r)
    /\ IF request[r].byName
       THEN /\ request' = [request EXCEPT ![r] = [at |-> "idle", outcome |-> "not found"]]
            /\ UNCHANGED readers
       ELSE NextPod(r)
    /\ UNCHANGED <<storeVars, recorder, job, announced>>

\* A Pod without a document is left out of a list.
NotFound(r) ==
    /\ request[r].at = "search"
    /\ "not found" \in Outcomes(r)
    /\ IF request[r].byName THEN Finish(r, "not found") ELSE NextPod(r)
    /\ UNCHANGED <<storeVars, recorder, job, announced>>

\* Any other error ends the request, whatever the other Pods gave: the Pods or
\* the resource are unknown to the API server, or the search fails.
Fails(r) ==
    /\ \/ request[r].at = "rlock"
       \/ request[r].at = "search" /\ "error" \in Outcomes(r)
    /\ Finish(r, "error")
    /\ UNCHANGED <<storeVars, recorder, job, announced>>

Search(r) == Found(r) \/ NotFound(r) \/ Fails(r)

Proceed(r) == RLock(r) \/ GetName(r) \/ GetMetadata(r)

-----------------------------------------------------------------------------
\* The registry sends only the metrics it knows.
Requests ==
    \E r \in Request :
        \/ \E m \in announced, byName \in BOOLEAN, pods \in 0..MaxPods :
              Begin(r, m, byName, pods)
        \/ Proceed(r)
        \/ Search(r)

Next == Job \/ Requests

Spec == Init /\ [][Next]_vars

\* The job and the requests that have begun run.  Nothing is asked of
\* Elasticsearch: neither a mapping nor a search need come back.
FairSpec ==
    /\ Spec
    /\ WF_vars(JobProceeds)
    /\ \A r \in Request : WF_vars(Proceed(r))

-----------------------------------------------------------------------------
Map(Value) == UNION {[S -> Value] : S \in SUBSET Name}

IdleRequest ==
    [at : {"idle"}, outcome : {"none", "values", "not found", "error",
                               "no alias", "no metadata"}]

ActiveRequest ==
    [at : {"rlock", "queued", "alias", "metadata", "search"},
     metric : Name, field : Name, byName : BOOLEAN, pods : 1..MaxPods,
     metadata : {NoMetadata} \cup Metadata]

\* The state has its type.
TypeOK ==
    /\ metrics \in Map(Name) /\ indexedMetrics \in Map(Metadata) /\ namer \in Map(Name)
    /\ recorder \in [metrics : Map(Name), indexed : Map(Metadata), namer : Map(Name)]
    /\ job \in [at : Steps, set : MetricSet]
    /\ readers \subseteq Request
    /\ announced \subseteq Name
    /\ request \in [Request -> IdleRequest \cup ActiveRequest]

\* A request uses what the client knows for as long as it searches: the
\* field and the metadata it found under the read lock are still those of the
\* store when Elasticsearch answers, although a discovery runs meanwhile
\* (valueFor, discoverMetrics).
SearchesCurrentMetadata ==
    \A r \in Request : request[r].at = "search" =>
        /\ request[r].field \in DOMAIN indexedMetrics
        /\ request[r].metadata = indexedMetrics[request[r].field]
        /\ Renamed => /\ request[r].metric \in DOMAIN namer
                      /\ namer[request[r].metric] = request[r].field

\* With a `rename` directive, an alias the namer knows always has metadata:
\* the two maps are never of two discoveries, and mapping and static fields
\* never leave one without the other.
AliasHasMetadata ==
    Renamed => \A r \in Request : request[r].at = "idle" =>
                                     request[r].outcome # "no metadata"

\* A field of a mapping can be asked for under the name it is listed with:
\* whenever the lock is free that name leads to a field listed under it, which
\* has metadata, even when fields share an alias or one of them is a static
\* field of another set (discoverMetrics, _processMappingDocument).
MappedCanBeAsked ==
    ~Writing =>
        \A f \in DOMAIN metrics :
            /\ f \in DOMAIN indexedMetrics
            /\ Renamed /\ ~indexedMetrics[f].search =>
                  /\ metrics[f] \in DOMAIN namer
                  /\ namer[metrics[f]] \in DOMAIN metrics
                  /\ metrics[namer[metrics[f]]] = metrics[f]

\* A metric that is listed can be asked for: whenever the lock is free its
\* name leads to a field of that name which has metadata.
ListedCanBeAsked ==
    ~Writing =>
        \A m \in Listing :
            IF Renamed
            THEN /\ m \in DOMAIN namer
                 /\ namer[m] \in DOMAIN indexedMetrics
                 /\ metrics[namer[m]] = m
            ELSE m \in DOMAIN indexedMetrics

\* What is searched in a metric set is a field of that set, with the search of
\* the configuration only if it is one of its static fields.
SearchesRightSet ==
    \A r \in Request : request[r].at = "search" =>
        LET found == request[r].metadata
        IN  request[r].field \in IF found.search THEN Static[found.set]
                                                 ELSE Selected[found.set]

\* No search hangs for ever.
SearchesReturn == \A r \in Request : []<>(request[r].at # "search")

\* A discovery that has the mappings gets the write lock, although requests
\* overlap without end, unless one of their searches hangs.
WriterGetsLock == SearchesReturn => ((job.at = "lock") ~> (job.at = "announce"))

\* Every request is answered although discoveries follow one another, and
\* although a mapping the job asked for may never come: the lock is not held
\* meanwhile.  Only a search that hangs keeps the others waiting.
RequestsAnswered ==
    SearchesReturn =>
        \A r \in Request : (request[r].at # "idle") ~> (request[r].at = "idle")

-----------------------------------------------------------------------------
\* What the client promises (see MetricsClient).  A metric it knows is one
\* whose name leads to metadata; what it asks Elasticsearch for is the field,
\* where the metadata says.
FieldOf(m) == IF Renamed THEN namer[m] ELSE m

Known ==
    {m \in Name : /\ Renamed => m \in DOMAIN namer
                  /\ FieldOf(m) \in DOMAIN indexedMetrics}

Asked(field, metadata) == [field |-> field, metadata |-> metadata]

\* A request as a user of the client sees it.
Seen(q) ==
    CASE q.at = "idle" ->
            [at |-> "idle",
             outcome |-> IF q.outcome \in {"no alias", "no metadata"}
                         THEN "unknown" ELSE q.outcome]
      [] q.at = "search" ->
            [at |-> "asking", metric |-> q.metric,
             target |-> Asked(q.field, q.metadata)]
      [] OTHER -> [at |-> "waiting", metric |-> q.metric]

Promise == INSTANCE MetricsClient WITH
    Metric  <- Name,
    Target  <- [field : Name, metadata : Metadata],
    knows   <- [m \in Known |-> Asked(FieldOf(m), indexedMetrics[FieldOf(m)])],
    request <- [r \in Request |-> Seen(request[r])]

\* The client of Elasticsearch keeps the promise of a metrics client: what it
\* knows is never replaced while a search uses it, and a metric is reported
\* unknown only when it is.
PromiseKept == Promise!Spec
=============================================================================
