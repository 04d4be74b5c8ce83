--------------------------- MODULE AdapterProofs ---------------------------
(***************************************************************************)
(* Proofs about the adapter, for every configuration file, every finite    *)
(* set of clients and all sets of metrics and requests: the composition    *)
(* implements each of its components, and what it says of the registry,    *)
(* the clients and the API requests together.                              *)
(***************************************************************************)
EXTENDS Adapter, MetricClientsProofs

-----------------------------------------------------------------------------
(* The components seen from the composition.                                *)

\* Each step of the composition is a step of the scheduler or leaves it alone.
LEMMA SchedulerStep == [Next]_vars => [Sched!Next]_(Sched!vars)
<1> SUFFICES ASSUME [Next]_vars PROVE [Sched!Next]_(Sched!vars)
  OBVIOUS
<1> USE DEF Sched!Next, Sched!vars
<1>1. ASSUME NEW c \in Client, NEW t \in MetricType, BackendChanges(c, t)
      PROVE  UNCHANGED Sched!vars
  BY <1>1 DEF BackendChanges, schedVars
<1>2. CASE Main
  BY <1>2 DEF Main
<1>3. ASSUME NEW c \in Client, List(c)
      PROVE  Sched!Next
  <2>1. \E t \in MetricType : Sched!ListSucceeds(c, t) \/ Sched!ListFails(c, t)
    BY <1>3 DEF List, ListCustomMetricInfos, ListExternalMetrics, MetricType
  <2> QED
    BY <2>1 DEF Sched!List, Sched!MetricType, MetricType
<1>4. ASSUME NEW c \in Client, Job(c), ~List(c)
      PROVE  Sched!Next
  <2>1. \/ Sched!Tick(c) \/ Sched!CompleteRefresh(c)
        \/ \E t \in MetricType :
              \/ Sched!PublishError(c, t)
              \/ Sched!NotifyMonitoring(c, t)
              \/ Sched!NotifyRegistry(c, t)
    BY <1>4 DEF Job, Tick, PublishError, NotifyMonitoring, NotifyRegistry,
       CompleteRefresh
  <2> QED
    BY <2>1 DEF Sched!Proceed, Sched!MetricType, MetricType
<1>5. ASSUME NEW r \in Request, NEW type, NEW m, Lookup(r, type, m)
      PROVE  UNCHANGED Sched!vars
  BY <1>5 DEF Lookup, schedVars
<1>6. ASSUME NEW r \in Request, Call(r)
      PROVE  UNCHANGED Sched!vars
  BY <1>6 DEF Call, schedVars
<1>7. CASE UNCHANGED vars
  BY <1>7 DEF vars, schedVars
<1> QED
  BY <1>1, <1>2, <1>3, <1>4, <1>5, <1>6, <1>7 DEF Next

\* The jobs and main() of the adapter behave as the scheduler: what is shown
\* of Scheduler, whatever its listeners do, holds of the adapter.
THEOREM ImplementsScheduler == Spec => Sched!Spec
<1>1. Init => Sched!Init
  BY DEF Init
<1> QED
  BY <1>1, SchedulerStep, PTL DEF Spec, Sched!Spec

-----------------------------------------------------------------------------
(* The invariant of the scheduler, in the composition.                      *)

SchedulerFits == Sched!TypeOK /\ Sched!WaitGroupExact /\ Sched!ServingAfterSync

LEMMA SameCardinality == \A S : Sched!Cardinality(S) = Cardinality(S)
  BY DEF Sched!Cardinality, Cardinality

\* Where a refresh begins, and where it goes after the custom metrics.
LEMMA CallTypes ==
    \A c \in Client : /\ Sched!AfterCustom(c) \in Sched!Steps
                      /\ Sched!FirstCall(c) \in Sched!Steps
  BY
     DEF Sched!AfterCustom, Sched!FirstCall, Sched!Steps, Sched!Sync, Sched!At,
         Sched!MetricType

\* Steps of a job other than the last of a refresh: none touches the counter.
LEMMA SchedulerGoes ==
    ASSUME SchedulerFits, NEW c \in Client, NEW step \in Sched!Steps,
           Sched!Goes(c, step)
    PROVE  SchedulerFits'
<1>1. Sched!TypeOK'
  BY DEF SchedulerFits, Sched!TypeOK, Sched!Goes
<1>2. Sched!Unsynced' = Sched!Unsynced
  BY DEF Sched!Goes, Sched!Unsynced
<1>3. Sched!WaitGroupExact' /\ Sched!ServingAfterSync'
  BY <1>2 DEF SchedulerFits, Sched!WaitGroupExact, Sched!ServingAfterSync, Sched!Goes
<1> QED
  BY <1>1, <1>3 DEF SchedulerFits

LEMMA SchedulerInit == Sched!Init => SchedulerFits
<1> SUFFICES ASSUME Sched!Init PROVE SchedulerFits
  OBVIOUS
<1>1. Sched!Unsynced = Client
  BY DEF Sched!Init, Sched!Unsynced
<1>2. Sched!TypeOK
  <2>1. Cardinality(Client) \in Nat
    BY ClientAssumption, FS_CardinalityType
  <2> QED
    BY <2>1, SameCardinality DEF Sched!Init, Sched!TypeOK, Sched!Steps
<1> QED
  BY <1>1, <1>2, SameCardinality
     DEF Sched!Init, SchedulerFits, Sched!WaitGroupExact, Sched!ServingAfterSync

\* The end of a refresh: the first one of a client takes it out of Unsynced.
LEMMA SchedulerCompletes ==
    ASSUME SchedulerFits, NEW c \in Client, Sched!CompleteRefresh(c)
    PROVE  SchedulerFits'
<1>1. /\ syncDone' = [syncDone EXCEPT ![c] = TRUE] /\ main' = main
      /\ syncDone \in [Client -> BOOLEAN] /\ wg \in Int
  BY DEF Sched!CompleteRefresh, SchedulerFits, Sched!TypeOK
<1>2. Sched!Unsynced' = Sched!Unsynced \ {c}
  BY <1>1 DEF Sched!Unsynced
<1>3. IsFiniteSet(Sched!Unsynced) /\ Cardinality(Sched!Unsynced) \in Nat
  <2>1. Sched!Unsynced \subseteq Client
    BY DEF Sched!Unsynced
  <2> QED
    BY <2>1, ClientAssumption, FS_Subset, FS_CardinalityType
<1>4. wg' = Cardinality(Sched!Unsynced')
  <2>1. CASE syncDone[c]
    <3>1. c \notin Sched!Unsynced
      BY <2>1 DEF Sched!Unsynced
    <3> QED
      BY <1>2, <2>1, <3>1, SameCardinality
         DEF Sched!CompleteRefresh, SchedulerFits, Sched!WaitGroupExact
  <2>2. CASE ~syncDone[c]
    <3>1. c \in Sched!Unsynced
      BY <2>2 DEF Sched!Unsynced
    <3>2. Cardinality(Sched!Unsynced \ {c}) = Cardinality(Sched!Unsynced) - 1
      BY <1>3, <3>1, FS_RemoveElement
    <3> QED
      BY <1>2, <2>2, <3>2, SameCardinality
         DEF Sched!CompleteRefresh, SchedulerFits, Sched!WaitGroupExact
  <2> QED
    BY <2>1, <2>2
<1>5. Sched!TypeOK'
  BY <1>1 DEF Sched!CompleteRefresh, SchedulerFits, Sched!TypeOK, Sched!Steps
<1>6. Sched!ServingAfterSync'
  BY <1>1, <1>2 DEF SchedulerFits, Sched!ServingAfterSync
<1> QED
  BY <1>4, <1>5, <1>6, SameCardinality DEF SchedulerFits, Sched!WaitGroupExact

LEMMA SchedulerMain ==
    ASSUME SchedulerFits, Sched!Main
    PROVE  SchedulerFits'
<1>1. ASSUME NEW c \in Client, Sched!Start(c)
      PROVE  SchedulerFits'
  <2>1. Sched!Goes(c, Sched!FirstCall(c))
    BY <1>1 DEF Sched!Start, Sched!Goes
  <2> QED
    BY <2>1, CallTypes, SchedulerGoes
<1>2. CASE Sched!AllStarted
  BY <1>2, SameCardinality
     DEF Sched!AllStarted, SchedulerFits, Sched!TypeOK, Sched!WaitGroupExact,
         Sched!ServingAfterSync, Sched!Unsynced
<1>3. CASE Sched!WaitInitialSync
  <2>1. Sched!Unsynced = {}
    <3>1. IsFiniteSet(Sched!Unsynced)
      BY ClientAssumption, FS_Subset DEF Sched!Unsynced
    <3> QED
      BY <1>3, <3>1, FS_EmptySet, SameCardinality
         DEF Sched!WaitInitialSync, SchedulerFits, Sched!WaitGroupExact
  <2>2. Sched!Unsynced' = Sched!Unsynced
    BY <1>3 DEF Sched!WaitInitialSync, Sched!Unsynced
  <2> QED
    BY <1>3, <2>1, <2>2, SameCardinality
       DEF Sched!WaitInitialSync, SchedulerFits, Sched!TypeOK,
           Sched!WaitGroupExact, Sched!ServingAfterSync
<1> QED
  BY <1>1, <1>2, <1>3 DEF Sched!Main

LEMMA SchedulerLists ==
    ASSUME SchedulerFits, NEW c \in Client, Sched!List(c)
    PROVE  SchedulerFits'
<1>1. PICK type \in Sched!MetricType : Sched!ListSucceeds(c, type) \/ Sched!ListFails(c, type)
  BY DEF Sched!List
<1>2. Sched!At("monitor", type) \in Sched!Steps /\ Sched!At("fail", type) \in Sched!Steps
  BY DEF Sched!Steps
<1> QED
  BY <1>1, <1>2, SchedulerGoes DEF Sched!ListSucceeds, Sched!ListFails

LEMMA SchedulerProceeds ==
    ASSUME SchedulerFits, NEW c \in Client, Sched!Proceed(c)
    PROVE  SchedulerFits'
<1>1. CASE Sched!Tick(c)
  BY <1>1, CallTypes, SchedulerGoes DEF Sched!Tick
<1>2. ASSUME NEW type \in Sched!MetricType, Sched!PublishError(c, type)
      PROVE  SchedulerFits'
  <2>1. Sched!Idle \in Sched!Steps
    BY DEF Sched!Steps
  <2> QED
    BY <1>2, <2>1, SchedulerGoes DEF Sched!PublishError
<1>3. ASSUME NEW type \in Sched!MetricType, Sched!NotifyMonitoring(c, type)
      PROVE  SchedulerFits'
  <2>1. Sched!At("register", type) \in Sched!Steps
    BY DEF Sched!Steps
  <2> QED
    BY <1>3, <2>1, SchedulerGoes DEF Sched!NotifyMonitoring
<1>4. ASSUME NEW type \in Sched!MetricType, Sched!NotifyRegistry(c, type)
      PROVE  SchedulerFits'
  <2>1. Sched!Sync \in Sched!Steps /\ Sched!AfterCustom(c) \in Sched!Steps
    BY CallTypes DEF Sched!Steps
  <2>2. (IF type = "custom" THEN Sched!AfterCustom(c) ELSE Sched!Sync) \in Sched!Steps
    BY <2>1
  <2> QED
    BY <1>4, <2>2, SchedulerGoes DEF Sched!NotifyRegistry
<1>5. CASE Sched!CompleteRefresh(c)
  BY <1>5, SchedulerCompletes
<1> QED
  BY <1>1, <1>2, <1>3, <1>4, <1>5 DEF Sched!Proceed

LEMMA SchedulerInv == SchedulerFits /\ [Sched!Next]_(Sched!vars) => SchedulerFits'
<1> SUFFICES ASSUME SchedulerFits, [Sched!Next]_(Sched!vars) PROVE SchedulerFits'
  OBVIOUS
<1>1. CASE UNCHANGED Sched!vars
  BY <1>1, SameCardinality
     DEF Sched!vars, SchedulerFits, Sched!TypeOK, Sched!WaitGroupExact,
         Sched!ServingAfterSync, Sched!Unsynced
<1> QED
  BY <1>1, SchedulerMain, SchedulerLists, SchedulerProceeds DEF Sched!Next

-----------------------------------------------------------------------------
\* The registry of the composition computes with the operators of MetricClients.
LEMMA SameRegistry ==
    /\ \A metrics, c, infos :
          Reg!UpdateMetrics(metrics, c, infos) = UpdateMetrics(metrics, c, infos)
    /\ \A metrics, m : Reg!GetMetricClient(metrics, m) = GetMetricClient(metrics, m)
    /\ \A metrics : Reg!ServedBy(metrics) = ServedBy(metrics)
    /\ \A metrics, Metric :
          Reg!IsRegistryOf(metrics, Metric) = IsRegistryOf(metrics, Metric)
    /\ Reg!NotFound = NotFound /\ \A c : Reg!Client200(c) = Client200(c)
<1>1. \A list : Reg!ToSet(list) = ToSet(list)
  BY DEF Reg!ToSet, ToSet
<1>2. \A list : Reg!HigherFirst(list) = HigherFirst(list)
  BY DEF Reg!HigherFirst, HigherFirst
<1>3. \A list : Reg!SortByPriority(list) = SortByPriority(list)
  BY
     DEF Reg!SortByPriority, SortByPriority, Reg!HigherFirst, HigherFirst,
         Reg!ToSet, ToSet
<1>4. \A S : Reg!Min(S) = Min(S)
  BY DEF Reg!Min, Min
<1>5. \A list, i : Reg!RemoveAt(list, i) = RemoveAt(list, i)
  BY DEF Reg!RemoveAt, RemoveAt
<1>6. \A list, i, c : Reg!ReplaceAt(list, i, c) = ReplaceAt(list, i, c)
  BY DEF Reg!ReplaceAt, ReplaceAt
<1>7. \A list, c : Reg!addOrUpdateClient(list, c) = addOrUpdateClient(list, c)
  BY <1>3, <1>4, <1>6 DEF Reg!addOrUpdateClient, addOrUpdateClient
<1>8. \A list, name : Reg!removeClient(list, name) = removeClient(list, name)
  BY <1>3, <1>4, <1>5 DEF Reg!removeClient, removeClient
<1>9. \A metrics, name : Reg!getMetricsFrom(metrics, name) = getMetricsFrom(metrics, name)
  BY <1>1 DEF Reg!getMetricsFrom, getMetricsFrom
<1>10. \A metrics, name, infos :
          Reg!RemoveOutdated(metrics, name, infos) = RemoveOutdated(metrics, name, infos)
  BY <1>8, <1>9 DEF Reg!RemoveOutdated, RemoveOutdated
<1>11. \A metrics, c, infos :
          Reg!UpdateMetrics(metrics, c, infos) = UpdateMetrics(metrics, c, infos)
  BY <1>7, <1>10 DEF Reg!UpdateMetrics, UpdateMetrics
<1>12. \A metrics, m : Reg!GetMetricClient(metrics, m) = GetMetricClient(metrics, m)
  BY DEF Reg!GetMetricClient, GetMetricClient, Reg!NotFound, NotFound,
     Reg!NoBackend, NoBackend, Reg!Client200, Client200
<1>13. \A metrics : Reg!ServedBy(metrics) = ServedBy(metrics)
  BY DEF Reg!ServedBy, ServedBy, Reg!ToSet, ToSet
<1>14. \A metrics, Metric : Reg!IsRegistryOf(metrics, Metric) = IsRegistryOf(metrics, Metric)
  BY DEF Reg!IsRegistryOf, IsRegistryOf
<1>15. Reg!NotFound = NotFound /\ \A c : Reg!Client200(c) = Client200(c)
  BY DEF Reg!NotFound, NotFound, Reg!Client200, Client200
<1> QED
  BY <1>11, <1>12, <1>13, <1>14, <1>15

-----------------------------------------------------------------------------
(* The inductive invariant.  What a job is about to do fits what was done    *)
(* before: `step` is the call the job of c makes next.                       *)

CallSteps == {"list", "monitor", "register", "fail"}

\* A client is asked only for the types of its entry.
TypeFits(c, step) ==
    \A t \in MetricType, s \in CallSteps : step = Sched!At(s, t) => HasType(c, t)

\* The names the namer of c knows are listed, and nothing else is but static
\* fields of a client that renames.
KnowsListed(c) ==
    /\ known[c].up /\ listed[c] \subseteq CustomMetric
    /\ known[c].names \subseteq listed[c]
    /\ listed[c] \subseteq known[c].names \cup Unregistered(c)

\* What the listeners are told is what was listed: with custom metrics those
\* the namer knows, with external ones nothing for a client of Elasticsearch.
ListingFits(c, step) ==
    /\ step \in {Sched!At("monitor", "custom"), Sched!At("register", "custom")}
          => KnowsListed(c)
    /\ step \in {Sched!At("monitor", "external"), Sched!At("register", "external")}
          => /\ listed[c] \subseteq ExternalMetric
             /\ ServerType[c] = "elasticsearch" => listed[c] = {}

Retrieved(c, t) ==
    /\ clientSuccesses[t][NameOf[c]] # 0
    /\ t = "custom" => known[c].up

\* A refresh gets to its end only through the retrieval of all the types.
RefreshFits(c, step) ==
    /\ syncDone[c] \/ step = Sched!Sync =>
          \A t \in MetricType : HasType(c, t) => Retrieved(c, t)
    /\ \A s \in CallSteps : step = Sched!At(s, "external") /\ HasType(c, "custom")
          => Retrieved(c, "custom")
    /\ \A t \in MetricType : step = Sched!At("register", t) => Retrieved(c, t)

JobsFit ==
    \A c \in Client : /\ TypeFits(c, job[c])
                      /\ ListingFits(c, job[c])
                      /\ RefreshFits(c, job[c])

AllBackends == UNION {UNION {Backends(c, t) : t \in MetricType} : c \in Client}

\* What a backend would list is what the client can make of it.
BackendsFit ==
    /\ backend \in [Client -> [MetricType -> AllBackends]]
    /\ \A c \in Client, t \in MetricType : backend[c][t] \in Backends(c, t)

ClientsFit ==
    /\ listed \in [Client -> (SUBSET CustomMetric) \cup (SUBSET ExternalMetric)]
    /\ known \in [Client -> {NilNamer} \cup {Namer(S) : S \in SUBSET CustomMetric}]

MapsFit ==
    /\ IsRegistryOf(customMetrics, CustomMetric) /\ WellFormed(customMetrics)
    /\ IsRegistryOf(externalMetrics, ExternalMetric) /\ WellFormed(externalMetrics)

\* Whether client c can answer a request for metrics of a type.
CanAnswer(c, type) ==
    IF type = "custom" THEN known[c].up ELSE ServerType[c] # "elasticsearch"

\* The clients of the registry can answer for what they are registered.
ServersFit ==
    /\ \A m \in CustomMetric : \A c \in Serving(customMetrics, m) : CanAnswer(c, "custom")
    /\ \A m \in ExternalMetric : \A c \in Serving(externalMetrics, m) : CanAnswer(c, "external")

\* A request that calls a client calls one that can answer.
RequestState ==
    [at : {"call"}, type : MetricType, metric : CustomMetric \cup ExternalMetric]
        \cup [at : {"idle"}, type : MetricType, outcome : Outcomes]

RequestsFit ==
    /\ answer \in [Request -> Reg!Answer]
    /\ request \in [Request -> RequestState]
    /\ \A r \in Request : request[r].at = "call" =>
          \E c \in Client : answer[r] = Client200(c) /\ CanAnswer(c, request[r].type)
    /\ RequestsReachAServer

Fits ==
    /\ Mon!TypeOK /\ MapsFit
    /\ JobsFit /\ BackendsFit /\ ClientsFit /\ ServersFit /\ RequestsFit

IInv == SchedulerFits /\ Fits

-----------------------------------------------------------------------------
\* The calls of a job are told apart by their step and type.
LEMMA Apart ==
    /\ \A s, t, u, v : Sched!At(s, t) = Sched!At(u, v) => s = u /\ t = v
    /\ Sched!New = Sched!At("new", "none")
    /\ Sched!Idle = Sched!At("idle", "none")
    /\ Sched!Sync = Sched!At("sync", "none")
    /\ Sched!MetricType = MetricType
    /\ \A c, t : Sched!HasType(c, t) = HasType(c, t)
<1>1. \A s, t, u, v : Sched!At(s, t) = Sched!At(u, v) => s = u /\ t = v
  BY DEF Sched!At
<1> QED
  BY <1>1 DEF Sched!New, Sched!Idle, Sched!Sync, Sched!MetricType, MetricType,
     Sched!HasType, HasType

\* Where a refresh begins, and where it goes after the custom metrics.
LEMMA Calls ==
    ASSUME NEW c \in Client
    PROVE  /\ \/ Sched!AfterCustom(c) = Sched!Sync /\ ~HasType(c, "external")
              \/ Sched!AfterCustom(c) = Sched!At("list", "external") /\ HasType(c, "external")
           /\ \/ Sched!FirstCall(c) = Sched!At("list", "custom") /\ HasType(c, "custom")
              \/ Sched!FirstCall(c) = Sched!AfterCustom(c) /\ ~HasType(c, "custom")
  BY Apart DEF Sched!AfterCustom, Sched!FirstCall

\* A step of the job of c leaves the other jobs where they fit.
LEMMA JobMoves ==
    ASSUME SchedulerFits, Mon!TypeOK, JobsFit, NEW c \in Client, NEW step,
           job' = [job EXCEPT ![c] = step],
           \A d \in Client \ {c} : /\ listed'[d] = listed[d]
                                   /\ known'[d] = known[d]
                                   /\ syncDone'[d] = syncDone[d],
           \A t \in MetricType : \A n \in Mon!NamesOf(t) :
              clientSuccesses[t][n] # 0 => clientSuccesses'[t][n] # 0,
           TypeFits(c, step), ListingFits(c, step)', RefreshFits(c, step)'
    PROVE  JobsFit'
<1>1. \A d \in Client : job'[d] = IF d = c THEN step ELSE job[d]
  BY DEF SchedulerFits, Sched!TypeOK
<1>2. ASSUME NEW d \in Client \ {c}, NEW t \in MetricType, HasType(d, t), Retrieved(d, t)
      PROVE  Retrieved(d, t)'
  BY <1>2 DEF Retrieved, Mon!NamesOf, Mon!HasType, HasType
<1>3. ASSUME NEW d \in Client \ {c}
      PROVE  (TypeFits(d, job[d]) /\ ListingFits(d, job[d]) /\ RefreshFits(d, job[d]))'
  <2>1. /\ job'[d] = job[d] /\ TypeFits(d, job[d])
        /\ ListingFits(d, job[d]) /\ RefreshFits(d, job[d])
    BY <1>1 DEF JobsFit
  <2>2. TypeFits(d, job[d])'
    BY <2>1 DEF TypeFits
  <2>3. ListingFits(d, job[d])'
    BY <2>1 DEF ListingFits, KnowsListed
  <2>4. \A t \in MetricType : Retrieved(d, t) /\ HasType(d, t) => Retrieved(d, t)'
    BY <1>2
  <2>5. \A t \in MetricType : job[d] = Sched!At("register", t) => HasType(d, t)
    BY <2>1 DEF TypeFits, CallSteps
  <2>6. syncDone'[d] = syncDone[d] /\ "custom" \in MetricType
    BY DEF MetricType
  <2>7. RefreshFits(d, job[d])'
    BY <2>1, <2>4, <2>5, <2>6 DEF RefreshFits
  <2> QED
    BY <2>2, <2>3, <2>7
<1>4. (TypeFits(c, job[c]) /\ ListingFits(c, job[c]) /\ RefreshFits(c, job[c]))'
  <2>1. job'[c] = step
    BY <1>1
  <2> QED
    BY <2>1 DEF TypeFits, ListingFits, RefreshFits
<1> QED
  BY <1>3, <1>4 DEF JobsFit

-----------------------------------------------------------------------------
(* The counters of the monitoring server.                                    *)

LEMMA SameTypes ==
    Mon!MetricType = MetricType /\ \A c, t : Mon!HasType(c, t) = HasType(c, t)
  BY DEF Mon!MetricType, MetricType, Mon!HasType, HasType

LEMMA ThresholdType == Mon!FailureThreshold \in Nat \ {0}
  BY ThresholdAssumption DEF Mon!FailureThreshold, Mon!defaultFailureThreshold

LEMMA CountersInit == Mon!Init => Mon!TypeOK
  BY ThresholdType DEF Mon!Init, Mon!TypeOK, Mon!MaxSuccesses

\* A failure is counted within the threshold, a success resets the counter.
LEMMA FailuresType ==
    ASSUME Mon!TypeOK, NEW c \in Client, NEW t \in MetricType,
           NEW k \in 0..Mon!FailureThreshold,
           clientFailures' = [clientFailures EXCEPT ![t][NameOf[c]] = k]
    PROVE  clientFailures' \in [Mon!MetricType -> [Name -> 0..Mon!FailureThreshold]]
<1>1. NameOf[c] \in Name
  BY NameAssumption
<1>2. clientFailures \in [Mon!MetricType -> [Name -> 0..Mon!FailureThreshold]]
  BY DEF Mon!TypeOK
<1> QED
  BY <1>1, <1>2

LEMMA FailureCounted ==
    ASSUME Mon!TypeOK, NEW c \in Client, NEW t \in MetricType, Mon!OnError(c, t)
    PROVE  Mon!TypeOK' /\ UNCHANGED clientSuccesses
<1> DEFINE k == Mon!Increment(clientFailures[t][NameOf[c]], Mon!FailureThreshold)
<1>1. k \in 0..Mon!FailureThreshold
  <2>1. clientFailures[t][NameOf[c]] \in 0..Mon!FailureThreshold
    BY NameAssumption, SameTypes DEF Mon!TypeOK
  <2> QED
    BY <2>1, ThresholdType DEF Mon!Increment
<1>2. clientFailures' = [clientFailures EXCEPT ![t][NameOf[c]] = k]
  BY DEF Mon!OnError
<1> HIDE DEF k
<1>3. clientFailures' \in [Mon!MetricType -> [Name -> 0..Mon!FailureThreshold]]
  BY <1>1, <1>2, FailuresType
<1> QED
  BY <1>3 DEF Mon!TypeOK, Mon!OnError

LEMMA SuccessCounted ==
    ASSUME Mon!TypeOK, NEW c \in Client, NEW t \in MetricType, HasType(c, t),
           Mon!Update(c, t)
    PROVE  /\ Mon!TypeOK'
           /\ clientSuccesses'[t][NameOf[c]] # 0
           /\ \A u \in MetricType : \A n \in Mon!NamesOf(u) :
                 clientSuccesses[u][n] # 0 => clientSuccesses'[u][n] # 0
<1>1. NameOf[c] \in Mon!NamesOf(t)
  BY SameTypes DEF Mon!NamesOf
<1>2. /\ DOMAIN clientSuccesses = MetricType
      /\ \A u \in MetricType : clientSuccesses[u] \in [Mon!NamesOf(u) -> 0..1]
  BY SameTypes DEF Mon!TypeOK, Mon!MaxSuccesses
<1>3. /\ clientSuccesses'[t] =
            [clientSuccesses[t] EXCEPT ![NameOf[c]] = Mon!Increment(@, Mon!MaxSuccesses)]
      /\ \A u \in MetricType : u # t => clientSuccesses'[u] = clientSuccesses[u]
      /\ DOMAIN clientSuccesses' = MetricType
  BY <1>2 DEF Mon!Update
<1>4. Mon!Increment(clientSuccesses[t][NameOf[c]], Mon!MaxSuccesses) = 1
  BY <1>1, <1>2 DEF Mon!Increment, Mon!MaxSuccesses
<1>5. clientSuccesses'[t] = [clientSuccesses[t] EXCEPT ![NameOf[c]] = 1]
  BY <1>3, <1>4
<1>6. /\ clientSuccesses'[t] \in [Mon!NamesOf(t) -> 0..1]
      /\ clientSuccesses'[t][NameOf[c]] = 1
      /\ \A n \in Mon!NamesOf(t) : n # NameOf[c] =>
            clientSuccesses'[t][n] = clientSuccesses[t][n]
  BY <1>1, <1>2, <1>5
<1>7. \A u \in MetricType : clientSuccesses'[u] \in [Mon!NamesOf(u) -> 0..Mon!MaxSuccesses]
  BY <1>2, <1>3, <1>6 DEF Mon!MaxSuccesses
<1>8. clientFailures' \in [Mon!MetricType -> [Name -> 0..Mon!FailureThreshold]]
  <2>1. clientFailures' = [clientFailures EXCEPT ![t][NameOf[c]] = 0]
    BY DEF Mon!Update
  <2>2. 0 \in 0..Mon!FailureThreshold
    BY ThresholdType
  <2> QED
    BY <2>1, <2>2, FailuresType
<1>9. Mon!TypeOK'
  BY <1>3, <1>7, <1>8, SameTypes DEF Mon!TypeOK
<1> QED
  BY <1>3, <1>6, <1>9

-----------------------------------------------------------------------------
(* What a step leaves alone still fits.                                      *)

LEMMA MapsFrame ==
    ASSUME MapsFit, UNCHANGED <<customMetrics, externalMetrics>>
    PROVE  MapsFit'
  BY DEF MapsFit, IsRegistryOf, WellFormed, Listed, OneClientPerName, BestFirst, HigherFirst

\* A client that can answer still can after its next listing.
LEMMA ServersFrame ==
    ASSUME ServersFit, UNCHANGED <<customMetrics, externalMetrics>>,
           \A c : known[c].up => known'[c].up
    PROVE  ServersFit'
  BY DEF ServersFit, CanAnswer, Serving

LEMMA RequestsFrame ==
    ASSUME RequestsFit, UNCHANGED <<answer, request>>,
           \A c : known[c].up => known'[c].up
    PROVE  RequestsFit'
<1>1. \A c, t : CanAnswer(c, t) => CanAnswer(c, t)'
  BY DEF CanAnswer
<1> QED
  BY <1>1 DEF RequestsFit, RequestsReachAServer

LEMMA CountersFrame ==
    ASSUME Mon!TypeOK, UNCHANGED monVars
    PROVE  Mon!TypeOK'
  BY DEF monVars, Mon!TypeOK

LEMMA JobsFrame ==
    ASSUME JobsFit, UNCHANGED <<job, listed, known, syncDone, clientSuccesses>>
    PROVE  JobsFit'
<1>1. ASSUME NEW c \in Client
      PROVE  (TypeFits(c, job[c]) /\ ListingFits(c, job[c]) /\ RefreshFits(c, job[c]))'
  BY DEF JobsFit, TypeFits, ListingFits, KnowsListed, RefreshFits, Retrieved
<1> QED
  BY <1>1 DEF JobsFit

LEMMA InAllBackends ==
    \A c \in Client, t \in MetricType : \A b \in Backends(c, t) : b \in AllBackends
<1> TAKE c \in Client, t \in MetricType
<1> DEFINE Of(d) == UNION {Backends(d, u) : u \in MetricType}
<1>1. \A b \in Backends(c, t) : b \in Of(c)
  OBVIOUS
<1> HIDE DEF Of
<1>2. \A b \in Of(c) : b \in UNION {Of(d) : d \in Client}
  OBVIOUS
<1> QED
  BY <1>1, <1>2 DEF AllBackends, Of

LEMMA BackendsFrame ==
    ASSUME BackendsFit, UNCHANGED backend
    PROVE  BackendsFit'
  BY DEF BackendsFit

LEMMA ClientsFrame ==
    ASSUME ClientsFit, UNCHANGED clientVars
    PROVE  ClientsFit'
  BY DEF ClientsFit, clientVars

-----------------------------------------------------------------------------
(* Each action keeps the invariant.                                          *)

LEMMA BackendChangesFits ==
    ASSUME Fits, NEW c \in Client, NEW t \in MetricType, BackendChanges(c, t)
    PROVE  Fits'
<1>2. PICK b \in Backends(c, t) \ {backend[c][t]} : backend' = [backend EXCEPT ![c][t] = b]
  BY DEF BackendChanges
<1>3. /\ backend \in [Client -> [MetricType -> AllBackends]]
      /\ \A d \in Client, u \in MetricType : backend[d][u] \in Backends(d, u)
  BY DEF Fits, BackendsFit
<1>4. b \in AllBackends
  BY <1>2, InAllBackends
<1>5. \A d \in Client, u \in MetricType :
        backend'[d][u] = IF d = c /\ u = t THEN b ELSE backend[d][u]
  BY <1>2, <1>3
<1>6. backend' \in [Client -> [MetricType -> AllBackends]]
  BY <1>2, <1>3, <1>4
<1>7. BackendsFit'
  BY <1>2, <1>3, <1>5, <1>6 DEF BackendsFit
<1>8. UNCHANGED <<schedVars, registryVars, monVars, clientVars, answer, request>>
  BY DEF BackendChanges
<1> QED
  BY <1>7, <1>8, MapsFrame, ServersFrame, RequestsFrame, CountersFrame, JobsFrame, ClientsFrame
     DEF Fits, schedVars, registryVars, monVars, clientVars

\* A step of a job that tells nobody anything: what is told next must fit.
LEMMA JobOnly ==
    ASSUME IInv, NEW c \in Client, NEW step, job' = [job EXCEPT ![c] = step],
           UNCHANGED <<registryVars, monVars, clientVars, answer, backend, request>>,
           \A d \in Client \ {c} : syncDone'[d] = syncDone[d],
           TypeFits(c, step), ListingFits(c, step), RefreshFits(c, step)'
    PROVE  Fits'
<1>1. ListingFits(c, step)'
  BY DEF ListingFits, KnowsListed, clientVars
<1>2. JobsFit'
  BY <1>1, JobMoves DEF IInv, Fits, clientVars, monVars
<1> QED
  BY <1>2, MapsFrame, ServersFrame, RequestsFrame, CountersFrame, BackendsFrame, ClientsFrame
     DEF IInv, Fits, registryVars, clientVars

\* A refresh begins with the first type of the entry.
LEMMA BeginFits ==
    ASSUME IInv, NEW c \in Client, Sched!Goes(c, Sched!FirstCall(c)),
           UNCHANGED <<registryVars, monVars, clientVars, answer, backend, request>>
    PROVE  Fits'
<1> DEFINE step == Sched!FirstCall(c)
<1>1. \/ step = Sched!At("list", "custom") /\ HasType(c, "custom")
      \/ step = Sched!At("list", "external") /\ HasType(c, "external") /\ ~HasType(c, "custom")
      \/ step = Sched!Sync /\ \A t \in MetricType : ~HasType(c, t)
  BY Calls DEF MetricType
<1>2. job' = [job EXCEPT ![c] = step] /\ syncDone' = syncDone
  BY DEF Sched!Goes
<1> HIDE DEF step
<1>3. TypeFits(c, step) /\ ListingFits(c, step)
  BY <1>1, Apart DEF TypeFits, ListingFits, CallSteps
<1>4. RefreshFits(c, job[c])
  BY DEF IInv, Fits, JobsFit
<1>5. RefreshFits(c, step)'
  BY <1>1, <1>2, <1>4, Apart DEF RefreshFits, Retrieved, clientVars, monVars
<1> QED
  BY <1>2, <1>3, <1>5, JobOnly

LEMMA MainFits ==
    ASSUME IInv, Main
    PROVE  Fits'
<1>1. UNCHANGED <<registryVars, monVars, clientVars, answer, backend, request>>
  BY DEF Main
<1>2. ASSUME NEW c \in Client, Sched!Start(c)
      PROVE  Fits'
  <2>1. Sched!Goes(c, Sched!FirstCall(c))
    BY <1>2 DEF Sched!Start, Sched!Goes
  <2> QED
    BY <1>1, <2>1, BeginFits
<1>3. CASE UNCHANGED <<job, syncDone>>
  BY <1>1, <1>3, MapsFrame, ServersFrame, RequestsFrame, CountersFrame, JobsFrame,
     BackendsFrame, ClientsFrame
     DEF IInv, Fits, schedVars, registryVars, monVars, clientVars
<1> QED
  BY <1>2, <1>3 DEF Main, Sched!Main, Sched!AllStarted, Sched!WaitInitialSync

LEMMA TickFits ==
    ASSUME IInv, NEW c \in Client, Tick(c)
    PROVE  Fits'
  BY BeginFits DEF Tick, Sched!Tick

LEMMA CompleteRefreshFits ==
    ASSUME IInv, NEW c \in Client, CompleteRefresh(c)
    PROVE  Fits'
<1>1. /\ job[c] = Sched!Sync /\ job' = [job EXCEPT ![c] = Sched!Idle]
      /\ syncDone' = [syncDone EXCEPT ![c] = TRUE]
      /\ UNCHANGED <<registryVars, monVars, clientVars, answer, backend, request>>
  BY DEF CompleteRefresh, Sched!CompleteRefresh
<1>2. RefreshFits(c, Sched!Sync)
  BY <1>1 DEF IInv, Fits, JobsFit
<1>3. TypeFits(c, Sched!Idle) /\ ListingFits(c, Sched!Idle)
  BY Apart DEF TypeFits, ListingFits, CallSteps
<1>4. RefreshFits(c, Sched!Idle)'
  BY <1>1, <1>2, Apart DEF RefreshFits, Retrieved, clientVars, monVars, CallSteps
<1>5. \A d \in Client \ {c} : syncDone'[d] = syncDone[d]
  BY <1>1 DEF IInv, SchedulerFits, Sched!TypeOK
<1> QED
  BY <1>1, <1>3, <1>4, <1>5, JobOnly

\* The error ends the refresh; only the failure of its type is counted.
LEMMA PublishErrorFits ==
    ASSUME IInv, NEW c \in Client, NEW t \in MetricType, PublishError(c, t)
    PROVE  Fits'
<1>1. /\ job' = [job EXCEPT ![c] = Sched!Idle] /\ syncDone' = syncDone
      /\ UNCHANGED <<registryVars, clientVars, answer, backend, request>>
  BY DEF PublishError, Sched!PublishError, Sched!Goes
<1>2. Mon!TypeOK' /\ UNCHANGED clientSuccesses
  BY FailureCounted DEF PublishError, IInv, Fits
<1>3. RefreshFits(c, job[c])
  BY DEF IInv, Fits, JobsFit
<1>4. TypeFits(c, Sched!Idle) /\ ListingFits(c, Sched!Idle)'
  BY Apart DEF TypeFits, ListingFits, CallSteps
<1>5. RefreshFits(c, Sched!Idle)'
  BY <1>1, <1>2, <1>3, Apart DEF RefreshFits, Retrieved, clientVars, CallSteps
<1>6. JobsFit'
  BY <1>1, <1>2, <1>4, <1>5, JobMoves DEF IInv, Fits, clientVars
<1> QED
  BY <1>1, <1>2, <1>6, MapsFrame, ServersFrame, RequestsFrame, BackendsFrame, ClientsFrame
     DEF IInv, Fits, registryVars, clientVars

\* A listing that fails leaves the job with the error to publish.
LEMMA ListFailsFits ==
    ASSUME IInv, NEW c \in Client, NEW t \in MetricType, Sched!ListFails(c, t),
           UNCHANGED <<registryVars, monVars, clientVars, answer, backend, request>>
    PROVE  Fits'
<1>1. /\ job[c] = Sched!At("list", t) /\ job' = [job EXCEPT ![c] = Sched!At("fail", t)]
      /\ syncDone' = syncDone
  BY DEF Sched!ListFails, Sched!Goes
<1>2. TypeFits(c, job[c]) /\ RefreshFits(c, job[c])
  BY DEF IInv, Fits, JobsFit
<1>3. TypeFits(c, Sched!At("fail", t)) /\ ListingFits(c, Sched!At("fail", t))
  BY <1>1, <1>2, Apart DEF TypeFits, ListingFits, CallSteps
<1>4. RefreshFits(c, Sched!At("fail", t))'
  BY <1>1, <1>2, Apart DEF RefreshFits, Retrieved, clientVars, monVars, CallSteps
<1> QED
  BY <1>1, <1>3, <1>4, JobOnly

\* What a listing that succeeds finds, of either type.
LEMMA ListsOfBackends ==
    ASSUME NEW c \in Client
    PROVE  /\ \A b \in Backends(c, "custom") : b.up =>
                 /\ b.infos \in SUBSET CustomMetric /\ b.names \in SUBSET CustomMetric
                 /\ b.names \subseteq b.infos
                 /\ b.infos \subseteq b.names \cup Unregistered(c)
           /\ \A b \in Backends(c, "external") : b.up =>
                 /\ b.infos \in SUBSET ExternalMetric
                 /\ ServerType[c] = "elasticsearch" => b.infos = {}
<1>1. ASSUME NEW b \in Backends(c, "custom"), b.up
      PROVE  /\ b.infos \in SUBSET CustomMetric /\ b.names \in SUBSET CustomMetric
             /\ b.names \subseteq b.infos
             /\ b.infos \subseteq b.names \cup Unregistered(c)
  <2>1. CASE b = NotAsked
    BY <2>1 DEF NotAsked, Found
  <2>2. CASE b # NotAsked
    <3>1. /\ b \in {Found(infos, names) : infos, names \in SUBSET CustomMetric}
          /\ Discovers(c, b.infos, b.names)
      BY <1>1, <2>2 DEF Backends, Down
    <3>2. PICK infos \in SUBSET CustomMetric, names \in SUBSET CustomMetric :
             b = Found(infos, names)
      BY <3>1
    <3>3. b.infos = infos /\ b.names = names
      BY <3>2 DEF Found
    <3> QED
      BY <3>1, <3>3 DEF Discovers
  <2> QED
    BY <2>1, <2>2
<1>2. ASSUME NEW b \in Backends(c, "external"), b.up
      PROVE  /\ b.infos \in SUBSET ExternalMetric
             /\ ServerType[c] = "elasticsearch" => b.infos = {}
  <2>1. CASE b = NotAsked
    BY <2>1 DEF NotAsked, Found
  <2>2. CASE b # NotAsked
    <3>1. /\ Asks(c, "external")
          /\ \E infos \in SUBSET ExternalMetric : b = Found(infos, {})
      BY <1>2, <2>2 DEF Backends, Down
    <3> QED
      BY <3>1 DEF Asks, Found
  <2> QED
    BY <2>1, <2>2
<1> QED
  BY <1>1, <1>2

\* After a listing of custom metrics the namer knows what was listed.
LEMMA ListCustomFits ==
    ASSUME IInv, NEW c \in Client, ListCustomMetricInfos(c),
           UNCHANGED <<registryVars, monVars, answer, backend, request>>
    PROVE  Fits'
<1>1. CASE ~backend[c].custom.up
  BY <1>1, ListFailsFits DEF ListCustomMetricInfos, MetricType
<1>2. CASE backend[c].custom.up
  <2> DEFINE found == backend[c].custom
             step == Sched!At("monitor", "custom")
  <2>1. /\ job[c] = Sched!At("list", "custom") /\ job' = [job EXCEPT ![c] = step]
        /\ syncDone' = syncDone
        /\ listed' = [listed EXCEPT ![c] = found.infos]
        /\ known' = [known EXCEPT ![c] = Namer(found.names)]
    BY <1>2 DEF ListCustomMetricInfos, Sched!ListSucceeds, Sched!Goes
  <2>2. /\ found.infos \in SUBSET CustomMetric /\ found.names \in SUBSET CustomMetric
        /\ found.names \subseteq found.infos
        /\ found.infos \subseteq found.names \cup Unregistered(c)
    <3>1. found \in Backends(c, "custom") /\ found.up
      BY <1>2 DEF IInv, Fits, BackendsFit, MetricType
    <3> HIDE DEF found
    <3> QED
      BY <3>1, ListsOfBackends
  <2> HIDE DEF found
  <2>3. /\ known \in [Client -> {NilNamer} \cup {Namer(S) : S \in SUBSET CustomMetric}]
        /\ listed \in [Client -> (SUBSET CustomMetric) \cup (SUBSET ExternalMetric)]
    BY DEF IInv, Fits, ClientsFit
  <2>4. ClientsFit'
    BY <2>1, <2>2, <2>3 DEF ClientsFit
  <2>5. /\ known'[c] = Namer(found.names) /\ listed'[c] = found.infos
        /\ \A d \in Client \ {c} : known'[d] = known[d] /\ listed'[d] = listed[d]
    BY <2>1, <2>2, <2>3
  <2>11. known'[c].up /\ KnowsListed(c)'
    BY <2>2, <2>5 DEF KnowsListed, Namer, Unregistered
  <2>6. \A d : known[d].up => known'[d].up
    <3>1. ASSUME NEW d, d \notin Client
          PROVE  known'[d] = known[d]
      BY <2>1, <3>1
    <3> QED
      BY <2>5, <2>11, <3>1
  <2>7. TypeFits(c, job[c]) /\ RefreshFits(c, job[c])
    BY DEF IInv, Fits, JobsFit
  <2>8. TypeFits(c, step) /\ ListingFits(c, step)'
    BY <2>1, <2>7, <2>11, Apart DEF TypeFits, ListingFits, CallSteps
  <2>9. RefreshFits(c, step)'
    BY <2>1, <2>7, <2>11, Apart DEF RefreshFits, Retrieved, monVars, CallSteps
  <2> HIDE DEF step
  <2>10. JobsFit'
    BY <2>1, <2>5, <2>8, <2>9, JobMoves DEF IInv, Fits, monVars
  <2> QED
    BY <2>4, <2>6, <2>10, MapsFrame, ServersFrame, RequestsFrame, CountersFrame, BackendsFrame
       DEF IInv, Fits, registryVars
<1> QED
  BY <1>1, <1>2

\* A client of Elasticsearch lists no external metrics.
LEMMA ListExternalFits ==
    ASSUME IInv, NEW c \in Client, ListExternalMetrics(c),
           UNCHANGED <<registryVars, monVars, answer, backend, request>>
    PROVE  Fits'
<1>1. CASE ~backend[c].external.up
  BY <1>1, ListFailsFits DEF ListExternalMetrics, MetricType, clientVars
<1>2. CASE backend[c].external.up
  <2> DEFINE found == backend[c].external
             step == Sched!At("monitor", "external")
  <2>1. /\ job[c] = Sched!At("list", "external") /\ job' = [job EXCEPT ![c] = step]
        /\ syncDone' = syncDone /\ known' = known
        /\ listed' = [listed EXCEPT ![c] = found.infos]
    BY <1>2 DEF ListExternalMetrics, Sched!ListSucceeds, Sched!Goes
  <2>2. /\ found.infos \in SUBSET ExternalMetric
        /\ ServerType[c] = "elasticsearch" => found.infos = {}
    <3>1. found \in Backends(c, "external") /\ found.up
      BY <1>2 DEF IInv, Fits, BackendsFit, MetricType
    <3> HIDE DEF found
    <3> QED
      BY <3>1, ListsOfBackends
  <2> HIDE DEF found
  <2>3. listed \in [Client -> (SUBSET CustomMetric) \cup (SUBSET ExternalMetric)]
    BY DEF IInv, Fits, ClientsFit
  <2>4. ClientsFit'
    BY <2>1, <2>2, <2>3 DEF IInv, Fits, ClientsFit
  <2>5. /\ listed'[c] = found.infos
        /\ \A d \in Client \ {c} : listed'[d] = listed[d]
    BY <2>1, <2>3
  <2>6. TypeFits(c, job[c]) /\ RefreshFits(c, job[c])
    BY DEF IInv, Fits, JobsFit
  <2>7. TypeFits(c, step) /\ ListingFits(c, step)'
    BY <2>1, <2>2, <2>5, <2>6, Apart DEF TypeFits, ListingFits, CallSteps
  <2>8. RefreshFits(c, step)'
    BY <2>1, <2>6, Apart DEF RefreshFits, Retrieved, monVars, CallSteps
  <2> HIDE DEF step
  <2>9. JobsFit'
    BY <2>1, <2>5, <2>7, <2>8, JobMoves DEF IInv, Fits, monVars
  <2> QED
    BY <2>1, <2>4, <2>9, MapsFrame, ServersFrame, RequestsFrame, CountersFrame, BackendsFrame
       DEF IInv, Fits, registryVars
<1> QED
  BY <1>1, <1>2

\* The monitoring server counts the success of the type that was listed.
LEMMA NotifyMonitoringFits ==
    ASSUME IInv, NEW c \in Client, NEW t \in MetricType, NotifyMonitoring(c, t)
    PROVE  Fits'
<1> DEFINE step == Sched!At("register", t)
<1>1. /\ job[c] = Sched!At("monitor", t) /\ job' = [job EXCEPT ![c] = step]
      /\ syncDone' = syncDone
      /\ UNCHANGED <<registryVars, clientVars, answer, backend, request>>
  BY DEF NotifyMonitoring, Sched!NotifyMonitoring, Sched!Goes
<1>2. TypeFits(c, job[c]) /\ ListingFits(c, job[c]) /\ RefreshFits(c, job[c])
  BY DEF IInv, Fits, JobsFit
<1>3. HasType(c, t)
  BY <1>1, <1>2 DEF TypeFits, CallSteps
<1>4. /\ Mon!TypeOK' /\ clientSuccesses'[t][NameOf[c]] # 0
      /\ \A u \in MetricType : \A n \in Mon!NamesOf(u) :
            clientSuccesses[u][n] # 0 => clientSuccesses'[u][n] # 0
  BY <1>3, SuccessCounted DEF NotifyMonitoring, IInv, Fits
<1>5. TypeFits(c, step) /\ ListingFits(c, step)'
  BY <1>1, <1>2, <1>3, Apart
     DEF TypeFits, ListingFits, KnowsListed, Unregistered, clientVars, CallSteps
<1>6. t = "custom" => known'[c].up
  BY <1>1, <1>2 DEF ListingFits, KnowsListed, clientVars
<1>7. \A u \in MetricType : HasType(c, u) /\ Retrieved(c, u) => Retrieved(c, u)'
  BY <1>1, <1>4, SameTypes DEF Retrieved, Mon!NamesOf, clientVars
<1>8. RefreshFits(c, step)'
  <2>1. Retrieved(c, t)'
    BY <1>4, <1>6 DEF Retrieved
  <2>2. "custom" \in MetricType
    BY DEF MetricType
  <2> QED
    BY <1>1, <1>2, <1>7, <2>1, <2>2, Apart DEF RefreshFits, CallSteps
<1> HIDE DEF step
<1>9. JobsFit'
  BY <1>1, <1>4, <1>5, <1>8, JobMoves DEF IInv, Fits, clientVars
<1> QED
  BY <1>1, <1>4, <1>9, MapsFrame, ServersFrame, RequestsFrame, BackendsFrame, ClientsFrame
     DEF IInv, Fits, registryVars, clientVars

\* The registry takes what was listed; who is registered can answer.
LEMMA NotifyRegistryFits ==
    ASSUME IInv, NEW c \in Client, NEW t \in MetricType, NotifyRegistry(c, t)
    PROVE  Fits'
<1> DEFINE step == IF t = "custom" THEN Sched!AfterCustom(c) ELSE Sched!Sync
<1>1. /\ job[c] = Sched!At("register", t) /\ job' = [job EXCEPT ![c] = step]
      /\ syncDone' = syncDone
      /\ UNCHANGED <<monVars, clientVars, answer, backend, request>>
  BY DEF NotifyRegistry, Sched!NotifyRegistry, Sched!Goes
<1>2. TypeFits(c, job[c]) /\ ListingFits(c, job[c]) /\ RefreshFits(c, job[c])
  BY DEF IInv, Fits, JobsFit
<1>3. HasType(c, t) /\ Retrieved(c, t)
  BY <1>1, <1>2 DEF TypeFits, RefreshFits, CallSteps
<1>4. MapsFit /\ ServersFit /\ ClientsFit
  BY DEF IInv, Fits
<1>5. MapsFit' /\ ServersFit'
  <2>1. CASE t = "custom"
    <3>2. listed[c] \in SUBSET CustomMetric /\ known[c].up
      BY <1>1, <1>2, <2>1 DEF ListingFits, KnowsListed
    <3>3. /\ customMetrics' = UpdateMetrics(customMetrics, c, listed[c])
          /\ externalMetrics' = externalMetrics /\ known' = known
      BY <1>1, <2>1, SameRegistry DEF NotifyRegistry, Reg!UpdateCustomMetrics, clientVars
    <3>4. /\ IsRegistryOf(customMetrics', CustomMetric) /\ WellFormed(customMetrics')
          /\ \A m \in CustomMetric : Serving(customMetrics', m) =
                {d \in Serving(customMetrics, m) : NameOf[d] # NameOf[c]}
                   \cup (IF m \in listed[c] THEN {c} ELSE {})
      <4>1. IsRegistryOf(customMetrics, CustomMetric) /\ WellFormed(customMetrics)
        BY <1>4 DEF MapsFit
      <4> QED
        BY <3>2, <3>3, <4>1, UpdateLemma
    <3>5. MapsFit'
      BY <1>4, <3>3, <3>4 DEF MapsFit
    <3>6. ServersFit'
      BY <1>4, <3>2, <3>3, <3>4 DEF ServersFit, CanAnswer
    <3> QED
      BY <3>5, <3>6
  <2>2. CASE t = "external"
    <3>1. /\ listed[c] \in SUBSET ExternalMetric
          /\ ServerType[c] = "elasticsearch" => listed[c] = {}
      BY <1>1, <1>2, <2>2 DEF ListingFits
    <3>2. /\ externalMetrics' = UpdateMetrics(externalMetrics, c, listed[c])
          /\ customMetrics' = customMetrics /\ known' = known
      BY <1>1, <2>2, SameRegistry DEF NotifyRegistry, Reg!UpdateExternalMetrics, clientVars
    <3>3. /\ IsRegistryOf(externalMetrics', ExternalMetric) /\ WellFormed(externalMetrics')
          /\ \A m \in ExternalMetric : Serving(externalMetrics', m) =
                {d \in Serving(externalMetrics, m) : NameOf[d] # NameOf[c]}
                   \cup (IF m \in listed[c] THEN {c} ELSE {})
      <4>1. IsRegistryOf(externalMetrics, ExternalMetric) /\ WellFormed(externalMetrics)
        BY <1>4 DEF MapsFit
      <4> QED
        BY <3>1, <3>2, <4>1, UpdateLemma
    <3>4. MapsFit'
      BY <1>4, <3>2, <3>3 DEF MapsFit
    <3>5. ServersFit'
      BY <1>4, <3>1, <3>2, <3>3 DEF ServersFit, CanAnswer
    <3> QED
      BY <3>4, <3>5
  <2> QED
    BY <2>1, <2>2 DEF MetricType
<1>6. \/ step = Sched!Sync /\ (t = "custom" => ~HasType(c, "external"))
      \/ /\ step = Sched!At("list", "external") /\ HasType(c, "external")
         /\ t = "custom"
  BY Calls
<1> HIDE DEF step
<1>7. TypeFits(c, step) /\ ListingFits(c, step)'
  BY <1>6, Apart DEF TypeFits, ListingFits, CallSteps
<1>8. RefreshFits(c, step)'
  <2>1. t = "external" /\ HasType(c, "custom") => Retrieved(c, "custom")
    BY <1>1, <1>2 DEF RefreshFits, CallSteps
  <2>2. step = Sched!Sync => \A u \in MetricType : HasType(c, u) => Retrieved(c, u)
    BY <1>3, <1>6, <2>1, Apart DEF MetricType
  <2>3. \A u : Retrieved(c, u)' <=> Retrieved(c, u)
    BY <1>1 DEF Retrieved, monVars, clientVars
  <2>4. t = "custom" => Retrieved(c, "custom")
    BY <1>3
  <2> QED
    BY <1>1, <1>2, <1>6, <2>2, <2>3, <2>4, Apart DEF RefreshFits, CallSteps
<1>9. JobsFit'
  BY <1>1, <1>7, <1>8, JobMoves DEF IInv, Fits, clientVars, monVars
<1> QED
  BY <1>1, <1>5, <1>9, RequestsFrame, CountersFrame, BackendsFrame, ClientsFrame
     DEF IInv, Fits, clientVars

-----------------------------------------------------------------------------
(* The API requests.                                                         *)

\* What the registry answers: not found, or a client that can answer.
LEMMA LookupAnswers ==
    ASSUME MapsFit, ServersFit, NEW t \in MetricType, NEW metrics, NEW m,
           \/ t = "custom" /\ metrics = customMetrics /\ m \in CustomMetric
           \/ t = "external" /\ metrics = externalMetrics /\ m \in ExternalMetric
    PROVE  \/ Reg!GetMetricClient(metrics, m) = NotFound
           \/ \E c \in Client : /\ Reg!GetMetricClient(metrics, m) = Client200(c)
                                /\ CanAnswer(c, t)
<1>1. CASE t = "custom"
  <2>1. metrics = customMetrics /\ m \in CustomMetric
    BY <1>1
  <2>2. IsRegistryOf(metrics, CustomMetric) /\ WellFormed(metrics)
    BY <2>1 DEF MapsFit
  <2> QED
    BY <1>1, <2>1, <2>2, LookupLemma, SameRegistry DEF ServersFit
<1>2. CASE t = "external"
  <2>1. metrics = externalMetrics /\ m \in ExternalMetric
    BY <1>2
  <2>2. IsRegistryOf(metrics, ExternalMetric) /\ WellFormed(metrics)
    BY <2>1 DEF MapsFit
  <2> QED
    BY <1>2, <2>1, <2>2, LookupLemma, SameRegistry DEF ServersFit
<1> QED
  BY <1>1, <1>2 DEF MetricType

LEMMA LookupFits ==
    ASSUME IInv, NEW r \in Request, NEW t \in MetricType, NEW m, Lookup(r, t, m),
           \/ t = "custom" /\ m \in CustomMetric
           \/ t = "external" /\ m \in ExternalMetric
    PROVE  Fits'
<1> DEFINE a == Reg!GetMetricClient(IF t = "custom" THEN customMetrics
                                                    ELSE externalMetrics, m)
           q == IF a.kind = "client"
                THEN [at |-> "call", type |-> t, metric |-> m]
                ELSE [at |-> "idle", type |-> t, outcome |-> a.kind]
<1>1. /\ answer' = [answer EXCEPT ![r] = a]
      /\ UNCHANGED <<customMetrics, externalMetrics>>
  BY DEF Lookup, Reg!GetCustomMetricClient, Reg!GetExternalMetricClient, Reg!Answers,
     Reg!registryVars
<1>2. UNCHANGED <<schedVars, monVars, clientVars, backend>>
  BY DEF Lookup
<1>3. \/ a = NotFound
      \/ \E c \in Client : a = Client200(c) /\ CanAnswer(c, t)
  BY LookupAnswers DEF IInv, Fits
<1>4. RequestsFit
  BY DEF IInv, Fits
<1>5. request' = [request EXCEPT ![r] = q]
  BY <1>1, <1>4 DEF Lookup, RequestsFit
<1> HIDE DEF a
<1>6. a \in Reg!Answer
  BY <1>3, SameRegistry DEF Reg!Answer
<1>7. \/ /\ q = [at |-> "call", type |-> t, metric |-> m]
         /\ \E c \in Client : a = Client200(c) /\ CanAnswer(c, t)
      \/ q = [at |-> "idle", type |-> t, outcome |-> "notFound"]
  BY <1>3 DEF NotFound, Client200
<1> HIDE DEF q
<1>8. q \in RequestState
  BY <1>7 DEF RequestState, Outcomes
<1>9. answer' \in [Request -> Reg!Answer] /\ request' \in [Request -> RequestState]
  BY <1>1, <1>4, <1>5, <1>6, <1>8 DEF RequestsFit
<1>10. \A s \in Request : /\ answer'[s] = IF s = r THEN a ELSE answer[s]
                          /\ request'[s] = IF s = r THEN q ELSE request[s]
  BY <1>1, <1>4, <1>5 DEF RequestsFit
<1>11. \A c, u : CanAnswer(c, u)' <=> CanAnswer(c, u)
  BY <1>2 DEF CanAnswer, clientVars
<1>12. \A s \in Request : request'[s].at = "call" =>
          \E c \in Client : answer'[s] = Client200(c) /\ CanAnswer(c, request'[s].type)
  BY <1>4, <1>7, <1>10 DEF RequestsFit
<1>13. RequestsReachAServer'
  BY <1>4, <1>7, <1>10 DEF RequestsFit, RequestsReachAServer
<1>14. RequestsFit'
  BY <1>9, <1>11, <1>12, <1>13 DEF RequestsFit
<1> QED
  BY <1>1, <1>2, <1>14, MapsFrame, ServersFrame, CountersFrame, JobsFrame,
     BackendsFrame, ClientsFrame
     DEF IInv, Fits, schedVars, monVars, clientVars

\* The client called is one that can answer.
LEMMA CallFits ==
    ASSUME IInv, NEW r \in Request, Call(r)
    PROVE  Fits'
<1>1. RequestsFit /\ request[r].at = "call"
  BY DEF IInv, Fits, Call
<1>2. PICK c \in Client : answer[r] = Client200(c) /\ CanAnswer(c, request[r].type)
  BY <1>1 DEF RequestsFit
<1> DEFINE t == request[r].type
           o == IF t = "custom" THEN CustomOutcome(c, request[r].metric)
                                ELSE ExternalOutcome(c)
           q == [at |-> "idle", type |-> t, outcome |-> o]
<1>3. answer[r].client = c
  BY <1>2 DEF Client200
<1>4. request' = [request EXCEPT ![r] = q]
  BY <1>3 DEF Call
<1>5. UNCHANGED <<schedVars, registryVars, monVars, clientVars, answer, backend>>
  BY DEF Call
<1>6. t \in MetricType
  BY <1>1 DEF RequestsFit, RequestState
<1>7. o \in Outcomes /\ o # "nil" /\ (t = "custom" => o # "panic")
  BY <1>2, <1>6 DEF CanAnswer, CustomOutcome, ExternalOutcome, Outcomes, MetricType
<1> HIDE DEF o, t
<1>8. q \in RequestState
  BY <1>6, <1>7 DEF RequestState
<1>9. \A s \in Request : request'[s] = IF s = r THEN q ELSE request[s]
  BY <1>1, <1>4 DEF RequestsFit
<1>10. request' \in [Request -> RequestState]
  BY <1>1, <1>4, <1>8 DEF RequestsFit
<1>11. q.at = "idle" /\ q.type = t /\ q.outcome = o
  OBVIOUS
<1> HIDE DEF q
<1>12. RequestsReachAServer'
  BY <1>1, <1>7, <1>9, <1>11 DEF RequestsFit, RequestsReachAServer
<1>13. \A d, u : CanAnswer(d, u)' <=> CanAnswer(d, u)
  BY <1>5 DEF CanAnswer, clientVars
<1>14. RequestsFit'
  BY <1>1, <1>5, <1>9, <1>10, <1>11, <1>12, <1>13 DEF RequestsFit
<1> QED
  BY <1>5, <1>14, MapsFrame, ServersFrame, CountersFrame, JobsFrame,
     BackendsFrame, ClientsFrame
     DEF IInv, Fits, schedVars, registryVars, monVars, clientVars

-----------------------------------------------------------------------------
(* The invariant holds of the initial states and is kept by every step.      *)

LEMMA InitFits == Init => IInv
<1> SUFFICES ASSUME Init PROVE IInv
  OBVIOUS
<1>1. SchedulerFits /\ Mon!TypeOK
  BY SchedulerInit, CountersInit DEF Init
<1>2. /\ job = [c \in Client |-> Sched!New] /\ syncDone = [c \in Client |-> FALSE]
      /\ customMetrics = [m \in {} |-> <<>>] /\ externalMetrics = [m \in {} |-> <<>>]
      /\ answer = [r \in Request |-> Reg!NoAnswer]
  BY DEF Init, Sched!Init, Reg!Init
<1>3. MapsFit
  <2>1. \A Metric : IsRegistryOf([m \in {} |-> <<>>], Metric)
    <3> SUFFICES ASSUME NEW Metric
                 PROVE  IsRegistryOf([m \in {} |-> <<>>], Metric)
      OBVIOUS
    <3>1. {} \in SUBSET Metric /\ [m \in {} |-> <<>>] \in [{} -> Seq(Client)]
      OBVIOUS
    <3> QED
      BY <3>1 DEF IsRegistryOf
  <2>2. WellFormed([m \in {} |-> <<>>])
    BY DEF WellFormed, Listed, OneClientPerName, BestFirst
  <2> QED
    BY <1>2, <2>1, <2>2 DEF MapsFit
<1>4. JobsFit
  <2>1. ASSUME NEW c \in Client
        PROVE  TypeFits(c, job[c]) /\ ListingFits(c, job[c]) /\ RefreshFits(c, job[c])
    <3>1. job[c] = Sched!At("new", "none") /\ ~syncDone[c]
      BY <1>2, Apart
    <3> QED
      BY <3>1, Apart DEF TypeFits, ListingFits, RefreshFits, CallSteps
  <2> QED
    BY <2>1 DEF JobsFit
<1>5. BackendsFit
  <2> DEFINE A == UNION {Backends(c, "custom") : c \in Client}
             B == UNION {Backends(c, "external") : c \in Client}
  <2>1. /\ backend \in [Client -> [custom : A, external : B]]
        /\ \A c \in Client, t \in MetricType : backend[c][t] \in Backends(c, t)
    BY DEF Init
  <2>2. \A c \in Client, t \in MetricType : backend[c][t] \in AllBackends
    BY <2>1, InAllBackends
  <2> HIDE DEF A, B
  <2>3. ASSUME NEW c \in Client
        PROVE  backend[c] \in [MetricType -> AllBackends]
    <3>1. backend[c] \in [custom : A, external : B]
      BY <2>1
    <3>2. backend[c] = [t \in MetricType |-> backend[c][t]]
      BY <3>1 DEF MetricType
    <3> QED
      BY <2>2, <3>2
  <2>4. backend \in [Client -> [MetricType -> AllBackends]]
    BY <2>1, <2>3
  <2> QED
    BY <2>1, <2>4 DEF BackendsFit
<1>6. ClientsFit
  BY DEF Init, ClientsFit
<1>7. ServersFit
  BY <1>2 DEF ServersFit, Serving
<1>8. RequestsFit
  <2>1. /\ request = [r \in Request |-> Idle]
        /\ Idle \in [at : {"idle"}, type : MetricType, outcome : Outcomes]
    BY DEF Init, Idle, MetricType, Outcomes
  <2>2. request \in [Request -> RequestState]
    BY <2>1 DEF RequestState
  <2>3. answer \in [Request -> Reg!Answer]
    BY <1>2 DEF Reg!Answer
  <2>4. \A r \in Request : request[r].at = "idle" /\ request[r].outcome = "none"
    BY <2>1 DEF Idle
  <2> QED
    BY <2>2, <2>3, <2>4 DEF RequestsFit, RequestsReachAServer
<1> QED
  BY <1>1, <1>3, <1>4, <1>5, <1>6, <1>7, <1>8 DEF IInv, Fits

LEMMA JobFits ==
    ASSUME IInv, NEW c \in Client, Job(c)
    PROVE  Fits'
<1>1. ASSUME List(c) PROVE Fits'
  BY <1>1, ListCustomFits, ListExternalFits DEF List
<1>2. ASSUME NEW t \in MetricType,
             PublishError(c, t) \/ NotifyMonitoring(c, t) \/ NotifyRegistry(c, t)
      PROVE  Fits'
  BY <1>2, PublishErrorFits, NotifyMonitoringFits, NotifyRegistryFits
<1> QED
  BY <1>1, <1>2, TickFits, CompleteRefreshFits DEF Job

LEMMA NextFits == IInv /\ [Next]_vars => IInv'
<1> SUFFICES ASSUME IInv, [Next]_vars PROVE IInv'
  OBVIOUS
<1>1. SchedulerFits'
  BY SchedulerStep, SchedulerInv DEF IInv
<1>2. ASSUME NEW c \in Client, NEW t \in MetricType, BackendChanges(c, t)
      PROVE  Fits'
  BY <1>2, BackendChangesFits DEF IInv
<1>3. ASSUME NEW r \in Request, NEW m \in CustomMetric, Lookup(r, "custom", m)
      PROVE  Fits'
  BY <1>3, LookupFits DEF MetricType
<1>4. ASSUME NEW r \in Request, NEW m \in ExternalMetric, Lookup(r, "external", m)
      PROVE  Fits'
  BY <1>4, LookupFits DEF MetricType
<1>5. ASSUME UNCHANGED vars
      PROVE  Fits'
  BY <1>5, MapsFrame, ServersFrame, RequestsFrame, CountersFrame, JobsFrame,
     BackendsFrame, ClientsFrame
     DEF IInv, Fits, vars, schedVars, registryVars, monVars, clientVars
<1>6. ASSUME Next
      PROVE  Fits'
  <2>1. ASSUME NEW c \in Client, Job(c) PROVE Fits'
    BY <2>1, JobFits
  <2>2. ASSUME NEW r \in Request, Call(r) PROVE Fits'
    BY <2>2, CallFits
  <2> QED
    BY <1>2, <1>3, <1>4, <1>6, <2>1, <2>2, MainFits DEF Next
<1> QED
  BY <1>1, <1>5, <1>6 DEF IInv

LEMMA Invariance == Spec => []IInv
  BY InitFits, NextFits, PTL DEF Spec

-----------------------------------------------------------------------------
(* What holds of the adapter, however names are given.                       *)

\* The state of the composition, its components' included, has its type.
THEOREM TypeCorrect == Spec => []TypeOK
<1>1. IInv => TypeOK
  <2> SUFFICES ASSUME IInv PROVE TypeOK
    OBVIOUS
  <2>1. Sched!TypeOK /\ Mon!TypeOK
    BY DEF IInv, SchedulerFits, Fits
  <2>2. Reg!TypeOK
    BY SameRegistry DEF IInv, Fits, MapsFit, RequestsFit, Reg!TypeOK
  <2>3. ASSUME NEW r \in Request
        PROVE  IF request[r].at = "call"
               THEN answer[r].kind = "client"
               ELSE request[r].at = "idle" /\ request[r].outcome \in Outcomes
    <3>1. /\ request[r] \in RequestState
          /\ request[r].at = "call" =>
                \E c \in Client : answer[r] = Client200(c)
      BY DEF IInv, Fits, RequestsFit
    <3>2. request[r].at = "call" => answer[r].kind = "client"
      <4> SUFFICES ASSUME request[r].at = "call" PROVE answer[r].kind = "client"
        OBVIOUS
      <4>1. PICK c \in Client : answer[r] = Client200(c)
        BY <3>1
      <4> QED
        BY <4>1 DEF Client200
    <3>3. \/ request[r].at = "call"
          \/ request[r].at = "idle" /\ request[r].outcome \in Outcomes
      <4> DEFINE q == request[r]
      <4>1. \/ q \in [at : {"call"}, type : MetricType,
                      metric : CustomMetric \cup ExternalMetric]
            \/ q \in [at : {"idle"}, type : MetricType, outcome : Outcomes]
        BY <3>1 DEF RequestState
      <4> HIDE DEF q
      <4>2. q.at = "call" \/ (q.at = "idle" /\ q.outcome \in Outcomes)
        BY <4>1
      <4> QED
        BY <4>2 DEF q
    <3> QED
      BY <3>2, <3>3
  <2>4. \A c \in Client, t \in MetricType : backend[c][t] \in Backends(c, t)
    BY DEF IInv, Fits, BackendsFit
  <2>5. /\ listed \in [Client -> (SUBSET CustomMetric) \cup (SUBSET ExternalMetric)]
        /\ known \in [Client -> {NilNamer} \cup {Namer(S) : S \in SUBSET CustomMetric}]
    BY DEF IInv, Fits, ClientsFit
  <2> QED
    BY <2>1, <2>2, <2>3, <2>4, <2>5 DEF TypeOK
<1> QED
  BY <1>1, Invariance, PTL

\* A request that the registry sends on reaches a client that can answer it:
\* one whose namer is set for a custom metric, and for an external one not a
\* client of Elasticsearch.
THEOREM ReachesAServer == Spec => []RequestsReachAServer
<1>1. IInv => RequestsReachAServer
  BY DEF IInv, Fits, RequestsFit
<1> QED
  BY <1>1, Invariance, PTL

\* The API runs only when every client has listed all its types: the
\* monitoring server has counted each, and the namer is set.
THEOREM ServesRetrieved == Spec => []ServingMeansRetrieved
<1>1. IInv => ServingMeansRetrieved
  <2> SUFFICES ASSUME IInv, main = "serving", NEW c \in Client
               PROVE  Mon!Synced(c) /\ (HasType(c, "custom") => known[c].up)
    BY DEF ServingMeansRetrieved
  <2>1. \A d \in Client : syncDone[d]
    BY DEF IInv, SchedulerFits, Sched!ServingAfterSync, Sched!Unsynced
  <2>2. \A d \in Client : \A t \in MetricType : HasType(d, t) => Retrieved(d, t)
    BY <2>1 DEF IInv, Fits, JobsFit, RefreshFits
  <2>3. ASSUME NEW t \in MetricType, NameOf[c] \in DOMAIN clientSuccesses[t]
        PROVE  clientSuccesses[t][NameOf[c]] # 0
    <3>1. NameOf[c] \in Mon!NamesOf(t)
      BY <2>3, SameTypes DEF IInv, Fits, Mon!TypeOK
    <3>2. PICK d \in Client : HasType(d, t) /\ NameOf[d] = NameOf[c]
      BY <3>1, SameTypes DEF Mon!NamesOf
    <3> QED
      BY <2>2, <3>2 DEF Retrieved
  <2>4. HasType(c, "custom") => known[c].up
    BY <2>2 DEF Retrieved, MetricType
  <2> QED
    BY <2>3, <2>4, SameTypes DEF Mon!Synced
<1> QED
  BY <1>1, Invariance, PTL

\* The registry of the adapter behaves as the module Registry says: what is
\* shown there for any updates and calls holds of the adapter's.
THEOREM ImplementsRegistry == Spec => Reg!Spec
<1>1. Init => Reg!Init
  BY DEF Init
<1>2. IInv /\ [Next]_vars => [Reg!Next]_(Reg!vars)
  <2> SUFFICES ASSUME IInv, [Next]_vars PROVE [Reg!Next]_(Reg!vars)
    OBVIOUS
  <2>1. ASSUME NEW c \in Client, NotifyRegistry(c, "custom")
        PROVE  Reg!Next
    <3>1. listed[c] \in SUBSET CustomMetric
      BY <2>1
         DEF NotifyRegistry, Sched!NotifyRegistry, IInv, Fits, JobsFit, ListingFits, KnowsListed
    <3> QED
      BY <2>1, <3>1 DEF NotifyRegistry, Reg!Next, Reg!Update
  <2>2. ASSUME NEW c \in Client, NotifyRegistry(c, "external")
        PROVE  Reg!Next
    <3>1. listed[c] \in SUBSET ExternalMetric
      BY <2>2 DEF NotifyRegistry, Sched!NotifyRegistry, IInv, Fits, JobsFit, ListingFits
    <3> QED
      BY <2>2, <3>1 DEF NotifyRegistry, Reg!Next, Reg!Update
  <2>3. ASSUME NEW r \in Request, NEW m \in CustomMetric, Lookup(r, "custom", m)
        PROVE  Reg!Next
    BY <2>3 DEF Lookup, Reg!Next, Reg!Read
  <2>4. ASSUME NEW r \in Request, NEW m \in ExternalMetric, Lookup(r, "external", m)
        PROVE  Reg!Next
    BY <2>4 DEF Lookup, Reg!Next, Reg!Read
  <2>5. ASSUME NEW c \in Client, Job(c), \A t \in MetricType : ~NotifyRegistry(c, t)
        PROVE  UNCHANGED Reg!vars
    BY <2>5
       DEF Job, Tick, List, PublishError, NotifyMonitoring, CompleteRefresh,
           registryVars, Reg!vars
  <2>6. ASSUME Main \/ \E c \in Client, t \in MetricType : BackendChanges(c, t)
        PROVE  UNCHANGED Reg!vars
    BY <2>6 DEF Main, BackendChanges, registryVars, Reg!vars
  <2>7. ASSUME NEW r \in Request, Call(r)
        PROVE  UNCHANGED Reg!vars
    BY <2>7 DEF Call, registryVars, Reg!vars
  <2>8. CASE UNCHANGED vars
    BY <2>8 DEF vars, registryVars, Reg!vars
  <2> QED
    BY <2>1, <2>2, <2>3, <2>4, <2>5, <2>6, <2>7, <2>8 DEF Next, MetricType
<1> QED
  BY <1>1, <1>2, Invariance, PTL DEF Spec, Reg!Spec

\* The jobs report to the monitoring server as the module Monitoring assumes,
\* of a client only the types its entry serves.
THEOREM ImplementsMonitoring == Spec => Mon!Spec
<1>1. Init => Mon!Init
  BY DEF Init
<1>2. IInv /\ [Next]_vars => [Mon!Next]_(Mon!vars)
  <2> SUFFICES ASSUME IInv, [Next]_vars PROVE [Mon!Next]_(Mon!vars)
    OBVIOUS
  <2>1. ASSUME NEW c \in Client, NEW t \in MetricType,
               PublishError(c, t) \/ NotifyMonitoring(c, t)
        PROVE  Mon!Next
    <3>1. job[c] = Sched!At("fail", t) \/ job[c] = Sched!At("monitor", t)
      BY <2>1 DEF PublishError, NotifyMonitoring, Sched!PublishError, Sched!NotifyMonitoring
    <3>2. HasType(c, t)
      BY <3>1 DEF IInv, Fits, JobsFit, TypeFits, CallSteps
    <3>3. Mon!OnError(c, t) \/ Mon!Update(c, t)
      BY <2>1 DEF PublishError, NotifyMonitoring
    <3> QED
      BY <3>2, <3>3, SameTypes DEF Mon!Next
  <2>2. ASSUME NEW c \in Client, Job(c),
               \A t \in MetricType : ~PublishError(c, t) /\ ~NotifyMonitoring(c, t)
        PROVE  UNCHANGED Mon!vars
    BY <2>2 DEF Job, Tick, List, NotifyRegistry, CompleteRefresh, monVars, Mon!vars
  <2>3. ASSUME Main \/ \E c \in Client, t \in MetricType : BackendChanges(c, t)
        PROVE  UNCHANGED Mon!vars
    BY <2>3 DEF Main, BackendChanges, monVars, Mon!vars
  <2>4. ASSUME NEW r \in Request, Call(r) \/ \E t, m : Lookup(r, t, m)
        PROVE  UNCHANGED Mon!vars
    BY <2>4 DEF Call, Lookup, monVars, Mon!vars
  <2>5. CASE UNCHANGED vars
    BY <2>5 DEF vars, monVars, Mon!vars
  <2> QED
    BY <2>1, <2>2, <2>3, <2>4, <2>5 DEF Next
<1> QED
  BY <1>1, <1>2, Invariance, PTL DEF Spec, Mon!Spec

-----------------------------------------------------------------------------
(* What the requests are told.                                               *)

\* A request for a custom metric ends with a 404, an error of the client that
\* knows no such metric, or the answer of a backend: the internal error for a
\* metric without backends never comes up.  One for an external metric never
\* gets as far as a backend: it ends with a 404 or a panic.
RequestsReturn ==
    \A r \in Request : request[r].at = "idle" =>
        request[r].outcome \in
            IF request[r].type = "custom" THEN {"none", "notFound", "asked", "unknown"}
                                          ELSE {"notFound", "panic"}

LEMMA LookupReturns ==
    ASSUME IInv, NEW r \in Request, NEW t \in MetricType, NEW m, Lookup(r, t, m),
           \/ t = "custom" /\ m \in CustomMetric
           \/ t = "external" /\ m \in ExternalMetric
    PROVE  /\ \A s \in Request \ {r} : request'[s] = request[s]
           /\ request'[r].type = t
           /\ request'[r].at = "call" \/ request'[r].outcome = "notFound"
<1> DEFINE a == Reg!GetMetricClient(IF t = "custom" THEN customMetrics
                                                    ELSE externalMetrics, m)
<1>1. answer' = [answer EXCEPT ![r] = a]
  BY DEF Lookup, Reg!GetCustomMetricClient, Reg!GetExternalMetricClient, Reg!Answers
<1>2. RequestsFit
  BY DEF IInv, Fits
<1>3. a = NotFound \/ \E c \in Client : a = Client200(c)
  BY LookupAnswers DEF IInv, Fits
<1>4. request' = [request EXCEPT ![r] =
         IF a.kind = "client" THEN [at |-> "call", type |-> t, metric |-> m]
         ELSE [at |-> "idle", type |-> t, outcome |-> a.kind]]
  BY <1>1, <1>2 DEF Lookup, RequestsFit
<1> HIDE DEF a
<1>5. a.kind = "client" \/ a.kind = "notFound"
  BY <1>3 DEF NotFound, Client200
<1>6. \/ request' = [request EXCEPT ![r] = [at |-> "call", type |-> t, metric |-> m]]
      \/ request' = [request EXCEPT ![r] =
                        [at |-> "idle", type |-> t, outcome |-> "notFound"]]
  BY <1>4, <1>5
<1> QED
  BY <1>2, <1>6 DEF RequestsFit

LEMMA CallReturns ==
    ASSUME IInv, NEW r \in Request, Call(r)
    PROVE  /\ \A s \in Request \ {r} : request'[s] = request[s]
           /\ request'[r].at = "idle" /\ request'[r].type = request[r].type
           /\ request'[r].outcome \in IF request[r].type = "custom"
                                      THEN {"asked", "unknown"} ELSE {"panic"}
<1>1. RequestsFit /\ request[r].at = "call"
  BY DEF IInv, Fits, Call
<1>2. PICK c \in Client : answer[r] = Client200(c) /\ CanAnswer(c, request[r].type)
  BY <1>1 DEF RequestsFit
<1> DEFINE t == request[r].type
           o == IF t = "custom" THEN CustomOutcome(c, request[r].metric)
                                ELSE ExternalOutcome(c)
<1>3. answer[r].client = c
  BY <1>2 DEF Client200
<1>4. request' = [request EXCEPT ![r] = [at |-> "idle", type |-> t, outcome |-> o]]
  BY <1>3 DEF Call
<1>5. o \in IF t = "custom" THEN {"asked", "unknown"} ELSE {"panic"}
  BY <1>2 DEF CanAnswer, CustomOutcome, ExternalOutcome
<1> HIDE DEF o
<1> QED
  BY <1>1, <1>4, <1>5 DEF RequestsFit

THEOREM WhatRequestsReturn == Spec => []RequestsReturn
<1>1. Init => RequestsReturn
  BY DEF Init, Idle, RequestsReturn
<1>2. IInv /\ RequestsReturn /\ [Next]_vars => RequestsReturn'
  <2> SUFFICES ASSUME IInv, RequestsReturn, [Next]_vars
               PROVE  RequestsReturn'
    OBVIOUS
  <2>1. CASE UNCHANGED request
    BY <2>1 DEF RequestsReturn
  <2>2. ASSUME NEW r \in Request, NEW t \in MetricType, NEW m, Lookup(r, t, m),
               \/ t = "custom" /\ m \in CustomMetric
               \/ t = "external" /\ m \in ExternalMetric
        PROVE  RequestsReturn'
    <3>1. /\ \A s \in Request \ {r} : request'[s] = request[s]
          /\ request'[r].at = "call" \/ request'[r].outcome = "notFound"
      BY <2>2, LookupReturns
    <3> QED
      BY <3>1 DEF RequestsReturn
  <2>3. ASSUME NEW r \in Request, Call(r)
        PROVE  RequestsReturn'
    <3>1. /\ \A s \in Request \ {r} : request'[s] = request[s]
          /\ request'[r].type = request[r].type
          /\ request'[r].outcome \in IF request[r].type = "custom"
                                     THEN {"asked", "unknown"} ELSE {"panic"}
      BY <2>3, CallReturns
    <3> QED
      BY <3>1 DEF RequestsReturn
  <2>4. ASSUME NEW c \in Client, Job(c)
        PROVE  UNCHANGED request
    BY <2>4
       DEF Job, Tick, List, PublishError, NotifyMonitoring, NotifyRegistry, CompleteRefresh
  <2> QED
    BY <2>1, <2>2, <2>3, <2>4 DEF Next, Main, BackendChanges, vars, MetricType
<1> QED
  BY <1>1, <1>2, Invariance, PTL DEF Spec

\* An adapter that does without external metrics of other adapters.
NoExternal == \A c \in Client : ServerType[c] = "elasticsearch" \/ ~HasType(c, "external")

\* No external metric is ever registered, so no request for one is sent on.
NoneSentOn ==
    /\ DOMAIN externalMetrics = {}
    /\ \A r \in Request : request[r].at = "call" => request[r].type = "custom"
    /\ ExternalRequestsNeverPanic

\* The registry is told of no external metric.
LEMMA NoneRegistered ==
    ASSUME NoExternal, IInv, NEW c \in Client, NotifyRegistry(c, "external"),
           DOMAIN externalMetrics = {}
    PROVE  DOMAIN externalMetrics' = {}
<1>1. job[c] = Sched!At("register", "external")
  BY DEF NotifyRegistry, Sched!NotifyRegistry
<1>2. TypeFits(c, job[c]) /\ ListingFits(c, job[c]) /\ MapsFit
  BY DEF IInv, Fits, JobsFit
<1>3. ServerType[c] = "elasticsearch"
  BY <1>1, <1>2 DEF NoExternal, TypeFits, CallSteps, MetricType
<1>4. listed[c] = {}
  BY <1>1, <1>2, <1>3 DEF ListingFits
<1>5. externalMetrics' = UpdateMetrics(externalMetrics, c, {})
  BY <1>4, SameRegistry DEF NotifyRegistry, Reg!UpdateExternalMetrics
<1>6. /\ IsRegistryOf(externalMetrics', ExternalMetric) /\ WellFormed(externalMetrics')
      /\ \A m \in ExternalMetric : Serving(externalMetrics', m) = {}
  BY <1>2, <1>5, UpdateLemma DEF MapsFit, Serving
<1>7. ASSUME NEW m \in DOMAIN externalMetrics'
      PROVE  FALSE
  <2>1. /\ m \in ExternalMetric /\ externalMetrics'[m] \in Seq(Client)
        /\ externalMetrics'[m] # <<>>
    BY <1>6, <1>7 DEF IsRegistryOf, WellFormed, Listed
  <2>2. externalMetrics'[m][1] \in ToSet(externalMetrics'[m])
    BY <2>1 DEF ToSet
  <2> QED
    BY <1>6, <1>7, <2>1, <2>2 DEF Serving
<1> QED
  BY <1>7

\* A request for an external metric never panics when no entry of the existing
\* adapters has metrics of that type: what sends one to the panic is such an
\* entry, and nothing else.
THEOREM OnlyAdaptersPanic ==
    ASSUME NoExternal
    PROVE  Spec => []ExternalRequestsNeverPanic
<1>1. Init => NoneSentOn
  BY DEF Init, Reg!Init, Idle, NoneSentOn, ExternalRequestsNeverPanic
<1>2. IInv /\ NoneSentOn /\ [Next]_vars => NoneSentOn'
  <2> SUFFICES ASSUME IInv, NoneSentOn, [Next]_vars
               PROVE  NoneSentOn'
    OBVIOUS
  <2>1. CASE UNCHANGED <<externalMetrics, request>>
    BY <2>1 DEF NoneSentOn, ExternalRequestsNeverPanic
  <2>2. ASSUME NEW c \in Client, NotifyRegistry(c, "external")
        PROVE  NoneSentOn'
    <3>1. UNCHANGED request
      BY <2>2 DEF NotifyRegistry
    <3> QED
      BY <2>2, <3>1, NoneRegistered DEF NoneSentOn, ExternalRequestsNeverPanic
  <2>3. ASSUME NEW r \in Request, NEW m \in CustomMetric, Lookup(r, "custom", m)
        PROVE  NoneSentOn'
    <3>1. /\ \A s \in Request \ {r} : request'[s] = request[s]
          /\ request'[r].type = "custom"
      BY <2>3, LookupReturns DEF MetricType
    <3>2. UNCHANGED externalMetrics
      BY <2>3 DEF Lookup, Reg!GetCustomMetricClient, Reg!Answers, Reg!registryVars
    <3> QED
      BY <3>1, <3>2 DEF NoneSentOn, ExternalRequestsNeverPanic
  <2>4. ASSUME NEW r \in Request, NEW m \in ExternalMetric, Lookup(r, "external", m)
        PROVE  NoneSentOn'
    <3>1. answer'[r] = NotFound
      BY <2>4, SameRegistry
         DEF Lookup, Reg!GetExternalMetricClient, Reg!GetMetricClient, Reg!Answers,
             IInv, Fits, RequestsFit, NoneSentOn
    <3>2. request'[r] = [at |-> "idle", type |-> "external", outcome |-> "notFound"]
      BY <2>4, <3>1 DEF Lookup, NotFound, IInv, Fits, RequestsFit
    <3>3. UNCHANGED externalMetrics /\ \A s \in Request \ {r} : request'[s] = request[s]
      BY <2>4, LookupReturns
         DEF Lookup, Reg!GetExternalMetricClient, Reg!Answers, Reg!registryVars, MetricType
    <3> QED
      BY <3>2, <3>3 DEF NoneSentOn, ExternalRequestsNeverPanic
  <2>5. ASSUME NEW r \in Request, Call(r)
        PROVE  NoneSentOn'
    <3>1. request[r].type = "custom"
      BY <2>5 DEF Call, NoneSentOn
    <3>2. /\ \A s \in Request \ {r} : request'[s] = request[s]
          /\ request'[r].type = "custom"
      BY <2>5, <3>1, CallReturns
    <3>3. UNCHANGED externalMetrics
      BY <2>5 DEF Call, registryVars
    <3> QED
      BY <3>2, <3>3 DEF NoneSentOn, ExternalRequestsNeverPanic
  <2>6. ASSUME NEW c \in Client, NotifyRegistry(c, "custom")
        PROVE  UNCHANGED <<externalMetrics, request>>
    BY <2>6 DEF NotifyRegistry, Reg!UpdateCustomMetrics
  <2>7. ASSUME NEW c \in Client,
               \/ Tick(c) \/ List(c) \/ CompleteRefresh(c)
               \/ \E t \in MetricType : PublishError(c, t) \/ NotifyMonitoring(c, t)
        PROVE  UNCHANGED <<externalMetrics, request>>
    BY <2>7 DEF Tick, List, CompleteRefresh, PublishError, NotifyMonitoring, registryVars
  <2>8. ASSUME \/ Main \/ UNCHANGED vars
               \/ \E c \in Client, t \in MetricType : BackendChanges(c, t)
        PROVE  UNCHANGED <<externalMetrics, request>>
    BY <2>8 DEF Main, BackendChanges, vars, registryVars
  <2> QED
    BY <2>1, <2>2, <2>3, <2>4, <2>5, <2>6, <2>7, <2>8 DEF Next, Job, MetricType
<1>3. NoneSentOn => ExternalRequestsNeverPanic
  BY DEF NoneSentOn
<1> QED
  BY <1>1, <1>2, <1>3, Invariance, PTL DEF Spec

-----------------------------------------------------------------------------
(* The registry and the namers of the clients, outside the window between a  *)
(* listing and the update of the registry.  The registry never sends a       *)
(* client a metric its namer does not know, unless it is a static field of   *)
(* one that renames; when no two entries share a name it also forgets        *)
(* nobody's metrics as it updates another client's (`both`).                 *)

CanBeSent(c) == known[c].names \cup Unregistered(c)

InStep(both) ==
    \A c \in Client : ~Publishing(c) =>
        /\ ServesCustom(c) \subseteq CanBeSent(c)
        /\ both => known[c].names \subseteq ServesCustom(c)

\* A step that writes neither the registry nor the namers, and does not end
\* the publication of a list.
LEMMA MatchesFrame ==
    ASSUME NEW both \in BOOLEAN, InStep(both), UNCHANGED <<customMetrics, known>>,
           \A c \in Client : Publishing(c) => Publishing(c)'
    PROVE  InStep(both)'
  BY SameRegistry DEF InStep, CanBeSent, Unregistered, ServesCustom, ServedBy

\* A job that is not publishing, or that goes on publishing.
LEMMA MatchesJob ==
    ASSUME NEW both \in BOOLEAN, SchedulerFits, InStep(both), NEW c \in Client, NEW step,
           job' = [job EXCEPT ![c] = step], UNCHANGED <<customMetrics, known>>,
           \/ ~Publishing(c)
           \/ step = Sched!At("register", "custom")
    PROVE  InStep(both)'
<1>1. \A d \in Client : job'[d] = IF d = c THEN step ELSE job[d]
  BY DEF SchedulerFits, Sched!TypeOK
<1>2. ASSUME NEW d \in Client, Publishing(d)
      PROVE  Publishing(d)'
  BY <1>1, <1>2 DEF Publishing
<1> QED
  BY <1>2, MatchesFrame

\* A new list of custom metrics opens the window, ...
LEMMA MatchesListing ==
    ASSUME NEW both \in BOOLEAN, SchedulerFits, ClientsFit, InStep(both), NEW c \in Client,
           job' = [job EXCEPT ![c] = Sched!At("monitor", "custom")],
           UNCHANGED customMetrics,
           \A d \in Client \ {c} : known'[d] = known[d]
    PROVE  InStep(both)'
<1>1. \A d \in Client : job'[d] = IF d = c THEN Sched!At("monitor", "custom") ELSE job[d]
  BY DEF SchedulerFits, Sched!TypeOK
<1>2. Publishing(c)'
  BY <1>1 DEF Publishing
<1>3. ASSUME NEW d \in Client \ {c}, ~Publishing(d)'
      PROVE  /\ ServesCustom(d)' \subseteq CanBeSent(d)'
             /\ both => known'[d].names \subseteq ServesCustom(d)'
  <2>1. ~Publishing(d) /\ known'[d] = known[d]
    BY <1>1, <1>3 DEF Publishing
  <2> QED
    BY <2>1, SameRegistry
       DEF InStep, CanBeSent, Unregistered, ServesCustom, ServedBy
<1> QED
  BY <1>2, <1>3 DEF InStep

\* ... and the update of the registry closes it.
LEMMA MatchesUpdate ==
    ASSUME NEW both \in BOOLEAN, both => DistinctNames, IInv, InStep(both),
           NEW c \in Client, NotifyRegistry(c, "custom")
    PROVE  InStep(both)'
<1>1. /\ job[c] = Sched!At("register", "custom") /\ known' = known
      /\ job' = [job EXCEPT ![c] = Sched!AfterCustom(c)]
      /\ customMetrics' = UpdateMetrics(customMetrics, c, listed[c])
  BY SameRegistry
     DEF NotifyRegistry, Sched!NotifyRegistry, Sched!Goes, clientVars,
         Reg!UpdateCustomMetrics
<1>2. KnowsListed(c)
  BY <1>1 DEF IInv, Fits, JobsFit, ListingFits
<1>3. listed[c] \in SUBSET CustomMetric
  BY <1>2 DEF KnowsListed
<1>4. IsRegistryOf(customMetrics, CustomMetric) /\ WellFormed(customMetrics)
  BY DEF IInv, Fits, MapsFit
<1>5. /\ ServedBy(customMetrics')[c] = listed[c]
      /\ \A d \in Client \ {c} :
            /\ ServedBy(customMetrics')[d] \subseteq ServedBy(customMetrics)[d]
            /\ both => ServedBy(customMetrics')[d] = ServedBy(customMetrics)[d]
  <2>1. /\ ServedBy(customMetrics')[c] = listed[c]
        /\ \A d \in Client \ {c} :
              ServedBy(customMetrics')[d] \subseteq ServedBy(customMetrics)[d]
    BY <1>1, <1>3, <1>4, UpdateGivesNobodyElse
  <2>2. ASSUME both
        PROVE  \A d \in Client \ {c} :
                  ServedBy(customMetrics')[d] = ServedBy(customMetrics)[d]
    <3>1. ServedBy(customMetrics') = [ServedBy(customMetrics) EXCEPT ![c] = listed[c]]
      BY <2>2, <1>1, <1>3, <1>4, UpdateAnnounces
    <3>2. ServedBy(customMetrics) \in [Client -> SUBSET CustomMetric]
      BY <1>4, ServedByServing
    <3> QED
      BY <3>1, <3>2
  <2> QED
    BY <2>1, <2>2
<1>6. ASSUME NEW d \in Client, ~Publishing(d)'
      PROVE  /\ ServesCustom(d)' \subseteq CanBeSent(d)'
             /\ both => known'[d].names \subseteq ServesCustom(d)'
  <2>1. CASE d = c
    <3>1. ServesCustom(c)' = listed[c]
      BY <1>5, SameRegistry DEF ServesCustom
    <3> QED
      BY <1>1, <1>2, <2>1, <3>1 DEF KnowsListed, CanBeSent, Unregistered
  <2>2. CASE d # c
    <3>1. job'[d] = job[d]
      BY <1>1, <2>2 DEF IInv, SchedulerFits, Sched!TypeOK
    <3>2. /\ ServedBy(customMetrics)[d] \subseteq CanBeSent(d)
          /\ both => known[d].names \subseteq ServedBy(customMetrics)[d]
      BY <1>6, <3>1, SameRegistry DEF InStep, ServesCustom, Publishing
    <3> QED
      BY <1>1, <1>5, <2>2, <3>2, SameRegistry DEF ServesCustom, CanBeSent, Unregistered
  <2> QED
    BY <2>1, <2>2
<1> QED
  BY <1>6 DEF InStep

\* Each step of a job leaves the registry and the namers in step.
LEMMA MatchesJobs ==
    ASSUME NEW both \in BOOLEAN, both => DistinctNames, IInv, InStep(both),
           NEW c \in Client, Job(c)
    PROVE  InStep(both)'
<1>1. /\ SchedulerFits /\ ClientsFit
      /\ known \in [Client -> {NilNamer} \cup {Namer(S) : S \in SUBSET CustomMetric}]
  BY DEF IInv, Fits, ClientsFit
<1>2. CASE Tick(c)
  <2>1. /\ job[c] = Sched!Idle /\ job' = [job EXCEPT ![c] = Sched!FirstCall(c)]
        /\ UNCHANGED <<customMetrics, known>>
    BY <1>2 DEF Tick, Sched!Tick, Sched!Goes, registryVars, clientVars
  <2>2. ~Publishing(c)
    BY <2>1, Apart DEF Publishing
  <2> QED
    BY <1>1, <2>1, <2>2, MatchesJob
<1>3. CASE CompleteRefresh(c)
  <2>1. /\ job[c] = Sched!Sync /\ job' = [job EXCEPT ![c] = Sched!Idle]
        /\ UNCHANGED <<customMetrics, known>>
    BY <1>3 DEF CompleteRefresh, Sched!CompleteRefresh, registryVars, clientVars
  <2>2. ~Publishing(c)
    BY <2>1, Apart DEF Publishing
  <2> QED
    BY <1>1, <2>1, <2>2, MatchesJob
<1>4. ASSUME NEW t \in MetricType, Sched!ListFails(c, t),
             UNCHANGED <<customMetrics, known>>
      PROVE  InStep(both)'
  <2>1. job[c] = Sched!At("list", t) /\ job' = [job EXCEPT ![c] = Sched!At("fail", t)]
    BY <1>4 DEF Sched!ListFails, Sched!Goes
  <2>2. ~Publishing(c)
    BY <2>1, Apart DEF Publishing
  <2> QED
    BY <1>1, <1>4, <2>1, <2>2, MatchesJob
<1>5. CASE ListCustomMetricInfos(c) /\ Sched!ListSucceeds(c, "custom") /\ UNCHANGED registryVars
  <2>1. /\ job[c] = Sched!At("list", "custom")
        /\ job' = [job EXCEPT ![c] = Sched!At("monitor", "custom")]
        /\ UNCHANGED customMetrics
    BY <1>5 DEF Sched!ListSucceeds, Sched!Goes, registryVars
  <2>2. \/ known' = [known EXCEPT ![c] = Namer(backend[c].custom.names)]
        \/ UNCHANGED known
    BY <1>5 DEF ListCustomMetricInfos, clientVars
  <2>3. \A d \in Client \ {c} : known'[d] = known[d]
    BY <1>1, <2>2
  <2> QED
    BY <1>1, <2>1, <2>3, MatchesListing
<1>6. CASE ListExternalMetrics(c) /\ Sched!ListSucceeds(c, "external") /\ UNCHANGED registryVars
  <2>1. /\ job[c] = Sched!At("list", "external")
        /\ job' = [job EXCEPT ![c] = Sched!At("monitor", "external")]
        /\ UNCHANGED <<customMetrics, known>>
    BY <1>6 DEF ListExternalMetrics, Sched!ListSucceeds, Sched!Goes, registryVars
  <2>2. ~Publishing(c)
    BY <2>1, Apart DEF Publishing
  <2> QED
    BY <1>1, <2>1, <2>2, MatchesJob
<1>7. CASE List(c)
  <2>1. UNCHANGED customMetrics /\ UNCHANGED registryVars
    BY <1>7 DEF List, registryVars
  <2>2. CASE ListCustomMetricInfos(c)
    BY <1>4, <1>5, <2>1, <2>2 DEF ListCustomMetricInfos, MetricType, clientVars
  <2>3. CASE ListExternalMetrics(c)
    BY <1>4, <1>6, <2>1, <2>3 DEF ListExternalMetrics, MetricType
  <2> QED
    BY <1>7, <2>2, <2>3 DEF List
<1>8. ASSUME NEW t \in MetricType, PublishError(c, t)
      PROVE  InStep(both)'
  <2>1. /\ job[c] = Sched!At("fail", t) /\ job' = [job EXCEPT ![c] = Sched!Idle]
        /\ UNCHANGED <<customMetrics, known>>
    BY <1>8 DEF PublishError, Sched!PublishError, Sched!Goes, registryVars, clientVars
  <2>2. ~Publishing(c)
    BY <2>1, Apart DEF Publishing
  <2> QED
    BY <1>1, <2>1, <2>2, MatchesJob
<1>9. ASSUME NEW t \in MetricType, NotifyMonitoring(c, t)
      PROVE  InStep(both)'
  <2>1. /\ job[c] = Sched!At("monitor", t)
        /\ job' = [job EXCEPT ![c] = Sched!At("register", t)]
        /\ UNCHANGED <<customMetrics, known>>
    BY <1>9
       DEF NotifyMonitoring, Sched!NotifyMonitoring, Sched!Goes, registryVars, clientVars
  <2>2. t = "custom" \/ ~Publishing(c)
    BY <2>1, Apart DEF Publishing
  <2> QED
    BY <1>1, <2>1, <2>2, MatchesJob
<1>10. ASSUME NotifyRegistry(c, "external")
       PROVE  InStep(both)'
  <2>1. /\ job[c] = Sched!At("register", "external")
        /\ job' = [job EXCEPT ![c] = Sched!Sync]
        /\ UNCHANGED <<customMetrics, known>>
    BY <1>10
       DEF NotifyRegistry, Sched!NotifyRegistry, Sched!Goes, Reg!UpdateExternalMetrics,
           clientVars
  <2>2. ~Publishing(c)
    BY <2>1, Apart DEF Publishing
  <2> QED
    BY <1>1, <2>1, <2>2, MatchesJob
<1> QED
  BY <1>2, <1>3, <1>7, <1>8, <1>9, <1>10, MatchesUpdate DEF Job, MetricType

LEMMA MatchesNext ==
    ASSUME NEW both \in BOOLEAN, both => DistinctNames, IInv, InStep(both), [Next]_vars
    PROVE  InStep(both)'
<1>1. ASSUME \/ UNCHANGED vars
             \/ \E c \in Client, t \in MetricType : BackendChanges(c, t)
             \/ \E r \in Request : Call(r) \/ \E t, m : Lookup(r, t, m)
      PROVE  InStep(both)'
  <2>1. UNCHANGED <<job, known, customMetrics>>
    BY <1>1
       DEF BackendChanges, Call, Lookup, Reg!GetCustomMetricClient,
           Reg!GetExternalMetricClient, Reg!Answers, Reg!registryVars, vars, schedVars,
           registryVars, clientVars
  <2> QED
    BY <2>1, MatchesFrame DEF Publishing
<1>2. ASSUME Main
      PROVE  InStep(both)'
  <2>1. UNCHANGED <<customMetrics, known>>
    BY <1>2 DEF Main, registryVars, clientVars
  <2>2. CASE UNCHANGED job
    BY <2>1, <2>2, MatchesFrame DEF Publishing
  <2>3. ASSUME NEW c \in Client, Sched!Start(c)
        PROVE  InStep(both)'
    <3>1. job[c] = Sched!New /\ job' = [job EXCEPT ![c] = Sched!FirstCall(c)]
      BY <2>3 DEF Sched!Start
    <3>2. ~Publishing(c)
      BY <3>1, Apart DEF Publishing
    <3> QED
      BY <2>1, <3>1, <3>2, MatchesJob DEF IInv
  <2> QED
    BY <1>2, <2>2, <2>3 DEF Main, Sched!Main, Sched!AllStarted, Sched!WaitInitialSync
<1> QED
  BY <1>1, <1>2, MatchesJobs DEF Next

LEMMA MatchesInit ==
    ASSUME Init, NEW both \in BOOLEAN
    PROVE  InStep(both)
<1>1. customMetrics = [m \in {} |-> <<>>] /\ known = [c \in Client |-> NilNamer]
  BY DEF Init, Reg!Init
<1> QED
  BY <1>1, SameRegistry DEF InStep, ServesCustom, ServedBy, NilNamer

\* Outside the window between a listing and the update of the registry, the
\* registry sends to a client all the custom metrics its namer knows, and no
\* other but the static fields of a client of Elasticsearch that renames.
THEOREM MatchesClients ==
    ASSUME DistinctNames
    PROVE  Spec => []RegistryMatchesClients
<1>1. InStep(TRUE) => RegistryMatchesClients
  BY DEF InStep, CanBeSent, RegistryMatchesClients
<1>2. Init => InStep(TRUE)
  BY MatchesInit
<1>3. IInv /\ InStep(TRUE) /\ [Next]_vars => InStep(TRUE)'
  BY MatchesNext
<1> QED
  BY <1>1, <1>2, <1>3, Invariance, PTL DEF Spec

\* Whatever names the entries share, a request for a custom metric is answered
\* NotFound or sent to a client that is publishing a new list, whose namer knows
\* the metric, or that renames and has it as a static field: another client's
\* update never lends it a metric.
KnownIsSent ==
    \A r \in Request, m \in CustomMetric : Lookup(r, "custom", m) =>
        \/ answer'[r] = NotFound
        \/ \E c \in Client : /\ answer'[r] = Client200(c)
                             /\ Publishing(c) \/ m \in CanBeSent(c)

LEMMA LookupSendsKnown ==
    ASSUME IInv, InStep(FALSE)
    PROVE  KnownIsSent
<1> SUFFICES ASSUME NEW r \in Request, NEW m \in CustomMetric, Lookup(r, "custom", m)
             PROVE  \/ answer'[r] = NotFound
                    \/ \E c \in Client : /\ answer'[r] = Client200(c)
                                         /\ Publishing(c) \/ m \in CanBeSent(c)
  BY DEF KnownIsSent
<1>1. IsRegistryOf(customMetrics, CustomMetric) /\ WellFormed(customMetrics)
  BY DEF IInv, Fits, MapsFit
<1>2. answer'[r] = GetMetricClient(customMetrics, m)
  BY SameRegistry
     DEF Lookup, Reg!GetCustomMetricClient, Reg!Answers, IInv, Fits, RequestsFit
<1>3. ASSUME NEW c \in Serving(customMetrics, m)
      PROVE  c \in Client /\ (Publishing(c) \/ m \in CanBeSent(c))
  <2>1. c \in Client /\ m \in ServedBy(customMetrics)[c]
    BY <1>1, ServedByServing
  <2> QED
    BY <2>1, SameRegistry DEF InStep, ServesCustom
<1> QED
  BY <1>1, <1>2, <1>3, LookupLemma

\* A request for a custom metric is not found, or is sent to a client whose namer
\* knows the metric, that renames and has it as a static field, or that has
\* listed others since and is about to tell the registry; whatever names are equal.
THEOREM SendsOnlyKnown == Spec => [][KnownIsSent]_vars
<1>1. IInv /\ InStep(FALSE) => [KnownIsSent]_vars
  BY LookupSendsKnown
<1>2. Init => InStep(FALSE)
  BY MatchesInit
<1>3. IInv /\ InStep(FALSE) /\ [Next]_vars => InStep(FALSE)'
  BY MatchesNext
<1> QED
  BY <1>1, <1>2, <1>3, Invariance, PTL DEF Spec

\* A client refuses a request that the registry sent it only when a refresh came
\* in between, or when it renames and the metric is one of its static fields:
\* for any number of requests and refreshes, and whatever names clients share.
THEOREM RefusesOnlyGone == Spec => RefusedOnlyWhenGone
<1>1. IInv /\ InStep(FALSE) =>
         [\A r \in Request :
             LET c == answer[r].client
                 m == request[r].metric
             IN  Call(r) /\ request'[r].outcome = "unknown" =>
                     \/ Publishing(c) \/ m \notin ServesCustom(c)
                     \/ m \in Unregistered(c)]_vars
  <2> SUFFICES ASSUME IInv, InStep(FALSE), NEW r \in Request, Call(r),
                      request'[r].outcome = "unknown"
               PROVE  \/ Publishing(answer[r].client)
                      \/ request[r].metric \notin ServesCustom(answer[r].client)
                      \/ request[r].metric \in Unregistered(answer[r].client)
    OBVIOUS
  <2>1. RequestsFit /\ request[r].at = "call"
    BY DEF IInv, Fits, Call
  <2>2. PICK c \in Client : answer[r] = Client200(c)
    BY <2>1 DEF RequestsFit
  <2>3. answer[r].client = c
    BY <2>2 DEF Client200
  <2> DEFINE o == IF request[r].type = "custom" THEN CustomOutcome(c, request[r].metric)
                                                ELSE ExternalOutcome(c)
  <2>4. request' = [request EXCEPT ![r] =
           [at |-> "idle", type |-> request[r].type, outcome |-> o]]
    BY <2>3 DEF Call
  <2> HIDE DEF o
  <2>5. o = "unknown"
    BY <2>1, <2>4 DEF RequestsFit
  <2>6. request[r].metric \notin known[c].names
    BY <2>5 DEF o, CustomOutcome, ExternalOutcome
  <2> QED
    BY <2>3, <2>6 DEF InStep, CanBeSent
<1>2. Init => InStep(FALSE)
  BY MatchesInit
<1>3. IInv /\ InStep(FALSE) /\ [Next]_vars => InStep(FALSE)'
  BY MatchesNext
<1> QED
  BY <1>1, <1>2, <1>3, Invariance, PTL DEF Spec, RefusedOnlyWhenGone

\* A lookup does at least as well as any settled client that knows the metric:
\* the request goes to it or to a client of higher priority, never to a 404.
THEOREM LooksUpBest ==
    ASSUME DistinctNames
    PROVE  Spec => LookupNotWorseThanKnown
<1>1. IInv /\ RegistryMatchesClients =>
         [\A r \in Request, m \in CustomMetric, c \in Client :
             /\ Lookup(r, "custom", m)
             /\ ~Publishing(c) /\ m \in known[c].names
             => /\ answer'[r].kind = "client"
                /\ Priority[answer'[r].client] >= Priority[c]]_vars
  <2> SUFFICES ASSUME IInv, RegistryMatchesClients,
                      NEW r \in Request, NEW m \in CustomMetric, NEW c \in Client,
                      Lookup(r, "custom", m), ~Publishing(c), m \in known[c].names
               PROVE  /\ answer'[r].kind = "client"
                      /\ Priority[answer'[r].client] >= Priority[c]
    OBVIOUS
  <2>1. IsRegistryOf(customMetrics, CustomMetric) /\ WellFormed(customMetrics)
    BY DEF IInv, Fits, MapsFit
  <2>2. m \in ServedBy(customMetrics)[c]
    BY SameRegistry DEF RegistryMatchesClients, ServesCustom
  <2>3. c \in Serving(customMetrics, m)
    BY <2>1, <2>2, ServedByServing
  <2>4. PICK d \in Client : /\ GetMetricClient(customMetrics, m) = Client200(d)
                            /\ Priority[c] <= Priority[d]
    BY <2>1, <2>3, LookupLemma
  <2>5. answer' = [answer EXCEPT ![r] = GetMetricClient(customMetrics, m)]
    BY SameRegistry DEF Lookup, Reg!GetCustomMetricClient, Reg!Answers
  <2>6. answer'[r] = Client200(d)
    BY <2>4, <2>5 DEF IInv, Fits, RequestsFit
  <2>7. Priority[c] \in Nat /\ Priority[d] \in Nat
    BY PriorityAssumption
  <2> QED
    BY <2>4, <2>6, <2>7 DEF Client200
<1>2. Spec => []RegistryMatchesClients
  BY MatchesClients
<1> QED
  BY <1>1, <1>2, Invariance, PTL DEF LookupNotWorseThanKnown
=============================================================================
