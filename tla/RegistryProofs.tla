--------------------------- MODULE RegistryProofs ---------------------------
(***************************************************************************)
(* Proofs about the registry, for every set of clients, metrics and        *)
(* callers.                                                                *)
(***************************************************************************)
EXTENDS Registry, MetricClientsProofs

\* The inductive invariant: an update keeps the lists well formed, and a
\* lookup in well-formed lists never meets an empty one.
IInv == TypeOK /\ ListsWellFormed /\ NeverWithoutBackend

LEMMA TwoMaps ==
    ListsWellFormed <=> WellFormed(customMetrics) /\ WellFormed(externalMetrics)
  BY DEF ListsWellFormed, WellFormed

\* What a call may answer, whatever map it reads.
GoodAnswer == Answer \ {NoBackend}

LEMMA ReadAnswers ==
    ASSUME TypeOK, ListsWellFormed, NEW r \in Reader, NEW a \in GoodAnswer,
           NeverWithoutBackend, Answers(r, a)
    PROVE  TypeOK' /\ ListsWellFormed' /\ NeverWithoutBackend'
<1>1. a \in Answer /\ a # NoBackend
  BY DEF GoodAnswer
<1>2. /\ answer' = [answer EXCEPT ![r] = a]
      /\ UNCHANGED <<customMetrics, externalMetrics>>
  BY DEF Answers, registryVars
<1>3. TypeOK'
  BY <1>1, <1>2 DEF TypeOK, IsRegistryOf
<1>4. ListsWellFormed'
  BY <1>2 DEF ListsWellFormed, Listed, OneClientPerName, BestFirst, HigherFirst
<1>5. NeverWithoutBackend'
  BY <1>1, <1>2 DEF NeverWithoutBackend, TypeOK
<1> QED
  BY <1>3, <1>4, <1>5

LEMMA InitIInv == Init => IInv
<1> SUFFICES ASSUME Init PROVE IInv
  OBVIOUS
<1>1. /\ IsRegistryOf(customMetrics, CustomMetric)
      /\ IsRegistryOf(externalMetrics, ExternalMetric)
  BY DEF Init, IsRegistryOf
<1>2. answer \in [Reader -> Answer]
  BY DEF Init, Answer
<1>3. ListsWellFormed
  BY DEF Init, ListsWellFormed, Listed, OneClientPerName, BestFirst
<1>4. NeverWithoutBackend
  BY DEF Init, NeverWithoutBackend, NoAnswer, NoBackend
<1> QED
  BY <1>1, <1>2, <1>3, <1>4 DEF IInv, TypeOK

\* Each lookup and each listing gives an answer other than NoBackend.
LEMMA LookupAnswer ==
    ASSUME NEW Metric, NEW metrics, IsRegistryOf(metrics, Metric),
           WellFormed(metrics), NEW m \in Metric
    PROVE  GetMetricClient(metrics, m) \in GoodAnswer
<1>1. CASE GetMetricClient(metrics, m) = NotFound
  BY <1>1 DEF GoodAnswer, Answer, NotFound, NoBackend
<1>2. CASE \E c \in Client : GetMetricClient(metrics, m) = Client200(c)
  BY <1>2 DEF GoodAnswer, Answer, Client200, NoBackend
<1> QED
  BY <1>1, <1>2, LookupLemma

LEMMA ListingAnswer ==
    ASSUME NEW S \in (SUBSET CustomMetric) \cup (SUBSET ExternalMetric)
    PROVE  List200(S) \in GoodAnswer
  BY DEF GoodAnswer, Answer, List200, NoBackend

LEMMA NextIInv == IInv /\ [Next]_vars => IInv'
<1> SUFFICES ASSUME TypeOK, ListsWellFormed, NeverWithoutBackend, [Next]_vars
             PROVE  TypeOK' /\ ListsWellFormed' /\ NeverWithoutBackend'
  BY DEF IInv
<1>1. /\ IsRegistryOf(customMetrics, CustomMetric)
      /\ IsRegistryOf(externalMetrics, ExternalMetric)
      /\ WellFormed(customMetrics) /\ WellFormed(externalMetrics)
  BY TwoMaps DEF TypeOK
<1>2. ASSUME NEW c \in Client, NEW infos \in SUBSET CustomMetric,
             UpdateCustomMetrics(c, infos), UNCHANGED answer
      PROVE  TypeOK' /\ ListsWellFormed' /\ NeverWithoutBackend'
  <2>1. /\ IsRegistryOf(customMetrics', CustomMetric) /\ WellFormed(customMetrics')
        /\ externalMetrics' = externalMetrics
    BY <1>1, <1>2, UpdateLemma DEF UpdateCustomMetrics
  <2>2. TypeOK'
    BY <1>2, <2>1 DEF TypeOK, IsRegistryOf
  <2>3. ListsWellFormed'
    BY <1>1, <2>1 DEF ListsWellFormed, WellFormed
  <2> QED
    BY <1>2, <2>2, <2>3 DEF NeverWithoutBackend
<1>3. ASSUME NEW c \in Client, NEW infos \in SUBSET ExternalMetric,
             UpdateExternalMetrics(c, infos), UNCHANGED answer
      PROVE  TypeOK' /\ ListsWellFormed' /\ NeverWithoutBackend'
  <2>1. /\ IsRegistryOf(externalMetrics', ExternalMetric)
        /\ WellFormed(externalMetrics') /\ customMetrics' = customMetrics
    BY <1>1, <1>3, UpdateLemma DEF UpdateExternalMetrics
  <2>2. TypeOK'
    BY <1>3, <2>1 DEF TypeOK, IsRegistryOf
  <2>3. ListsWellFormed'
    BY <1>1, <2>1 DEF ListsWellFormed, WellFormed
  <2> QED
    BY <1>3, <2>2, <2>3 DEF NeverWithoutBackend
<1>4. ASSUME NEW r \in Reader, NEW m \in CustomMetric, GetCustomMetricClient(r, m)
      PROVE  TypeOK' /\ ListsWellFormed' /\ NeverWithoutBackend'
  BY <1>1, <1>4, LookupAnswer, ReadAnswers DEF GetCustomMetricClient
<1>5. ASSUME NEW r \in Reader, NEW m \in ExternalMetric, GetExternalMetricClient(r, m)
      PROVE  TypeOK' /\ ListsWellFormed' /\ NeverWithoutBackend'
  BY <1>1, <1>5, LookupAnswer, ReadAnswers DEF GetExternalMetricClient
<1>6. ASSUME NEW r \in Reader, ListAllCustomMetrics(r) \/ ListAllExternalMetrics(r)
      PROVE  TypeOK' /\ ListsWellFormed' /\ NeverWithoutBackend'
  <2>1. /\ DOMAIN customMetrics \in SUBSET CustomMetric
        /\ DOMAIN externalMetrics \in SUBSET ExternalMetric
    BY <1>1 DEF IsRegistryOf
  <2>2. /\ List200(DOMAIN customMetrics) \in GoodAnswer
        /\ List200(DOMAIN externalMetrics) \in GoodAnswer
    BY <2>1, ListingAnswer
  <2>3. CASE ListAllCustomMetrics(r)
    BY <2>2, <2>3, ReadAnswers DEF ListAllCustomMetrics
  <2>4. CASE ListAllExternalMetrics(r)
    BY <2>2, <2>4, ReadAnswers DEF ListAllExternalMetrics
  <2> QED
    BY <1>6, <2>3, <2>4
<1>7. ASSUME UNCHANGED vars
      PROVE  TypeOK' /\ ListsWellFormed' /\ NeverWithoutBackend'
  BY <1>7 DEF vars, TypeOK, IsRegistryOf, ListsWellFormed, Listed,
     OneClientPerName, BestFirst, HigherFirst, NeverWithoutBackend
<1> QED
  BY <1>2, <1>3, <1>4, <1>5, <1>6, <1>7 DEF Next, Update, Read

\* The registry's maps and answers always have their types.
THEOREM TypeCorrect == Spec => []TypeOK
<1>1. IInv => TypeOK
  BY DEF IInv
<1> QED
  BY <1>1, InitIInv, NextIInv, PTL DEF Spec

\* No interleaving of updates leaves a metric with an empty list, with two
\* clients of the same name or with its best client anywhere but first.
THEOREM AlwaysWellFormed == Spec => []ListsWellFormed
<1>1. IInv => ListsWellFormed
  BY DEF IInv
<1> QED
  BY <1>1, InitIInv, NextIInv, PTL DEF Spec

\* The error of getBestMetricClient() never reaches a caller.
THEOREM AlwaysABackend == Spec => []NeverWithoutBackend
<1>1. IInv => NeverWithoutBackend
  BY DEF IInv
<1> QED
  BY <1>1, InitIInv, NextIInv, PTL DEF Spec

-----------------------------------------------------------------------------
\* The refinement.
\* A lookup gives one of the answers the promise allows.
LEMMA LookupPromised ==
    ASSUME NEW Metric, NEW metrics, IsRegistryOf(metrics, Metric),
           WellFormed(metrics), NEW m \in Metric
    PROVE  GetMetricClient(metrics, m) \in Promise!Lookup(ServedBy(metrics), m)
<1> DEFINE serving == {c \in Client : m \in ServedBy(metrics)[c]}
<1>1. serving = Serving(metrics, m)
  BY ServedByServing
<1>2. Promise!Lookup(ServedBy(metrics), m) =
        IF serving = {} THEN {[kind |-> "notFound"]}
        ELSE {[kind |-> "client", client |-> c] :
                c \in {b \in serving :
                         \A d \in serving : Priority[d] <= Priority[b]}}
  BY DEF Promise!Lookup
<1> HIDE DEF serving
<1>3. CASE GetMetricClient(metrics, m) = NotFound /\ serving = {}
  BY <1>2, <1>3 DEF NotFound
<1>4. CASE \E c \in serving :
             /\ GetMetricClient(metrics, m) = Client200(c)
             /\ \A d \in serving : Priority[d] <= Priority[c]
  BY <1>2, <1>4 DEF Client200
<1> QED
  BY <1>1, <1>3, <1>4, LookupLemma

\* A listing gives the union of what the clients serve.
LEMMA ListingPromised ==
    ASSUME NEW Metric, NEW metrics, IsRegistryOf(metrics, Metric), Listed(metrics)
    PROVE  List200(DOMAIN metrics) = Promise!Listing(ServedBy(metrics))
<1>1. \A m \in DOMAIN metrics : metrics[m] \in Seq(Client) /\ metrics[m] # <<>>
  BY DEF IsRegistryOf, Listed
<1>2. ASSUME NEW m \in DOMAIN metrics
      PROVE  \E c \in Client : c \in ToSet(metrics[m])
  <2>1. metrics[m][1] \in Client /\ 1 \in DOMAIN metrics[m]
    BY <1>1
  <2> QED
    BY <2>1 DEF ToSet
<1>3. DOMAIN metrics = UNION {ServedBy(metrics)[c] : c \in Client}
  BY <1>2 DEF ServedBy
<1> QED
  BY <1>3 DEF List200, Promise!Listing

\* The six operations of the registry, each with its counterpart.
LEMMA Operations ==
    ASSUME DistinctNames, IInv
    PROVE  /\ \A c \in Client :
                 /\ \A S \in SUBSET CustomMetric :
                       UpdateCustomMetrics(c, S) => Promise!AnnounceCustom(c, S)
                 /\ \A S \in SUBSET ExternalMetric :
                       UpdateExternalMetrics(c, S) => Promise!AnnounceExternal(c, S)
           /\ \A r \in Reader :
                 /\ \A m \in CustomMetric :
                       GetCustomMetricClient(r, m) => Promise!LookupCustom(r, m)
                 /\ \A m \in ExternalMetric :
                       GetExternalMetricClient(r, m) => Promise!LookupExternal(r, m)
                 /\ ListAllCustomMetrics(r) => Promise!ListCustom(r)
                 /\ ListAllExternalMetrics(r) => Promise!ListExternal(r)
<1>1. /\ IsRegistryOf(customMetrics, CustomMetric)
      /\ IsRegistryOf(externalMetrics, ExternalMetric)
      /\ WellFormed(customMetrics) /\ WellFormed(externalMetrics)
  BY TwoMaps DEF IInv, TypeOK
<1>2. ASSUME NEW c \in Client, NEW S \in SUBSET CustomMetric,
             UpdateCustomMetrics(c, S)
      PROVE  Promise!AnnounceCustom(c, S)
  <2>1. ServedBy(customMetrics') = [ServedBy(customMetrics) EXCEPT ![c] = S]
    BY <1>1, <1>2, UpdateAnnounces DEF UpdateCustomMetrics
  <2>2. ServedBy(externalMetrics') = ServedBy(externalMetrics)
    BY <1>2 DEF UpdateCustomMetrics
  <2> QED
    BY <2>1, <2>2 DEF Promise!AnnounceCustom
<1>3. ASSUME NEW c \in Client, NEW S \in SUBSET ExternalMetric,
             UpdateExternalMetrics(c, S)
      PROVE  Promise!AnnounceExternal(c, S)
  <2>1. ServedBy(externalMetrics') = [ServedBy(externalMetrics) EXCEPT ![c] = S]
    BY <1>1, <1>3, UpdateAnnounces DEF UpdateExternalMetrics
  <2>2. ServedBy(customMetrics') = ServedBy(customMetrics)
    BY <1>3 DEF UpdateExternalMetrics
  <2> QED
    BY <2>1, <2>2 DEF Promise!AnnounceExternal
<1>4. ASSUME NEW r \in Reader, NEW a, NEW A, Answers(r, a), a \in A
      PROVE  Promise!Answers(r, A)
  <2>1. /\ answer' = [answer EXCEPT ![r] = a]
        /\ customMetrics' = customMetrics /\ externalMetrics' = externalMetrics
    BY <1>4 DEF Answers, registryVars
  <2>2. /\ ServedBy(customMetrics') = ServedBy(customMetrics)
        /\ ServedBy(externalMetrics') = ServedBy(externalMetrics)
    BY <2>1
  <2> QED
    BY <1>4, <2>1, <2>2 DEF Promise!Answers
<1>5. ASSUME NEW r \in Reader, NEW m \in CustomMetric, GetCustomMetricClient(r, m)
      PROVE  Promise!LookupCustom(r, m)
  BY <1>1, <1>4, <1>5, LookupPromised DEF GetCustomMetricClient, Promise!LookupCustom
<1>6. ASSUME NEW r \in Reader, NEW m \in ExternalMetric, GetExternalMetricClient(r, m)
      PROVE  Promise!LookupExternal(r, m)
  BY <1>1, <1>4, <1>6, LookupPromised
     DEF GetExternalMetricClient, Promise!LookupExternal
<1>7. /\ List200(DOMAIN customMetrics) = Promise!Listing(ServedBy(customMetrics))
      /\ List200(DOMAIN externalMetrics) = Promise!Listing(ServedBy(externalMetrics))
  BY <1>1, ListingPromised DEF WellFormed
<1>8. ASSUME NEW r \in Reader, ListAllCustomMetrics(r)
      PROVE  Promise!ListCustom(r)
  BY <1>4, <1>7, <1>8 DEF ListAllCustomMetrics, Promise!ListCustom
<1>9. ASSUME NEW r \in Reader, ListAllExternalMetrics(r)
      PROVE  Promise!ListExternal(r)
  BY <1>4, <1>7, <1>9 DEF ListAllExternalMetrics, Promise!ListExternal
<1> QED
  BY <1>2, <1>3, <1>5, <1>6, <1>8, <1>9

\* When names are distinct, every operation of the registry does what the
\* promise says of it, whatever the interleaving: a client serves the list of
\* its last update, no other client is touched, and a lookup gives the client
\* of highest priority that serves the metric asked for.
THEOREM KeepsOperations ==
    ASSUME DistinctNames
    PROVE  Spec => OperationsKept
<1>1. IInv /\ [Next]_vars =>
        [/\ \A c \in Client :
               /\ \A S \in SUBSET CustomMetric :
                     UpdateCustomMetrics(c, S) => Promise!AnnounceCustom(c, S)
               /\ \A S \in SUBSET ExternalMetric :
                     UpdateExternalMetrics(c, S) => Promise!AnnounceExternal(c, S)
         /\ \A r \in Reader :
               /\ \A m \in CustomMetric :
                     GetCustomMetricClient(r, m) => Promise!LookupCustom(r, m)
               /\ \A m \in ExternalMetric :
                     GetExternalMetricClient(r, m) => Promise!LookupExternal(r, m)
               /\ ListAllCustomMetrics(r) => Promise!ListCustom(r)
               /\ ListAllExternalMetrics(r) => Promise!ListExternal(r)]_vars
  BY Operations
<1> QED
  BY <1>1, InitIInv, NextIInv, PTL DEF Spec, OperationsKept

LEMMA OperationsByName ==
    ASSUME IInv
    PROVE  ByName
<1>1. /\ IsRegistryOf(customMetrics, CustomMetric)
      /\ IsRegistryOf(externalMetrics, ExternalMetric)
      /\ WellFormed(customMetrics) /\ WellFormed(externalMetrics)
      /\ answer \in [Reader -> Answer]
  BY TwoMaps DEF IInv, TypeOK
<1>2. ASSUME NEW c \in Client, NEW S \in SUBSET CustomMetric,
             UpdateCustomMetrics(c, S)
      PROVE  /\ AnnouncedBy(customMetrics)' =
                   [AnnouncedBy(customMetrics) EXCEPT ![NameOf[c]] = S]
             /\ AnnouncedBy(externalMetrics)' = AnnouncedBy(externalMetrics)
  <2>1. /\ customMetrics' = UpdateMetrics(customMetrics, c, S)
        /\ externalMetrics' = externalMetrics
    BY <1>2 DEF UpdateCustomMetrics
  <2>2. AnnouncedBy(customMetrics') =
           [AnnouncedBy(customMetrics) EXCEPT ![NameOf[c]] = S]
    BY <1>1, <2>1, UpdateAnnouncesName
  <2> QED
    BY <2>1, <2>2
<1>3. ASSUME NEW c \in Client, NEW S \in SUBSET ExternalMetric,
             UpdateExternalMetrics(c, S)
      PROVE  /\ AnnouncedBy(externalMetrics)' =
                   [AnnouncedBy(externalMetrics) EXCEPT ![NameOf[c]] = S]
             /\ AnnouncedBy(customMetrics)' = AnnouncedBy(customMetrics)
  <2>1. /\ externalMetrics' = UpdateMetrics(externalMetrics, c, S)
        /\ customMetrics' = customMetrics
    BY <1>3 DEF UpdateExternalMetrics
  <2>2. AnnouncedBy(externalMetrics') =
           [AnnouncedBy(externalMetrics) EXCEPT ![NameOf[c]] = S]
    BY <1>1, <2>1, UpdateAnnouncesName
  <2> QED
    BY <2>1, <2>2
<1>4. ASSUME NEW r \in Reader, NEW m \in CustomMetric, GetCustomMetricClient(r, m)
      PROVE  Finds(answer'[r], customMetrics, m)
  <2>1. answer'[r] = GetMetricClient(customMetrics, m)
    BY <1>1, <1>4 DEF GetCustomMetricClient, Answers
  <2> QED
    BY <1>1, <2>1, LookupFinds
<1>5. ASSUME NEW r \in Reader, NEW m \in ExternalMetric, GetExternalMetricClient(r, m)
      PROVE  Finds(answer'[r], externalMetrics, m)
  <2>1. answer'[r] = GetMetricClient(externalMetrics, m)
    BY <1>1, <1>5 DEF GetExternalMetricClient, Answers
  <2> QED
    BY <1>1, <2>1, LookupFinds
<1> QED
  BY <1>2, <1>3, <1>4, <1>5 DEF ByName

\* When two entries of the configuration share a name (nothing forbids it), the
\* announcement heard last stands for that name, and no other name loses a metric.
THEOREM KeepsNames == Spec => NamesKept
<1>1. IInv /\ [Next]_vars => [ByName]_vars
  BY OperationsByName
<1> QED
  BY <1>1, InitIInv, NextIInv, PTL DEF Spec, NamesKept

\* The registry implements ServedMetrics when names are distinct: every
\* behaviour of its maps and lists is one of the promise.
THEOREM KeepsPromise ==
    ASSUME DistinctNames
    PROVE  Spec => PromiseKept
<1>1. Init => Promise!Init
  BY DEF Init, Promise!Init, ServedBy, NoAnswer
<1>2. IInv /\ [Next]_vars => [Promise!Next]_(Promise!vars)
  <2> SUFFICES ASSUME IInv, [Next]_vars
               PROVE  [Promise!Next]_(Promise!vars)
    OBVIOUS
  <2>1. CASE Update
    BY <2>1, Operations DEF Update, Promise!Next, Promise!Announce
  <2>2. CASE Read
    BY <2>2, Operations DEF Read, Promise!Next, Promise!Ask
  <2>3. CASE UNCHANGED vars
    BY <2>3 DEF vars, Promise!vars, ServedBy
  <2> QED
    BY <2>1, <2>2, <2>3 DEF Next
<1> QED
  BY <1>1, <1>2, InitIInv, NextIInv, PTL DEF Spec, PromiseKept, Promise!Spec
=============================================================================
