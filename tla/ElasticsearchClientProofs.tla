--------------------- MODULE ElasticsearchClientProofs ---------------------
(***************************************************************************)
(* Proofs about the client of Elasticsearch, for any fields, aliases,      *)
(* metric sets, requests and Pods.                                         *)
(***************************************************************************)
EXTENDS ElasticsearchClient, WellFoundedInduction, TLAPS

-----------------------------------------------------------------------------
\* Three maps that fit together: the same fields are listed and have metadata,
\* under their alias or, for a static field, possibly their own name; a field
\* of a mapping is listed under its alias, which is registered; an alias is that
\* of a field listed under it.
MapsFit(listed, indexed, aliases) ==
    /\ DOMAIN listed = DOMAIN indexed
    /\ \A f \in DOMAIN listed :
          listed[f] = AliasOf[f] \/ (listed[f] = f /\ f \in StaticFields)
    /\ \A f \in DOMAIN indexed :
          ~indexed[f].search => listed[f] = AliasOf[f] /\ AliasOf[f] \in DOMAIN aliases
    /\ \A a \in DOMAIN aliases :
          /\ aliases[a] \in DOMAIN listed
          /\ listed[aliases[a]] = a /\ AliasOf[aliases[a]] = a
    /\ \A f \in DOMAIN indexed :
          f \in IF indexed[f].search THEN Static[indexed[f].set]
                                     ELSE Selected[indexed[f].set]

RecorderFits == MapsFit(recorder.metrics, recorder.indexed, recorder.namer)

\* The maps of the client fit except while the writer replaces them, one after
\* the other, by those of the recorder.
StoreFits ==
    /\ job.at \notin {"indexed", "namer"} => MapsFit(metrics, indexedMetrics, namer)
    /\ job.at \in {"indexed", "namer"} => metrics = recorder.metrics
    /\ job.at = "namer" => indexedMetrics = recorder.indexed

\* The read lock is held by the requests in valueFor, and by none while the
\* writer writes.
Reading(q) == q.at \in {"alias", "metadata", "search"}

LockExact ==
    /\ readers = {r \in Request : Reading(request[r])}
    /\ Writing => readers = {}

\* What a request found under the read lock is still true.
AliasCurrent ==
    \A r \in Request :
        request[r].at \in {"metadata", "search"} =>
            /\ Renamed => request[r].metric \in DOMAIN namer
            /\ request[r].field = FieldOf(request[r].metric)

MetadataCurrent ==
    \A r \in Request : request[r].at = "search" =>
        /\ request[r].field \in DOMAIN indexedMetrics
        /\ request[r].metadata = indexedMetrics[request[r].field]

\* The inductive invariant.  That the maps fit is what a reader relies on, the
\* lock is what lets it rely on them until it has searched.
IInv ==
    /\ TypeOK
    /\ RecorderFits
    /\ StoreFits
    /\ LockExact
    /\ AliasCurrent
    /\ MetadataCurrent
    /\ AliasHasMetadata

-----------------------------------------------------------------------------
\* A set of numbers up to n has a greatest one: n minus the number that
\* well-foundedness gives.
LEMMA Greatest ==
    ASSUME NEW n \in Nat, NEW T \in SUBSET (1..n), T # {}
    PROVE  \E s \in T : \A t \in T : t <= s
<1> DEFINE D == {n - t : t \in T}
<1>1. D \subseteq Nat /\ D # {}
  <2>1. PICK t \in T : TRUE
    OBVIOUS
  <2>2. n - t \in D
    BY <2>1
  <2>3. \A u \in 1..n : n - u \in Nat
    OBVIOUS
  <2> QED
    BY <2>2, <2>3
<1>2. PICK x \in D : \A y \in D : ~(<<y, x>> \in OpToRel(<, Nat))
  BY <1>1, NatLessThanWellFounded, WFMin
<1>3. \A y \in D : ~(y < x)
  BY <1>1, <1>2 DEF OpToRel
<1>4. PICK s \in T : x = n - s
  OBVIOUS
<1>5. ASSUME NEW t \in T PROVE t <= s
  BY <1>3, <1>4, n - t \in D
<1> QED
  BY <1>5

\* Assigning entries to a map gives a map.
LEMMA MergeMaps ==
    ASSUME NEW Value, NEW new \in Map(Value), NEW old \in Map(Value)
    PROVE  With(old, new) \in Map(Value)
<1>1. /\ DOMAIN new \subseteq Name /\ new \in [DOMAIN new -> Value]
      /\ DOMAIN old \subseteq Name /\ old \in [DOMAIN old -> Value]
  BY DEF Map
<1>2. With(old, new) \in [DOMAIN old \cup DOMAIN new -> Value]
  BY <1>1 DEF With
<1> QED
  BY <1>1, <1>2 DEF Map

\* A map given by its values.
LEMMA MapOf ==
    ASSUME NEW Value, NEW D \in SUBSET Name, NEW f, f \in [D -> Value]
    PROVE  f \in Map(Value)
BY DEF Map

LEMMA RenameType == AliasOf \in [Name -> Name]
  BY RenameAssumption

LEMMA SetsType ==
    /\ \A s \in MetricSet : Static[s] \subseteq Name /\ Selected[s] \subseteq Name
    /\ MetricSet \subseteq Nat /\ 1 \in MetricSet
    /\ StaticFields \subseteq Name
<1>1. \A s \in MetricSet : Static[s] \subseteq Name /\ Selected[s] \subseteq Name
  BY MetricSetsAssumption
<1>2. MetricSet \subseteq Nat /\ 1 \in MetricSet
  BY MetricSetsAssumption DEF MetricSet
<1> QED
  BY <1>1, <1>2 DEF StaticFields

-----------------------------------------------------------------------------
\* The recorder of a discovery: its maps fit from the static fields on.
RecorderType == [metrics : Map(Name), indexed : Map(Metadata), namer : Map(Name)]

Fits(rec) == MapsFit(rec.metrics, rec.indexed, rec.namer)

LEMMA EmptyFits ==
    /\ Empty \in Map(Name) /\ Empty \in Map(Metadata)
    /\ [metrics |-> Empty, indexed |-> Empty, namer |-> Empty] \in RecorderType
    /\ MapsFit(Empty, Empty, Empty)
<1>1. Empty \in [{} -> Name] /\ Empty \in [{} -> Metadata] /\ DOMAIN Empty = {}
  BY DEF Empty
<1>2. Empty \in Map(Name) /\ Empty \in Map(Metadata)
  BY <1>1, MapOf
<1> QED
  BY <1>1, <1>2 DEF RecorderType, MapsFit

\* Every static field is in a last set.
LEMMA StaticFits == StaticRecord \in RecorderType /\ Fits(StaticRecord)
<1> DEFINE Last(f) == CHOOSE s \in MetricSet :
                         /\ f \in Static[s]
                         /\ \A t \in MetricSet : f \in Static[t] => t <= s
           Info(f) == [set |-> Last(f), search |-> TRUE]
<1>1. ASSUME NEW f \in StaticFields
      PROVE  Last(f) \in MetricSet /\ f \in Static[Last(f)]
  <2> DEFINE T == {s \in MetricSet : f \in Static[s]}
  <2>1. T \subseteq 1..LastSet /\ T # {} /\ LastSet \in Nat
    BY <1>1, MetricSetsAssumption DEF StaticFields, MetricSet
  <2>2. \E s \in T : \A t \in T : t <= s
    BY <2>1, Greatest
  <2>3. \E s \in MetricSet : /\ f \in Static[s]
                             /\ \A t \in MetricSet : f \in Static[t] => t <= s
    BY <2>2
  <2> QED
    BY <2>3
<1>2. \A f \in StaticFields : Info(f) \in Metadata
  BY <1>1 DEF Metadata
<1>3. /\ StaticRecord.metrics = [f \in StaticFields |-> f]
      /\ StaticRecord.indexed = [f \in StaticFields |-> Info(f)]
      /\ StaticRecord.namer = Empty
      /\ StaticRecord = [metrics |-> StaticRecord.metrics,
                         indexed |-> StaticRecord.indexed,
                         namer   |-> StaticRecord.namer]
  BY DEF StaticRecord
<1>4. /\ \A f \in StaticFields : Info(f).search = TRUE
      /\ \A f \in StaticFields : Info(f).set = Last(f)
  OBVIOUS
<1> HIDE DEF Info, Last
<1>5. /\ [f \in StaticFields |-> f] \in [StaticFields -> Name]
      /\ [f \in StaticFields |-> Info(f)] \in [StaticFields -> Metadata]
  BY <1>2, SetsType
<1>6. /\ [f \in StaticFields |-> f] \in Map(Name)
      /\ [f \in StaticFields |-> Info(f)] \in Map(Metadata)
  BY <1>5, SetsType, MapOf
<1>7. StaticRecord \in RecorderType
  BY <1>3, <1>6, EmptyFits DEF RecorderType
<1>8. DOMAIN Empty = {}
  BY DEF Empty
<1> QED
  BY <1>1, <1>3, <1>4, <1>7, <1>8 DEF Fits, MapsFit

\* A mapping adds fields, and replaces those that were recorded before.
LEMMA RecordFits ==
    ASSUME TypeOK, RecorderFits, NEW set \in MetricSet,
           NEW fields \in SUBSET Selected[set], NEW picked \in Register(fields)
    PROVE  /\ Record(fields, set, picked) \in RecorderType
           /\ Fits(Record(fields, set, picked))
<1> DEFINE listed  == [f \in fields |-> AliasOf[f]]
           indexed == [f \in fields |-> [set |-> set, search |-> FALSE]]
           m == With(recorder.metrics, listed)
           i == With(recorder.indexed, indexed)
           n == With(recorder.namer, picked)
           rec == Record(fields, set, picked)
<1>1. /\ recorder.metrics \in Map(Name) /\ recorder.indexed \in Map(Metadata)
      /\ recorder.namer \in Map(Name)
  BY DEF TypeOK
<1>2. fields \subseteq Name /\ fields \subseteq Selected[set]
  BY SetsType
<1>3. listed \in [fields -> Name] /\ indexed \in [fields -> Metadata]
  BY <1>2, RenameType DEF Metadata
<1>4. listed \in Map(Name) /\ indexed \in Map(Metadata)
  BY <1>2, <1>3, MapOf
<1>5. /\ DOMAIN picked = {AliasOf[f] : f \in fields}
      /\ \A a \in DOMAIN picked : picked[a] \in fields /\ AliasOf[picked[a]] = a
      /\ picked \in [{AliasOf[f] : f \in fields} -> fields]
  BY DEF Register
<1>6. picked \in Map(Name)
  <2>1. {AliasOf[f] : f \in fields} \subseteq Name
    BY <1>2, RenameType
  <2>2. picked \in [{AliasOf[f] : f \in fields} -> Name]
    BY <1>2, <1>5
  <2> QED
    BY <2>1, <2>2, MapOf
<1>7. rec.metrics = m /\ rec.indexed = i /\ rec.namer = n
      /\ rec = [metrics |-> m, indexed |-> i, namer |-> n]
  BY DEF Record
<1>8. /\ DOMAIN listed = fields /\ \A f \in fields : listed[f] = AliasOf[f]
      /\ DOMAIN indexed = fields
      /\ \A f \in fields : indexed[f].set = set /\ indexed[f].search = FALSE
  OBVIOUS
<1> HIDE DEF listed, indexed
<1>9. /\ m \in Map(Name)
      /\ DOMAIN m = fields \cup DOMAIN recorder.metrics
      /\ \A f \in fields : m[f] = AliasOf[f]
      /\ \A f \in DOMAIN recorder.metrics \ fields : m[f] = recorder.metrics[f]
  <2>1. m \in Map(Name)
    BY <1>1, <1>4, MergeMaps
  <2>2. /\ DOMAIN m = DOMAIN listed \cup DOMAIN recorder.metrics
        /\ \A x \in DOMAIN listed : m[x] = listed[x]
        /\ \A x \in DOMAIN recorder.metrics \ DOMAIN listed : m[x] = recorder.metrics[x]
    BY DEF With
  <2> HIDE DEF m
  <2> QED
    BY <2>1, <2>2, <1>8
<1>10. /\ i \in Map(Metadata)
       /\ DOMAIN i = fields \cup DOMAIN recorder.indexed
       /\ \A f \in fields : i[f].set = set /\ i[f].search = FALSE
       /\ \A f \in DOMAIN recorder.indexed \ fields : i[f] = recorder.indexed[f]
  <2>1. i \in Map(Metadata)
    BY <1>1, <1>4, MergeMaps
  <2>2. /\ DOMAIN i = DOMAIN indexed \cup DOMAIN recorder.indexed
        /\ \A x \in DOMAIN indexed : i[x] = indexed[x]
        /\ \A x \in DOMAIN recorder.indexed \ DOMAIN indexed : i[x] = recorder.indexed[x]
    BY DEF With
  <2> HIDE DEF i
  <2> QED
    BY <2>1, <2>2, <1>8
<1>11. /\ n \in Map(Name)
       /\ DOMAIN n = {AliasOf[f] : f \in fields} \cup DOMAIN recorder.namer
       /\ \A a \in DOMAIN picked : n[a] = picked[a]
       /\ \A a \in DOMAIN recorder.namer \ DOMAIN picked : n[a] = recorder.namer[a]
  <2>1. n \in Map(Name)
    BY <1>1, <1>6, MergeMaps
  <2>2. /\ DOMAIN n = DOMAIN picked \cup DOMAIN recorder.namer
        /\ \A x \in DOMAIN picked : n[x] = picked[x]
        /\ \A x \in DOMAIN recorder.namer \ DOMAIN picked : n[x] = recorder.namer[x]
    BY DEF With
  <2> HIDE DEF n
  <2> QED
    BY <2>1, <2>2, <1>5
<1> HIDE DEF m, i, n, rec
<1>12. rec \in RecorderType
  BY <1>7, <1>9, <1>10, <1>11 DEF RecorderType
<1>13. MapsFit(m, i, n)
  <2>1. DOMAIN m = DOMAIN i
    BY <1>9, <1>10 DEF RecorderFits, MapsFit
  <2>2. \A f \in DOMAIN m : m[f] = AliasOf[f] \/ (m[f] = f /\ f \in StaticFields)
    BY <1>9 DEF RecorderFits, MapsFit
  <2>3. \A f \in DOMAIN i : ~i[f].search => m[f] = AliasOf[f] /\ AliasOf[f] \in DOMAIN n
    BY <1>9, <1>10, <1>11 DEF RecorderFits, MapsFit
  <2>4. ASSUME NEW a \in DOMAIN n
        PROVE  n[a] \in DOMAIN m /\ m[n[a]] = a /\ AliasOf[n[a]] = a
    <3>1. CASE a \in DOMAIN picked
      BY <1>5, <1>9, <1>11, <3>1
    <3>2. CASE a \notin DOMAIN picked
      <4>1. /\ n[a] = recorder.namer[a] /\ n[a] \in DOMAIN recorder.metrics
            /\ recorder.metrics[n[a]] = a /\ AliasOf[n[a]] = a
        BY <1>5, <1>11, <3>2 DEF RecorderFits, MapsFit
      <4> QED
        BY <1>9, <4>1
    <3> QED
      BY <3>1, <3>2
  <2>5. \A f \in DOMAIN i :
           f \in IF i[f].search THEN Static[i[f].set] ELSE Selected[i[f].set]
    BY <1>2, <1>10 DEF RecorderFits, MapsFit
  <2> QED
    BY <2>1, <2>2, <2>3, <2>4, <2>5 DEF MapsFit
<1> QED
  BY <1>7, <1>12, <1>13 DEF Fits, rec

-----------------------------------------------------------------------------
\* The steps of the job

LEMMA InitIInv == Init => IInv
<1> SUFFICES ASSUME Init PROVE IInv
  OBVIOUS
<1>1. /\ metrics = Empty /\ indexedMetrics = Empty /\ namer = Empty
      /\ recorder = [metrics |-> Empty, indexed |-> Empty, namer |-> Empty]
      /\ job = [at |-> "idle", set |-> 1]
      /\ readers = {} /\ announced = {}
      /\ request = [r \in Request |-> Idle]
  BY DEF Init
<1>2. Idle \in IdleRequest
  BY DEF Idle, IdleRequest
<1>3. job \in [at : Steps, set : MetricSet]
  BY <1>1, SetsType DEF Steps
<1>4. TypeOK
  BY <1>1, <1>2, <1>3, EmptyFits DEF TypeOK, RecorderType
<1>5. RecorderFits /\ StoreFits
  BY <1>1, EmptyFits DEF RecorderFits, StoreFits
<1>6. \A r \in Request : request[r].at = "idle" /\ request[r].outcome = "none"
  BY <1>1 DEF Idle
<1> QED
  BY <1>1, <1>4, <1>5, <1>6
     DEF IInv, LockExact, Reading, Writing, AliasCurrent, MetadataCurrent,
         AliasHasMetadata

\* Steps of the job that leave the maps of the client and the requests alone.
LEMMA QuietInv ==
    ASSUME IInv, UNCHANGED <<storeVars, readers, request>>,
           recorder' \in RecorderType, Fits(recorder'),
           job' \in [at : Steps, set : MetricSet], announced' \subseteq Name,
           ~Writing, job'.at \notin {"indexed", "namer"},
           job'.at = "metrics" => readers = {}
    PROVE  IInv'
<1>1. /\ UNCHANGED <<metrics, indexedMetrics, namer, readers, request>>
  BY DEF storeVars
<1>2. TypeOK'
  BY <1>1 DEF IInv, TypeOK, RecorderType
<1>3. RecorderFits'
  BY DEF RecorderFits, Fits
<1>4. StoreFits'
  BY <1>1 DEF IInv, StoreFits, Writing
<1>5. LockExact'
  BY <1>1 DEF IInv, LockExact, Writing
<1>6. AliasCurrent' /\ MetadataCurrent' /\ AliasHasMetadata'
  BY <1>1 DEF IInv, AliasCurrent, FieldOf, MetadataCurrent, AliasHasMetadata
<1> QED
  BY <1>2, <1>3, <1>4, <1>5, <1>6 DEF IInv

LEMMA RecorderKnown ==
    ASSUME IInv
    PROVE  recorder \in RecorderType /\ Fits(recorder)
BY DEF IInv, TypeOK, RecorderType, RecorderFits, Fits

\* The discovery up to the lock.
LEMMA DiscoveryInv ==
    ASSUME IInv, Discover \/ GetMapping \/ GetMappingFails \/ Lock \/ Locked
    PROVE  IInv'
<1>1. /\ job \in [at : Steps, set : MetricSet]
      /\ announced \subseteq Name
  BY DEF IInv, TypeOK
<1>2. CASE Discover
  <2>1. job' \in [at : Steps, set : MetricSet] /\ job'.at = "mapping"
    BY <1>2, SetsType DEF Discover, Steps
  <2> QED
    BY <1>1, <1>2, <2>1, StaticFits, QuietInv DEF Discover, Writing
<1>3. CASE GetMapping
  <2>0. PICK fields \in SUBSET Selected[job.set] : \E picked \in Register(fields) :
           recorder' = Record(fields, job.set, picked)
    BY <1>3 DEF GetMapping
  <2>1. PICK picked \in Register(fields) : recorder' = Record(fields, job.set, picked)
    BY <2>0
  <2>2. recorder' \in RecorderType /\ Fits(recorder')
    BY <1>1, <2>1, RecordFits DEF IInv
  <2>3. job' \in [at : Steps, set : MetricSet] /\ job'.at \in {"mapping", "lock"}
    <3>1. CASE job.set < LastSet
      <4>1. job' = [job EXCEPT !.set = @ + 1] /\ job.at = "mapping"
        BY <1>3, <3>1 DEF GetMapping
      <4>2. job.set + 1 \in MetricSet
        BY <1>1, <3>1, MetricSetsAssumption DEF MetricSet
      <4> QED
        BY <1>1, <4>1, <4>2
    <3>2. CASE ~(job.set < LastSet)
      BY <1>3, <3>2, SetsType DEF GetMapping, Steps
    <3> QED
      BY <3>1, <3>2
  <2> QED
    BY <1>1, <1>3, <2>2, <2>3, QuietInv DEF GetMapping, Writing
<1>4. CASE GetMappingFails
  <2>1. job' \in [at : Steps, set : MetricSet] /\ job'.at = "idle"
    BY <1>4, SetsType DEF GetMappingFails, Steps
  <2> QED
    BY <1>1, <1>4, <2>1, RecorderKnown, QuietInv DEF GetMappingFails, Writing
<1>5. CASE Lock
  <2>1. job' \in [at : Steps, set : MetricSet] /\ job'.at = "wait"
    BY <1>1, <1>5 DEF Lock, Steps
  <2> QED
    BY <1>1, <1>5, <2>1, RecorderKnown, QuietInv DEF Lock, Writing
<1>6. CASE Locked
  <2>1. job' \in [at : Steps, set : MetricSet] /\ job'.at = "metrics" /\ readers = {}
    BY <1>1, <1>6 DEF Locked, Steps
  <2> QED
    BY <1>1, <1>6, <2>1, RecorderKnown, QuietInv DEF Locked, Writing
<1> QED
  BY <1>2, <1>3, <1>4, <1>5, <1>6

\* The three assignments: nobody reads meanwhile.
LEMMA NobodyReads ==
    ASSUME IInv, Writing
    PROVE  /\ readers = {}
           /\ \A r \in Request : request[r].at \notin {"alias", "metadata", "search"}
BY DEF IInv, LockExact, Reading

LEMMA AssignInv ==
    ASSUME IInv, SetMetrics \/ SetIndexedMetrics
    PROVE  IInv'
<1>1. Writing
  BY DEF SetMetrics, SetIndexedMetrics, Writing
<1>2. /\ readers = {}
      /\ \A r \in Request : request[r].at \notin {"alias", "metadata", "search"}
  BY <1>1, NobodyReads
<1>3. UNCHANGED <<recorder, readers, announced, request, namer>>
  BY DEF SetMetrics, SetIndexedMetrics
<1>4. job' \in [at : Steps, set : MetricSet]
  BY DEF IInv, TypeOK, SetMetrics, SetIndexedMetrics, Steps
<1>5. metrics' \in Map(Name) /\ indexedMetrics' \in Map(Metadata)
  BY DEF IInv, TypeOK, SetMetrics, SetIndexedMetrics
<1>6. TypeOK'
  BY <1>3, <1>4, <1>5 DEF IInv, TypeOK
<1>7. RecorderFits'
  BY <1>3 DEF IInv, RecorderFits
<1>8. StoreFits'
  <2>1. job \in [at : Steps, set : MetricSet]
    BY DEF IInv, TypeOK
  <2>2. CASE SetMetrics
    BY <2>1, <2>2 DEF SetMetrics, StoreFits
  <2>3. CASE SetIndexedMetrics
    BY <2>1, <2>3 DEF SetIndexedMetrics, StoreFits, IInv
  <2> QED
    BY <2>2, <2>3
<1>9. LockExact'
  BY <1>2, <1>3 DEF IInv, LockExact, Reading
<1>10. AliasCurrent' /\ MetadataCurrent'
  BY <1>2, <1>3 DEF AliasCurrent, MetadataCurrent
<1>11. AliasHasMetadata'
  BY <1>3 DEF IInv, AliasHasMetadata
<1> QED
  BY <1>6, <1>7, <1>8, <1>9, <1>10, <1>11 DEF IInv

\* The last assignment makes the maps those of the recorder, and lets in the
\* requests that queued: they have found nothing yet.
LEMMA UnlockInv ==
    ASSUME IInv, SetNamer
    PROVE  IInv'
<1>1. /\ job.at = "namer" /\ Writing
      /\ namer' = recorder.namer
      /\ job' = [job EXCEPT !.at = "announce"]
      /\ readers' = Queued /\ request' = Admitted
      /\ UNCHANGED <<metrics, indexedMetrics, recorder, announced>>
  BY DEF SetNamer, Writing
<1>2. \A r \in Request : request[r].at \notin {"alias", "metadata", "search"}
  BY <1>1, NobodyReads
<1>3. job' \in [at : Steps, set : MetricSet] /\ job'.at = "announce"
  BY <1>1 DEF IInv, TypeOK, Steps
<1>4. \A r \in Request :
         IF request[r].at = "queued"
         THEN r \in Queued /\ request'[r] = [request[r] EXCEPT !.at = "alias"]
         ELSE r \notin Queued /\ request'[r] = request[r]
  BY <1>1 DEF Queued, Admitted
<1>5. ASSUME NEW r \in Request, request[r].at = "queued"
      PROVE  request'[r] \in ActiveRequest /\ request'[r].at = "alias"
  <2>1. request[r] \in ActiveRequest
    BY <1>5 DEF IInv, TypeOK, IdleRequest
  <2> QED
    BY <1>4, <1>5, <2>1 DEF ActiveRequest
<1>6. request' \in [Request -> IdleRequest \cup ActiveRequest]
  <2>1. request' = [r \in Request |-> request'[r]]
    BY <1>1 DEF Admitted
  <2>2. \A r \in Request : request'[r] \in IdleRequest \cup ActiveRequest
    BY <1>4, <1>5 DEF IInv, TypeOK
  <2> QED
    BY <2>1, <2>2
<1>7. TypeOK'
  BY <1>1, <1>3, <1>6 DEF IInv, TypeOK, Queued
<1>8. RecorderFits'
  BY <1>1 DEF IInv, RecorderFits
<1>9. StoreFits'
  BY <1>1, <1>3 DEF IInv, StoreFits, RecorderFits
<1>10. LockExact'
  <2>1. Queued \subseteq Request
    BY DEF Queued
  <2>2. \A r \in Request : r \in Queued <=> Reading(request'[r])
    BY <1>2, <1>4, <1>5 DEF Reading
  <2> QED
    BY <1>1, <1>3, <2>1, <2>2 DEF LockExact, Writing, Reading
<1>11. \A r \in Request : request'[r].at \notin {"metadata", "search"}
  BY <1>2, <1>4, <1>5
<1>12. AliasCurrent' /\ MetadataCurrent'
  BY <1>11 DEF AliasCurrent, MetadataCurrent
<1>13. AliasHasMetadata'
  <2>1. \A r \in Request : request'[r].at = "idle" => request'[r] = request[r]
    BY <1>4, <1>5
  <2> QED
    BY <2>1 DEF IInv, AliasHasMetadata
<1> QED
  BY <1>7, <1>8, <1>9, <1>10, <1>12, <1>13 DEF IInv

LEMMA AnnounceInv ==
    ASSUME IInv, Announce
    PROVE  IInv'
<1>1. /\ job \in [at : Steps, set : MetricSet]
      /\ metrics \in Map(Name)
  BY DEF IInv, TypeOK
<1>2. job' \in [at : Steps, set : MetricSet] /\ job'.at = "idle" /\ ~Writing
  BY <1>1 DEF Announce, Steps, Writing
<1>3. announced' \subseteq Name
  BY <1>1 DEF Announce, Listing, Map
<1>4. /\ recorder' = [metrics |-> Empty, indexed |-> Empty, namer |-> Empty]
      /\ UNCHANGED <<storeVars, readers, request>>
  BY DEF Announce
<1>5. recorder' \in RecorderType /\ Fits(recorder')
  BY <1>4, EmptyFits DEF Fits
<1> QED
  BY <1>2, <1>3, <1>4, <1>5, QuietInv

-----------------------------------------------------------------------------
\* The steps of a request

\* A request that reads keeps the writer out, so the maps fit.
LEMMA ReadersSeeFit ==
    ASSUME IInv, NEW r \in Request, Reading(request[r])
    PROVE  ~Writing /\ MapsFit(metrics, indexedMetrics, namer)
<1>1. ~Writing
  BY DEF IInv, LockExact
<1> QED
  BY <1>1 DEF IInv, StoreFits, Writing

\* What a request becomes, with the lock it then holds.
LEMMA RequestInv ==
    ASSUME IInv, NEW r \in Request, NEW q \in IdleRequest \cup ActiveRequest,
           request' = [request EXCEPT ![r] = q],
           readers' = IF Reading(q) THEN readers \cup {r} ELSE readers \ {r},
           Reading(q) => ~Writing,
           UNCHANGED <<storeVars, recorder, job, announced>>,
           q.at \in {"metadata", "search"} =>
               (Renamed => q.metric \in DOMAIN namer) /\ q.field = FieldOf(q.metric),
           q.at = "search" =>
               q.field \in DOMAIN indexedMetrics /\ q.metadata = indexedMetrics[q.field],
           Renamed /\ q.at = "idle" => q.outcome # "no metadata"
    PROVE  IInv'
<1>1. UNCHANGED <<metrics, indexedMetrics, namer, recorder, job, announced>>
  BY DEF storeVars
<1>2. request \in [Request -> IdleRequest \cup ActiveRequest]
  BY DEF IInv, TypeOK
<1>3. /\ request'[r] = q
      /\ \A s \in Request : s # r => request'[s] = request[s]
      /\ request' \in [Request -> IdleRequest \cup ActiveRequest]
  BY <1>2
<1>4. TypeOK'
  BY <1>1, <1>3 DEF IInv, TypeOK
<1>5. RecorderFits' /\ StoreFits'
  BY <1>1 DEF IInv, RecorderFits, StoreFits
<1>6. LockExact'
  <2>1. readers = {s \in Request : Reading(request[s])} /\ (Writing => readers = {})
    BY DEF IInv, LockExact
  <2>2. \A s \in Request : s \in readers' <=> Reading(request'[s])
    BY <1>3, <2>1
  <2>3. readers' \subseteq Request
    BY <2>1
  <2>4. readers' = {s \in Request : Reading(request'[s])}
    BY <2>2, <2>3
  <2>5. Writing' => readers' = {}
    BY <1>1, <2>1 DEF Writing
  <2>6. \A s \in Request : Reading(request[s])' = Reading(request'[s])
    BY DEF Reading
  <2> QED
    BY <2>4, <2>5, <2>6 DEF LockExact
<1>7. AliasCurrent'
  BY <1>1, <1>3 DEF IInv, AliasCurrent, FieldOf
<1>8. MetadataCurrent'
  BY <1>1, <1>3 DEF IInv, MetadataCurrent
<1>9. AliasHasMetadata'
  BY <1>1, <1>3 DEF IInv, AliasHasMetadata
<1> QED
  BY <1>4, <1>5, <1>6, <1>7, <1>8, <1>9 DEF IInv

\* The answer to a request releases the lock.
LEMMA FinishInv ==
    ASSUME IInv, NEW r \in Request, NEW outcome,
           Finish(r, outcome), UNCHANGED <<storeVars, recorder, job, announced>>,
           outcome \in {"values", "not found", "error", "no alias", "no metadata"},
           Renamed => outcome # "no metadata"
    PROVE  IInv'
<1> DEFINE q == [at |-> "idle", outcome |-> outcome]
<1>1. q \in IdleRequest \cup ActiveRequest
  BY DEF IdleRequest
<1>2. q.at = "idle" /\ q.outcome = outcome /\ ~Reading(q)
  BY DEF Reading
<1>3. request' = [request EXCEPT ![r] = q] /\ readers' = readers \ {r}
  BY DEF Finish
<1> HIDE DEF q
<1> QED
  BY <1>1, <1>2, <1>3, RequestInv

\* The fields of a request that has begun.
LEMMA ActiveType ==
    ASSUME IInv, NEW r \in Request, request[r].at # "idle"
    PROVE  /\ request[r] \in ActiveRequest
           /\ request \in [Request -> IdleRequest \cup ActiveRequest]
           /\ NoMetadata \in {NoMetadata} \cup Metadata
BY DEF IInv, TypeOK, IdleRequest

LEMMA BeginInv ==
    ASSUME IInv, NEW r \in Request, NEW m \in announced, NEW byName \in BOOLEAN,
           NEW pods \in 0..MaxPods, Begin(r, m, byName, pods)
    PROVE  IInv'
<1> DEFINE q == IF pods = 0 THEN [at |-> "idle", outcome |-> "values"]
                ELSE [at |-> "rlock", metric |-> m, byName |-> byName, pods |-> pods,
                      field |-> m, metadata |-> NoMetadata]
<1>1. m \in Name
  BY DEF IInv, TypeOK
<1>2. q \in IdleRequest \cup ActiveRequest
  <2>1. CASE pods = 0
    BY <2>1 DEF IdleRequest
  <2>2. CASE pods # 0
    <3>1. pods \in 1..MaxPods
      BY <2>2, MaxPodsAssumption
    <3> QED
      BY <1>1, <2>2, <3>1 DEF ActiveRequest
  <2> QED
    BY <2>1, <2>2
<1>3. /\ ~Reading(q) /\ q.at \notin {"metadata", "search"}
      /\ q.at = "idle" => q.outcome = "values"
  BY DEF Reading
<1>4. /\ request' = [request EXCEPT ![r] = q]
      /\ UNCHANGED <<storeVars, recorder, job, readers, announced>>
      /\ request[r].at = "idle"
  BY DEF Begin
<1>5. readers' = readers \ {r}
  BY <1>4 DEF IInv, LockExact, Reading
<1> HIDE DEF q
<1> QED
  BY <1>2, <1>3, <1>4, <1>5, RequestInv

LEMMA RLockInv ==
    ASSUME IInv, NEW r \in Request, RLock(r)
    PROVE  IInv'
<1>1. /\ request[r].at = "rlock"
      /\ UNCHANGED <<storeVars, recorder, job, announced>>
  BY DEF RLock
<1>2. request[r] \in ActiveRequest
  BY <1>1, ActiveType
<1>3. CASE WriterPending
  <2> DEFINE q == [request[r] EXCEPT !.at = "queued"]
  <2>1. request' = [request EXCEPT ![r] = q] /\ readers' = readers
    BY <1>3 DEF RLock
  <2>2. q \in ActiveRequest /\ q.at = "queued"
    BY <1>2 DEF ActiveRequest
  <2>3. readers' = readers \ {r}
    BY <1>1, <2>1 DEF IInv, LockExact, Reading
  <2> HIDE DEF q
  <2> QED
    BY <1>1, <2>1, <2>2, <2>3, RequestInv DEF Reading
<1>4. CASE ~WriterPending
  <2> DEFINE q == [request[r] EXCEPT !.at = "alias"]
  <2>1. request' = [request EXCEPT ![r] = q] /\ readers' = readers \cup {r} /\ ~Writing
    BY <1>4 DEF RLock, WriterPending
  <2>2. q \in ActiveRequest /\ q.at = "alias"
    BY <1>2 DEF ActiveRequest
  <2> HIDE DEF q
  <2> QED
    BY <1>1, <2>1, <2>2, RequestInv DEF Reading
<1> QED
  BY <1>3, <1>4

LEMMA GetNameInv ==
    ASSUME IInv, NEW r \in Request, GetName(r)
    PROVE  IInv'
<1>1. /\ request[r].at = "alias"
      /\ UNCHANGED <<storeVars, recorder, job, announced>>
  BY DEF GetName
<1>2. request[r] \in ActiveRequest /\ Reading(request[r])
  BY <1>1, ActiveType DEF Reading
<1>3. ~Writing /\ MapsFit(metrics, indexedMetrics, namer)
  BY <1>2, ReadersSeeFit
<1>4. CASE Renamed /\ request[r].metric \notin DOMAIN namer
  BY <1>1, <1>4, FinishInv DEF GetName
<1>5. CASE ~(Renamed /\ request[r].metric \notin DOMAIN namer)
  <2> DEFINE f == IF Renamed THEN namer[request[r].metric] ELSE request[r].metric
             q == [request[r] EXCEPT !.at = "metadata", !.field = f]
  <2>1. f \in Name
    BY <1>2, <1>3, <1>5 DEF MapsFit, ActiveRequest, IInv, TypeOK, Map
  <2>2. request' = [request EXCEPT ![r] = q] /\ readers' = readers
    BY <1>5 DEF GetName
  <2>3. /\ q \in ActiveRequest /\ q.at = "metadata" /\ q.field = f
        /\ q.metric = request[r].metric
    BY <1>2, <2>1 DEF ActiveRequest
  <2>4. readers' = readers \cup {r}
    BY <1>2, <2>2 DEF IInv, LockExact
  <2>5. (Renamed => q.metric \in DOMAIN namer) /\ q.field = FieldOf(q.metric)
    BY <1>5, <2>3 DEF FieldOf
  <2> HIDE DEF q, f
  <2> QED
    BY <1>1, <1>3, <2>2, <2>3, <2>4, <2>5, RequestInv DEF Reading
<1> QED
  BY <1>4, <1>5

\* The alias led to a field that is listed, and what is listed has metadata.
LEMMA GetMetadataInv ==
    ASSUME IInv, NEW r \in Request, GetMetadata(r)
    PROVE  IInv'
<1>1. /\ request[r].at = "metadata"
      /\ UNCHANGED <<storeVars, recorder, job, announced>>
  BY DEF GetMetadata
<1>2. request[r] \in ActiveRequest /\ Reading(request[r])
  BY <1>1, ActiveType DEF Reading
<1>3. ~Writing /\ MapsFit(metrics, indexedMetrics, namer)
  BY <1>2, ReadersSeeFit
<1>4. /\ Renamed => request[r].metric \in DOMAIN namer
      /\ request[r].field = FieldOf(request[r].metric)
  BY <1>1 DEF IInv, AliasCurrent
<1>5. CASE request[r].field \notin DOMAIN indexedMetrics
  <2>1. ~Renamed
    BY <1>3, <1>4, <1>5 DEF MapsFit, FieldOf
  <2> QED
    BY <1>1, <1>5, <2>1, FinishInv DEF GetMetadata
<1>6. CASE request[r].field \in DOMAIN indexedMetrics
  <2> DEFINE d == indexedMetrics[request[r].field]
             q == [request[r] EXCEPT !.at = "search", !.metadata = d]
  <2>1. d \in Metadata
    BY <1>6 DEF IInv, TypeOK, Map
  <2>2. request' = [request EXCEPT ![r] = q] /\ readers' = readers
    BY <1>6 DEF GetMetadata
  <2>3. /\ q \in ActiveRequest /\ q.at = "search" /\ q.metadata = d
        /\ q.metric = request[r].metric /\ q.field = request[r].field
    BY <1>2, <2>1 DEF ActiveRequest
  <2>4. readers' = readers \cup {r}
    BY <1>2, <2>2 DEF IInv, LockExact
  <2>5. q.metadata = indexedMetrics[q.field] /\ q.field \in DOMAIN indexedMetrics
    BY <1>6, <2>3
  <2> HIDE DEF q, d
  <2> QED
    BY <1>1, <1>3, <1>4, <2>2, <2>3, <2>4, <2>5, RequestInv DEF Reading
<1> QED
  BY <1>5, <1>6

\* The next Pod begins with the lock again.
LEMMA SearchInv ==
    ASSUME IInv, NEW r \in Request, Search(r)
    PROVE  IInv'
<1>1. /\ request[r].at \in {"rlock", "search"}
      /\ UNCHANGED <<storeVars, recorder, job, announced>>
  BY DEF Search, Found, NotFound, Fails
<1>2. request[r] \in ActiveRequest
  BY <1>1, ActiveType
<1>3. CASE \E outcome \in {"values", "not found", "error"} : Finish(r, outcome)
  BY <1>1, <1>3, FinishInv
<1>4. CASE NextPod(r) /\ request[r].pods # 1
  <2> DEFINE q == [request[r] EXCEPT !.at = "rlock", !.pods = @ - 1,
                       !.field = request[r].metric, !.metadata = NoMetadata]
  <2>1. request[r].pods - 1 \in 1..MaxPods
    BY <1>2, <1>4, MaxPodsAssumption DEF ActiveRequest
  <2>2. request' = [request EXCEPT ![r] = q] /\ readers' = readers \ {r}
    BY <1>4 DEF NextPod
  <2>3. q \in ActiveRequest /\ q.at = "rlock"
    BY <1>2, <2>1 DEF ActiveRequest
  <2> HIDE DEF q
  <2> QED
    BY <1>1, <2>2, <2>3, RequestInv DEF Reading
<1>5. (\E outcome \in {"values", "not found", "error"} : Finish(r, outcome))
      \/ (NextPod(r) /\ request[r].pods # 1)
  BY DEF Search, Found, NotFound, Fails, NextPod
<1> QED
  BY <1>3, <1>4, <1>5

-----------------------------------------------------------------------------
\* Every step preserves the invariant: one lemma for each kind of step above.
LEMMA NextIInv == IInv /\ [Next]_vars => IInv'
<1> SUFFICES ASSUME IInv, [Next]_vars PROVE IInv'
  OBVIOUS
<1>1. CASE Job
  BY <1>1, DiscoveryInv, AssignInv, UnlockInv, AnnounceInv DEF Job, JobProceeds
<1>2. CASE Requests
  <2>1. PICK r \in Request :
           \/ \E m \in announced, byName \in BOOLEAN, pods \in 0..MaxPods :
                 Begin(r, m, byName, pods)
           \/ Proceed(r) \/ Search(r)
    BY <1>2 DEF Requests
  <2> QED
    BY <2>1, BeginInv, RLockInv, GetNameInv, GetMetadataInv, SearchInv DEF Proceed
<1>3. CASE UNCHANGED vars
  <2>1. UNCHANGED <<metrics, indexedMetrics, namer, recorder, job, readers, announced,
                    request>>
    BY <1>3 DEF vars, storeVars
  <2>2. TypeOK'
    BY <2>1 DEF IInv, TypeOK
  <2>3. RecorderFits' /\ StoreFits'
    BY <2>1 DEF IInv, RecorderFits, StoreFits
  <2>4. LockExact' /\ AliasCurrent' /\ MetadataCurrent' /\ AliasHasMetadata'
    BY <2>1 DEF IInv, LockExact, Writing, AliasCurrent, FieldOf,
                MetadataCurrent, AliasHasMetadata
  <2> QED
    BY <2>2, <2>3, <2>4 DEF IInv
<1> QED
  BY <1>1, <1>2, <1>3 DEF Next

\* The invariant holds in every state, whatever the interleaving.
LEMMA AlwaysInv == Spec => []IInv
  BY InitIInv, NextIInv, PTL DEF Spec

\* The state has its type, whatever the requests and discoveries.
THEOREM TypeCorrect == Spec => []TypeOK
<1>1. IInv => TypeOK
  BY DEF IInv
<1> QED
  BY <1>1, AlwaysInv, PTL

\* The field and the metadata a request found are those of the client until
\* Elasticsearch has answered: the read lock of valueFor covers the search.
THEOREM SearchesCurrent == Spec => []SearchesCurrentMetadata
<1>1. IInv => SearchesCurrentMetadata
  BY DEF IInv, AliasCurrent, FieldOf, MetadataCurrent, SearchesCurrentMetadata
<1> QED
  BY <1>1, AlwaysInv, PTL

\* With a `rename` directive, no request ever finds an alias without metadata.
THEOREM AliasAlwaysHasMetadata == Spec => []AliasHasMetadata
<1>1. IInv => AliasHasMetadata
  BY DEF IInv
<1> QED
  BY <1>1, AlwaysInv, PTL

\* A search is one of the metric set of its field, and is the configured one
\* only for a static field, whatever the mappings were and whichever discovery
\* the metadata is of.
THEOREM SearchesRight == Spec => []SearchesRightSet
<1>1. IInv => SearchesRightSet
  <2> SUFFICES ASSUME IInv, NEW r \in Request, request[r].at = "search"
               PROVE  LET found == request[r].metadata
                      IN  request[r].field \in IF found.search THEN Static[found.set]
                                                               ELSE Selected[found.set]
    BY DEF SearchesRightSet
  <2>1. MapsFit(metrics, indexedMetrics, namer)
    BY ReadersSeeFit DEF Reading
  <2> QED
    BY <2>1 DEF MapsFit, IInv, MetadataCurrent
<1> QED
  BY <1>1, AlwaysInv, PTL

\* A field of a mapping can be asked for under its name, whichever fields share
\* that name and whichever sets the mappings are of.
THEOREM MappedAsked == Spec => []MappedCanBeAsked
<1>1. IInv => MappedCanBeAsked
  <2> SUFFICES ASSUME IInv, ~Writing, NEW f \in DOMAIN metrics
               PROVE  /\ f \in DOMAIN indexedMetrics
                      /\ Renamed /\ ~indexedMetrics[f].search =>
                            /\ metrics[f] \in DOMAIN namer
                            /\ namer[metrics[f]] \in DOMAIN metrics
                            /\ metrics[namer[metrics[f]]] = metrics[f]
    BY DEF MappedCanBeAsked
  <2>1. MapsFit(metrics, indexedMetrics, namer)
    BY DEF IInv, StoreFits, Writing
  <2> QED
    BY <2>1 DEF MapsFit
<1> QED
  BY <1>1, AlwaysInv, PTL

\* A metric that is listed can be asked for, unless the server renames and has
\* static fields, which the namer does not know.
THEOREM ListedAsked ==
    ASSUME Renamed => StaticFields = {}
    PROVE  Spec => []ListedCanBeAsked
<1>1. IInv => ListedCanBeAsked
  <2> SUFFICES ASSUME IInv, ~Writing, NEW m \in Listing
               PROVE  IF Renamed
                      THEN /\ m \in DOMAIN namer
                           /\ namer[m] \in DOMAIN indexedMetrics
                           /\ metrics[namer[m]] = m
                      ELSE m \in DOMAIN indexedMetrics
    BY DEF ListedCanBeAsked
  <2>1. MapsFit(metrics, indexedMetrics, namer)
    BY DEF IInv, StoreFits, Writing
  <2>2. PICK f \in DOMAIN metrics : m = metrics[f]
    BY DEF Listing
  <2>3. CASE Renamed
    <3>1. StaticFields = {}
      BY <2>3
    <3>2. metrics[f] = AliasOf[f] /\ AliasOf[f] \in DOMAIN namer
      <4>1. f \in DOMAIN indexedMetrics /\ indexedMetrics[f] \in Metadata
        BY <2>1 DEF MapsFit, IInv, TypeOK, Map
      <4>2. ~indexedMetrics[f].search
        BY <2>1, <3>1, <4>1 DEF MapsFit, Metadata, StaticFields
      <4> QED
        BY <2>1, <4>1, <4>2 DEF MapsFit
    <3>3. /\ namer[m] \in DOMAIN metrics /\ AliasOf[namer[m]] = m
          /\ DOMAIN metrics = DOMAIN indexedMetrics
      BY <2>1, <2>2, <3>2 DEF MapsFit
    <3>4. metrics[namer[m]] = m
      BY <2>1, <2>2, <3>2 DEF MapsFit
    <3> QED
      BY <2>2, <2>3, <3>2, <3>3, <3>4
  <2>4. CASE ~Renamed
    <3>1. f \in Name
      BY DEF IInv, TypeOK, Map
    <3>2. m = f
      BY <2>1, <2>2, <2>4, <3>1, RenameAssumption DEF MapsFit
    <3> QED
      BY <2>1, <2>4, <3>2 DEF MapsFit
  <2> QED
    BY <2>3, <2>4
<1> QED
  BY <1>1, AlwaysInv, PTL

-----------------------------------------------------------------------------
(* The lock.                                                                 *)

\* Who holds the read lock does not wait for the lock, for the Pods of a request
\* take it one after the other; nobody reads while the maps are replaced; and who
\* queued behind a writer is not left there when the writer is gone.
LockServed ==
    /\ readers = {r \in Request : Reading(request[r])}
    /\ Writing => readers = {}
    /\ \A r \in Queued : WriterPending

\* A step of a request queues nobody else, and itself only behind a writer.
LEMMA QueueRequest ==
    ASSUME IInv, LockServed, NEW r \in Request, NEW q,
           request' = [request EXCEPT ![r] = q], job' = job,
           q.at = "queued" => WriterPending
    PROVE  (\A s \in Queued : WriterPending)'
<1>1. \A s \in Request : request'[s] = IF s = r THEN q ELSE request[s]
  BY DEF IInv, TypeOK
<1>2. WriterPending' = WriterPending
  BY DEF WriterPending, Writing
<1> QED
  BY <1>1, <1>2 DEF LockServed, Queued

LEMMA QueueNext == IInv /\ LockServed /\ [Next]_vars => (\A r \in Queued : WriterPending)'
<1> SUFFICES ASSUME IInv, LockServed, [Next]_vars
             PROVE  (\A r \in Queued : WriterPending)'
  OBVIOUS
<1>1. ASSUME UNCHANGED request,
             job'.at \in {"wait", "metrics", "indexed", "namer"} \/ ~WriterPending
      PROVE  (\A r \in Queued : WriterPending)'
  BY <1>1 DEF LockServed, Queued, WriterPending, Writing
<1>2. CASE UNCHANGED vars
  <2>1. Queued' = Queued /\ WriterPending' = WriterPending
    BY <1>2 DEF vars, Queued, WriterPending, Writing
  <2> QED
    BY <2>1 DEF LockServed
<1>3. CASE SetNamer
  <2>1. Queued' = {}
    BY <1>3 DEF SetNamer, Admitted, Queued
  <2> QED
    BY <2>1
<1>4. CASE Job /\ ~SetNamer
  <2>1. UNCHANGED request
    BY <1>4
       DEF Job, JobProceeds, GetMapping, GetMappingFails, Discover, Lock, Locked,
           SetMetrics, SetIndexedMetrics, Announce
  <2>2. job'.at \in {"wait", "metrics", "indexed", "namer"} \/ ~WriterPending
    <3>1. job \in [at : Steps, set : MetricSet]
      BY DEF IInv, TypeOK
    <3> QED
      BY <1>4, <3>1
         DEF Job, JobProceeds, GetMapping, GetMappingFails, Discover, Lock, Locked,
             SetMetrics, SetIndexedMetrics, Announce, WriterPending, Writing
  <2> QED
    BY <1>1, <2>1, <2>2
<1>5. ASSUME NEW r \in Request, NEW m, NEW byName, NEW pods, Begin(r, m, byName, pods)
      PROVE  (\A s \in Queued : WriterPending)'
  <2> DEFINE q == IF pods = 0 THEN [at |-> "idle", outcome |-> "values"]
                  ELSE [at |-> "rlock", metric |-> m, byName |-> byName, pods |-> pods,
                        field |-> m, metadata |-> NoMetadata]
  <2>1. request' = [request EXCEPT ![r] = q] /\ job' = job
    BY <1>5 DEF Begin
  <2>2. q.at # "queued"
    OBVIOUS
  <2> HIDE DEF q
  <2> QED
    BY <2>1, <2>2, QueueRequest
<1>6. ASSUME NEW r \in Request, Proceed(r) \/ Search(r)
      PROVE  (\A s \in Queued : WriterPending)'
  <2>1. job' = job
    BY <1>6
       DEF Proceed, RLock, GetName, GetMetadata, Search, Found, NotFound, Fails
  <2>2. request \in [Request -> IdleRequest \cup ActiveRequest]
    BY DEF IInv, TypeOK
  <2>3. ASSUME NEW outcome, Finish(r, outcome)
        PROVE  (\A s \in Queued : WriterPending)'
    BY <2>1, <2>3, QueueRequest DEF Finish
  <2>4. ASSUME NextPod(r), request[r].at = "search"
        PROVE  (\A s \in Queued : WriterPending)'
    <3>1. request[r] \in ActiveRequest
      BY <2>2, <2>4 DEF IdleRequest
    <3> DEFINE q == [request[r] EXCEPT !.at = "rlock", !.pods = @ - 1,
                        !.field = request[r].metric, !.metadata = NoMetadata]
    <3>2. q.at = "rlock"
      BY <3>1 DEF ActiveRequest
    <3>3. ASSUME request[r].pods # 1
          PROVE  request' = [request EXCEPT ![r] = q]
      BY <2>2, <2>4, <3>3 DEF NextPod
    <3> HIDE DEF q
    <3> QED
      BY <2>1, <2>3, <2>4, <3>2, <3>3, QueueRequest DEF NextPod
  <2>5. CASE RLock(r)
    <3> DEFINE q == [request[r] EXCEPT !.at = IF WriterPending THEN "queued" ELSE "alias"]
    <3>1. request' = [request EXCEPT ![r] = q]
      BY <2>2, <2>5 DEF RLock
    <3>2. request[r] \in ActiveRequest
      BY <2>2, <2>5 DEF RLock, IdleRequest
    <3>3. q.at = "queued" => WriterPending
      BY <3>2 DEF ActiveRequest
    <3> HIDE DEF q
    <3> QED
      BY <2>1, <3>1, <3>3, QueueRequest
  <2>6. CASE GetName(r)
    <3> DEFINE f == IF Renamed THEN namer[request[r].metric] ELSE request[r].metric
               q == [request[r] EXCEPT !.at = "metadata", !.field = f]
    <3>1. request[r] \in ActiveRequest
      BY <2>2, <2>6 DEF GetName, IdleRequest
    <3>2. q.at = "metadata"
      BY <3>1 DEF ActiveRequest
    <3>3. \/ request' = [request EXCEPT ![r] = q]
          \/ Finish(r, "no alias")
      BY <2>2, <2>6 DEF GetName
    <3> HIDE DEF q
    <3> QED
      BY <2>1, <2>3, <3>2, <3>3, QueueRequest
  <2>7. CASE GetMetadata(r)
    <3> DEFINE q == [request[r] EXCEPT !.at = "search",
                        !.metadata = indexedMetrics[request[r].field]]
    <3>1. request[r] \in ActiveRequest
      BY <2>2, <2>7 DEF GetMetadata, IdleRequest
    <3>2. q.at = "search"
      BY <3>1 DEF ActiveRequest
    <3>3. \/ request' = [request EXCEPT ![r] = q]
          \/ Finish(r, "no metadata")
      BY <2>2, <2>7 DEF GetMetadata
    <3> HIDE DEF q
    <3> QED
      BY <2>1, <2>3, <3>2, <3>3, QueueRequest
  <2> QED
    BY <1>6, <2>3, <2>4, <2>5, <2>6, <2>7 DEF Proceed, Search, Found, NotFound, Fails
<1> QED
  BY <1>2, <1>3, <1>4, <1>5, <1>6 DEF Next, Requests

\* Nothing waits on a free lock: those who hold the read lock are reading, the
\* writer has it alone, and a queued request has a writer that will let it in.
THEOREM LockIsServed == Spec => []LockServed
<1>1. Init => LockServed
  BY InitIInv DEF Init, Idle, LockServed, Reading, Writing, Queued
<1>2. IInv /\ IInv' /\ LockServed /\ [Next]_vars => LockServed'
  <2> SUFFICES ASSUME IInv, IInv', LockServed, [Next]_vars PROVE LockServed'
    OBVIOUS
  <2>1. LockExact'
    BY DEF IInv
  <2>2. (\A r \in Queued : WriterPending)'
    BY QueueNext
  <2> QED
    BY <2>1, <2>2 DEF LockExact, LockServed
<1> QED
  BY <1>1, <1>2, AlwaysInv, PTL DEF Spec

-----------------------------------------------------------------------------
(* The client of Elasticsearch keeps the promise of a metrics client: each  *)
(* step is one of MetricsClient, or changes nothing a user sees.            *)

Knows == [m \in Known |-> Asked(FieldOf(m), indexedMetrics[FieldOf(m)])]
Looks == [r \in Request |-> Seen(request[r])]
Targets == [field : Name, metadata : Metadata]

LEMMA KnowsType == IInv => Known \in SUBSET Name /\ Knows \in [Known -> Targets]
<1> SUFFICES ASSUME IInv PROVE Known \in SUBSET Name /\ Knows \in [Known -> Targets]
  OBVIOUS
<1>1. Known \in SUBSET Name
  BY DEF Known
<1>2. indexedMetrics \in Map(Metadata)
  BY DEF IInv, TypeOK
<1>3. ASSUME NEW m \in Known
      PROVE  Asked(FieldOf(m), indexedMetrics[FieldOf(m)]) \in Targets
  <2>1. FieldOf(m) \in DOMAIN indexedMetrics
    BY DEF Known
  <2>2. FieldOf(m) \in Name /\ indexedMetrics[FieldOf(m)] \in Metadata
    BY <1>2, <2>1 DEF Map
  <2> QED
    BY <2>2 DEF Asked, Targets
<1> QED
  BY <1>1, <1>3 DEF Knows

LEMMA PromisedInit == Init => Promise!Init
<1> SUFFICES ASSUME Init PROVE Promise!Init
  OBVIOUS
<1>1. DOMAIN indexedMetrics = {} /\ DOMAIN namer = {}
  BY DEF Init, Empty
<1>2. Known = {}
  BY <1>1 DEF Known
<1>3. Knows = [m \in {} |-> m]
  BY <1>2 DEF Knows
<1>4. \A r \in Request : Seen(request[r]) = [at |-> "idle", outcome |-> "none"]
  BY DEF Init, Idle, Seen
<1>5. Looks = [r \in Request |-> [at |-> "idle", outcome |-> "none"]]
  BY <1>4 DEF Looks
<1> QED
  BY <1>3, <1>5 DEF Promise!Init, Promise!Returned, Knows, Looks

-----------------------------------------------------------------------------
\* What is known depends on two of the maps.
LEMMA SameStore ==
    ASSUME UNCHANGED <<indexedMetrics, namer>>
    PROVE  UNCHANGED Knows
<1>1. Known' = Known
  BY DEF Known, FieldOf
<1> QED
  BY <1>1 DEF Knows, FieldOf

\* A step of the job is seen, if at all, as a refresh.
LEMMA JobSeen ==
    ASSUME IInv, IInv', Job
    PROVE  Promise!Refresh \/ UNCHANGED <<Knows, Looks>>
<1>1. CASE SetIndexedMetrics \/ SetNamer
  <2>1. \A r \in Request : request[r].at \notin {"alias", "metadata", "search"}
    BY <1>1, NobodyReads DEF SetIndexedMetrics, SetNamer, Writing
  <2>2. \A r \in Request : Looks[r].at # "asking"
    BY <2>1 DEF Looks, Seen
  <2>3. Looks' = Looks
    <3>1. CASE SetIndexedMetrics
      BY <3>1 DEF SetIndexedMetrics, Looks
    <3>2. CASE SetNamer
      <4>1. ASSUME NEW r \in Request
            PROVE  Seen(request'[r]) = Seen(request[r])
        <5>1. CASE request[r].at = "queued"
          <6>1. request[r] \in ActiveRequest
            BY <5>1, ActiveType
          <6>2. /\ request'[r].at = "alias"
                /\ request'[r].metric = request[r].metric
            BY <3>2, <5>1, <6>1 DEF SetNamer, Admitted, Queued, ActiveRequest
          <6> QED
            BY <5>1, <6>2 DEF Seen
        <5>2. CASE request[r].at # "queued"
          BY <3>2, <5>2 DEF SetNamer, Admitted, Queued
        <5> QED
          BY <5>1, <5>2
      <4> QED
        BY <4>1 DEF Looks
    <3> QED
      BY <1>1, <3>1, <3>2
  <2>4. (Known \in SUBSET Name /\ Knows \in [Known -> Targets])'
    BY KnowsType, PTL
  <2>5. \E S \in SUBSET Name : Knows' \in [S -> Targets]
    BY <2>4
  <2> QED
    BY <2>2, <2>3, <2>5 DEF Promise!Refresh, Promise!Asking, Knows, Looks, Targets
<1>2. CASE GetMapping \/ GetMappingFails \/ Discover \/ Lock \/ Locked \/ SetMetrics \/ Announce
  <2>1. UNCHANGED <<indexedMetrics, namer, request>>
    BY <1>2 DEF GetMapping, GetMappingFails, Discover, Lock, Locked, SetMetrics,
                Announce, storeVars
  <2> QED
    BY <2>1, SameStore DEF Looks
<1> QED
  BY <1>1, <1>2 DEF Job, JobProceeds

-----------------------------------------------------------------------------
\* What the step of one request looks like.
LEMMA Goes ==
    ASSUME IInv, NEW r \in Request, NEW q,
           request' = [request EXCEPT ![r] = q], UNCHANGED storeVars
    PROVE  Promise!Goes(r, Seen(q))
<1>1. request \in [Request -> IdleRequest \cup ActiveRequest]
  BY DEF IInv, TypeOK
<1>2. Looks' = [Looks EXCEPT ![r] = Seen(q)]
  BY <1>1 DEF Looks
<1>3. UNCHANGED Knows
  BY SameStore DEF storeVars
<1> QED
  BY <1>2, <1>3 DEF Promise!Goes, Knows, Looks

LEMMA FinishGoes ==
    ASSUME IInv, NEW r \in Request, NEW outcome, Finish(r, outcome), UNCHANGED storeVars
    PROVE  Promise!Goes(r, Promise!Returned(
              IF outcome \in {"no alias", "no metadata"} THEN "unknown" ELSE outcome))
<1> DEFINE q == [at |-> "idle", outcome |-> outcome]
<1>1. request' = [request EXCEPT ![r] = q]
  BY DEF Finish
<1>2. Promise!Goes(r, Seen(q))
  BY <1>1, Goes
<1>3. Seen(q) = Promise!Returned(
          IF outcome \in {"no alias", "no metadata"} THEN "unknown" ELSE outcome)
  BY DEF Seen, Promise!Returned
<1> QED
  BY <1>2, <1>3

\* A request that waits, or asks, as a user of the client sees it.
LEMMA LooksWaiting ==
    ASSUME NEW r \in Request, request[r].at \in {"rlock", "queued", "alias", "metadata"}
    PROVE  Looks[r].at = "waiting" /\ Looks[r].metric = request[r].metric
BY DEF Looks, Seen

LEMMA LooksAsking ==
    ASSUME NEW r \in Request, request[r].at = "search"
    PROVE  Looks[r].at = "asking" /\ Looks[r].metric = request[r].metric
BY DEF Looks, Seen

\* The same for a request that goes on to a step of which nothing is seen.
LEMMA StaysWaiting ==
    ASSUME IInv, NEW r \in Request, NEW q,
           request[r].at \notin {"idle", "search"}, q.at \notin {"idle", "search"},
           q.metric = request[r].metric,
           request' = [request EXCEPT ![r] = q], UNCHANGED storeVars
    PROVE  UNCHANGED <<Knows, Looks>>
<1>1. request \in [Request -> IdleRequest \cup ActiveRequest]
  BY DEF IInv, TypeOK
<1>2. Seen(q) = Seen(request[r])
  BY DEF Seen
<1>3. \A s \in Request : Seen(request'[s]) = Seen(request[s])
  BY <1>1, <1>2
<1>4. UNCHANGED Looks
  BY <1>3 DEF Looks
<1> QED
  BY <1>4, SameStore DEF storeVars

LEMMA BeginSeen ==
    ASSUME IInv, NEW r \in Request, NEW m \in announced, NEW byName \in BOOLEAN,
           NEW pods \in 0..MaxPods, Begin(r, m, byName, pods)
    PROVE  Promise!SelectsNothing(r) \/ Promise!Begin(r, m)
<1> DEFINE q == IF pods = 0 THEN [at |-> "idle", outcome |-> "values"]
                ELSE [at |-> "rlock", metric |-> m, byName |-> byName, pods |-> pods,
                      field |-> m, metadata |-> NoMetadata]
<1>1. Promise!Goes(r, Seen(q))
  BY Goes DEF Begin
<1>2. Looks[r].at = "idle"
  BY DEF Begin, Looks, Seen
<1>3. CASE pods = 0
  <2>1. Seen(q) = Promise!Returned("values")
    BY <1>3 DEF Seen, Promise!Returned
  <2> QED
    BY <1>1, <1>2, <2>1 DEF Promise!SelectsNothing, Looks
<1>4. CASE pods # 0
  <2>1. Seen(q) = Promise!Waiting(m)
    BY <1>4 DEF Seen, Promise!Waiting
  <2> QED
    BY <1>1, <1>2, <2>1 DEF Promise!Begin, Looks
<1> QED
  BY <1>3, <1>4

LEMMA RLockSeen ==
    ASSUME IInv, NEW r \in Request, RLock(r)
    PROVE  UNCHANGED <<Knows, Looks>>
<1>1. request[r].at = "rlock" /\ UNCHANGED storeVars
  BY DEF RLock
<1>2. request[r] \in ActiveRequest
  BY <1>1, ActiveType
<1>3. PICK at \in {"queued", "alias"} :
         request' = [request EXCEPT ![r] = [request[r] EXCEPT !.at = at]]
  BY DEF RLock
<1> DEFINE q == [request[r] EXCEPT !.at = at]
<1>4. q.at = at /\ q.metric = request[r].metric
  BY <1>2 DEF ActiveRequest
<1>5. request' = [request EXCEPT ![r] = q]
  BY <1>3
<1> HIDE DEF q
<1> QED
  BY <1>1, <1>4, <1>5, StaysWaiting

LEMMA GetNameSeen ==
    ASSUME IInv, NEW r \in Request, GetName(r)
    PROVE  Promise!Unknown(r) \/ UNCHANGED <<Knows, Looks>>
<1>1. request[r].at = "alias" /\ UNCHANGED storeVars
  BY DEF GetName
<1>2. request[r] \in ActiveRequest
  BY <1>1, ActiveType
<1>3. CASE Renamed /\ request[r].metric \notin DOMAIN namer
  <2>1. request[r].metric \notin DOMAIN Knows
    BY <1>3 DEF Knows, Known
  <2>2. Promise!Goes(r, Promise!Returned("unknown"))
    BY <1>1, <1>3, FinishGoes DEF GetName
  <2>3. Looks[r].at = "waiting" /\ Looks[r].metric = request[r].metric
    BY <1>1, LooksWaiting
  <2> QED
    BY <2>1, <2>2, <2>3 DEF Promise!Unknown, Knows, Looks
<1>4. CASE ~(Renamed /\ request[r].metric \notin DOMAIN namer)
  <2> DEFINE q == [request[r] EXCEPT !.at = "metadata",
                      !.field = IF Renamed THEN namer[request[r].metric]
                                           ELSE request[r].metric]
  <2>1. request' = [request EXCEPT ![r] = q]
    BY <1>4 DEF GetName
  <2>2. q.at = "metadata" /\ q.metric = request[r].metric
    BY <1>2 DEF ActiveRequest
  <2> HIDE DEF q
  <2> QED
    BY <1>1, <2>1, <2>2, StaysWaiting
<1> QED
  BY <1>3, <1>4

\* Where a metric is found or not: under the name the client knows it by.
LEMMA GetMetadataSeen ==
    ASSUME IInv, NEW r \in Request, GetMetadata(r)
    PROVE  Promise!Unknown(r) \/ Promise!Ask(r)
<1> DEFINE m == request[r].metric
           f == request[r].field
<1>1. request[r].at = "metadata" /\ UNCHANGED storeVars
  BY DEF GetMetadata
<1>2. request[r] \in ActiveRequest
  BY <1>1, ActiveType
<1>3. (Renamed => m \in DOMAIN namer) /\ f = FieldOf(m) /\ m \in Name
  BY <1>1, <1>2 DEF IInv, AliasCurrent, ActiveRequest
<1>4. DOMAIN Knows = Known
  BY DEF Knows
<1>5. Looks[r].at = "waiting" /\ Looks[r].metric = m
  BY <1>1, LooksWaiting
<1>6. CASE f \notin DOMAIN indexedMetrics
  <2>1. m \notin DOMAIN Knows
    BY <1>3, <1>4, <1>6 DEF Known
  <2>2. Promise!Goes(r, Promise!Returned("unknown"))
    BY <1>1, <1>6, FinishGoes DEF GetMetadata
  <2> QED
    BY <1>5, <2>1, <2>2 DEF Promise!Unknown, Knows, Looks
<1>7. CASE f \in DOMAIN indexedMetrics
  <2> DEFINE q == [request[r] EXCEPT !.at = "search", !.metadata = indexedMetrics[f]]
  <2>1. m \in DOMAIN Knows /\ Knows[m] = Asked(f, indexedMetrics[f])
    BY <1>3, <1>4, <1>7 DEF Known, Knows
  <2>2. request' = [request EXCEPT ![r] = q]
    BY <1>7 DEF GetMetadata
  <2>3. Promise!Goes(r, Seen(q))
    BY <1>1, <2>2, Goes
  <2>4. /\ q.at = "search" /\ q.metric = m /\ q.field = f
        /\ q.metadata = indexedMetrics[f]
    BY <1>2 DEF ActiveRequest
  <2>5. Seen(q) = [at |-> "asking", metric |-> m, target |-> Knows[m]]
    BY <2>1, <2>4 DEF Seen
  <2> QED
    BY <1>5, <2>1, <2>3, <2>5 DEF Promise!Ask, Knows, Looks
<1> QED
  BY <1>6, <1>7

\* The end of a search: an answer, or the next Pod.
LEMMA NextPodSeen ==
    ASSUME IInv, NEW r \in Request, request[r].at = "search", NextPod(r), UNCHANGED storeVars
    PROVE  Promise!Answer(r) \/ Promise!NextObject(r)
<1>1. request[r] \in ActiveRequest
  BY ActiveType
<1>2. Looks[r].at = "asking" /\ Looks[r].metric = request[r].metric
  BY LooksAsking
<1>3. CASE request[r].pods = 1
  <2>1. Promise!Goes(r, Promise!Returned("values"))
    BY <1>3, FinishGoes DEF NextPod
  <2> QED
    BY <1>2, <2>1 DEF Promise!Answer, Looks
<1>4. CASE request[r].pods # 1
  <2> DEFINE q == [request[r] EXCEPT !.at = "rlock", !.pods = @ - 1,
                       !.field = request[r].metric, !.metadata = NoMetadata]
  <2>1. request' = [request EXCEPT ![r] = q]
    BY <1>4 DEF NextPod
  <2>2. Promise!Goes(r, Seen(q))
    BY <2>1, Goes
  <2>3. q.at = "rlock" /\ q.metric = request[r].metric
    BY <1>1 DEF ActiveRequest
  <2>4. Seen(q) = Promise!Waiting(request[r].metric)
    BY <2>3 DEF Seen, Promise!Waiting
  <2> QED
    BY <1>2, <2>2, <2>4 DEF Promise!NextObject, Looks
<1> QED
  BY <1>3, <1>4

LEMMA SearchSeen ==
    ASSUME IInv, NEW r \in Request, Search(r)
    PROVE  Promise!Answer(r) \/ Promise!NextObject(r) \/ Promise!GiveUp(r)
<1>1. UNCHANGED storeVars
  BY DEF Search, Found, NotFound, Fails
<1>2. CASE request[r].at = "search"
  <2>1. Looks[r].at = "asking"
    BY <1>2, LooksAsking
  <2>2. CASE \E outcome \in {"not found", "error"} : Finish(r, outcome)
    <3>1. PICK outcome \in {"not found", "error"} : Finish(r, outcome)
      BY <2>2
    <3>2. Promise!Goes(r, Promise!Returned(outcome))
      BY <1>1, <3>1, FinishGoes
    <3> QED
      BY <2>1, <3>2 DEF Promise!Answer, Looks
  <2>3. CASE NextPod(r)
    BY <1>1, <1>2, <2>3, NextPodSeen
  <2> QED
    BY <2>2, <2>3 DEF Search, Found, NotFound, Fails
<1>3. CASE request[r].at = "rlock"
  <2>1. Finish(r, "error")
    BY <1>3 DEF Search, Found, NotFound, Fails
  <2>2. Promise!Goes(r, Promise!Returned("error"))
    BY <1>1, <2>1, FinishGoes
  <2>3. Looks[r].at = "waiting"
    BY <1>3, LooksWaiting
  <2> QED
    BY <2>2, <2>3 DEF Promise!GiveUp, Looks
<1> QED
  BY <1>2, <1>3 DEF Search, Found, NotFound, Fails

-----------------------------------------------------------------------------
LEMMA PromisedNext == IInv /\ IInv' /\ [Next]_vars => [Promise!Next]_(Promise!vars)
<1> SUFFICES ASSUME IInv, IInv', [Next]_vars
             PROVE  Promise!Next \/ UNCHANGED <<Knows, Looks>>
  BY DEF Promise!vars, Knows, Looks
<1>1. CASE Job
  BY <1>1, JobSeen DEF Promise!Next
<1>2. CASE Requests
  <2>1. PICK r \in Request :
           \/ \E m \in announced, byName \in BOOLEAN, pods \in 0..MaxPods :
                 Begin(r, m, byName, pods)
           \/ Proceed(r) \/ Search(r)
    BY <1>2 DEF Requests
  <2>2. CASE \E m \in announced, byName \in BOOLEAN, pods \in 0..MaxPods :
                Begin(r, m, byName, pods)
    <3>1. \E m \in Name : Promise!SelectsNothing(r) \/ Promise!Begin(r, m)
      BY <2>2, BeginSeen DEF IInv, TypeOK
    <3> QED
      BY <3>1 DEF Promise!Next, Promise!Serve
  <2>3. CASE Proceed(r)
    <3>1. Promise!Unknown(r) \/ Promise!Ask(r) \/ UNCHANGED <<Knows, Looks>>
      BY <2>3, RLockSeen, GetNameSeen, GetMetadataSeen DEF Proceed
    <3> QED
      BY <3>1 DEF Promise!Next, Promise!Serve
  <2>4. CASE Search(r)
    BY <2>4, SearchSeen DEF Promise!Next, Promise!Serve
  <2> QED
    BY <2>1, <2>2, <2>3, <2>4
<1>3. CASE UNCHANGED vars
  <2>1. UNCHANGED <<indexedMetrics, namer, request>>
    BY <1>3 DEF vars, storeVars
  <2> QED
    BY <2>1, SameStore DEF Looks
<1> QED
  BY <1>1, <1>2, <1>3 DEF Next

\* The client of Elasticsearch implements the promise of a metrics client: what
\* it knows is replaced at once, never while a search uses it, and a request is
\* told that a metric is unknown only when it is (valueFor, discoverMetrics).
THEOREM KeepsPromise == Spec => PromiseKept
<1>1. Init => Promise!Init
  BY PromisedInit
<1>2. IInv /\ IInv' /\ [Next]_vars => [Promise!Next]_(Promise!vars)
  BY PromisedNext
<1> QED
  BY <1>1, <1>2, AlwaysInv, PTL DEF Spec, PromiseKept, Promise!Spec
=============================================================================
