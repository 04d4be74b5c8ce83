------------------------ MODULE CustomApiClientProofs ------------------------
(***************************************************************************)
(* Proofs about the client of another metrics server, for any names,       *)
(* resources and requests.                                                 *)
(***************************************************************************)
EXTENDS CustomApiClient, TLAPS

\* The lock is held over the assignment of the namer and over each call.
LockExact ==
    /\ job.at = "locked" <=> holder = "job"
    /\ \A r \in Request : request[r].at = "call" <=> holder = r

\* Requests come after the registry, which comes after the first namer.
NamerSet ==
    \/ ~namer.nil
    \/ /\ announced.custom = {} /\ job.at # "announce"
       /\ \A r \in Request : request[r].at = "idle"

\* The aliases are those of the names that were listed.
AliasesFit ==
    /\ ~namer.nil => namer.aliases \in Register(listing)
    /\ job.at \in {"lock", "locked"} => job.aliases \in Register(job.found)

\* What is asked for is what the namer leads to, until the answer comes.
AsksCurrent ==
    \A r \in Request : request[r].at = "call" =>
        /\ ~Unknown(request[r].metric)
        /\ request[r].target = FieldOf(request[r].metric)

IInv == TypeOK /\ LockExact /\ NamerSet /\ AliasesFit /\ AsksCurrent

-----------------------------------------------------------------------------
LEMMA RegisterType ==
    ASSUME NEW entries \in SUBSET Listable, NEW picked \in Register(entries)
    PROVE  picked \in Maps
<1>1. NamesOf(entries) \subseteq Name
  BY ListableAssumption DEF NamesOf
<1>2. {AliasOf[n] : n \in NamesOf(entries)} \subseteq Name
  BY <1>1, RenameAssumption
<1>3. picked \in [{AliasOf[n] : n \in NamesOf(entries)} -> Name]
  BY <1>1 DEF Register
<1> QED
  BY <1>2, <1>3 DEF Maps

LEMMA InfosType ==
    ASSUME NEW entries \in SUBSET Listable
    PROVE  Infos(entries) \subseteq Info
BY ListableAssumption, RenameAssumption DEF Infos, Info

LEMMA EmptyType == Empty \in Maps
<1>1. Empty \in [{} -> Name]
  BY DEF Empty
<1> QED
  BY <1>1 DEF Maps

\* A name that the namer finds, or leaves as it is, is a name.
LEMMA FieldType ==
    ASSUME TypeOK, NEW m \in Name, ~Unknown(m)
    PROVE  FieldOf(m) \in Name
<1>1. namer.aliases \in Maps
  BY DEF TypeOK
<1>2. PICK S \in SUBSET Name : namer.aliases \in [S -> Name]
  BY <1>1 DEF Maps
<1> QED
  BY <1>2 DEF Unknown, FieldOf

LEMMA CustomTypes ==
    ASSUME TypeOK, NEW r \in Request
    PROVE  /\ r \in Anyone /\ r \notin ExternalRequest /\ r # "job" /\ r # Nobody
           /\ request[r].at = "idle" => request[r] \in Answered
           /\ request[r].at \in {"singularize", "lock"} => request[r] \in Waiting
           /\ request[r].at = "call" => request[r] \in Calling
           /\ request[r].at \in {"idle", "singularize", "lock", "call"}
<1>1. request[r] \in Answered \cup Waiting \cup Calling
  BY DEF TypeOK
<1>2. r \in Anyone /\ r \notin ExternalRequest /\ r # "job" /\ r # Nobody
  BY RequestAssumption DEF Anyone
<1> QED
  BY <1>1, <1>2 DEF Answered, Waiting, Calling

-----------------------------------------------------------------------------
LEMMA InitInv == Init => IInv
<1> SUFFICES ASSUME Init PROVE IInv
  OBVIOUS
<1>1. \A r \in Anyone : request[r] = [at |-> "idle", outcome |-> "none"]
  BY DEF Init, Idle
<1>2. \A r \in Anyone : request[r] \in Answered
  BY <1>1 DEF Answered, Outcome
<1>3. TypeOK
  <2>1. namer \in [nil : BOOLEAN, aliases : Maps]
    BY EmptyType DEF Init, Nil
  <2>2. job \in [at : {"idle", "version", "resources", "lock", "locked", "announce",
                       "external"},
                 found : SUBSET Listable, aliases : Maps]
    BY EmptyType DEF Init, NoJob
  <2>3. announced \in [custom : SUBSET Info, external : SUBSET ExternalName]
    BY DEF Init
  <2>4. request \in [Anyone -> Answered \cup Waiting \cup Calling \cup WaitingExternal]
    BY <1>2 DEF Init
  <2> QED
    BY <1>2, <2>1, <2>2, <2>3, <2>4 DEF Init, TypeOK, Anyone
<1>4. \A r \in Request : request[r].at = "idle" /\ r # Nobody
  BY <1>1, RequestAssumption DEF Anyone
<1>5. job.at = "idle" /\ holder = Nobody /\ namer.nil /\ announced.custom = {}
  BY DEF Init, NoJob, Nil
<1>6. LockExact
  BY <1>4, <1>5, RequestAssumption DEF LockExact
<1> QED
  BY <1>3, <1>4, <1>5, <1>6 DEF IInv, NamerSet, AliasesFit, AsksCurrent

-----------------------------------------------------------------------------
JobStates == {"idle", "version", "resources", "lock", "locked", "announce", "external"}
JobType == [at : JobStates, found : SUBSET Listable, aliases : Maps]

LEMMA JobTypes ==
    ASSUME TypeOK
    PROVE  /\ job \in JobType
           /\ NoJob \in JobType /\ NoJob.at = "idle"
           /\ [NoJob EXCEPT !.at = "version"] \in JobType
           /\ [NoJob EXCEPT !.at = "external"] \in JobType
BY EmptyType DEF TypeOK, JobType, JobStates, NoJob

\* Steps of the job that touch neither the namer nor the lock, and after which
\* it does not hold the aliases of a new one.
LEMMA JobMoves ==
    ASSUME IInv, UNCHANGED <<namer, listing, holder, request>>,
           announced' \in [custom : SUBSET Info, external : SUBSET ExternalName],
           announced'.custom # {} => announced.custom # {} \/ job.at = "announce",
           job' \in JobType, job.at # "locked", job'.at \notin {"locked", "announce"},
           job'.at = "lock" => job'.aliases \in Register(job'.found)
    PROVE  IInv'
<1>1. TypeOK'
  BY DEF IInv, TypeOK, JobType, JobStates
<1>2. LockExact'
  BY DEF IInv, LockExact
<1>3. NamerSet' /\ AliasesFit' /\ AsksCurrent'
  BY DEF IInv, NamerSet, AliasesFit, AsksCurrent, Unknown, FieldOf
<1> QED
  BY <1>1, <1>2, <1>3 DEF IInv

LEMMA CallsInv ==
    ASSUME IInv, Calls
    PROVE  IInv'
<1>0. TypeOK
  BY DEF IInv
<1>1. CASE PreferredVersion
  BY <1>0, <1>1, JobTypes, JobMoves DEF PreferredVersion, JobType, JobStates, TypeOK
<1>2. CASE Resources
  <2>1. PICK entries \in SUBSET Listable :
           \E p \in Register(entries) :
              job' = [at |-> "lock", found |-> entries, aliases |-> p]
    BY <1>2 DEF Resources
  <2>2. PICK picked \in Register(entries) :
           job' = [at |-> "lock", found |-> entries, aliases |-> picked]
    BY <2>1
  <2>3. job' \in JobType /\ job'.at = "lock" /\ job'.aliases \in Register(job'.found)
    BY <2>2, RegisterType DEF JobType, JobStates
  <2>4. job.at = "resources" /\ UNCHANGED <<namer, listing, holder, announced, request>>
    BY <1>2 DEF Resources
  <2> QED
    BY <1>0, <2>3, <2>4, JobMoves DEF TypeOK
<1>3. CASE ListExternal
  <2>1. PICK names \in SUBSET ExternalName :
           announced' = [announced EXCEPT !.external = names]
    BY <1>3 DEF ListExternal
  <2>2. /\ announced' \in [custom : SUBSET Info, external : SUBSET ExternalName]
        /\ announced'.custom = announced.custom
    BY <1>0, <2>1 DEF TypeOK
  <2>3. job' = NoJob /\ job.at = "external" /\ UNCHANGED <<namer, listing, holder, request>>
    BY <1>3 DEF ListExternal
  <2> QED
    BY <1>0, <2>2, <2>3, JobTypes, JobMoves
<1>4. CASE ListingFails
  BY <1>0, <1>4, JobTypes, JobMoves DEF ListingFails, TypeOK
<1> QED
  BY <1>1, <1>2, <1>3, <1>4 DEF Calls

LEMMA SetNamerInv ==
    ASSUME IInv, SetNamer
    PROVE  IInv'
<1>1. TypeOK /\ job \in JobType
  BY JobTypes DEF IInv
<1>2. /\ job.at = "locked" /\ holder = "job" /\ holder' = Nobody
      /\ namer' = [nil |-> FALSE, aliases |-> job.aliases] /\ listing' = job.found
      /\ job' = [job EXCEPT !.at = "announce"] /\ UNCHANGED <<announced, request>>
  BY DEF IInv, LockExact, SetNamer
<1>3. \A r \in Request : request[r].at # "call"
  BY <1>1, <1>2, CustomTypes DEF IInv, LockExact
<1>4. job' \in JobType /\ job'.at = "announce"
  BY <1>1, <1>2 DEF JobType, JobStates
<1>5. TypeOK'
  BY <1>1, <1>2, <1>4 DEF TypeOK, JobType, JobStates
<1>6. LockExact'
  <2>1. Nobody # "job" /\ \A r \in Request : r # Nobody
    BY <1>1, CustomTypes, RequestAssumption
  <2> QED
    BY <1>2, <1>3, <1>4, <2>1 DEF LockExact
<1>7. NamerSet' /\ AliasesFit' /\ AsksCurrent'
  BY <1>2, <1>3, <1>4 DEF IInv, NamerSet, AliasesFit, AsksCurrent
<1> QED
  BY <1>5, <1>6, <1>7 DEF IInv

LEMMA LockInv ==
    ASSUME IInv, Lock
    PROVE  IInv'
<1>1. TypeOK /\ job \in JobType
  BY JobTypes DEF IInv
<1>2. /\ job.at = "lock" /\ holder = Nobody /\ holder' = "job"
      /\ job' = [job EXCEPT !.at = "locked"]
      /\ UNCHANGED <<namer, listing, announced, request>>
  BY DEF Lock
<1>3. job' \in JobType /\ job'.at = "locked"
  BY <1>1, <1>2 DEF JobType, JobStates
<1>4. job'.aliases = job.aliases /\ job'.found = job.found
  BY <1>1, <1>2 DEF JobType
<1>5. TypeOK'
  BY <1>1, <1>2, <1>3 DEF TypeOK, JobType, JobStates
<1>6. LockExact'
  <2>1. \A r \in Request : r # Nobody /\ r # "job"
    BY <1>1, CustomTypes
  <2> QED
    BY <1>2, <1>3, <2>1 DEF IInv, LockExact
<1>7. NamerSet' /\ AliasesFit' /\ AsksCurrent'
  BY <1>2, <1>3, <1>4
     DEF IInv, NamerSet, AliasesFit, AsksCurrent, Unknown, FieldOf
<1> QED
  BY <1>5, <1>6, <1>7 DEF IInv

LEMMA JobInv ==
    ASSUME IInv, Job
    PROVE  IInv'
<1>0. TypeOK /\ job \in JobType
  BY JobTypes DEF IInv
<1>1. CASE Calls
  BY <1>1, CallsInv
<1>2. CASE ListCustom
  BY <1>0, <1>2, JobTypes, JobMoves DEF ListCustom, TypeOK
<1>3. CASE SetNamer
  BY <1>3, SetNamerInv
<1>4. CASE AnnounceCustom
  <2>1. job.at = "announce" /\ UNCHANGED <<namer, listing, holder, request>>
    BY <1>4 DEF AnnounceCustom
  <2>2. announced' \in [custom : SUBSET Info, external : SUBSET ExternalName]
    BY <1>0, <1>4, InfosType DEF AnnounceCustom, TypeOK, JobType
  <2>3. job' \in JobType /\ job'.at \in {"idle", "external"}
    BY <1>0, <1>4, JobTypes DEF AnnounceCustom, JobType, JobStates
  <2> QED
    BY <2>1, <2>2, <2>3, JobMoves
<1>5. CASE Lock
  BY <1>5, LockInv
<1> QED
  BY <1>1, <1>2, <1>3, <1>4, <1>5 DEF Job, JobProceeds

-----------------------------------------------------------------------------
(* The requests *)

\* Steps of a custom request.
LEMMA CustomMoves ==
    ASSUME IInv, NEW r \in Request, NEW q,
           request' = [request EXCEPT ![r] = q],
           q \in Answered \cup Waiting \cup Calling,
           q.at # "idle" => ~namer.nil,
           q.at = "call" => ~Unknown(q.metric) /\ q.target = FieldOf(q.metric),
           \/ q.at # "call" /\ request[r].at # "call" /\ holder' = holder
           \/ q.at = "call" /\ holder = Nobody /\ holder' = r
           \/ q.at # "call" /\ holder = r /\ holder' = Nobody,
           UNCHANGED <<namer, listing, job, announced>>
    PROVE  IInv'
<1>1. TypeOK
  BY DEF IInv
<1>2. r \in Anyone /\ r \notin ExternalRequest /\ r # "job" /\ r # Nobody
  BY <1>1, CustomTypes
<1>3. \A s \in Anyone : request'[s] = IF s = r THEN q ELSE request[s]
  BY <1>1, <1>2 DEF TypeOK
<1>4. TypeOK'
  <2>1. request' \in [Anyone -> Answered \cup Waiting \cup Calling \cup WaitingExternal]
    BY <1>1, <1>2 DEF TypeOK
  <2>2. \A s \in Request : request'[s] \in Answered \cup Waiting \cup Calling
    BY <1>1, <1>3 DEF TypeOK, Anyone
  <2>3. \A s \in ExternalRequest : request'[s] \in Answered \cup WaitingExternal
    BY <1>1, <1>2, <1>3 DEF TypeOK, Anyone
  <2>4. holder' \in {Nobody, "job"} \cup Request
    BY <1>1 DEF TypeOK
  <2> QED
    BY <1>1, <2>1, <2>2, <2>3, <2>4 DEF TypeOK
<1>5. \A s \in Request : s # "job" /\ s # Nobody /\ s \in Anyone
  BY <1>1, CustomTypes
<1>6. LockExact'
  BY <1>2, <1>3, <1>5, RequestAssumption DEF IInv, LockExact
<1>7. NamerSet' /\ AliasesFit'
  BY <1>3, <1>5 DEF IInv, NamerSet, AliasesFit
<1>8. AsksCurrent'
  BY <1>3, <1>5 DEF IInv, AsksCurrent, Unknown, FieldOf
<1> QED
  BY <1>4, <1>6, <1>7, <1>8 DEF IInv

\* Steps of an external request.
LEMMA ExternalMoves ==
    ASSUME IInv, NEW r \in ExternalRequest, NEW q,
           request' = [request EXCEPT ![r] = q],
           q \in Answered \cup WaitingExternal,
           UNCHANGED <<namer, listing, job, holder, announced>>
    PROVE  IInv' /\ \A s \in Request : request'[s] = request[s]
<1>1. TypeOK
  BY DEF IInv
<1>2. r \in Anyone /\ r \notin Request
  BY RequestAssumption DEF Anyone
<1>3. \A s \in Anyone : request'[s] = IF s = r THEN q ELSE request[s]
  BY <1>1, <1>2 DEF TypeOK
<1>4. \A s \in Request : request'[s] = request[s]
  BY <1>2, <1>3 DEF Anyone
<1>5. TypeOK'
  <2>1. request' \in [Anyone -> Answered \cup Waiting \cup Calling \cup WaitingExternal]
    BY <1>1, <1>2 DEF TypeOK
  <2>2. \A s \in ExternalRequest : request'[s] \in Answered \cup WaitingExternal
    BY <1>1, <1>3 DEF TypeOK, Anyone
  <2> QED
    BY <1>1, <1>4, <2>1, <2>2 DEF TypeOK
<1>6. LockExact' /\ NamerSet' /\ AliasesFit' /\ AsksCurrent'
  BY <1>4 DEF IInv, LockExact, NamerSet, AliasesFit, AsksCurrent, Unknown, FieldOf
<1> QED
  BY <1>4, <1>5, <1>6 DEF IInv

LEMMA BeginInv ==
    ASSUME IInv, NEW r \in Request, NEW info \in announced.custom,
           NEW bySelector \in BOOLEAN, Begin(r, bySelector, info)
    PROVE  IInv'
<1> DEFINE q == [at |-> IF bySelector THEN "singularize" ELSE "lock",
                 resource |-> info[1], metric |-> info[2]]
<1>1. request' = [request EXCEPT ![r] = q] /\ request[r].at = "idle"
      /\ UNCHANGED <<namer, listing, job, holder, announced>>
  BY DEF Begin
<1>2. info \in Resource \X Name
  BY DEF IInv, TypeOK, Info
<1>3. q \in Waiting /\ q.at \notin {"idle", "call"}
  BY <1>2 DEF Waiting
<1>4. ~namer.nil
  BY DEF IInv, NamerSet
<1> HIDE DEF q
<1> QED
  BY <1>1, <1>3, <1>4, CustomMoves

LEMMA SingularizerInv ==
    ASSUME IInv, NEW r \in Request, ResourceSingularizer(r)
    PROVE  IInv'
<1>1. request[r].at = "singularize" /\ UNCHANGED <<namer, listing, job, holder, announced>>
  BY DEF ResourceSingularizer
<1>2. request[r] \in Waiting
  BY <1>1, CustomTypes DEF IInv
<1>3. ~namer.nil
  BY <1>1 DEF IInv, NamerSet
<1>4. CASE Finish(r, "error")
  <2> DEFINE q == [at |-> "idle", outcome |-> "error"]
  <2>1. q \in Answered /\ q.at = "idle"
    BY DEF Answered, Outcome
  <2>2. request' = [request EXCEPT ![r] = q]
    BY <1>4 DEF Finish
  <2> HIDE DEF q
  <2> QED
    BY <1>1, <2>1, <2>2, CustomMoves
<1>5. CASE request' = [request EXCEPT ![r].at = "lock"]
  <2> DEFINE q == [request[r] EXCEPT !.at = "lock"]
  <2>1. q \in Waiting /\ q.at = "lock"
    BY <1>2 DEF Waiting
  <2>2. request' = [request EXCEPT ![r] = q]
    BY <1>5
  <2> HIDE DEF q
  <2> QED
    BY <1>1, <1>3, <2>1, <2>2, CustomMoves
<1> QED
  BY <1>4, <1>5 DEF ResourceSingularizer

\* A request that has the lock knows what it asks for, since the namer is set.
LEMMA GetNameFinds ==
    ASSUME IInv, NEW r \in Request, GetName(r)
    PROVE  /\ request[r] \in Waiting /\ request[r].at = "lock" /\ ~namer.nil
           /\ holder = Nobody /\ UNCHANGED <<namer, listing, job, announced>>
           /\ \/ Unknown(request[r].metric) /\ Finish(r, "unknown") /\ holder' = holder
              \/ /\ ~Unknown(request[r].metric) /\ holder' = r
                 /\ request' = [request EXCEPT ![r] =
                       [at |-> "call", resource |-> request[r].resource,
                        metric |-> request[r].metric,
                        target |-> FieldOf(request[r].metric)]]
<1>1. request[r].at = "lock"
  BY DEF GetName
<1>2. request[r] \in Waiting
  BY <1>1, CustomTypes DEF IInv
<1>3. ~namer.nil
  BY <1>1 DEF IInv, NamerSet
<1> QED
  BY <1>1, <1>2, <1>3 DEF GetName

LEMMA GetNameInv ==
    ASSUME IInv, NEW r \in Request, GetName(r)
    PROVE  IInv'
<1>1. /\ request[r] \in Waiting /\ request[r].at = "lock" /\ ~namer.nil
      /\ holder = Nobody /\ UNCHANGED <<namer, listing, job, announced>>
  BY GetNameFinds
<1>2. CASE Unknown(request[r].metric) /\ Finish(r, "unknown") /\ holder' = holder
  <2> DEFINE q == [at |-> "idle", outcome |-> "unknown"]
  <2>1. q \in Answered /\ q.at = "idle"
    BY DEF Answered, Outcome
  <2>2. request' = [request EXCEPT ![r] = q]
    BY <1>2 DEF Finish
  <2> HIDE DEF q
  <2> QED
    BY <1>1, <1>2, <2>1, <2>2, CustomMoves
<1>3. CASE /\ ~Unknown(request[r].metric) /\ holder' = r
           /\ request' = [request EXCEPT ![r] =
                 [at |-> "call", resource |-> request[r].resource,
                  metric |-> request[r].metric, target |-> FieldOf(request[r].metric)]]
  <2> DEFINE q == [at |-> "call", resource |-> request[r].resource,
                   metric |-> request[r].metric, target |-> FieldOf(request[r].metric)]
  <2>1. request[r].metric \in Name /\ request[r].resource \in Resource
    BY <1>1 DEF Waiting
  <2>2. q \in Calling /\ q.at = "call" /\ ~Unknown(q.metric) /\ q.target = FieldOf(q.metric)
    BY <1>3, <2>1, FieldType DEF Calling, IInv
  <2>3. request' = [request EXCEPT ![r] = q]
    BY <1>3
  <2> HIDE DEF q
  <2> QED
    BY <1>1, <1>3, <2>2, <2>3, CustomMoves
<1> QED
  BY <1>2, <1>3, GetNameFinds

LEMMA AnswerInv ==
    ASSUME IInv, NEW r \in Request, Answer(r)
    PROVE  IInv'
<1>1. PICK outcome \in {"values", "error"} : Finish(r, outcome)
  BY DEF Answer
<1> DEFINE q == [at |-> "idle", outcome |-> outcome]
<1>2. q \in Answered /\ q.at = "idle"
  BY DEF Answered, Outcome
<1>3. request' = [request EXCEPT ![r] = q]
  BY <1>1 DEF Finish
<1>4. /\ holder = r /\ holder' = Nobody
      /\ UNCHANGED <<namer, listing, job, announced>>
  BY DEF Answer, IInv, LockExact
<1> HIDE DEF q
<1> QED
  BY <1>2, <1>3, <1>4, CustomMoves

LEMMA ExternalInv ==
    ASSUME IInv, NEW r \in ExternalRequest,
           \/ \E m \in announced.external : BeginExternal(r, m)
           \/ GetExternalMetric(r)
    PROVE  /\ IInv' /\ \A s \in Request : request'[s] = request[s]
           /\ UNCHANGED namer
<1>1. CASE GetExternalMetric(r)
  <2> DEFINE q == [at |-> "idle", outcome |-> "panic"]
  <2>1. q \in Answered
    BY DEF Answered, Outcome
  <2>2. /\ request' = [request EXCEPT ![r] = q]
        /\ UNCHANGED <<namer, listing, job, holder, announced>>
    BY <1>1 DEF GetExternalMetric, Finish
  <2> HIDE DEF q
  <2> QED
    BY <2>1, <2>2, ExternalMoves
<1>2. ASSUME NEW m \in announced.external, BeginExternal(r, m)
      PROVE  /\ IInv' /\ \A s \in Request : request'[s] = request[s]
             /\ UNCHANGED namer
  <2> DEFINE q == [at |-> "lock external", metric |-> m]
  <2>1. q \in WaitingExternal
    BY DEF WaitingExternal, IInv, TypeOK
  <2>2. /\ request' = [request EXCEPT ![r] = q]
        /\ UNCHANGED <<namer, listing, job, holder, announced>>
    BY <1>2 DEF BeginExternal
  <2> HIDE DEF q
  <2> QED
    BY <2>1, <2>2, ExternalMoves
<1> QED
  BY <1>1, <1>2

LEMMA NextInv == IInv /\ [Next]_vars => IInv'
<1> SUFFICES ASSUME IInv, [Next]_vars PROVE IInv'
  OBVIOUS
<1>1. CASE Job
  BY <1>1, JobInv
<1>2. CASE Requests
  BY <1>2, BeginInv, SingularizerInv, GetNameInv, AnswerInv, ExternalInv DEF Requests
<1>3. CASE UNCHANGED vars
  BY <1>3 DEF vars, IInv, TypeOK, LockExact, NamerSet, AliasesFit, AsksCurrent,
              Unknown, FieldOf
<1> QED
  BY <1>1, <1>2, <1>3 DEF Next

LEMMA AlwaysInv == Spec => []IInv
  BY InitInv, NextInv, PTL DEF Spec

\* The state of the client has its type, and only the job and custom requests
\* hold its lock (pkg/client/custom_api).
THEOREM TypeCorrect == Spec => []TypeOK
<1>1. IInv => TypeOK
  BY DEF IInv
<1> QED
  BY <1>1, AlwaysInv, PTL

LEMMA AsksListed == IInv => AsksWhatIsListed
<1> SUFFICES ASSUME IInv, NEW r \in Request, request[r].at = "call"
             PROVE  LET q     == request[r]
                        named == {n \in NamesOf(listing) : AliasOf[n] = q.metric}
                    IN  /\ AliasOf[q.target] = q.metric
                        /\ Renamed => q.target \in named
                        /\ \/ <<q.resource, q.target>> \in listing
                           \/ <<q.resource, q.metric>> \notin Infos(listing)
                           \/ \E n \in named : n # q.target
  BY DEF AsksWhatIsListed
<1> DEFINE q == request[r]
           named == {n \in NamesOf(listing) : AliasOf[n] = q.metric}
<1>1. q \in Calling
  BY CustomTypes DEF IInv
<1>2. q.metric \in Name /\ q.resource \in Resource
  BY <1>1 DEF Calling
<1>3. ~namer.nil /\ namer.aliases \in Register(listing)
  BY DEF IInv, NamerSet, AliasesFit
<1>4. ~Unknown(q.metric) /\ q.target = FieldOf(q.metric)
  BY DEF IInv, AsksCurrent
<1>5. AliasOf[q.target] = q.metric /\ (Renamed => q.target \in named)
  <2>1. CASE Renamed
    <3>1. q.metric \in DOMAIN namer.aliases /\ q.target = namer.aliases[q.metric]
      BY <1>4, <2>1 DEF Unknown, FieldOf
    <3>2. namer.aliases \in [{AliasOf[n] : n \in NamesOf(listing)} -> NamesOf(listing)]
          /\ \A a \in DOMAIN namer.aliases : AliasOf[namer.aliases[a]] = a
      BY <1>3 DEF Register
    <3> QED
      BY <3>1, <3>2
  <2>2. CASE ~Renamed
    BY <1>2, <1>4, <2>2, RenameAssumption DEF FieldOf
  <2> QED
    BY <2>1, <2>2
<1>6. ASSUME <<q.resource, q.metric>> \in Infos(listing)
      PROVE  <<q.resource, q.target>> \in listing \/ \E n \in named : n # q.target
  <2>1. PICK e \in listing : <<q.resource, q.metric>> = <<e[1], AliasOf[e[2]]>>
    BY <1>6 DEF Infos
  <2>2. e \in Resource \X Name
    BY ListableAssumption DEF IInv, TypeOK
  <2>3. e[2] \in named /\ q.resource = e[1]
    BY <2>1 DEF NamesOf
  <2>4. e = <<e[1], e[2]>>
    BY <2>2
  <2> QED
    BY <2>3, <2>4
<1> QED
  BY <1>5, <1>6

\* The other server is asked for what it lists under the name requested, for any
\* names that share an alias and any resources (GetMetricByName,
\* GetMetricBySelector).
THEOREM AlwaysAsksListed == Spec => []AsksWhatIsListed
  BY AsksListed, AlwaysInv, PTL

-----------------------------------------------------------------------------
(* The promise of a metrics client *)

Knows == [m \in KnownNames |-> FieldOf(m)]
Looks == [r \in Request |-> Seen(request[r])]

LEMMA KnowsType == IInv => KnownNames \in SUBSET Name /\ Knows \in [KnownNames -> Name]
<1> SUFFICES ASSUME IInv
             PROVE  KnownNames \in SUBSET Name /\ Knows \in [KnownNames -> Name]
  OBVIOUS
<1>1. PICK S \in SUBSET Name : namer.aliases \in [S -> Name]
  BY DEF IInv, TypeOK, Maps
<1>2. KnownNames \in SUBSET Name
  BY <1>1 DEF KnownNames
<1>3. ASSUME NEW m \in KnownNames
      PROVE  FieldOf(m) \in Name
  <2>1. m \in Name /\ ~Unknown(m)
    BY <1>2 DEF KnownNames, Unknown
  <2> QED
    BY <2>1, FieldType DEF IInv
<1> QED
  BY <1>2, <1>3 DEF Knows

LEMMA PromisedInit == Init => Promise!Init
<1> SUFFICES ASSUME Init PROVE Promise!Init
  OBVIOUS
<1>1. KnownNames = {}
  BY DEF Init, Nil, KnownNames
<1>2. Knows = [m \in {} |-> m]
  BY <1>1 DEF Knows
<1>3. \A r \in Request : Seen(request[r]) = [at |-> "idle", outcome |-> "none"]
  BY DEF Init, Idle, Seen, Anyone
<1>4. Looks = [r \in Request |-> [at |-> "idle", outcome |-> "none"]]
  BY <1>3 DEF Looks
<1> QED
  BY <1>2, <1>4 DEF Promise!Init, Promise!Returned, Knows, Looks

\* A step is seen only if it changes the namer or a custom request.
LEMMA NotSeen ==
    ASSUME UNCHANGED namer, \A r \in Request : Seen(request'[r]) = Seen(request[r])
    PROVE  UNCHANGED <<Knows, Looks>>
<1>1. KnownNames' = KnownNames
  BY DEF KnownNames
<1> QED
  BY <1>1 DEF Knows, Looks, FieldOf

LEMMA JobSeen ==
    ASSUME IInv, IInv', Job
    PROVE  Promise!Refresh \/ UNCHANGED <<Knows, Looks>>
<1>1. CASE SetNamer
  <2>1. \A r \in Request : request[r].at # "call" /\ r # "job"
    BY <1>1, CustomTypes DEF SetNamer, IInv, LockExact
  <2>2. \A r \in Request : Looks[r].at # "asking"
    BY <2>1, CustomTypes DEF Looks, Seen, IInv
  <2>3. Looks' = Looks
    BY <1>1 DEF SetNamer, Looks
  <2>4. (KnownNames \in SUBSET Name /\ Knows \in [KnownNames -> Name])'
    BY KnowsType, PTL
  <2>5. \E S \in SUBSET Name : Knows' \in [S -> Name]
    BY <2>4
  <2> QED
    BY <2>2, <2>3, <2>5 DEF Promise!Refresh, Promise!Asking, Knows, Looks
<1>2. CASE Calls \/ ListCustom \/ AnnounceCustom \/ Lock
  BY <1>2, NotSeen DEF Calls, PreferredVersion, Resources, ListExternal, ListingFails,
                       ListCustom, AnnounceCustom, Lock
<1> QED
  BY <1>1, <1>2 DEF Job, JobProceeds

LEMMA Goes ==
    ASSUME IInv, NEW r \in Request, NEW q,
           request' = [request EXCEPT ![r] = q], UNCHANGED namer
    PROVE  Promise!Goes(r, Seen(q))
<1>1. r \in Anyone /\ DOMAIN request = Anyone /\ Request \subseteq Anyone
  BY DEF IInv, TypeOK, Anyone
<1>2. \A s \in Request : request'[s] = IF s = r THEN q ELSE request[s]
  BY <1>1 DEF IInv, TypeOK
<1>3. Looks' = [Looks EXCEPT ![r] = Seen(q)]
  <2>1. Looks' = [s \in Request |-> Seen(request'[s])]
    BY DEF Looks
  <2>2. \A s \in Request : Seen(request'[s]) = IF s = r THEN Seen(q) ELSE Looks[s]
    BY <1>2 DEF Looks
  <2>3. [Looks EXCEPT ![r] = Seen(q)] =
            [s \in Request |-> IF s = r THEN Seen(q) ELSE Looks[s]]
    BY DEF Looks
  <2> HIDE DEF Looks
  <2> QED
    BY <2>1, <2>2, <2>3
<1>4. Knows' = Knows
  <2>1. KnownNames' = KnownNames
    BY DEF KnownNames
  <2> QED
    BY <2>1 DEF Knows, FieldOf
<1> QED
  BY <1>3, <1>4 DEF Promise!Goes, Knows, Looks

LEMMA FinishGoes ==
    ASSUME IInv, NEW r \in Request, NEW outcome, Finish(r, outcome), UNCHANGED namer
    PROVE  Promise!Goes(r, Promise!Returned(outcome))
<1> DEFINE q == [at |-> "idle", outcome |-> outcome]
<1>1. Promise!Goes(r, Seen(q))
  BY Goes DEF Finish
<1>2. Seen(q) = Promise!Returned(outcome)
  BY DEF Seen, Promise!Returned
<1> QED
  BY <1>1, <1>2

LEMMA BeginSeen ==
    ASSUME IInv, NEW r \in Request, NEW info \in announced.custom,
           NEW bySelector \in BOOLEAN, Begin(r, bySelector, info)
    PROVE  \E m \in Name : Promise!Begin(r, m)
<1> DEFINE q == [at |-> IF bySelector THEN "singularize" ELSE "lock",
                 resource |-> info[1], metric |-> info[2]]
<1>1. info[2] \in Name
  BY DEF IInv, TypeOK, Info
<1>2. Promise!Goes(r, Seen(q))
  BY Goes DEF Begin
<1>3. Seen(q) = Promise!Waiting(info[2])
  BY DEF Seen, Promise!Waiting
<1>4. Looks[r].at = "idle"
  BY DEF Begin, Looks, Seen
<1> QED
  BY <1>1, <1>2, <1>3, <1>4 DEF Promise!Begin, Looks

LEMMA SingularizerSeen ==
    ASSUME IInv, NEW r \in Request, ResourceSingularizer(r)
    PROVE  Promise!GiveUp(r) \/ UNCHANGED <<Knows, Looks>>
<1>1. request[r].at = "singularize" /\ UNCHANGED namer
  BY DEF ResourceSingularizer
<1>2. CASE Finish(r, "error")
  <2>1. Promise!Goes(r, Promise!Returned("error"))
    BY <1>1, <1>2, FinishGoes
  <2>2. Looks[r].at = "waiting"
    BY <1>1 DEF Looks, Seen
  <2> QED
    BY <2>1, <2>2 DEF Promise!GiveUp, Looks
<1>3. CASE request' = [request EXCEPT ![r].at = "lock"]
  <2>1. request[r] \in Waiting
    BY <1>1, CustomTypes DEF IInv
  <2> DEFINE q == [request[r] EXCEPT !.at = "lock"]
  <2>2. q.at = "lock" /\ q.metric = request[r].metric
    BY <2>1 DEF Waiting
  <2>3. \A s \in Request : request'[s] = IF s = r THEN q ELSE request[s]
    BY <1>3 DEF IInv, TypeOK, Anyone
  <2>4. Seen(q) = Seen(request[r])
    BY <1>1, <2>2 DEF Seen
  <2> HIDE DEF q
  <2> QED
    BY <1>1, <2>3, <2>4, NotSeen
<1> QED
  BY <1>2, <1>3 DEF ResourceSingularizer

LEMMA GetNameSeen ==
    ASSUME IInv, NEW r \in Request, GetName(r)
    PROVE  Promise!Unknown(r) \/ Promise!Ask(r)
<1> DEFINE m == request[r].metric
<1>1. /\ request[r] \in Waiting /\ request[r].at = "lock" /\ ~namer.nil
      /\ UNCHANGED namer
  BY GetNameFinds
<1>2. m \in Name
  BY <1>1 DEF Waiting
<1>3. Looks[r].at = "waiting" /\ Looks[r].metric = m
  BY <1>1 DEF Looks, Seen
<1>4. DOMAIN Knows = KnownNames
  BY DEF Knows
<1>5. CASE Unknown(m) /\ Finish(r, "unknown")
  <2>1. m \notin DOMAIN Knows
    BY <1>1, <1>4, <1>5 DEF KnownNames, Unknown
  <2>2. Promise!Goes(r, Promise!Returned("unknown"))
    BY <1>1, <1>5, FinishGoes
  <2> QED
    BY <1>3, <2>1, <2>2 DEF Promise!Unknown, Knows, Looks
<1>6. CASE /\ ~Unknown(m)
           /\ request' = [request EXCEPT ![r] =
                 [at |-> "call", resource |-> request[r].resource,
                  metric |-> m, target |-> FieldOf(m)]]
  <2> DEFINE q == [at |-> "call", resource |-> request[r].resource,
                   metric |-> m, target |-> FieldOf(m)]
  <2>1. m \in DOMAIN Knows /\ Knows[m] = FieldOf(m)
    BY <1>1, <1>2, <1>4, <1>6 DEF KnownNames, Unknown, Knows
  <2>2. Promise!Goes(r, Seen(q))
    BY <1>1, <1>6, Goes
  <2>3. Seen(q) = [at |-> "asking", metric |-> m, target |-> Knows[m]]
    BY <2>1 DEF Seen
  <2> QED
    BY <1>3, <2>1, <2>2, <2>3 DEF Promise!Ask, Knows, Looks
<1> QED
  BY <1>5, <1>6, GetNameFinds

LEMMA AnswerSeen ==
    ASSUME IInv, NEW r \in Request, Answer(r)
    PROVE  Promise!Answer(r)
<1>1. PICK outcome \in {"values", "error"} : Finish(r, outcome)
  BY DEF Answer
<1>2. request[r].at = "call" /\ UNCHANGED namer
  BY DEF Answer
<1>3. Promise!Goes(r, Promise!Returned(outcome))
  BY <1>1, <1>2, FinishGoes
<1>4. Looks[r].at = "asking"
  BY <1>2 DEF Looks, Seen
<1> QED
  BY <1>3, <1>4 DEF Promise!Answer, Looks

LEMMA PromisedNext == IInv /\ IInv' /\ [Next]_vars => [Promise!Next]_(Promise!vars)
<1> SUFFICES ASSUME IInv, IInv', [Next]_vars
             PROVE  Promise!Next \/ UNCHANGED <<Knows, Looks>>
  BY DEF Promise!vars, Knows, Looks
<1>1. CASE Job
  BY <1>1, JobSeen DEF Promise!Next
<1>2. CASE Requests
  <2>1. ASSUME NEW r \in Request,
               \/ \E info \in announced.custom, bySelector \in BOOLEAN :
                     Begin(r, bySelector, info)
               \/ ResourceSingularizer(r) \/ GetName(r) \/ Answer(r)
        PROVE  Promise!Serve(r) \/ UNCHANGED <<Knows, Looks>>
    BY <2>1, BeginSeen, SingularizerSeen, GetNameSeen, AnswerSeen DEF Promise!Serve
  <2>2. ASSUME NEW r \in ExternalRequest,
               \/ \E m \in announced.external : BeginExternal(r, m)
               \/ GetExternalMetric(r)
        PROVE  UNCHANGED <<Knows, Looks>>
    <3>1. UNCHANGED namer /\ \A s \in Request : request'[s] = request[s]
      BY <2>2, ExternalInv
    <3> QED
      BY <3>1, NotSeen
  <2> QED
    BY <1>2, <2>1, <2>2 DEF Requests, Promise!Next
<1>3. CASE UNCHANGED vars
  BY <1>3, NotSeen DEF vars
<1> QED
  BY <1>1, <1>2, <1>3 DEF Next

\* The lock of the namer is held by exactly whoever assigns the namer or has a
\* call of a custom request under way, and by nobody otherwise: two of them never
\* overlap, and every way out of one gives the lock back (ListCustomMetricInfos,
\* GetMetricByName, GetMetricBySelector).
THEOREM LockHeldByOne == Spec => []LockExact
<1>1. IInv => LockExact
  BY DEF IInv
<1> QED
  BY <1>1, AlwaysInv, PTL

\* The client of another metrics server implements the promise of a metrics
\* client: its namer is never replaced between a lookup and the answer, a metric
\* is unknown only when it is, and no custom request meets a nil namer
\* (ListCustomMetricInfos, GetMetricByName, GetMetricBySelector).
THEOREM KeepsPromise == Spec => PromiseKept
<1>1. Init => Promise!Init
  BY PromisedInit
<1>2. IInv /\ IInv' /\ [Next]_vars => [Promise!Next]_(Promise!vars)
  BY PromisedNext
<1> QED
  BY <1>1, <1>2, AlwaysInv, PTL DEF Spec, PromiseKept, Promise!Spec
=============================================================================
