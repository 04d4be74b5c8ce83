-------------------------- MODULE CustomApiClient --------------------------
(***************************************************************************)
(* One client of another metrics API server (pkg/client/custom_api): the   *)
(* job lists what that server has, API requests are passed on to it.       *)
(*                                                                         *)
(* The listing makes a new namer and puts it in place under the lock.  A   *)
(* request holds the same lock, exclusively, from the moment it looks up   *)
(* the name until the other server has answered.  The lock is waited for   *)
(* in Go's way: a goroutine that has waited for long gets it next.         *)
(*                                                                         *)
(* What the client promises for custom metrics is the module MetricsClient. *)
(***************************************************************************)
EXTENDS Naturals, FiniteSets

CONSTANTS
    Name,             \* the names of metrics
    Resource,         \* the resources that custom metrics describe
    Listable,         \* the entries "<resource>/<name>" its listings may have
    Renamed,          \* whether the server has a `rename` directive
    AliasOf,          \* AliasOf[n]: the name the directive gives to n
    ExternalName,     \* the external metrics, none if they are not asked for
    Request,          \* API requests for custom metrics
    ExternalRequest,  \* API requests for external metrics
    Nobody

ASSUME RenameAssumption ==
    /\ Renamed \in BOOLEAN
    /\ AliasOf \in [Name -> Name]
    /\ ~Renamed => \A n \in Name : AliasOf[n] = n

ASSUME ListableAssumption == Listable \subseteq Resource \X Name

ASSUME RequestAssumption ==
    /\ Request \cap ExternalRequest = {}
    /\ {Nobody, "job"} \cap (Request \cup ExternalRequest) = {}
    /\ Nobody # "job"

VARIABLES
    namer,       \* customMetricNamer: nil, or the aliases it has registered
    listing,     \* the resources and names it was made from (history)
    job,         \* where the refresh is, and what it has so far
    holder,      \* who holds the lock
    announced,   \* what the registry has of this client, of each type
    request

vars == <<namer, listing, job, holder, announced, request>>

Anyone == Request \cup ExternalRequest
Info == Resource \X Name

Empty == [a \in {} |-> a]
Maps == UNION {[S -> Name] : S \in SUBSET Name}

Nil == [nil |-> TRUE, aliases |-> Empty]
Idle == [at |-> "idle", outcome |-> "none"]
NoJob == [at |-> "idle", found |-> {}, aliases |-> Empty]

Init ==
    /\ namer = Nil /\ listing = {}
    /\ job = NoJob
    /\ holder = Nobody
    /\ announced = [custom |-> {}, external |-> {}]
    /\ request = [r \in Anyone |-> Idle]

-----------------------------------------------------------------------------
(* The job *)

\* What a listing of entries gives to the registry.
Infos(entries) == {<<e[1], AliasOf[e[2]]>> : e \in entries}

NamesOf(entries) == {e[2] : e \in entries}

\* Names are registered in the order of the answer, whatever their resource:
\* of those with the same alias the last one counts.
Register(entries) ==
    {picked \in [{AliasOf[n] : n \in NamesOf(entries)} -> NamesOf(entries)] :
        \A a \in DOMAIN picked : AliasOf[picked[a]] = a}

\* ListCustomMetricInfos first asks for the preferred version.
ListCustom ==
    /\ job.at = "idle"
    /\ job' = [NoJob EXCEPT !.at = "version"]
    /\ UNCHANGED <<namer, listing, holder, announced, request>>

PreferredVersion ==
    /\ job.at = "version"
    /\ job' = [job EXCEPT !.at = "resources"]
    /\ UNCHANGED <<namer, listing, holder, announced, request>>

\* Then for the resources of that version.  An entry without a resource is
\* left out; what remains is registered with a new namer.
Resources ==
    /\ job.at = "resources"
    /\ \E entries \in SUBSET Listable : \E picked \in Register(entries) :
          job' = [at |-> "lock", found |-> entries, aliases |-> picked]
    /\ UNCHANGED <<namer, listing, holder, announced, request>>

\* Faulty variant: the namer is replaced without the lock.
LockAlways ==
    /\ job.at = "lock"
    /\ job' = [job EXCEPT !.at = "locked"]
    /\ UNCHANGED <<namer, listing, holder, announced, request>>

Lock ==
    /\ job.at = "lock" /\ holder = Nobody
    /\ holder' = "job"
    /\ job' = [job EXCEPT !.at = "locked"]
    /\ UNCHANGED <<namer, listing, announced, request>>

\* Faulty variant: the aliases of earlier listings are kept.
SetNamerMerged ==
    /\ job.at = "locked"
    /\ namer' = [nil |-> FALSE,
                 aliases |-> [a \in DOMAIN namer.aliases \cup DOMAIN job.aliases |->
                    IF a \in DOMAIN namer.aliases THEN namer.aliases[a]
                                                  ELSE job.aliases[a]]]
    /\ listing' = job.found
    /\ holder' = Nobody
    /\ job' = [job EXCEPT !.at = "announce"]
    /\ UNCHANGED <<announced, request>>

\* The assignment and the deferred Unlock.
SetNamer ==
    /\ job.at = "locked"
    /\ namer' = [nil |-> FALSE, aliases |-> job.aliases]
    /\ listing' = job.found
    /\ holder' = Nobody
    /\ job' = [job EXCEPT !.at = "announce"]
    /\ UNCHANGED <<announced, request>>

\* The job gives the infos to the registry, and goes on to external metrics.
AnnounceCustom ==
    /\ job.at = "announce"
    /\ announced' = [announced EXCEPT !.custom = Infos(job.found)]
    /\ job' = IF ExternalName # {} THEN [NoJob EXCEPT !.at = "external"] ELSE NoJob
    /\ UNCHANGED <<namer, listing, holder, request>>

\* ListExternalMetrics takes no lock and knows no aliases.
ListExternal ==
    /\ job.at = "external"
    /\ \E names \in SUBSET ExternalName : announced' = [announced EXCEPT !.external = names]
    /\ job' = NoJob
    /\ UNCHANGED <<namer, listing, holder, request>>

\* A call to the other server may fail, which ends the refresh.
ListingFails ==
    /\ job.at \in {"version", "resources", "external"}
    /\ job' = NoJob
    /\ UNCHANGED <<namer, listing, holder, announced, request>>

Calls == PreferredVersion \/ Resources \/ ListExternal \/ ListingFails
JobProceeds == ListCustom \/ SetNamer \/ AnnounceCustom
Job == Calls \/ JobProceeds \/ Lock

-----------------------------------------------------------------------------
(* A request *)

Finish(r, outcome) ==
    request' = [request EXCEPT ![r] = [at |-> "idle", outcome |-> outcome]]

\* The registry sends only what it knows.  A request for the objects that match
\* a selector first needs the kind of the resource.
Begin(r, bySelector, info) ==
    /\ request[r].at = "idle"
    /\ request' = [request EXCEPT ![r] =
          [at |-> IF bySelector THEN "singularize" ELSE "lock",
           resource |-> info[1], metric |-> info[2]]]
    /\ UNCHANGED <<namer, listing, job, holder, announced>>

ResourceSingularizer(r) ==
    /\ request[r].at = "singularize"
    /\ \/ Finish(r, "error")
       \/ request' = [request EXCEPT ![r].at = "lock"]
    /\ UNCHANGED <<namer, listing, job, holder, announced>>

BeginExternal(r, m) ==
    /\ request[r].at = "idle"
    /\ request' = [request EXCEPT ![r] = [at |-> "lock external", metric |-> m]]
    /\ UNCHANGED <<namer, listing, job, holder, announced>>

\* customMetricNamer.Get: without a directive every name stands for itself.
Unknown(m) == Renamed /\ m \notin DOMAIN namer.aliases
FieldOf(m) == IF Renamed THEN namer.aliases[m] ELSE m

\* Faulty variant: an alias that is not known is returned without the Unlock.
GetNameKeepsLock(r) ==
    /\ request[r].at = "lock" /\ holder = Nobody
    /\ LET m == request[r].metric
       IN  \/ namer.nil /\ Finish(r, "panic") /\ UNCHANGED holder
           \/ ~namer.nil /\ Unknown(m) /\ Finish(r, "unknown") /\ holder' = r
           \/ /\ ~namer.nil /\ ~Unknown(m)
              /\ request' = [request EXCEPT ![r] =
                    [at |-> "call", resource |-> request[r].resource, metric |-> m,
                     target |-> FieldOf(m)]]
              /\ holder' = r
    /\ UNCHANGED <<namer, listing, job, announced>>

\* With the lock: the name under which the other server has the metric.  What
\* returns at once, or panics on a nil namer, releases the lock.
GetName(r) ==
    /\ request[r].at = "lock" /\ holder = Nobody
    /\ LET m == request[r].metric
       IN  \/ namer.nil /\ Finish(r, "panic") /\ UNCHANGED holder
           \/ ~namer.nil /\ Unknown(m) /\ Finish(r, "unknown") /\ UNCHANGED holder
           \/ /\ ~namer.nil /\ ~Unknown(m)
              /\ request' = [request EXCEPT ![r] =
                    [at |-> "call", resource |-> request[r].resource, metric |-> m,
                     target |-> FieldOf(m)]]
              /\ holder' = r
    /\ UNCHANGED <<namer, listing, job, announced>>

\* Faulty variant: the panic does not release the lock.
GetExternalMetricKeepsLock(r) ==
    /\ request[r].at = "lock external" /\ holder = Nobody
    /\ Finish(r, "panic")
    /\ holder' = r
    /\ UNCHANGED <<namer, listing, job, announced>>

\* Nothing ever sets externalMetricNamer: GetExternalMetric panics on it, and
\* the deferred Unlock releases the lock.
GetExternalMetric(r) ==
    /\ request[r].at = "lock external" /\ holder = Nobody
    /\ Finish(r, "panic")
    /\ UNCHANGED <<namer, listing, job, holder, announced>>

\* Faulty variant: an error of the other server is returned without the Unlock.
AnswerKeepsLock(r) ==
    /\ request[r].at = "call"
    /\ \/ Finish(r, "values") /\ holder' = Nobody
       \/ Finish(r, "error") /\ UNCHANGED holder
    /\ UNCHANGED <<namer, listing, job, announced>>

\* The other server answers, with values or an error.
Answer(r) ==
    /\ request[r].at = "call"
    /\ \E outcome \in {"values", "error"} : Finish(r, outcome)
    /\ holder' = Nobody
    /\ UNCHANGED <<namer, listing, job, announced>>

Requests ==
    \/ \E r \in Request :
          \/ \E info \in announced.custom, bySelector \in BOOLEAN :
                Begin(r, bySelector, info)
          \/ ResourceSingularizer(r) \/ GetName(r) \/ Answer(r)
    \/ \E r \in ExternalRequest :
          \/ \E m \in announced.external : BeginExternal(r, m)
          \/ GetExternalMetric(r)

Next == Job \/ Requests

Spec == Init /\ [][Next]_vars

\* The job and the requests that have begun run, and nobody waits for the lock
\* for ever while it is released again and again.  That a call to the other
\* server, or to the API server, comes back is a premise of the properties.
FairSpec ==
    /\ Spec
    /\ WF_vars(JobProceeds) /\ SF_vars(Lock)
    /\ \A r \in Request : SF_vars(GetName(r))
    /\ \A r \in ExternalRequest : SF_vars(GetExternalMetric(r))

-----------------------------------------------------------------------------
Outcome == {"none", "values", "error", "unknown", "panic"}

Answered == [at : {"idle"}, outcome : Outcome]
Waiting == [at : {"singularize", "lock"}, resource : Resource, metric : Name]
Calling == [at : {"call"}, resource : Resource, metric : Name, target : Name]
WaitingExternal == [at : {"lock external"}, metric : ExternalName]

\* The state has its type; only the job and custom requests keep the lock beyond
\* a step.
TypeOK ==
    /\ namer \in [nil : BOOLEAN, aliases : Maps]
    /\ listing \subseteq Listable
    /\ job \in [at : {"idle", "version", "resources", "lock", "locked", "announce",
                      "external"},
                found : SUBSET Listable, aliases : Maps]
    /\ holder \in {Nobody, "job"} \cup Request
    /\ announced \in [custom : SUBSET Info, external : SUBSET ExternalName]
    /\ request \in [Anyone -> Answered \cup Waiting \cup Calling \cup WaitingExternal]
    /\ \A r \in Request : request[r] \in Answered \cup Waiting \cup Calling
    /\ \A r \in ExternalRequest : request[r] \in Answered \cup WaitingExternal

\* The other server is asked for a metric it lists: one listed under the name
\* that was requested, and of the resource that was requested, unless another
\* name of another resource has the same alias, or the listing has changed
\* since the registry sent the request (GetMetricByName, GetMetricBySelector).
AsksWhatIsListed ==
    \A r \in Request : request[r].at = "call" =>
        LET q     == request[r]
            named == {n \in NamesOf(listing) : AliasOf[n] = q.metric}
        IN  /\ AliasOf[q.target] = q.metric
            /\ Renamed => q.target \in named
            /\ \/ <<q.resource, q.target>> \in listing
               \/ <<q.resource, q.metric>> \notin Infos(listing)
               \/ \E n \in named : n # q.target

\* The calls that are made come back: the listing's, and those of requests.
CallsReturn ==
    /\ []<>(job.at \notin {"version", "resources", "external"})
    /\ \A r \in Request : []<>(request[r].at \notin {"singularize", "call"})

\* The refresh never waits for ever, neither for the lock that requests hold
\* while they call: the registry is refreshed, or the listing fails.
RefreshCompletes == CallsReturn => []<>(job.at = "idle")

\* Every request is answered, although all requests queue for one lock.
RequestsAnswered ==
    CallsReturn => \A r \in Anyone : []<>(request[r].at = "idle")

-----------------------------------------------------------------------------
\* What the client knows is what its namer leads to; without a directive that
\* is any name.  Of the other server it wants a name.
KnownNames ==
    IF namer.nil THEN {} ELSE IF Renamed THEN DOMAIN namer.aliases ELSE Name

Seen(q) ==
    CASE q.at \in {"singularize", "lock"} -> [at |-> "waiting", metric |-> q.metric]
      [] q.at = "call" -> [at |-> "asking", metric |-> q.metric, target |-> q.target]
      [] OTHER -> q

Promise == INSTANCE MetricsClient WITH
    Metric  <- Name,
    Target  <- Name,
    knows   <- [m \in KnownNames |-> FieldOf(m)],
    request <- [r \in Request |-> Seen(request[r])]

\* The client of another metrics server keeps the promise of a metrics client:
\* its namer is never replaced while a call uses what it found, a metric is
\* reported unknown only when it is, and no custom request panics.
PromiseKept == Promise!Spec
=============================================================================
