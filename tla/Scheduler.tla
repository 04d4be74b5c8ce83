----------------------------- MODULE Scheduler -----------------------------
(***************************************************************************)
(* The scheduler (pkg/scheduler) and the part of main() that starts it.    *)
(* One goroutine, the job, refreshes each client: at once, then at every   *)
(* tick.  main() starts the jobs and serves the API when each of them has  *)
(* completed one refresh.                                                  *)
(*                                                                         *)
(* A job is a process whose steps are the calls it makes: listing the      *)
(* metrics of a type, then telling the listeners, or the error listener.   *)
(* What the listeners do is in the modules Registry and Monitoring; a      *)
(* listing succeeds or fails here as the environment pleases.              *)
(***************************************************************************)
EXTENDS MetricServers, Integers, FiniteSets

ASSUME ClientAssumption == IsFiniteSet(Client)

VARIABLES
    main,      \* what main() does: "starting", "waiting", "serving"
    job,       \* job[c]: the call the job of c makes next, and for which type
    wg,        \* the counter of the WaitGroup
    syncDone   \* syncDone[c]: the Once of the job has run

vars == <<main, job, wg, syncDone>>

At(step, type) == [at |-> step, type |-> type]

New  == At("new", "none")    \* no goroutine yet
Idle == At("idle", "none")   \* waiting for the ticker
Sync == At("sync", "none")   \* before syncDone.Do

Steps ==
    {New, Idle, Sync}
        \cup {At(step, type) : step \in {"list", "monitor", "register", "fail"},
                               type \in MetricType}

\* Faulty variant: the clients are added to the WaitGroup a second time.
InitAddTwice ==
    /\ main = "starting"
    /\ job = [c \in Client |-> New]
    /\ wg = 2 * Cardinality(Client)
    /\ syncDone = [c \in Client |-> FALSE]

Init ==
    /\ main = "starting"
    /\ job = [c \in Client |-> New]
    /\ wg = Cardinality(Client)
    /\ syncDone = [c \in Client |-> FALSE]

-----------------------------------------------------------------------------
(* main() *)

AfterCustom(c) == IF HasType(c, "external") THEN At("list", "external") ELSE Sync
FirstCall(c) == IF HasType(c, "custom") THEN At("list", "custom") ELSE AfterCustom(c)

\* start(): the goroutine begins with a refresh.
Start(c) ==
    /\ main = "starting"
    /\ job[c] = New
    /\ job' = [job EXCEPT ![c] = FirstCall(c)]
    /\ UNCHANGED <<main, wg, syncDone>>

AllStarted ==
    /\ main = "starting"
    /\ \A c \in Client : job[c] # New
    /\ main' = "waiting"
    /\ UNCHANGED <<job, wg, syncDone>>

\* Faulty variant: the API runs without waiting for the first refreshes.
DoNotWaitInitialSync ==
    /\ main = "waiting"
    /\ main' = "serving"
    /\ UNCHANGED <<job, wg, syncDone>>

\* The API handlers are installed and run once Wait() returns.
WaitInitialSync ==
    /\ main = "waiting"
    /\ wg = 0
    /\ main' = "serving"
    /\ UNCHANGED <<job, wg, syncDone>>

-----------------------------------------------------------------------------
(* The job of client c *)

Goes(c, step) ==
    /\ job' = [job EXCEPT ![c] = step]
    /\ UNCHANGED <<main, wg, syncDone>>

\* Faulty variant: one goroutine refreshes all the clients, one at a time.
TickOneAtATime(c) ==
    /\ job[c] = Idle
    /\ \A d \in Client : job[d] \in {New, Idle}
    /\ Goes(c, FirstCall(c))

Tick(c) == job[c] = Idle /\ Goes(c, FirstCall(c))

ListSucceeds(c, type) ==
    job[c] = At("list", type) /\ Goes(c, At("monitor", type))

ListFails(c, type) ==
    job[c] = At("list", type) /\ Goes(c, At("fail", type))

\* Faulty variant: the first error ends the goroutine, not the refresh.
PublishErrorAndStop(c, type) ==
    job[c] = At("fail", type) /\ Goes(c, At("stopped", type))

\* publishError, then the return that ends the refresh.
PublishError(c, type) ==
    job[c] = At("fail", type) /\ Goes(c, Idle)

\* The listeners, in the order main() gives them.
NotifyMonitoring(c, type) ==
    job[c] = At("monitor", type) /\ Goes(c, At("register", type))

NotifyRegistry(c, type) ==
    /\ job[c] = At("register", type)
    /\ Goes(c, IF type = "custom" THEN AfterCustom(c) ELSE Sync)

\* Faulty variant: no Once around wg.Done().
CompleteRefreshEachTime(c) ==
    /\ job[c] = Sync
    /\ job' = [job EXCEPT ![c] = Idle]
    /\ syncDone' = [syncDone EXCEPT ![c] = TRUE]
    /\ wg' = wg - 1
    /\ UNCHANGED main

CompleteRefresh(c) ==
    /\ job[c] = Sync
    /\ job' = [job EXCEPT ![c] = Idle]
    /\ syncDone' = [syncDone EXCEPT ![c] = TRUE]
    /\ wg' = IF syncDone[c] THEN wg ELSE wg - 1
    /\ UNCHANGED main

\* Listing asks a backend: a call may hang, for ever when the entry has no
\* timeout (a client of Elasticsearch never has one).
List(c) == \E type \in MetricType : ListSucceeds(c, type) \/ ListFails(c, type)

\* The other steps need nobody else.
Proceed(c) ==
    \/ Tick(c)
    \/ \E type \in MetricType :
          \/ PublishError(c, type)
          \/ NotifyMonitoring(c, type)
          \/ NotifyRegistry(c, type)
    \/ CompleteRefresh(c)

Main == (\E c \in Client : Start(c)) \/ AllStarted \/ WaitInitialSync

Next == Main \/ \E c \in Client : List(c) \/ Proceed(c)

Spec == Init /\ [][Next]_vars

\* The Go runtime runs every goroutine that can run and tickers tick.  Nothing
\* is asked of the calls to the backends.
Fairness ==
    /\ WF_vars(Main)
    /\ \A c \in Client : WF_vars(Proceed(c))

FairSpec == Spec /\ Fairness

-----------------------------------------------------------------------------
Unsynced == {c \in Client : ~syncDone[c]}

TypeOK ==
    /\ main \in {"starting", "waiting", "serving"}
    /\ job \in [Client -> Steps]
    /\ wg \in Int
    /\ syncDone \in [Client -> BOOLEAN]

\* The WaitGroup counts the jobs that have not completed a refresh: it is
\* never negative, which would panic, and is zero only when all of them have.
WaitGroupExact == wg = Cardinality(Unsynced)

\* The API is not served before every client has announced its metrics once.
ServingAfterSync == main = "serving" => Unsynced = {}

\* No call to the backend of c hangs for ever.
Returns(c) == []<>(job[c].at # "list")

\* A job refreshes its client again and again as long as its own calls return:
\* an error ends a refresh, never the job, and neither the errors nor the
\* hanging calls of the other clients hold it up.
KeepsRefreshing ==
    \A c \in Client :
        Returns(c) => []<>(job[c].at = "list") /\ []<>(job[c] = Idle)

\* The adapter ends up serving its API, unless a client fails again and again
\* and completes no refresh at all, or hangs.
Blocking(c) == []<>(job[c].at = "fail") /\ [](~syncDone[c])
EventuallyServing ==
    \/ \E c \in Client : Blocking(c) \/ ~Returns(c)
    \/ <>(main = "serving")
=============================================================================
