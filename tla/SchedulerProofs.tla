-------------------------- MODULE SchedulerProofs --------------------------
(***************************************************************************)
(* Proofs about the scheduler, for every finite set of clients and every   *)
(* choice of metric types.                                                 *)
(***************************************************************************)
EXTENDS Scheduler, FiniteSetTheorems, TLAPS

\* The inductive invariant.  WaitInitialSync sees only the counter: that it is
\* exact is what makes zero mean that every job has completed a refresh.
IInv == TypeOK /\ WaitGroupExact /\ ServingAfterSync

\* Where a refresh begins, and where it goes after the custom metrics.
LEMMA CallTypes ==
    \A c \in Client : AfterCustom(c) \in Steps /\ FirstCall(c) \in Steps
  BY DEF AfterCustom, FirstCall, Steps, Sync, At, MetricType

\* Steps of a job other than the last of a refresh: none touches the counter.
LEMMA GoesInv ==
    ASSUME IInv, NEW c \in Client, NEW step \in Steps, Goes(c, step)
    PROVE  IInv'
<1>1. TypeOK'
  BY DEF IInv, TypeOK, Goes
<1>2. Unsynced' = Unsynced
  BY DEF Goes, Unsynced
<1>3. WaitGroupExact' /\ ServingAfterSync'
  BY <1>2 DEF IInv, WaitGroupExact, ServingAfterSync, Goes
<1> QED
  BY <1>1, <1>3 DEF IInv

LEMMA InitInv == Init => IInv
<1> SUFFICES ASSUME Init PROVE IInv
  OBVIOUS
<1>1. Unsynced = Client
  BY DEF Init, Unsynced
<1>2. TypeOK
  <2>1. Cardinality(Client) \in Nat
    BY ClientAssumption, FS_CardinalityType
  <2> QED
    BY <2>1 DEF Init, TypeOK, Steps
<1> QED
  BY <1>1, <1>2 DEF Init, IInv, WaitGroupExact, ServingAfterSync

\* The end of a refresh: the first one of a client takes it out of Unsynced.
LEMMA CompleteInv ==
    ASSUME IInv, NEW c \in Client, CompleteRefresh(c)
    PROVE  IInv'
<1>1. /\ syncDone' = [syncDone EXCEPT ![c] = TRUE] /\ main' = main
      /\ syncDone \in [Client -> BOOLEAN] /\ wg \in Int
  BY DEF CompleteRefresh, IInv, TypeOK
<1>2. Unsynced' = Unsynced \ {c}
  BY <1>1 DEF Unsynced
<1>3. IsFiniteSet(Unsynced) /\ Cardinality(Unsynced) \in Nat
  <2>1. Unsynced \subseteq Client
    BY DEF Unsynced
  <2> QED
    BY <2>1, ClientAssumption, FS_Subset, FS_CardinalityType
<1>4. wg' = Cardinality(Unsynced')
  <2>1. CASE syncDone[c]
    <3>1. c \notin Unsynced
      BY <2>1 DEF Unsynced
    <3> QED
      BY <1>2, <2>1, <3>1 DEF CompleteRefresh, IInv, WaitGroupExact
  <2>2. CASE ~syncDone[c]
    <3>1. c \in Unsynced
      BY <2>2 DEF Unsynced
    <3>2. Cardinality(Unsynced \ {c}) = Cardinality(Unsynced) - 1
      BY <1>3, <3>1, FS_RemoveElement
    <3> QED
      BY <1>2, <2>2, <3>2 DEF CompleteRefresh, IInv, WaitGroupExact
  <2> QED
    BY <2>1, <2>2
<1>5. TypeOK'
  BY <1>1 DEF CompleteRefresh, IInv, TypeOK, Steps
<1>6. ServingAfterSync'
  BY <1>1, <1>2 DEF IInv, ServingAfterSync
<1> QED
  BY <1>4, <1>5, <1>6 DEF IInv, WaitGroupExact

LEMMA MainInv ==
    ASSUME IInv, Main
    PROVE  IInv'
<1>1. ASSUME NEW c \in Client, Start(c)
      PROVE  IInv'
  <2>1. Goes(c, FirstCall(c))
    BY <1>1 DEF Start, Goes
  <2> QED
    BY <2>1, CallTypes, GoesInv
<1>2. CASE AllStarted
  BY <1>2 DEF AllStarted, IInv, TypeOK, WaitGroupExact, ServingAfterSync, Unsynced
<1>3. CASE WaitInitialSync
  <2>1. Unsynced = {}
    <3>1. IsFiniteSet(Unsynced)
      BY ClientAssumption, FS_Subset DEF Unsynced
    <3> QED
      BY <1>3, <3>1, FS_EmptySet DEF WaitInitialSync, IInv, WaitGroupExact
  <2>2. Unsynced' = Unsynced
    BY <1>3 DEF WaitInitialSync, Unsynced
  <2> QED
    BY <1>3, <2>1, <2>2
       DEF WaitInitialSync, IInv, TypeOK, WaitGroupExact, ServingAfterSync
<1> QED
  BY <1>1, <1>2, <1>3 DEF Main

LEMMA ListInv ==
    ASSUME IInv, NEW c \in Client, List(c)
    PROVE  IInv'
<1>1. PICK type \in MetricType : ListSucceeds(c, type) \/ ListFails(c, type)
  BY DEF List
<1>2. At("monitor", type) \in Steps /\ At("fail", type) \in Steps
  BY DEF Steps
<1> QED
  BY <1>1, <1>2, GoesInv DEF ListSucceeds, ListFails

LEMMA ProceedInv ==
    ASSUME IInv, NEW c \in Client, Proceed(c)
    PROVE  IInv'
<1>1. CASE Tick(c)
  BY <1>1, CallTypes, GoesInv DEF Tick
<1>2. ASSUME NEW type \in MetricType, PublishError(c, type)
      PROVE  IInv'
  <2>1. Idle \in Steps
    BY DEF Steps
  <2> QED
    BY <1>2, <2>1, GoesInv DEF PublishError
<1>3. ASSUME NEW type \in MetricType, NotifyMonitoring(c, type)
      PROVE  IInv'
  <2>1. At("register", type) \in Steps
    BY DEF Steps
  <2> QED
    BY <1>3, <2>1, GoesInv DEF NotifyMonitoring
<1>4. ASSUME NEW type \in MetricType, NotifyRegistry(c, type)
      PROVE  IInv'
  <2>1. Sync \in Steps /\ AfterCustom(c) \in Steps
    BY CallTypes DEF Steps
  <2>2. (IF type = "custom" THEN AfterCustom(c) ELSE Sync) \in Steps
    BY <2>1
  <2> QED
    BY <1>4, <2>2, GoesInv DEF NotifyRegistry
<1>5. CASE CompleteRefresh(c)
  BY <1>5, CompleteInv
<1> QED
  BY <1>1, <1>2, <1>3, <1>4, <1>5 DEF Proceed

LEMMA NextInv == IInv /\ [Next]_vars => IInv'
<1> SUFFICES ASSUME IInv, [Next]_vars PROVE IInv'
  OBVIOUS
<1>1. CASE UNCHANGED vars
  BY <1>1 DEF vars, IInv, TypeOK, WaitGroupExact, ServingAfterSync, Unsynced
<1> QED
  BY <1>1, MainInv, ListInv, ProceedInv DEF Next

\* The scheduler's state always has its type.
THEOREM TypeCorrect == Spec => []TypeOK
<1>1. IInv => TypeOK
  BY DEF IInv
<1> QED
  BY <1>1, InitInv, NextInv, PTL DEF Spec

\* The WaitGroup counts the jobs without a complete refresh: wg.Done() is
\* called once for each, and the counter never goes below zero.
THEOREM WaitGroupCounts == Spec => []WaitGroupExact
<1>1. IInv => WaitGroupExact
  BY DEF IInv
<1> QED
  BY <1>1, InitInv, NextInv, PTL DEF Spec

\* The API is served only after a complete refresh of every client.
THEOREM ServesAfterSync == Spec => []ServingAfterSync
<1>1. IInv => ServingAfterSync
  BY DEF IInv
<1> QED
  BY <1>1, InitInv, NextInv, PTL DEF Spec

-----------------------------------------------------------------------------
(* The half of KeepsRefreshing and EventuallyServing that needs no fairness. *)

\* The calls the job of c can make: each of them is followed by another.
CallsOf(c) ==
    {New, Idle, Sync}
        \cup {At(step, type) : step \in {"list", "monitor", "register", "fail"},
                               type \in {t \in MetricType : HasType(c, t)}}

JobFits(c) ==
    /\ job[c] \in CallsOf(c)
    /\ job[c] = New => main = "starting" /\ ~syncDone[c]

JobsFit == \A c \in Client : JobFits(c)

\* From the moment main() waits there is a job for each client, which never
\* stops and lists the types of its entry only; and main() waits for a client
\* that has not been through a refresh, or goes on.
JobsGoOn ==
    /\ JobsFit
    /\ wg = 0 <=> Unsynced = {}

LEMMA CallsOfEntry ==
    \A c \in Client : {FirstCall(c), AfterCustom(c)} \subseteq CallsOf(c) \ {New}
  BY DEF FirstCall, AfterCustom, CallsOf, New, Sync, Idle, At, MetricType

\* A step of the job of c to another call.
LEMMA JobMoves ==
    ASSUME TypeOK, JobsFit, NEW c \in Client,
           NEW step \in CallsOf(c) \ {New}, job' = [job EXCEPT ![c] = step],
           main' = main, \A d \in Client \ {c} : syncDone'[d] = syncDone[d]
    PROVE  JobsFit'
<1>1. \A d \in Client : job'[d] = IF d = c THEN step ELSE job[d]
  BY DEF TypeOK
<1>2. \A d \in Client : CallsOf(d)' = CallsOf(d)
  BY DEF CallsOf
<1> QED
  BY <1>1, <1>2 DEF JobsFit, JobFits

LEMMA JobsStayFit ==
    ASSUME TypeOK, JobsFit, [Next]_vars
    PROVE  JobsFit'
<1>1. CASE UNCHANGED vars
  BY <1>1 DEF vars, JobsFit, JobFits, CallsOf
<1>2. CASE AllStarted \/ WaitInitialSync
  BY <1>2 DEF AllStarted, WaitInitialSync, JobsFit, JobFits, CallsOf
<1>3. ASSUME NEW c \in Client, Start(c)
      PROVE  JobsFit'
  BY <1>3, CallsOfEntry, JobMoves DEF Start
<1>4. ASSUME NEW c \in Client, NEW step \in CallsOf(c) \ {New}, Goes(c, step)
      PROVE  JobsFit'
  BY <1>4, JobMoves DEF Goes
<1>5. ASSUME NEW c \in Client, NEW t \in MetricType, NEW s, job[c] = At(s, t),
             s \in {"list", "monitor", "register", "fail"}
      PROVE  \A step \in {At("monitor", t), At("register", t), At("fail", t), Idle, Sync} :
                step \in CallsOf(c) \ {New}
  <2>1. HasType(c, t)
    BY <1>5 DEF JobsFit, JobFits, CallsOf, At, New, Idle, Sync, MetricType
  <2> QED
    BY <2>1 DEF CallsOf, At, New, Idle, Sync
<1>6. ASSUME NEW c \in Client, List(c)
      PROVE  JobsFit'
  BY <1>4, <1>5, <1>6 DEF List, ListSucceeds, ListFails
<1>7. ASSUME NEW c \in Client, Proceed(c)
      PROVE  JobsFit'
  <2>1. CASE Tick(c)
    BY <1>4, <2>1, CallsOfEntry DEF Tick
  <2>2. ASSUME NEW t \in MetricType,
               PublishError(c, t) \/ NotifyMonitoring(c, t) \/ NotifyRegistry(c, t)
        PROVE  JobsFit'
    <3>1. CASE PublishError(c, t)
      BY <1>4, <1>5, <3>1 DEF PublishError
    <3>2. CASE NotifyMonitoring(c, t)
      BY <1>4, <1>5, <3>2 DEF NotifyMonitoring
    <3>3. CASE NotifyRegistry(c, t)
      BY <1>4, <1>5, <3>3, CallsOfEntry DEF NotifyRegistry
    <3> QED
      BY <2>2, <3>1, <3>2, <3>3
  <2>3. CASE CompleteRefresh(c)
    <3>1. Idle \in CallsOf(c) \ {New}
      BY DEF CallsOf, Idle, New, At
    <3> QED
      BY <2>3, <3>1, JobMoves DEF CompleteRefresh, TypeOK
  <2> QED
    BY <1>7, <2>1, <2>2, <2>3 DEF Proceed
<1> QED
  BY <1>1, <1>2, <1>3, <1>6, <1>7 DEF Next, Main

\* Whatever fails, each job has a next call, and nothing but a client without a
\* complete refresh keeps main() waiting.
THEOREM NobodyIsStuck == Spec => []JobsGoOn
<1>1. Init => JobsFit
  <2> SUFFICES ASSUME Init, NEW c \in Client PROVE JobFits(c)
    BY DEF JobsFit
  <2>1. job[c] = New /\ syncDone[c] = FALSE /\ main = "starting"
    BY DEF Init
  <2> QED
    BY <2>1 DEF JobFits, CallsOf
<1>2. IInv /\ JobsFit /\ [Next]_vars => JobsFit'
  BY JobsStayFit DEF IInv
<1>3. IInv => (wg = 0 <=> Unsynced = {})
  <2>1. IsFiniteSet(Unsynced)
    BY ClientAssumption, FS_Subset DEF Unsynced
  <2> QED
    BY <2>1, FS_EmptySet DEF IInv, WaitGroupExact
<1>4. IInv /\ JobsFit => JobsGoOn
  BY <1>3 DEF JobsGoOn
<1> QED
  BY <1>1, <1>2, <1>4, InitInv, NextInv, PTL DEF Spec
=============================================================================
