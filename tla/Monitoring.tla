----------------------------- MODULE Monitoring -----------------------------
(***************************************************************************)
(* The monitoring server (pkg/monitoring): it counts what the jobs report  *)
(* and derives readiness from the counters.  OnError and the two updates   *)
(* hold the write lock, isReadyAndHealthy the read lock.                   *)
(*                                                                         *)
(* Counters are by type and name.  Only comparisons with 0 and with the    *)
(* threshold read them, so that each stops at the bound where it no longer *)
(* matters: 1 for successes, the threshold for failures.                   *)
(***************************************************************************)
EXTENDS MetricServers, Integers

\* readinessProbe's failureThreshold, 0 when omitted.
CONSTANT ConfiguredThreshold

\* A negative one is accepted too: then no adapter with an entry is ever ready.
ASSUME ThresholdAssumption == ConfiguredThreshold \in Nat

VARIABLES
    clientFailures,   \* clientFailures[t][n]: consecutive failures
    clientSuccesses   \* clientSuccesses[t]: successes, for the names present

vars == <<clientFailures, clientSuccesses>>

defaultFailureThreshold == 3
FailureThreshold ==
    IF ConfiguredThreshold = 0 THEN defaultFailureThreshold ELSE ConfiguredThreshold

MaxSuccesses == 1
Increment(n, max) == IF n < max THEN n + 1 ELSE max

\* NewServer: a success counter for each type an entry serves.
NamesOf(type) == {NameOf[c] : c \in {d \in Client : HasType(d, type)}}

\* Faulty variant: a success is expected of both types of every server.
InitBothTypes ==
    /\ clientFailures = [t \in MetricType |-> [n \in Name |-> 0]]
    /\ clientSuccesses = [t \in MetricType |-> [n \in Name |-> 0]]

Init ==
    /\ clientFailures = [t \in MetricType |-> [n \in Name |-> 0]]
    /\ clientSuccesses = [t \in MetricType |-> [n \in NamesOf(t) |-> 0]]

-----------------------------------------------------------------------------
\* Faulty variant: the type of the error is not looked at.
OnErrorOfAnyType(c, type) ==
    /\ clientFailures' = [t \in MetricType |->
          [clientFailures[t] EXCEPT ![NameOf[c]] = Increment(@, FailureThreshold)]]
    /\ UNCHANGED clientSuccesses

OnError(c, type) ==
    /\ clientFailures' =
          [clientFailures EXCEPT ![type][NameOf[c]] = Increment(@, FailureThreshold)]
    /\ UNCHANGED clientSuccesses

\* Faulty variant: the failures before a success still count.
UpdateKeepFailures(c, type) ==
    /\ clientSuccesses' =
          [clientSuccesses EXCEPT ![type][NameOf[c]] = Increment(@, MaxSuccesses)]
    /\ UNCHANGED clientFailures

\* Faulty variant: a success of one type resets the failures of both.
UpdateResetBoth(c, type) ==
    /\ clientFailures' = [t \in MetricType |->
          [clientFailures[t] EXCEPT ![NameOf[c]] = 0]]
    /\ clientSuccesses' =
          [clientSuccesses EXCEPT ![type][NameOf[c]] = Increment(@, MaxSuccesses)]

\* UpdateCustomMetrics and UpdateExternalMetrics, of the clients that serve
\* the type: the jobs call them for no other.
Update(c, type) ==
    /\ clientFailures' = [clientFailures EXCEPT ![type][NameOf[c]] = 0]
    /\ clientSuccesses' =
          [clientSuccesses EXCEPT ![type][NameOf[c]] = Increment(@, MaxSuccesses)]

Next ==
    \E c \in Client : \E type \in MetricType :
        HasType(c, type) /\ (OnError(c, type) \/ Update(c, type))

Spec == Init /\ [][Next]_vars

-----------------------------------------------------------------------------
\* What isReadyAndHealthy asks of one metric server.
Synced(c) ==
    \A t \in MetricType : NameOf[c] \in DOMAIN clientSuccesses[t] =>
                             clientSuccesses[t][NameOf[c]] # 0
Healthy(c) ==
    \A t \in MetricType : clientFailures[t][NameOf[c]] < FailureThreshold

\* Faulty variant: the loop over the servers stops at the first good one.
isReadyAndHealthyOfOne == \E c \in Client : Synced(c) /\ Healthy(c)

isReadyAndHealthy == \A c \in Client : Synced(c) /\ Healthy(c)

\* The counters stay within what readiness can tell apart.
TypeOK ==
    /\ clientFailures \in [MetricType -> [Name -> 0..FailureThreshold]]
    /\ DOMAIN clientSuccesses = MetricType
    /\ \A t \in MetricType : clientSuccesses[t] \in [NamesOf(t) -> 0..MaxSuccesses]
=============================================================================
