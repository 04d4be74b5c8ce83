-------------------------- MODULE ReadinessHistory --------------------------
(***************************************************************************)
(* What /readyz means, without counters.  The outcomes the jobs reported   *)
(* are recorded next to the monitoring server's own state; readiness is a  *)
(* function of the record: every type of every client has been retrieved   *)
(* once, and none has failed in each of its last FailureThreshold calls.   *)
(***************************************************************************)
EXTENDS Monitoring, Sequences, FiniteSets

VARIABLES
    retrieved,  \* retrieved[c]: the types that were retrieved once
    recent      \* recent[c][t]: the outcomes of the last calls, oldest first

historyVars == <<vars, retrieved, recent>>

HInit ==
    /\ Init
    /\ retrieved = [c \in Client |-> {}]
    /\ recent = [c \in Client |-> [t \in MetricType |-> <<>>]]

\* The outcomes kept: as many as the threshold asks for.
Keep(s) == IF Len(s) > FailureThreshold THEN Tail(s) ELSE s

Record(c, t, outcome) ==
    recent' = [recent EXCEPT ![c][t] = Keep(Append(@, outcome))]

Fails(c, t) ==
    /\ OnError(c, t)
    /\ Record(c, t, "error")
    /\ UNCHANGED retrieved

Succeeds(c, t) ==
    /\ Update(c, t)
    /\ Record(c, t, "ok")
    /\ retrieved' = [retrieved EXCEPT ![c] = @ \cup {t}]

-----------------------------------------------------------------------------
Retrieved(c) == \A t \in MetricType : HasType(c, t) => t \in retrieved[c]

KeepsFailing(c, t) ==
    /\ Len(recent[c][t]) = FailureThreshold
    /\ \A i \in DOMAIN recent[c][t] : recent[c][t][i] = "error"

\* /readyz answers 200 exactly when every client has given all its types and
\* none of them keeps failing (isReadyAndHealthy, with distinct names).
ReadyMatchesHistory ==
    isReadyAndHealthy <=>
        \A c \in Client :
            Retrieved(c) /\ \A t \in MetricType : ~KeepsFailing(c, t)
=============================================================================
