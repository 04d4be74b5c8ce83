---------------------------- MODULE ReadyHandler ----------------------------
(***************************************************************************)
(* One call of readyHandler while the jobs report.  The status is computed *)
(* under the read lock; the response holds pointers to the live counters,  *)
(* and json.MarshalIndent reads them, entry by entry, after the lock is    *)
(* released.                                                               *)
(*                                                                         *)
(* That read races with the writes of the jobs.  An entry gives its value  *)
(* before or after a concurrent write; and a write to a map under          *)
(* iteration is one the Go runtime may detect, which ends the process.     *)
(*                                                                         *)
(* The reports are those of ReadinessHistory, which records them.          *)
(***************************************************************************)
EXTENDS ReadinessHistory

VARIABLES
    running,  \* FALSE once the runtime has ended the process
    probe     \* the call of readyHandler

handlerVars == <<historyVars, running, probe>>

Counted == {"failures", "successes"}

\* The maps in the order of the fields of ClientsHealthResponse and Counters.
Maps == << <<"failures", "custom">>, <<"failures", "external">>,
           <<"successes", "custom">>, <<"successes", "external">> >>

Entries(k) ==
    IF Maps[k][1] = "failures" THEN Name ELSE NamesOf(Maps[k][2])

\* at: 0 between two calls, then the map being encoded; unread: its entries
\* still to be read.  Of the body only what a reader would check is kept:
\* whether it shows a server at the threshold, or one never retrieved.
NoProbe == [at |-> 0, unread |-> {}, status |-> 0,
            showsFailing |-> FALSE, showsMissing |-> FALSE]

HandlerInit ==
    /\ HInit
    /\ running = TRUE
    /\ probe = NoProbe

-----------------------------------------------------------------------------
\* A report may write the map the probe is iterating over.
MayBeDetected(written) ==
    IF probe.at \in DOMAIN Maps /\ Maps[probe.at] \in written
    THEN {TRUE, FALSE} ELSE {TRUE}

Report(c, type) ==
    /\ running
    /\ HasType(c, type)
    /\ \/ /\ Fails(c, type)
          /\ running' \in MayBeDetected({<<"failures", type>>})
       \/ /\ Succeeds(c, type)
          /\ running' \in MayBeDetected(Counted \X {type})
    /\ UNCHANGED probe

\* isReadyAndHealthy, under the read lock.
Evaluate ==
    /\ running
    /\ probe.at = 0
    /\ probe' = [NoProbe EXCEPT !.at = 1, !.unread = Entries(1),
                                !.status = IF isReadyAndHealthy THEN 200 ELSE 503]
    /\ UNCHANGED <<historyVars, running>>

\* json.MarshalIndent reads one entry, without the lock.
EncodeEntry(n) ==
    /\ running
    /\ probe.at \in DOMAIN Maps
    /\ n \in probe.unread
    /\ LET counted == Maps[probe.at][1]
           type    == Maps[probe.at][2]
       IN  probe' = [probe EXCEPT
             !.unread = @ \ {n},
             !.showsFailing = @ \/ /\ counted = "failures"
                                   /\ clientFailures[type][n] >= FailureThreshold,
             !.showsMissing = @ \/ /\ counted = "successes"
                                   /\ clientSuccesses[type][n] = 0]
    /\ UNCHANGED <<historyVars, running>>

NextMap ==
    /\ running
    /\ probe.at \in DOMAIN Maps
    /\ probe.unread = {}
    /\ probe' = [probe EXCEPT
          !.at = @ + 1,
          !.unread = IF probe.at < Len(Maps) THEN Entries(probe.at + 1) ELSE {}]
    /\ UNCHANGED <<historyVars, running>>

\* The response is written, and the next probe may come.
Respond ==
    /\ running
    /\ probe.at = Len(Maps) + 1
    /\ probe' = NoProbe
    /\ UNCHANGED <<historyVars, running>>

HandlerNext ==
    \/ \E c \in Client : \E type \in MetricType : Report(c, type)
    \/ Evaluate
    \/ \E n \in Name : EncodeEntry(n)
    \/ NextMap
    \/ Respond

HandlerSpec == HandlerInit /\ [][HandlerNext]_handlerVars

-----------------------------------------------------------------------------
\* Although the body is read later than the status is computed, a response
\* 200 never shows a server whose metrics were not retrieved yet: a success is
\* not taken back (readyHandler, isReadyAndHealthy).
ReadyShowsNoMissing == probe.status = 200 => ~probe.showsMissing

\* What the test of isReadyAndHealthy says of the threshold, of the response:
\* a server at the threshold comes with an error status.
ReadyShowsNoFailing == probe.status = 200 => ~probe.showsFailing
=============================================================================
