--------------------------- MODULE MetricsClient ---------------------------
(***************************************************************************)
(* What a metrics client promises for custom metrics (client.Interface,    *)
(* pkg/client), whichever server it asks.  It knows metrics under the      *)
(* names it lists; a refresh replaces all it knows at once.  A request     *)
(* asks the server for what the client knows under the name requested, and *)
(* is told that a metric is unknown only when it is.  What the client      *)
(* knows is not replaced while the server is being asked.                  *)
(***************************************************************************)
CONSTANTS
    Metric,   \* the names the client may list
    Target,   \* what it may ask of the server
    Request

VARIABLES
    knows,    \* knows[m]: what stands for metric m, for the metrics known
    request   \* request[r]: where the request is, or what it returned

vars == <<knows, request>>

Outcome == {"none", "values", "not found", "error", "unknown"}
Returned(outcome) == [at |-> "idle", outcome |-> outcome]

Init ==
    /\ knows = [m \in {} |-> m]
    /\ request = [r \in Request |-> Returned("none")]

Asking == {r \in Request : request[r].at = "asking"}

Refresh ==
    /\ Asking = {}
    /\ \E S \in SUBSET Metric : knows' \in [S -> Target]
    /\ UNCHANGED request

Goes(r, state) ==
    /\ request' = [request EXCEPT ![r] = state]
    /\ UNCHANGED knows

Waiting(m) == [at |-> "waiting", metric |-> m]

Begin(r, m) == request[r].at = "idle" /\ Goes(r, Waiting(m))

\* A selector that selects nothing needs nobody.
SelectsNothing(r) == request[r].at = "idle" /\ Goes(r, Returned("values"))

Ask(r) ==
    /\ request[r].at = "waiting"
    /\ request[r].metric \in DOMAIN knows
    /\ Goes(r, [at |-> "asking", metric |-> request[r].metric,
                target |-> knows[request[r].metric]])

Unknown(r) ==
    /\ request[r].at = "waiting"
    /\ request[r].metric \notin DOMAIN knows
    /\ Goes(r, Returned("unknown"))

\* A client may fail before it asks.
GiveUp(r) == request[r].at = "waiting" /\ Goes(r, Returned("error"))

Answer(r) ==
    /\ request[r].at = "asking"
    /\ \E outcome \in {"values", "not found", "error"} : Goes(r, Returned(outcome))

\* A client may ask for one object after the other.
NextObject(r) == request[r].at = "asking" /\ Goes(r, Waiting(request[r].metric))

Serve(r) ==
    \/ \E m \in Metric : Begin(r, m)
    \/ SelectsNothing(r) \/ Ask(r) \/ Unknown(r) \/ GiveUp(r)
    \/ Answer(r) \/ NextObject(r)

Next == Refresh \/ \E r \in Request : Serve(r)

Spec == Init /\ [][Next]_vars
=============================================================================
