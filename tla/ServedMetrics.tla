--------------------------- MODULE ServedMetrics ---------------------------
(***************************************************************************)
(* What the registry promises to the rest of the adapter, without its maps *)
(* and lists: each client serves the set of metrics it announced last, an  *)
(* announcement concerns nobody else, and a lookup finds the client of     *)
(* highest priority that serves the metric, or none.                       *)
(***************************************************************************)
EXTENDS MetricServers

CONSTANTS CustomMetric, ExternalMetric, Reader

VARIABLES
    servedCustom,    \* servedCustom[c]: the custom metrics client c serves
    servedExternal,
    answer           \* answer[r]: what the last call of reader r returned

vars == <<servedCustom, servedExternal, answer>>

Init ==
    /\ servedCustom = [c \in Client |-> {}]
    /\ servedExternal = [c \in Client |-> {}]
    /\ answer = [r \in Reader |-> [kind |-> "none"]]

AnnounceCustom(c, S) ==
    /\ servedCustom' = [servedCustom EXCEPT ![c] = S]
    /\ UNCHANGED servedExternal

AnnounceExternal(c, S) ==
    /\ servedExternal' = [servedExternal EXCEPT ![c] = S]
    /\ UNCHANGED servedCustom

\* The possible answers to a lookup of metric m: exactly one, as no two
\* clients have the same priority.
Lookup(served, m) ==
    LET serving == {c \in Client : m \in served[c]}
    IN  IF serving = {} THEN {[kind |-> "notFound"]}
        ELSE {[kind |-> "client", client |-> c] :
                c \in {b \in serving :
                         \A d \in serving : Priority[d] <= Priority[b]}}

Listing(served) ==
    [kind |-> "list", list |-> UNION {served[c] : c \in Client}]

Answers(r, A) ==
    /\ \E a \in A : answer' = [answer EXCEPT ![r] = a]
    /\ UNCHANGED <<servedCustom, servedExternal>>

LookupCustom(r, m)   == Answers(r, Lookup(servedCustom, m))
LookupExternal(r, m) == Answers(r, Lookup(servedExternal, m))
ListCustom(r)        == Answers(r, {Listing(servedCustom)})
ListExternal(r)      == Answers(r, {Listing(servedExternal)})

Announce ==
    /\ \E c \in Client :
          \/ \E S \in SUBSET CustomMetric : AnnounceCustom(c, S)
          \/ \E S \in SUBSET ExternalMetric : AnnounceExternal(c, S)
    /\ UNCHANGED answer

Ask ==
    \E r \in Reader :
        \/ \E m \in CustomMetric : LookupCustom(r, m)
        \/ \E m \in ExternalMetric : LookupExternal(r, m)
        \/ ListCustom(r)
        \/ ListExternal(r)

Next == Announce \/ Ask

Spec == Init /\ [][Next]_vars
=============================================================================
