----------------------------- MODULE MCStartup -----------------------------
(***************************************************************************)
(* Files of one entry, of every kind; files of two entries, of a few.      *)
(***************************************************************************)
EXTENDS MappingDocument

CONSTANTS n1, n2

\* Fields called "a" and "type", also inside an object: numeric ones, others,
\* and objects without fields.
Leaf(type) == [type |-> type, fields |-> [n \in {} |-> {}]]
ObjectOf(fields) == [type |-> "nested", fields |-> fields]

MCNames == {"a", "type"}
MCInner == UNION {[S -> {Leaf("long")}] : S \in SUBSET MCNames \ {{}}}
MCDeep == ObjectOf([n \in {"type"} |-> ObjectOf([m \in {"a"} |-> Leaf("long")])])
MCFields == {Leaf(t) : t \in {"long", "keyword", "object"}}
                \cup {ObjectOf(inner) : inner \in MCInner} \cup {MCDeep}
MCTree == UNION {[S -> MCFields] : S \in SUBSET MCNames}

f1 == <<"a">>
f2 == <<"a", "type">>
MCField == {<<n>> : n \in MCNames} \cup {<<n, m>> : n, m \in MCNames}
                \cup {<<n, "type", "a">> : n \in MCNames}

Matching(fields) == [compiles |-> TRUE, matches |-> fields]
Malformed == [compiles |-> FALSE, matches |-> {}]
Fields(patterns, search) ==
    [patterns |-> patterns, compiled |-> <<>>, search |-> search]

MCSets ==
    {<<>>, <<Fields(<<Malformed>>, "none")>>,
     <<Fields(<<Matching({f1})>>, "none"), Fields(<<Matching({f1, f2})>>, "none")>>}
    \cup {<<Fields(<<Matching({f2})>>, "none"), Fields(<<>>, search)>> :
             search \in Search \ {"none"}}

Entry(n, type, types, rename, host, ca, sets) ==
    [name |-> n, serverType |-> type, metricTypes |-> types, rename |-> rename,
     host |-> host, caFile |-> ca, metricSets |-> sets]

MCEntries ==
    {Entry(n1, type, types, rename, host, ca, sets) :
        type \in {"custom", "elasticsearch", "other"},
        types \in {{}, {"custom"}, {"external"}, {"custom", "unknown"}},
        rename \in {"none", "incomplete", "malformed", "wellformed"},
        host \in {"none", "malformed", "wellformed"}, ca \in BOOLEAN,
        sets \in {<<>>} \cup {<<set>> : set \in MCSets}}

\* A body after a path, and the other way round.
MCOrders ==
    {<<Fields(<<>>, s), Fields(<<>>, t)>> :
        s, t \in {"wellformed", "body malformed", "path malformed"}}

MCFew ==
    {Entry(n, "custom", types, "none", host, TRUE, <<>>) :
        n \in {n1, n2}, types \in {{}, {"external"}},
        host \in {"none", "wellformed"}}
    \cup {Entry(n2, "elasticsearch", types, "none", "wellformed", TRUE, <<sets, <<>>>>) :
             types \in {{}, {"custom"}}, sets \in MCOrders}
    \cup {Entry(n2, "other", {}, "none", "wellformed", TRUE, <<>>)}

MCFile == {<<>>} \cup {<<s>> : s \in MCEntries} \cup {<<s, t>> : s, t \in MCFew}
=============================================================================
