--------------------------- MODULE Configuration ---------------------------
(***************************************************************************)
(* The configuration file: what From() makes of it, what it refuses        *)
(* (pkg/config), and what the constructors of the clients and their        *)
(* discovery make of what it accepts.                                      *)
(*                                                                         *)
(* An entry is kept as far as the code tells entries apart.  A pattern or  *)
(* a rename is a regular expression that compiles or not; a pattern that   *)
(* does is the set of the fields it matches.                               *)
(***************************************************************************)
EXTENDS Naturals, Sequences

CONSTANTS
    Name,    \* the names of entries
    Field    \* the names of fields of mappings

MetricType == {"custom", "external"}

Pattern == [compiles : BOOLEAN, matches : SUBSET Field]

\* One element of `fields`.  It declares a static field unless search is "none".
Search == {"none", "wellformed", "body malformed", "path malformed"}

Compiled(fields) == [fields EXCEPT !.compiled = fields.patterns]

FieldsSet == Seq([patterns : Seq(Pattern), compiled : {<<>>}, search : Search])

\* One entry of metricServers, as written.  Any other string is "other" or
\* "unknown".  Of a host, whether there is one and whether it can be parsed; of the
\* certificate authority, whether there is none or it can be read.
MetricServer ==
    [name : Name,
     serverType : {"custom", "elasticsearch", "other"},
     metricTypes : SUBSET (MetricType \cup {"unknown"}),
     rename : {"none", "incomplete", "malformed", "wellformed"},
     host : {"none", "malformed", "wellformed"}, caFile : BOOLEAN,
     metricSets : Seq(FieldsSet)]

HasType(s, type) == s.metricTypes = {} \/ type \in s.metricTypes

-----------------------------------------------------------------------------
(* From() *)

UnmarshalYAML(types) == types \subseteq MetricType

defaultFieldSet ==
    [patterns |-> <<[compiles |-> TRUE, matches |-> Field]>>, compiled |-> <<>>,
     search |-> "none"]

WithDefault(set) == IF set = <<>> THEN <<defaultFieldSet>> ELSE set

Compiles(set) ==
    \A j \in DOMAIN set : \A k \in DOMAIN set[j].patterns : set[j].patterns[k].compiles

\* Faulty variant: the switch has no default.
RefusesUnknownNot(s) ==
    \/ s.rename = "incomplete"
    \/ s.serverType = "custom" /\ s.metricSets # <<>>
    \/ /\ s.serverType = "elasticsearch"
       /\ \/ s.metricSets = <<>>
          \/ \E i \in DOMAIN s.metricSets : ~Compiles(s.metricSets[i])

\* validate, for one entry.  clientConfig is always taken as defined.
Refuses(s) ==
    \/ s.rename = "incomplete"
    \/ s.serverType \notin {"custom", "elasticsearch"}
    \/ s.serverType = "custom" /\ s.metricSets # <<>>
    \/ /\ s.serverType = "elasticsearch"
       /\ \/ s.metricSets = <<>>
          \/ \E i \in DOMAIN s.metricSets : ~Compiles(s.metricSets[i])

Accepts(file) ==
    \A i \in DOMAIN file : UnmarshalYAML(file[i].metricTypes) /\ ~Refuses(file[i])

\* Faulty variant: the copy of the loop is numbered, not the entry.
Priority0(i) == 0

PriorityOf(i) == i - 1

\* What is kept of an accepted entry: its sets with their patterns compiled.
MetricSets(s) ==
    IF s.serverType # "elasticsearch" THEN s.metricSets
    ELSE [i \in DOMAIN s.metricSets |->
             LET set == WithDefault(s.metricSets[i])
             IN  [j \in DOMAIN set |-> Compiled(set[j])]]

From(file) ==
    [i \in DOMAIN file |->
        [name |-> file[i].name, serverType |-> file[i].serverType,
         metricTypes |-> file[i].metricTypes, rename |-> file[i].rename,
         host |-> file[i].host, caFile |-> file[i].caFile,
         metricSets |-> MetricSets(file[i]), priority |-> PriorityOf(i)]]

\* The first element with a pattern that matches, 0 if there is none.
FindMetadata(set, f) ==
    LET matching == {j \in DOMAIN set : \E k \in DOMAIN set[j].compiled :
                                           f \in set[j].compiled[k].matches}
    IN  IF matching = {} THEN 0
        ELSE CHOOSE j \in matching : \A m \in matching : j <= m

-----------------------------------------------------------------------------
(* The clients *)

\* NewRestClientConfig refuses an entry without a host.
NewRestClientConfig(s) == s.host # "none"

\* newTLSClientConfig, and for other metrics servers client-go, read the file of
\* the certificate authority; esv8.NewClient, or client-go, parses the host, and
\* the former takes an empty one.
NewClient(s) ==
    /\ s.caFile /\ s.host # "malformed"
    /\ s.serverType = "custom" => NewRestClientConfig(s)

\* The static fields, in the order discoverMetrics finds them.
Statics(s) ==
    {p \in UNION {{i} \X DOMAIN s.metricSets[i] : i \in DOMAIN s.metricSets} :
        s.metricSets[p[1]][p[2]].search # "none"}

Before(p, q) == p[1] < q[1] \/ (p[1] = q[1] /\ p[2] < q[2])

\* Faulty variant: a metric set without a static field is an error.
discoverMetricsStaticOnly(s) ==
    IF s.rename = "malformed" \/ Statics(s) = {} THEN "fails" ELSE "asks"

\* discoverMetrics up to the first mapping: the namer, then each static field,
\* whose body goes to template.Must.  The first that is wrong decides.
discoverMetrics(s) ==
    LET searchOf(p) == s.metricSets[p[1]][p[2]].search
        bad         == {p \in Statics(s) : searchOf(p) # "wellformed"}
        first       == CHOOSE p \in bad : \A q \in bad : p = q \/ Before(p, q)
    IN  IF s.rename = "malformed" THEN "fails"
        ELSE IF bad = {} THEN "asks"
        ELSE IF searchOf(first) = "body malformed" THEN "panics"
        ELSE "fails"

\* Listing custom metrics: a client of another metrics server asks first, and
\* then makes the namer.
ListCustomMetricInfos(s) ==
    IF s.serverType = "elasticsearch" THEN discoverMetrics(s)
    ELSE IF s.rename = "malformed" THEN "fails" ELSE "asks"

\* A client of Elasticsearch asks nobody for external metrics.
ListExternalMetrics(s) == IF s.serverType = "elasticsearch" THEN "none" ELSE "asks"
=============================================================================
