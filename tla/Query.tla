------------------------------- MODULE Query -------------------------------
(***************************************************************************)
(* What getMetricForPod makes of one search (pkg/client/elasticsearch).    *)
(* An answer of Elasticsearch is kept as far as the code tells answers     *)
(* apart; the value itself is left out.                                    *)
(***************************************************************************)
EXTENDS Naturals, Sequences

\* A part of a JSON document: not there, of another type, or as expected.
Part == {"missing", "mistyped", "ok"}

\* hits, hits.hits, the first document of that list (missing when it is
\* empty), and in it the metric and @timestamp.
Document ==
    [hits : Part, list : Part, first : Part, metric : Part, timestamp : Part]

\* The results of the jq queries metricPath and timestampPath, in any number;
\* an error or a value of the wrong type is mistyped.
Results == [metric : SUBSET {"mistyped", "ok"}, timestamp : SUBSET {"mistyped", "ok"}]

\* getMetricDocument: the first part that is not as expected decides.
getMetricDocument(d) ==
    LET parts == <<d.hits, d.list, d.first>>
        bad   == {i \in DOMAIN parts : parts[i] # "ok"}
    IN  IF bad = {} THEN "found"
        ELSE IF parts[CHOOSE i \in bad : \A j \in bad : i <= j] = "missing"
             THEN "not found"
             ELSE "error"

\* The mapped field of the document.  Unlike a document, a field that is
\* missing is an error: `_source` may spell its name with dots, which getValue
\* takes for nested objects.
FromDocument(d) ==
    IF getMetricDocument(d) # "found" THEN getMetricDocument(d)
    ELSE IF d.metric = "ok" /\ d.timestamp = "ok" THEN "found"
    ELSE "error"

\* The results of the configured search.  No result at all is a value, 0.
FromResults(r) ==
    IF "mistyped" \in r.metric \cup r.timestamp THEN "error" ELSE "found"

\* Before there is a JSON answer: the template of the body fails, the search
\* fails, Elasticsearch answers with an error, or with something else.
NoAnswer == "error"

\* What getMetricForPod may return for a mapped field, for a static one.
FieldOutcomes  == {NoAnswer} \cup {FromDocument(d) : d \in Document}
SearchOutcomes == {NoAnswer} \cup {FromResults(r) : r \in Results}

getMetricForPod(search) == IF search THEN SearchOutcomes ELSE FieldOutcomes
=============================================================================
