-------------------------- MODULE MappingDocument --------------------------
(***************************************************************************)
(* What a discovery records of a mapping (discovery.go): the walk through  *)
(* the JSON document, next to what Elasticsearch says with it.             *)
(*                                                                         *)
(* A name is the sequence of its parts.  A document is an object or a      *)
(* text; nothing else of a mapping is looked at.                           *)
(***************************************************************************)
EXTENDS Startup

CONSTANT Tree    \* the fields that indices may have

Text(s) == [object |-> FALSE, text |-> s, at |-> [k \in {} |-> {}]]
Object(at) == [object |-> TRUE, text |-> "", at |-> at]

Has(d, k) == k \in DOMAIN d.at

isTypeAllowed(t) ==
    t \in {"byte", "double", "float", "half_float", "integer", "long",
           "scaled_float", "short", "unsigned_long"}

RECURSIVE Walk(_, _), WalkFromTheTop(_, _)

\* Faulty variant: the name of an object does not begin with those around it.
WalkFromTheTop(root, d) ==
    LET fieldsAt(k) ==
            IF k = "properties" THEN WalkFromTheTop(root, d.at[k])
            ELSE IF Has(d.at[k], "properties") THEN WalkFromTheTop(<<k>>, d.at[k])
            ELSE IF Has(d.at[k], "type") /\ isTypeAllowed(d.at[k].at["type"].text)
                 THEN {Append(root, k)}
            ELSE {}
    IN  UNION {fieldsAt(k) : k \in {k \in DOMAIN d.at \ {"*"} : d.at[k].object}}

\* _processMappingDocument: below root, "properties" adds nothing to a name, an
\* object with "properties" is walked through, another is a field by its type.
Walk(root, d) ==
    LET fieldsAt(k) ==
            IF k = "properties" THEN Walk(root, d.at[k])
            ELSE IF Has(d.at[k], "properties") THEN Walk(Append(root, k), d.at[k])
            ELSE IF Has(d.at[k], "type") /\ isTypeAllowed(d.at[k].at["type"].text)
                 THEN {Append(root, k)}
            ELSE {}
    IN  UNION {fieldsAt(k) : k \in {k \in DOMAIN d.at \ {"*"} : d.at[k].object}}

\* The fields recorded for a metric set: those that a pattern selects.
processMappingDocument(mapping, set) ==
    IF Has(mapping, "properties") /\ mapping.at["properties"].object
    THEN {f \in Walk(<<>>, mapping.at["properties"]) : FindMetadata(set, f) # 0}
    ELSE {}

\* One mapping for each index of the set.
getMappingFor(mappings, set) ==
    UNION {processMappingDocument(m, set) : m \in mappings}

-----------------------------------------------------------------------------
(* How Elasticsearch writes a mapping.  A tree gives each field a type and  *)
(* the fields inside it, if it is an object that has some; a field of       *)
(* another type may have multi-fields, which are no fields of the document. *)

Inside(field) == DOMAIN field.fields # {}

RECURSIVE Properties(_)
Properties(tree) ==
    LET multi == Object([m \in {"sub"} |-> Object([k \in {"type"} |-> Text("long")])])
        written(field) ==
            IF Inside(field)
            THEN [k \in {"type", "properties"} |->
                     IF k = "type" THEN Text(field.type) ELSE Properties(field.fields)]
            ELSE [k \in {"type", "fields"} |->
                     IF k = "type" THEN Text(field.type) ELSE multi]
    IN  Object([n \in DOMAIN tree |-> Object(written(tree[n]))])

\* An index without fields has a mapping without "properties".
Mapping(tree) ==
    IF DOMAIN tree = {} THEN Object([k \in {} |-> {}])
    ELSE Object([k \in {"properties"} |-> Properties(tree)])

RECURSIVE NumericFields(_)
NumericFields(tree) ==
    UNION {IF Inside(tree[n]) THEN {<<n>> \o f : f \in NumericFields(tree[n].fields)}
           ELSE IF isTypeAllowed(tree[n].type) THEN {<<n>>} ELSE {}
              : n \in DOMAIN tree}

-----------------------------------------------------------------------------
Mappings == [tree \in Tree |-> Mapping(tree)]
Numeric == [tree \in Tree |-> NumericFields(tree)]

\* The metrics of a metric set are the numeric fields of its indices, at any
\* depth, that one of the patterns of the set matches, all of them if it has
\* no patterns of its own (validate compiles the patterns in place, and
\* _processMappingDocument matches what was compiled with the names it puts
\* together).
RecordsWhatIsConfigured ==
    main = "clients" =>
        \A i \in DOMAIN config : config[i].serverType = "elasticsearch" =>
            \A s \in DOMAIN config[i].metricSets : \A tree \in Tree :
                LET written == file[i].metricSets[s]
                IN  processMappingDocument(Mappings[tree], config[i].metricSets[s]) =
                        {f \in Numeric[tree] :
                            \/ written = <<>>
                            \/ \E j \in DOMAIN written :
                               \E k \in DOMAIN written[j].patterns :
                                  f \in written[j].patterns[k].matches}
=============================================================================
