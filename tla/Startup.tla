------------------------------ MODULE Startup ------------------------------
(***************************************************************************)
(* main(): from the configuration file to an API that is served, or to the *)
(* end of the process.  The refreshes are those of Scheduler, each of them *)
(* one step here, for any number of entries.                               *)
(***************************************************************************)
EXTENDS Configuration

CONSTANT File    \* the configuration files

ASSUME FileAssumption == File \subseteq Seq(MetricServer)

VARIABLES
    file,       \* the configuration file
    main,       \* where main() is
    config,     \* what From() returned
    monitored,  \* the names and types the monitoring server waits for
    clients,    \* the entries a client was built for, by position
    up,         \* the entries whose backend answers
    retrieved,  \* the types retrieved once, by position
    synced      \* the entries whose first refresh is complete

vars == <<file, main, config, monitored, clients, up, retrieved, synced>>

Init ==
    /\ file \in File
    /\ main = "parse"
    /\ config = <<>> /\ monitored = {} /\ clients = <<>>
    /\ up \in SUBSET DOMAIN file
    /\ retrieved = {} /\ synced = {}

-----------------------------------------------------------------------------
\* The monitoring server is made of the whole configuration, before the clients.
NewServer(servers) ==
    UNION {{servers[i].name} \X {t \in MetricType : HasType(servers[i], t)} :
              i \in DOMAIN servers}

Parse ==
    /\ main = "parse"
    /\ \/ /\ Accepts(file)
          /\ config' = From(file)
          /\ monitored' = NewServer(From(file))
          /\ main' = "clients"
       \/ /\ ~Accepts(file)
          /\ main' = "exited"
          /\ UNCHANGED <<config, monitored>>
    /\ UNCHANGED <<file, clients, up, retrieved, synced>>

\* The entry newMetricsClients looks at next: entries of another type than the
\* two of its switch are passed over.
Switch == {"elasticsearch", "custom"}
Built == {clients[k] : k \in DOMAIN clients}

\* Faulty variant: the loop begins again with the first entry.
PendingAgain == {i \in DOMAIN config : config[i].serverType \in Switch}

Pending == {i \in DOMAIN config : i \notin Built /\ config[i].serverType \in Switch}

NextEntry == CHOOSE i \in Pending : \A j \in Pending : i <= j

BuildClient ==
    /\ main = "clients" /\ Pending # {}
    /\ IF NewClient(config[NextEntry])
       THEN clients' = Append(clients, NextEntry) /\ UNCHANGED main
       ELSE main' = "exited" /\ UNCHANGED clients
    /\ UNCHANGED <<file, config, monitored, up, retrieved, synced>>

\* The scheduler starts a job for each client.
StartJobs ==
    /\ main = "clients" /\ Pending = {}
    /\ main' = "wait"
    /\ UNCHANGED <<file, config, monitored, clients, up, retrieved, synced>>

WaitInitialSync ==
    /\ main = "wait" /\ Built \subseteq synced
    /\ main' = "serve"
    /\ UNCHANGED <<file, config, monitored, clients, up, retrieved, synced>>

\* What main() asks of Kubernetes fails, or the API server ends.
Fails ==
    /\ main \in {"clients", "serve"}
    /\ main' = "exited"
    /\ UNCHANGED <<file, config, monitored, clients, up, retrieved, synced>>

-----------------------------------------------------------------------------
(* The jobs and the backends *)

BackendChanges ==
    /\ main \in {"wait", "serve"}
    /\ \E i \in DOMAIN file : up' = IF i \in up THEN up \ {i} ELSE up \cup {i}
    /\ UNCHANGED <<file, main, config, monitored, clients, retrieved, synced>>

\* Whether a call that needs the backend, or nobody, comes to a list.
Succeeds(i, listing) == listing = "none" \/ (listing = "asks" /\ i \in up)

CustomOf(i) == IF HasType(config[i], "custom")
               THEN ListCustomMetricInfos(config[i]) ELSE "none"
ExternalOf(i) == IF HasType(config[i], "external")
                 THEN ListExternalMetrics(config[i]) ELSE "none"

TypesOf(i) == {t \in MetricType : HasType(config[i], t)}

\* refreshMetrics: custom metrics, then external ones, unless there is an error.
Refresh(i) ==
    /\ main \in {"wait", "serve"}
    /\ CustomOf(i) # "panics"
    /\ Succeeds(i, CustomOf(i))
    /\ IF Succeeds(i, ExternalOf(i))
       THEN /\ retrieved' = retrieved \cup ({i} \X TypesOf(i))
            /\ synced' = synced \cup {i}
       ELSE /\ retrieved' = retrieved \cup ({i} \X (TypesOf(i) \cap {"custom"}))
            /\ UNCHANGED synced
    /\ UNCHANGED <<file, main, config, monitored, clients, up>>

\* A panic of a goroutine that nothing recovers ends the process.
Panics(i) ==
    /\ main \in {"wait", "serve"}
    /\ CustomOf(i) = "panics"
    /\ main' = "panicked"
    /\ UNCHANGED <<file, config, monitored, clients, up, retrieved, synced>>

Positions == UNION {DOMAIN f : f \in File}

Proceed == Parse \/ BuildClient \/ StartJobs \/ WaitInitialSync

Next ==
    \/ Proceed \/ Fails \/ BackendChanges
    \/ \E i \in Built : Refresh(i) \/ Panics(i)

Spec == Init /\ [][Next]_vars

\* main() goes on, and the ticker of each job ticks.
FairSpec ==
    /\ Spec
    /\ WF_vars(Proceed)
    /\ \A i \in Positions : WF_vars(i \in Built /\ Refresh(i))

-----------------------------------------------------------------------------
\* The state has its type; there is never more than one client for an entry.
TypeOK ==
    /\ file \in Seq(MetricServer)
    /\ main \in {"parse", "clients", "wait", "serve", "exited", "panicked"}
    /\ DOMAIN config \in {{}, DOMAIN file}
    /\ monitored \subseteq Name \X MetricType
    /\ Built \subseteq DOMAIN config
    /\ \A k, l \in DOMAIN clients : clients[k] = clients[l] => k = l
    /\ up \subseteq DOMAIN file /\ synced \subseteq Built
    /\ retrieved \subseteq Built \X MetricType

\* What the other modules assume of the configuration holds of every one that is
\* accepted: priorities are distinct and follow the file, types are known, and
\* only a client of Elasticsearch has metric sets (From, validate).
AcceptedAsAssumed ==
    main # "parse" =>
        /\ \A i, j \in DOMAIN config : i < j => config[i].priority < config[j].priority
        /\ \A i \in DOMAIN config :
              /\ config[i].metricTypes \subseteq MetricType
              /\ config[i].serverType \in {"custom", "elasticsearch"}
              /\ config[i].serverType = "elasticsearch" <=> config[i].metricSets # <<>>

\* /readyz waits for nothing that no job retrieves: the monitoring server, made
\* of the configuration, and the scheduler, made of the clients, are of the same
\* entries and types, or the process ends.
MonitoredAreRefreshed ==
    main \in {"wait", "serve"} =>
        monitored = UNION {{config[i].name} \X TypesOf(i) : i \in Built}

\* The API is served only when each entry of the file has been retrieved for all
\* its types.
ServesTheWholeFile ==
    main = "serve" =>
        \A i \in DOMAIN file : \A t \in MetricType :
            HasType(file[i], t) => <<i, t>> \in retrieved

\* An entry that is accepted, that a client can be built for, and whose regular
\* expressions, templates and queries are well formed.
Usable(s) ==
    /\ ~Refuses(s) /\ UnmarshalYAML(s.metricTypes) /\ NewClient(s)
    /\ HasType(s, "custom") =>
          /\ s.rename # "malformed"
          /\ \A i \in DOMAIN s.metricSets : \A j \in DOMAIN s.metricSets[i] :
                s.metricSets[i][j].search \in {"none", "wellformed"}

\* With such entries the API is served as soon as the backends keep answering,
\* unless what main() asks of Kubernetes fails.
UsableIsServed ==
    /\ \A i \in DOMAIN file : Usable(file[i])
    /\ <>[](up = DOMAIN file)
    => <>(main \in {"serve", "exited"})

\* "Ensure that configuration is valid": a configuration that is accepted does
\* not end the process when it is first used.
AcceptedNeverPanics == main # "panicked"
=============================================================================
