--------------------------- MODULE StartupProofs ---------------------------
(***************************************************************************)
(* Proofs about main(), for every set of configuration files, with any     *)
(* number of entries, metric sets, fields and patterns.                    *)
(***************************************************************************)
EXTENDS Startup, SequenceTheorems, WellFoundedInduction, TLAPS

-----------------------------------------------------------------------------
(* The inductive invariant.                                                  *)

Main == {"parse", "clients", "wait", "serve", "exited", "panicked"}

\* There is no configuration before the file is accepted; then it is From(file).
ConfigFits ==
    IF main = "parse" \/ ~Accepts(file)
    THEN /\ main \in {"parse", "exited"}
         /\ config = <<>> /\ monitored = {} /\ clients = <<>>
    ELSE config = From(file) /\ monitored = NewServer(config)

\* One client per entry, and one for each of them once the jobs run.
ClientsFit ==
    /\ clients \in Seq(DOMAIN file)
    /\ \A k, l \in DOMAIN clients : clients[k] = clients[l] => k = l
    /\ main \in {"wait", "serve", "panicked"} => Built = DOMAIN file

\* A first refresh is complete with the last type of the entry.
RefreshesFit ==
    /\ up \subseteq DOMAIN file /\ synced \subseteq Built
    /\ retrieved \subseteq Built \X MetricType
    /\ \A i \in synced : {i} \X TypesOf(i) \subseteq retrieved
    /\ main = "serve" => Built \subseteq synced

IInv ==
    /\ file \in Seq(MetricServer) /\ main \in Main
    /\ ConfigFits /\ ClientsFit /\ RefreshesFit

-----------------------------------------------------------------------------
\* A set of numbers that is not empty has a least one.
LEMMA Least ==
    ASSUME NEW T \in SUBSET Nat, T # {}
    PROVE  \E i \in T : \A j \in T : i <= j
<1>1. PICK i \in T : \A j \in T : ~(<<j, i>> \in OpToRel(<, Nat))
  BY NatLessThanWellFounded, WFMin
<1>2. \A j \in T : ~(j < i)
  BY <1>1 DEF OpToRel
<1> QED
  BY <1>2

-----------------------------------------------------------------------------
(* What From() makes of a file.                                              *)

\* The entries keep their position and all but their sets.
LEMMA FromKeeps ==
    /\ DOMAIN From(file) = DOMAIN file
    /\ \A i \in DOMAIN file :
          /\ From(file)[i].name = file[i].name
          /\ From(file)[i].serverType = file[i].serverType
          /\ From(file)[i].metricTypes = file[i].metricTypes
          /\ From(file)[i].rename = file[i].rename
          /\ From(file)[i].host = file[i].host
          /\ From(file)[i].caFile = file[i].caFile
          /\ From(file)[i].metricSets = MetricSets(file[i])
          /\ From(file)[i].priority = PriorityOf(i)
  BY DEF From

\* The entries of a file are numbered and have the type of entries.
LEMMA FileEntries ==
    ASSUME file \in Seq(MetricServer)
    PROVE  /\ Len(file) \in Nat /\ DOMAIN file = 1..Len(file)
           /\ \A i \in DOMAIN file : file[i] \in MetricServer
  OBVIOUS

\* An accepted entry is of a known server type, with known metric types.
LEMMA AcceptedEntries ==
    ASSUME file \in Seq(MetricServer), Accepts(file), NEW i \in DOMAIN file
    PROVE  /\ file[i].serverType \in Switch
           /\ file[i].metricTypes \subseteq MetricType
           /\ file[i].serverType = "elasticsearch" <=> file[i].metricSets # <<>>
  BY DEF Accepts, Refuses, UnmarshalYAML, Switch

LEMMA EmptyList ==
    ASSUME NEW S, NEW list \in Seq(S)
    PROVE  list # <<>> <=> DOMAIN list # {}
<1>1. Len(list) \in Nat /\ DOMAIN list = 1..Len(list)
  OBVIOUS
<1>2. Len(list) = 0 <=> list = <<>>
  BY EmptySeq
<1>3. Len(list) # 0 => 1 \in DOMAIN list
  BY <1>1
<1> QED
  BY <1>1, <1>2, <1>3

\* Filling in the default and the compiled patterns adds and drops no set.
LEMMA SetsStay ==
    ASSUME NEW s \in MetricServer
    PROVE  MetricSets(s) # <<>> <=> s.metricSets # <<>>
<1>1. s.metricSets \in Seq(FieldsSet)
  BY DEF MetricServer
<1>2. CASE s.serverType # "elasticsearch"
  BY <1>2 DEF MetricSets
<1>3. CASE s.serverType = "elasticsearch"
  <2>1. DOMAIN MetricSets(s) = DOMAIN s.metricSets
    BY <1>3 DEF MetricSets
  <2>2. s.metricSets # <<>> <=> DOMAIN s.metricSets # {}
    BY <1>1, EmptyList
  <2>3. MetricSets(s) # <<>> <=> DOMAIN MetricSets(s) # {}
    <3>1. MetricSets(s) = [i \in DOMAIN s.metricSets |-> MetricSets(s)[i]]
      BY <1>3 DEF MetricSets
    <3> QED
      BY <3>1
  <2> QED
    BY <2>1, <2>2, <2>3
<1> QED
  BY <1>2, <1>3

\* The searches of a set are those that were written; the default has none.
LEMMA SearchesStay ==
    ASSUME NEW s \in MetricServer, s.serverType = "elasticsearch",
           NEW i \in DOMAIN MetricSets(s), NEW j \in DOMAIN MetricSets(s)[i]
    PROVE  /\ i \in DOMAIN s.metricSets
           /\ \/ MetricSets(s)[i][j].search = "none"
              \/ /\ j \in DOMAIN s.metricSets[i]
                 /\ MetricSets(s)[i][j].search = s.metricSets[i][j].search
<1> DEFINE written == s.metricSets[i]
           set == WithDefault(written)
           FieldsOf == [patterns : Seq(Pattern), compiled : {<<>>}, search : Search]
<1>1. DOMAIN MetricSets(s) = DOMAIN s.metricSets
  BY DEF MetricSets
<1>2. written \in Seq(FieldsOf)
  BY <1>1 DEF MetricServer, FieldsSet
<1>3. j \in DOMAIN set /\ MetricSets(s)[i][j] = [set[j] EXCEPT !.compiled = set[j].patterns]
  BY <1>1 DEF MetricSets, Compiled
<1>4. CASE written = <<>>
  <2>1. set = <<defaultFieldSet>>
    BY <1>4 DEF WithDefault
  <2>2. set[j] = defaultFieldSet
    BY <1>3, <2>1
  <2>3. MetricSets(s)[i][j].search = "none"
    BY <1>3, <2>2 DEF defaultFieldSet
  <2> QED
    BY <1>1, <2>3
<1>5. CASE written # <<>>
  <2>1. set = written
    BY <1>5 DEF WithDefault
  <2>2. /\ j \in DOMAIN written
        /\ MetricSets(s)[i][j] = [written[j] EXCEPT !.compiled = written[j].patterns]
    BY <1>3, <2>1
  <2> HIDE DEF set, written, FieldsOf
  <2>3. written[j] \in FieldsOf
    BY <1>2, <2>2
  <2>4. MetricSets(s)[i][j].search = written[j].search
    BY <2>2, <2>3 DEF FieldsOf
  <2> QED
    BY <1>1, <2>2, <2>4 DEF written
<1> QED
  BY <1>4, <1>5

\* A set of static fields that is not empty has a first one.
LEMMA FirstField ==
    ASSUME NEW T \in SUBSET (Nat \X Nat), T # {}
    PROVE  \E p \in T : \A q \in T : p = q \/ Before(p, q)
<1> DEFINE Sets == {p[1] : p \in T}
           Of(i) == {j \in Nat : <<i, j>> \in T}
<1>1. PICK i \in Sets : \A k \in Sets : i <= k
  <2>1. Sets \in SUBSET Nat /\ Sets # {}
    OBVIOUS
  <2> HIDE DEF Sets
  <2> QED
    BY <2>1, Least
<1>2. PICK j \in Of(i) : \A k \in Of(i) : j <= k
  <2>1. Of(i) \in SUBSET Nat /\ Of(i) # {}
    BY <1>1
  <2> HIDE DEF Of
  <2> QED
    BY <2>1, Least
<1>3. <<i, j>> \in T
  BY <1>2
<1>4. ASSUME NEW q \in T
      PROVE  <<i, j>> = q \/ Before(<<i, j>>, q)
  <2>1. q = <<q[1], q[2]>> /\ q[1] \in Nat /\ q[2] \in Nat
    OBVIOUS
  <2>2. i \in Nat /\ j \in Nat /\ i <= q[1] /\ (q[1] = i => j <= q[2])
    BY <1>1, <1>2, <2>1
  <2> QED
    BY <2>1, <2>2 DEF Before
<1> QED
  BY <1>3, <1>4

\* FindMetadata finds an element exactly when one has a pattern that matches.
LEMMA FindMetadataFinds ==
    ASSUME NEW n \in Nat, NEW set, DOMAIN set = 1..n, NEW f
    PROVE  FindMetadata(set, f) # 0 <=>
              \E j \in DOMAIN set : \E k \in DOMAIN set[j].compiled :
                 f \in set[j].compiled[k].matches
<1> DEFINE matching == {j \in DOMAIN set : \E k \in DOMAIN set[j].compiled :
                                              f \in set[j].compiled[k].matches}
           first == CHOOSE j \in matching : \A m \in matching : j <= m
<1>1. FindMetadata(set, f) = IF matching = {} THEN 0 ELSE first
  BY DEF FindMetadata
<1>2. matching \in SUBSET Nat /\ 0 \notin matching
  OBVIOUS
<1>3. matching # {} => first # 0
  <2> HIDE DEF matching
  <2>1. matching # {} => \E j \in matching : \A m \in matching : j <= m
    BY <1>2, Least
  <2> QED
    BY <1>2, <2>1
<1>4. matching # {} <=> \E j \in DOMAIN set : \E k \in DOMAIN set[j].compiled :
                           f \in set[j].compiled[k].matches
  OBVIOUS
<1> HIDE DEF matching, first
<1> QED
  BY <1>1, <1>3, <1>4

\* What a metric set selects once it is compiled is what its patterns, as they
\* were written, match: everything when there are none.
LEMMA CompiledSelects ==
    ASSUME NEW s \in MetricServer, s.serverType = "elasticsearch",
           NEW i \in DOMAIN s.metricSets, NEW f \in Field
    PROVE  LET written == s.metricSets[i]
           IN  FindMetadata(MetricSets(s)[i], f) # 0 <=>
                  \/ written = <<>>
                  \/ \E j \in DOMAIN written : \E k \in DOMAIN written[j].patterns :
                        f \in written[j].patterns[k].matches
<1> DEFINE written == s.metricSets[i]
           set == WithDefault(written)
           kept == MetricSets(s)[i]
           FieldsOf == [patterns : Seq(Pattern), compiled : {<<>>}, search : Search]
<1>1. written \in Seq(FieldsOf)
  BY DEF MetricServer, FieldsSet
<1>2. kept = [j \in DOMAIN set |-> Compiled(set[j])]
  BY DEF MetricSets
<1>3. CASE written = <<>>
  <2>1. set = <<defaultFieldSet>>
    BY <1>3 DEF WithDefault
  <2>2. DOMAIN kept = 1..1 /\ kept[1] = Compiled(defaultFieldSet)
    BY <1>2, <2>1
  <2>3. kept[1].compiled = <<[compiles |-> TRUE, matches |-> Field]>>
    BY <2>2 DEF Compiled, defaultFieldSet
  <2>4. 1 \in DOMAIN kept[1].compiled /\ f \in kept[1].compiled[1].matches
    BY <2>3
  <2> HIDE DEF kept
  <2>5. 1 \in DOMAIN kept /\ 1 \in Nat
    BY <2>2
  <2>6. FindMetadata(kept, f) # 0
    BY <2>2, <2>4, <2>5, FindMetadataFinds
  <2> QED
    BY <1>3, <2>6 DEF kept
<1>4. CASE written # <<>>
  <2>1. set = written /\ DOMAIN written = 1..Len(written) /\ Len(written) \in Nat
    BY <1>1, <1>4 DEF WithDefault
  <2>2. ASSUME NEW j \in DOMAIN written
        PROVE  kept[j].compiled = written[j].patterns
    <3>1. written[j] \in FieldsOf
      <4> HIDE DEF written, FieldsOf
      <4> QED
        BY <1>1
    <3>2. kept[j] = [written[j] EXCEPT !.compiled = written[j].patterns]
      BY <1>2, <2>1 DEF Compiled
    <3> HIDE DEF written, kept
    <3> QED
      BY <3>1, <3>2
  <2>3. DOMAIN kept = 1..Len(written)
    BY <1>2, <2>1
  <2> HIDE DEF kept, written, set
  <2>4. FindMetadata(kept, f) # 0 <=>
           \E j \in DOMAIN kept : \E k \in DOMAIN kept[j].compiled :
              f \in kept[j].compiled[k].matches
    BY <2>1, <2>3, FindMetadataFinds
  <2>5. FindMetadata(kept, f) # 0 <=>
           \E j \in DOMAIN written : \E k \in DOMAIN written[j].patterns :
              f \in written[j].patterns[k].matches
    BY <2>1, <2>2, <2>3, <2>4
  <2> QED
    BY <1>4, <2>5 DEF kept, written
<1> QED
  BY <1>3, <1>4

\* The configuration is accepted and complete once the clients are made.
LEMMA Accepted ==
    ASSUME IInv, main \notin {"parse", "exited"} \/ config # <<>>
    PROVE  /\ Accepts(file) /\ config = From(file) /\ monitored = NewServer(config)
           /\ DOMAIN config = DOMAIN file
  BY FromKeeps DEF IInv, ConfigFits

\* There is an entry newMetricsClients looks at next, if any is left.
LEMMA NextEntryExists ==
    ASSUME IInv, main = "clients", Pending # {}
    PROVE  NextEntry \in Pending
<1>1. Pending \subseteq Nat
  BY Accepted, FileEntries DEF Pending, IInv
<1>2. \E i \in Pending : \A j \in Pending : i <= j
  BY <1>1, Least
<1> QED
  BY <1>2 DEF NextEntry

\* Without entries left to look at there is a client for each.
LEMMA AllBuilt ==
    ASSUME IInv, main = "clients", Pending = {}
    PROVE  Built = DOMAIN file
<1>1. \A i \in DOMAIN file : config[i].serverType \in Switch
  BY Accepted, FromKeeps, AcceptedEntries DEF IInv
<1>2. Built \subseteq DOMAIN file
  BY DEF IInv, ClientsFit, Built
<1> QED
  BY <1>1, <1>2, Accepted DEF Pending

-----------------------------------------------------------------------------
(* The invariant holds of the initial states and is kept by every step.      *)

LEMMA InitFits == Init => IInv
<1> SUFFICES ASSUME Init PROVE IInv
  OBVIOUS
<1>1. file \in Seq(MetricServer)
  BY FileAssumption DEF Init
<1>2. clients = <<>> /\ clients \in Seq(DOMAIN file) /\ DOMAIN clients = {}
  BY DEF Init
<1>3. Built = {}
  BY <1>2 DEF Built
<1> QED
  BY <1>1, <1>2, <1>3 DEF Init, IInv, Main, ConfigFits, ClientsFit, RefreshesFit

LEMMA ParseFits == IInv /\ Parse => IInv'
<1> SUFFICES ASSUME IInv, Parse PROVE IInv'
  OBVIOUS
<1>1. UNCHANGED <<file, clients, up, retrieved, synced>> /\ main = "parse"
  BY DEF Parse
<1>2. Built' = Built /\ Built = {}
  BY <1>1 DEF Built, IInv, ConfigFits
<1>3. synced = {} /\ main' \in {"clients", "exited"}
  BY <1>2 DEF IInv, RefreshesFit, Parse
<1>4. ConfigFits'
  <2>1. Accepts(file)' <=> Accepts(file)
    BY <1>1 DEF Accepts
  <2>2. CASE Accepts(file)
    BY <1>1, <2>1, <2>2 DEF Parse, ConfigFits
  <2>3. CASE ~Accepts(file)
    BY <1>1, <2>1, <2>3 DEF Parse, IInv, ConfigFits
  <2> QED
    BY <2>2, <2>3
<1>5. ClientsFit' /\ RefreshesFit'
  BY <1>1, <1>2, <1>3 DEF IInv, ClientsFit, RefreshesFit
<1> QED
  BY <1>1, <1>3, <1>4, <1>5 DEF IInv, Main

\* A step of main() that writes nothing but where it is.
LEMMA MainMoves ==
    ASSUME IInv, main' \in Main, main' # "parse", main # "parse", Accepts(file),
           UNCHANGED <<file, config, monitored, clients, up, retrieved, synced>>,
           main' \in {"wait", "serve", "panicked"} => Built = DOMAIN file,
           main' = "serve" => Built \subseteq synced
    PROVE  IInv'
<1>1. Built' = Built /\ Accepts(file)'
  BY DEF Built, Accepts
<1>2. ConfigFits'
  BY <1>1 DEF IInv, ConfigFits, From, NewServer
<1>3. ClientsFit'
  BY <1>1 DEF IInv, ClientsFit
<1>4. RefreshesFit'
  BY <1>1 DEF IInv, RefreshesFit, TypesOf
<1> QED
  BY <1>2, <1>3, <1>4 DEF IInv

LEMMA BuildClientFits == IInv /\ BuildClient => IInv'
<1> SUFFICES ASSUME IInv, BuildClient PROVE IInv'
  OBVIOUS
<1>1. /\ main = "clients" /\ Pending # {}
      /\ UNCHANGED <<file, config, monitored, up, retrieved, synced>>
  BY DEF BuildClient
<1>2. Accepts(file) /\ config = From(file) /\ DOMAIN config = DOMAIN file
  BY <1>1, Accepted
<1>3. CASE NewClient(config[NextEntry])
  <2> DEFINE i == NextEntry
  <2>1. i \in DOMAIN file /\ i \notin Built
    BY <1>1, <1>2, NextEntryExists DEF Pending
  <2>2. clients' = Append(clients, i) /\ main' = main
    BY <1>3 DEF BuildClient
  <2>3. /\ clients \in Seq(DOMAIN file) /\ Len(clients) \in Nat
        /\ DOMAIN clients = 1..Len(clients)
        /\ \A k, l \in DOMAIN clients : clients[k] = clients[l] => k = l
    BY DEF IInv, ClientsFit
  <2> HIDE DEF i
  <2>4. /\ clients' \in Seq(DOMAIN file) /\ DOMAIN clients' = 1..(Len(clients) + 1)
        /\ clients'[Len(clients) + 1] = i
        /\ \A k \in DOMAIN clients : clients'[k] = clients[k]
    BY <2>1, <2>2, <2>3
  <2>5. \A k \in DOMAIN clients : clients[k] # i
    BY <2>1 DEF Built
  <2>6. \A k, l \in DOMAIN clients' : clients'[k] = clients'[l] => k = l
    BY <2>3, <2>4, <2>5
  <2>7. Built \subseteq Built'
    BY <2>3, <2>4 DEF Built
  <2>8. ClientsFit'
    BY <1>1, <2>2, <2>4, <2>6 DEF ClientsFit
  <2>9. RefreshesFit'
    BY <1>1, <2>2, <2>7 DEF IInv, RefreshesFit, TypesOf
  <2>10. ConfigFits'
    BY <1>1, <1>2, <2>2 DEF IInv, ConfigFits
  <2> QED
    BY <1>1, <2>2, <2>8, <2>9, <2>10 DEF IInv
<1>4. CASE ~NewClient(config[NextEntry])
  BY <1>1, <1>2, <1>4, MainMoves DEF BuildClient, Main
<1> QED
  BY <1>3, <1>4

\* A refresh that goes to its end retrieves all the types of the entry.
LEMMA RefreshFits == ASSUME IInv, NEW i \in Built, Refresh(i) PROVE IInv'
<1>1. /\ UNCHANGED <<file, main, config, monitored, clients, up>>
      /\ main \in {"wait", "serve"}
      /\ \/ /\ retrieved' = retrieved \cup ({i} \X TypesOf(i))
            /\ synced' = synced \cup {i}
         \/ /\ retrieved' = retrieved \cup ({i} \X (TypesOf(i) \cap {"custom"}))
            /\ synced' = synced
  BY DEF Refresh
<1>2. Built' = Built /\ \A j : TypesOf(j)' = TypesOf(j)
  BY <1>1 DEF Built, TypesOf
<1>3. TypesOf(i) \subseteq MetricType
  BY DEF TypesOf
<1>4. RefreshesFit
  BY DEF IInv
<1>5. RefreshesFit'
  <2>1. up' \subseteq DOMAIN file' /\ synced' \subseteq Built'
    BY <1>1, <1>2, <1>4 DEF RefreshesFit
  <2>2. retrieved' \subseteq Built' \X MetricType
    BY <1>1, <1>2, <1>3, <1>4 DEF RefreshesFit
  <2>3. ASSUME NEW j \in synced'
        PROVE  {j} \X TypesOf(j)' \subseteq retrieved'
    BY <1>1, <1>2, <1>4, <2>3 DEF RefreshesFit
  <2>4. main' = "serve" => Built' \subseteq synced'
    BY <1>1, <1>2, <1>4 DEF RefreshesFit
  <2> QED
    BY <2>1, <2>2, <2>3, <2>4 DEF RefreshesFit
<1>6. ConfigFits' /\ ClientsFit'
  BY <1>1, <1>2 DEF IInv, ConfigFits, ClientsFit, Accepts, From, NewServer
<1> QED
  BY <1>1, <1>5, <1>6 DEF IInv

LEMMA NextFits == IInv /\ [Next]_vars => IInv'
<1> SUFFICES ASSUME IInv, [Next]_vars PROVE IInv'
  OBVIOUS
<1>1. main \notin {"parse", "exited"} => Accepts(file)
  BY Accepted
<1>2. CASE StartJobs
  BY <1>1, <1>2, AllBuilt, MainMoves DEF StartJobs, Main
<1>3. CASE WaitInitialSync
  <2>1. Built = DOMAIN file
    BY <1>3 DEF WaitInitialSync, IInv, ClientsFit
  <2> QED
    BY <1>1, <1>3, <2>1, MainMoves DEF WaitInitialSync, Main
<1>4. CASE Fails
  BY <1>1, <1>4, MainMoves DEF Fails, Main
<1>5. ASSUME NEW i \in Built, Panics(i)
      PROVE  IInv'
  <2>1. Built = DOMAIN file
    BY <1>5 DEF Panics, IInv, ClientsFit
  <2> QED
    BY <1>1, <1>5, <2>1, MainMoves DEF Panics, Main
<1>6. ASSUME UNCHANGED <<file, main, config, monitored, clients, retrieved, synced>>,
             up' \subseteq DOMAIN file
      PROVE  IInv'
  <2>1. Built' = Built
    BY <1>6 DEF Built
  <2>2. RefreshesFit'
    BY <1>6, <2>1 DEF IInv, RefreshesFit, TypesOf
  <2>3. ConfigFits' /\ ClientsFit'
    BY <1>6, <2>1 DEF IInv, ConfigFits, ClientsFit, Accepts, From, NewServer
  <2> QED
    BY <1>6, <2>2, <2>3 DEF IInv
<1>7. CASE BackendChanges
  BY <1>6, <1>7 DEF BackendChanges, IInv, RefreshesFit
<1>8. CASE UNCHANGED vars
  BY <1>6, <1>8 DEF vars, IInv, RefreshesFit
<1> QED
  BY <1>2, <1>3, <1>4, <1>5, <1>7, <1>8, ParseFits, BuildClientFits, RefreshFits
     DEF Next, Proceed

LEMMA Invariance == Spec => []IInv
  BY InitFits, NextFits, PTL DEF Spec

-----------------------------------------------------------------------------
\* The state has its type, and no entry gets two clients.
THEOREM TypeCorrect == Spec => []TypeOK
<1>1. IInv => TypeOK
  <2> SUFFICES ASSUME IInv PROVE TypeOK
    OBVIOUS
  <2>1. CASE main = "parse" \/ ~Accepts(file)
    <3>1. config = <<>> /\ monitored = {} /\ clients = <<>>
      BY <2>1 DEF IInv, ConfigFits
    <3>2. DOMAIN config = {} /\ Built = {}
      BY <3>1 DEF Built
    <3> QED
      BY <3>1, <3>2 DEF IInv, ClientsFit, RefreshesFit, TypeOK, Main
  <2>2. CASE main # "parse" /\ Accepts(file)
    <3>1. config = From(file) /\ monitored = NewServer(config)
      BY <2>2 DEF IInv, ConfigFits
    <3>2. DOMAIN config = DOMAIN file /\ \A i \in DOMAIN file : config[i].name \in Name
      BY <3>1, FromKeeps, FileEntries DEF IInv, MetricServer
    <3>3. monitored \subseteq Name \X MetricType
      BY <3>1, <3>2 DEF NewServer
    <3>4. Built \subseteq DOMAIN config
      BY <3>2 DEF IInv, ClientsFit, Built
    <3> QED
      BY <3>2, <3>3, <3>4 DEF IInv, ClientsFit, RefreshesFit, TypeOK, Main
  <2> QED
    BY <2>1, <2>2
<1> QED
  BY <1>1, Invariance, PTL

\* What the other modules assume of the configuration holds of every file that
\* is accepted: priorities follow the file, types are known, and only a client
\* of Elasticsearch has metric sets.
THEOREM AcceptsAsAssumed == Spec => []AcceptedAsAssumed
<1>1. IInv => AcceptedAsAssumed
  <2> SUFFICES ASSUME IInv, main # "parse" PROVE
           /\ \A i, j \in DOMAIN config : i < j => config[i].priority < config[j].priority
           /\ \A i \in DOMAIN config :
                 /\ config[i].metricTypes \subseteq MetricType
                 /\ config[i].serverType \in {"custom", "elasticsearch"}
                 /\ config[i].serverType = "elasticsearch" <=> config[i].metricSets # <<>>
    BY DEF AcceptedAsAssumed
  <2>1. CASE ~Accepts(file)
    <3>1. DOMAIN config = {}
      BY <2>1 DEF IInv, ConfigFits
    <3> QED
      BY <3>1
  <2>2. CASE Accepts(file)
    <3>1. config = From(file) /\ file \in Seq(MetricServer)
      BY <2>2 DEF IInv, ConfigFits
    <3>2. DOMAIN config = DOMAIN file /\ DOMAIN file \subseteq Nat
      BY <3>1, FromKeeps, FileEntries
    <3>3. ASSUME NEW i \in DOMAIN config, NEW j \in DOMAIN config, i < j
          PROVE  config[i].priority < config[j].priority
      BY <3>1, <3>2, <3>3, FromKeeps DEF PriorityOf
    <3>4. ASSUME NEW i \in DOMAIN config
          PROVE  /\ config[i].metricTypes \subseteq MetricType
                 /\ config[i].serverType \in {"custom", "elasticsearch"}
                 /\ config[i].serverType = "elasticsearch" <=> config[i].metricSets # <<>>
      <4>1. /\ file[i].serverType \in Switch
            /\ file[i].metricTypes \subseteq MetricType
            /\ file[i].serverType = "elasticsearch" <=> file[i].metricSets # <<>>
        BY <2>2, <3>1, <3>2, AcceptedEntries
      <4>2. MetricSets(file[i]) # <<>> <=> file[i].metricSets # <<>>
        BY <3>1, <3>2, SetsStay, FileEntries
      <4> QED
        BY <3>1, <3>2, <4>1, <4>2, FromKeeps DEF Switch
    <3> QED
      BY <3>3, <3>4
  <2> QED
    BY <2>1, <2>2
<1> QED
  BY <1>1, Invariance, PTL

\* /readyz waits for exactly the types that the jobs retrieve.
THEOREM WaitsForWhatIsRefreshed == Spec => []MonitoredAreRefreshed
<1>1. IInv => MonitoredAreRefreshed
  BY Accepted DEF IInv, ClientsFit, MonitoredAreRefreshed, NewServer, TypesOf
<1> QED
  BY <1>1, Invariance, PTL

\* The API is served only when each entry of the file has been retrieved for
\* all its types.
THEOREM ServesAllEntries == Spec => []ServesTheWholeFile
<1>1. IInv => ServesTheWholeFile
  <2> SUFFICES ASSUME IInv, main = "serve", NEW i \in DOMAIN file, NEW t \in MetricType,
                      HasType(file[i], t)
               PROVE  <<i, t>> \in retrieved
    BY DEF ServesTheWholeFile
  <2>1. i \in synced /\ {i} \X TypesOf(i) \subseteq retrieved
    BY DEF IInv, ClientsFit, RefreshesFit
  <2>2. config[i].metricTypes = file[i].metricTypes
    BY Accepted, FromKeeps
  <2>3. t \in TypesOf(i)
    BY <2>2 DEF TypesOf, HasType
  <2> QED
    BY <2>1, <2>3
<1> QED
  BY <1>1, Invariance, PTL

\* The fields a metric set selects are those that its patterns match as they
\* were written, all of them if it has no patterns: neither the default nor the
\* compilation in place loses or adds one.
SelectsAsWritten ==
    \A i \in DOMAIN config : config[i].serverType = "elasticsearch" =>
        /\ DOMAIN config[i].metricSets = DOMAIN file[i].metricSets
        /\ \A s \in DOMAIN config[i].metricSets, f \in Field :
              LET written == file[i].metricSets[s]
              IN  FindMetadata(config[i].metricSets[s], f) # 0 <=>
                     \/ written = <<>>
                     \/ \E j \in DOMAIN written : \E k \in DOMAIN written[j].patterns :
                           f \in written[j].patterns[k].matches

\* From and validate record, for any accepted file, what was written.
THEOREM SelectsWhatIsWritten == Spec => []SelectsAsWritten
<1>1. IInv => SelectsAsWritten
  <2> SUFFICES ASSUME IInv, NEW i \in DOMAIN config,
                      config[i].serverType = "elasticsearch"
               PROVE  /\ DOMAIN config[i].metricSets = DOMAIN file[i].metricSets
                      /\ \A s \in DOMAIN config[i].metricSets, f \in Field :
                            LET written == file[i].metricSets[s]
                            IN  FindMetadata(config[i].metricSets[s], f) # 0 <=>
                                   \/ written = <<>>
                                   \/ \E j \in DOMAIN written :
                                      \E k \in DOMAIN written[j].patterns :
                                         f \in written[j].patterns[k].matches
    BY DEF SelectsAsWritten
  <2>1. config # <<>>
    OBVIOUS
  <2>2. config = From(file) /\ DOMAIN config = DOMAIN file
    BY <2>1, Accepted
  <2>3. /\ file[i] \in MetricServer /\ file[i].serverType = "elasticsearch"
        /\ config[i].metricSets = MetricSets(file[i])
    BY <2>2, FromKeeps, FileEntries DEF IInv
  <2>4. DOMAIN MetricSets(file[i]) = DOMAIN file[i].metricSets
    BY <2>3 DEF MetricSets
  <2> QED
    BY <2>3, <2>4, CompiledSelects
<1> QED
  BY <1>1, Invariance, PTL

-----------------------------------------------------------------------------
(* What a configuration may do to the process.                               *)

\* An entry whose templates can end the process: it has a client of
\* Elasticsearch list custom metrics, and a static field of it has a body that
\* is no template.
BadTemplate(s) ==
    /\ s.serverType = "elasticsearch" /\ HasType(s, "custom")
    /\ s.rename # "malformed"
    /\ \E i \in DOMAIN s.metricSets : \E j \in DOMAIN s.metricSets[i] :
          s.metricSets[i][j].search = "body malformed"

\* The static fields of an entry of From(file) are numbered.
LEMMA StaticsNumbered ==
    ASSUME NEW s \in MetricServer, s.serverType = "elasticsearch", NEW r,
           r.metricSets = MetricSets(s)
    PROVE  /\ Statics(r) \in SUBSET (Nat \X Nat)
           /\ \A p \in Statics(r) :
                 /\ p[1] \in DOMAIN s.metricSets /\ p[2] \in DOMAIN s.metricSets[p[1]]
                 /\ r.metricSets[p[1]][p[2]].search = s.metricSets[p[1]][p[2]].search
<1> DEFINE FieldsOf == [patterns : Seq(Pattern), compiled : {<<>>}, search : Search]
<1>1. s.metricSets \in Seq(Seq(FieldsOf))
  BY DEF MetricServer, FieldsSet
<1>2. ASSUME NEW p \in Statics(r)
      PROVE  /\ p = <<p[1], p[2]>>
             /\ p[1] \in DOMAIN MetricSets(s) /\ p[2] \in DOMAIN MetricSets(s)[p[1]]
             /\ MetricSets(s)[p[1]][p[2]].search # "none"
  BY DEF Statics
<1>3. ASSUME NEW p \in Statics(r)
      PROVE  /\ p[1] \in DOMAIN s.metricSets /\ p[2] \in DOMAIN s.metricSets[p[1]]
             /\ r.metricSets[p[1]][p[2]].search = s.metricSets[p[1]][p[2]].search
  BY <1>2, SearchesStay
<1>4. ASSUME NEW p \in Statics(r)
      PROVE  p \in Nat \X Nat
  <2> HIDE DEF FieldsOf
  <2>1. p[1] \in Nat /\ s.metricSets[p[1]] \in Seq(FieldsOf)
    BY <1>1, <1>3
  <2>2. p[2] \in Nat
    BY <1>3, <2>1
  <2> QED
    BY <1>2, <2>1, <2>2
<1> QED
  BY <1>3, <1>4

\* discoverMetrics comes to a panic at a body only, and to the first question
\* when nothing is malformed.
LEMMA DiscoverMetrics ==
    ASSUME NEW s \in MetricServer, s.serverType = "elasticsearch", NEW r,
           r.metricSets = MetricSets(s), r.rename = s.rename
    PROVE  /\ discoverMetrics(r) = "panics" =>
                 /\ s.rename # "malformed"
                 /\ \E i \in DOMAIN s.metricSets : \E j \in DOMAIN s.metricSets[i] :
                       s.metricSets[i][j].search = "body malformed"
           /\ /\ s.rename # "malformed"
              /\ \A i \in DOMAIN s.metricSets : \A j \in DOMAIN s.metricSets[i] :
                    s.metricSets[i][j].search \in {"none", "wellformed"}
              => discoverMetrics(r) = "asks"
<1> DEFINE searchOf(p) == r.metricSets[p[1]][p[2]].search
           bad == {p \in Statics(r) : searchOf(p) # "wellformed"}
           first == CHOOSE p \in bad : \A q \in bad : p = q \/ Before(p, q)
<1>1. /\ Statics(r) \in SUBSET (Nat \X Nat)
      /\ \A p \in Statics(r) :
            /\ p[1] \in DOMAIN s.metricSets /\ p[2] \in DOMAIN s.metricSets[p[1]]
            /\ searchOf(p) = s.metricSets[p[1]][p[2]].search
            /\ searchOf(p) # "none"
  BY StaticsNumbered DEF Statics
<1>2. discoverMetrics(r) = IF s.rename = "malformed" THEN "fails"
                           ELSE IF bad = {} THEN "asks"
                           ELSE IF searchOf(first) = "body malformed" THEN "panics"
                           ELSE "fails"
  BY DEF discoverMetrics
<1>3. bad # {} => first \in bad
  <2>1. bad \in SUBSET (Nat \X Nat)
    BY <1>1
  <2> HIDE DEF bad
  <2>2. bad # {} => \E p \in bad : \A q \in bad : p = q \/ Before(p, q)
    BY <2>1, FirstField
  <2> QED
    BY <2>2
<1> HIDE DEF first
<1>4. ASSUME discoverMetrics(r) = "panics"
      PROVE  /\ s.rename # "malformed"
             /\ \E i \in DOMAIN s.metricSets : \E j \in DOMAIN s.metricSets[i] :
                   s.metricSets[i][j].search = "body malformed"
  <2>1. s.rename # "malformed" /\ bad # {} /\ searchOf(first) = "body malformed"
    BY <1>2, <1>4
  <2>2. first \in Statics(r)
    BY <1>3, <2>1
  <2> QED
    BY <1>1, <2>1, <2>2
<1>5. ASSUME s.rename # "malformed",
             \A i \in DOMAIN s.metricSets : \A j \in DOMAIN s.metricSets[i] :
                s.metricSets[i][j].search \in {"none", "wellformed"}
      PROVE  discoverMetrics(r) = "asks"
  <2>1. bad = {}
    BY <1>1, <1>5
  <2> QED
    BY <1>2, <1>5, <2>1
<1> QED
  BY <1>4, <1>5

\* An entry of the configuration, and the one of the file it comes from.
LEMMA Entries ==
    ASSUME IInv, NEW i \in DOMAIN config
    PROVE  /\ Accepts(file) /\ i \in DOMAIN file /\ file[i] \in MetricServer
           /\ config[i].serverType = file[i].serverType
           /\ config[i].metricTypes = file[i].metricTypes
           /\ config[i].rename = file[i].rename
           /\ config[i].host = file[i].host /\ config[i].caFile = file[i].caFile
           /\ config[i].metricSets = MetricSets(file[i])
<1>1. config # <<>>
  OBVIOUS
<1>2. Accepts(file) /\ config = From(file) /\ DOMAIN config = DOMAIN file
  BY <1>1, Accepted
<1> QED
  BY <1>2, FromKeeps, FileEntries DEF IInv

\* The process panics only when the file has such an entry.
PanicsForTemplate ==
    main = "panicked" => \E i \in DOMAIN file : BadTemplate(file[i])

\* What ends the process is a body that is no template, and nothing else of a
\* configuration that was accepted: with well-formed bodies, or without custom
\* metrics of Elasticsearch, no refresh panics.
THEOREM PanicsOnlyForTemplates == Spec => []PanicsForTemplate
<1>1. Init => PanicsForTemplate
  BY DEF Init, PanicsForTemplate
<1>2. IInv /\ PanicsForTemplate /\ [Next]_vars => PanicsForTemplate'
  <2> SUFFICES ASSUME IInv, PanicsForTemplate, [Next]_vars
               PROVE  PanicsForTemplate'
    OBVIOUS
  <2>1. file' = file
    BY DEF Next, Proceed, Parse, BuildClient, StartJobs, WaitInitialSync, Fails,
       BackendChanges, Refresh, Panics, vars
  <2>2. ASSUME NEW i \in Built, Panics(i)
        PROVE  BadTemplate(file[i]) /\ i \in DOMAIN file
    <3>1. /\ CustomOf(i) = "panics" /\ main \in {"wait", "serve"}
          /\ i \in DOMAIN file
      BY <2>2 DEF Panics, Built, IInv, ClientsFit
    <3>2. i \in DOMAIN config
      BY <3>1, Accepted
    <3>3. HasType(config[i], "custom") /\ ListCustomMetricInfos(config[i]) = "panics"
      BY <3>1 DEF CustomOf
    <3>4. /\ config[i].serverType = "elasticsearch"
          /\ discoverMetrics(config[i]) = "panics"
      BY <3>3 DEF ListCustomMetricInfos
    <3>5. /\ file[i].rename # "malformed"
          /\ \E k \in DOMAIN file[i].metricSets : \E j \in DOMAIN file[i].metricSets[k] :
                file[i].metricSets[k][j].search = "body malformed"
      BY <3>2, <3>4, Entries, DiscoverMetrics
    <3> QED
      BY <3>1, <3>2, <3>3, <3>4, <3>5, Entries DEF BadTemplate, HasType
  <2>3. ASSUME main' = "panicked", main # "panicked"
        PROVE  \E i \in Built : Panics(i)
    BY <2>3 DEF Next, Proceed, Parse, BuildClient, StartJobs, WaitInitialSync, Fails,
       BackendChanges, Refresh, vars
  <2> QED
    BY <2>1, <2>2, <2>3 DEF PanicsForTemplate, BadTemplate, HasType
<1> QED
  BY <1>1, <1>2, Invariance, PTL DEF Spec

\* When every entry of the file can be used, the file is accepted, each client
\* is built, no refresh panics, and one whose backend answers goes to its end.
NothingInTheWay ==
    (\A i \in DOMAIN file : Usable(file[i])) =>
        /\ Accepts(file)
        /\ main = "clients" /\ Pending # {} => NewClient(config[NextEntry])
        /\ main # "panicked"
        /\ \A i \in Built \cap up : Succeeds(i, CustomOf(i)) /\ Succeeds(i, ExternalOf(i))

\* Nothing of a usable file keeps the API from being served: only the backends
\* and Kubernetes do.
THEOREM UsableGoesOn == Spec => []NothingInTheWay
<1>1. IInv /\ PanicsForTemplate => NothingInTheWay
  <2> SUFFICES ASSUME IInv, PanicsForTemplate, \A i \in DOMAIN file : Usable(file[i])
               PROVE  /\ Accepts(file)
                      /\ main = "clients" /\ Pending # {} => NewClient(config[NextEntry])
                      /\ main # "panicked"
                      /\ \A i \in Built \cap up :
                            Succeeds(i, CustomOf(i)) /\ Succeeds(i, ExternalOf(i))
    BY DEF NothingInTheWay
  <2>1. Accepts(file)
    BY DEF Usable, Accepts
  <2>2. ASSUME main = "clients", Pending # {}
        PROVE  NewClient(config[NextEntry])
    <3>1. NextEntry \in DOMAIN config
      BY <2>2, NextEntryExists DEF Pending
    <3> QED
      BY <3>1, Entries DEF Usable, NewClient, NewRestClientConfig
  <2>3. main # "panicked"
    BY DEF PanicsForTemplate, BadTemplate, Usable
  <2>4. ASSUME NEW i \in Built \cap up
        PROVE  Succeeds(i, CustomOf(i)) /\ Succeeds(i, ExternalOf(i))
    <3>1. i \in DOMAIN config
      <4>1. clients # <<>> /\ i \in DOMAIN file
        BY DEF IInv, ClientsFit, Built
      <4>2. config = From(file)
        BY <4>1 DEF IInv, ConfigFits
      <4> QED
        BY <4>1, <4>2, FromKeeps
    <3>2. /\ config[i].serverType = file[i].serverType /\ i \in DOMAIN file
          /\ config[i].rename = file[i].rename /\ Usable(file[i])
          /\ HasType(config[i], "custom") <=> HasType(file[i], "custom")
      BY <3>1, Entries DEF HasType
    <3>3. CustomOf(i) \in {"none", "asks"}
      <4>1. CASE ~HasType(config[i], "custom")
        BY <4>1 DEF CustomOf
      <4>2. CASE HasType(config[i], "custom") /\ config[i].serverType = "elasticsearch"
        <5>1. /\ file[i].rename # "malformed"
              /\ \A k \in DOMAIN file[i].metricSets : \A j \in DOMAIN file[i].metricSets[k] :
                    file[i].metricSets[k][j].search \in {"none", "wellformed"}
          BY <3>2, <4>2 DEF Usable
        <5>2. /\ file[i] \in MetricServer /\ file[i].serverType = "elasticsearch"
              /\ config[i].rename = file[i].rename
              /\ config[i].metricSets = MetricSets(file[i])
          BY <3>1, <4>2, Entries
        <5>3. discoverMetrics(config[i]) = "asks"
          BY <5>1, <5>2, DiscoverMetrics
        <5> QED
          BY <4>2, <5>3 DEF CustomOf, ListCustomMetricInfos
      <4>3. CASE HasType(config[i], "custom") /\ config[i].serverType # "elasticsearch"
        BY <3>2, <4>3 DEF CustomOf, ListCustomMetricInfos, Usable
      <4> QED
        BY <4>1, <4>2, <4>3
    <3>4. ExternalOf(i) \in {"none", "asks"}
      BY DEF ExternalOf, ListExternalMetrics
    <3> QED
      BY <3>3, <3>4 DEF Succeeds
  <2> QED
    BY <2>1, <2>2, <2>3, <2>4
<1> QED
  BY <1>1, Invariance, PanicsOnlyForTemplates, PTL
=============================================================================
