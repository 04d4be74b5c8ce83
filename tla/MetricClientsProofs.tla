------------------------ MODULE MetricClientsProofs ------------------------
(***************************************************************************)
(* Lemmas about the maps and lists of the registry, for every set of       *)
(* clients and metrics.                                                    *)
(***************************************************************************)
EXTENDS MetricClients, FiniteSetTheorems, SequenceTheorems, TLAPS

Injective(list) == \A i, j \in DOMAIN list : list[i] = list[j] => i = j

\* What a list without repetition is sorted into exists: a client goes to the
\* position that counts the clients of the list it does not outrank.
LEMMA SortExists ==
    ASSUME NEW list \in Seq(Client), Injective(list)
    PROVE  \E sorted \in [DOMAIN list -> ToSet(list)] :
              ToSet(sorted) = ToSet(list) /\ HigherFirst(sorted)
<1> DEFINE n == Len(list)
           S == ToSet(list)
           Above(c) == {d \in S : Priority[d] >= Priority[c]}
           rank == [c \in S |-> Cardinality(Above(c))]
           sorted == [i \in 1..n |-> CHOOSE c \in S : rank[c] = i]
<1>1. n \in Nat /\ DOMAIN list = 1..n /\ S \subseteq Client
  BY DEF ToSet
<1>2. \A c \in S : Priority[c] \in Nat
  BY <1>1, PriorityAssumption
<1>3. IsFiniteSet(S) /\ Cardinality(S) = n
  <2>1. list \in Bijection(1..n, S)
    BY <1>1 DEF Bijection, Injection, Surjection, IsInjective, Injective, ToSet
  <2>2. IsFiniteSet(1..n) /\ Cardinality(1..n) = n
    BY <1>1, FS_Interval
  <2> QED
    BY <2>1, <2>2, FS_Bijection DEF ExistsBijection
<1>4. \A c \in S : /\ IsFiniteSet(Above(c))
                   /\ Cardinality(Above(c)) \in 1..n
  <2> TAKE c \in S
  <2>1. Above(c) \subseteq S /\ c \in Above(c)
    BY <1>2
  <2>2. IsFiniteSet(Above(c)) /\ Cardinality(Above(c)) <= n
    BY <2>1, <1>3, FS_Subset
  <2>3. Cardinality(Above(c)) \in Nat /\ Cardinality(Above(c)) # 0
    BY <2>1, <2>2, FS_CardinalityType, FS_EmptySet
  <2> QED
    BY <2>2, <2>3, <1>1
<1> HIDE DEF Above
<1>5. \A c, d \in S : Priority[c] > Priority[d] => rank[c] < rank[d]
  <2> SUFFICES ASSUME NEW c \in S, NEW d \in S, Priority[c] > Priority[d]
               PROVE  Cardinality(Above(c)) < Cardinality(Above(d))
    OBVIOUS
  <2>1. Above(c) \subseteq Above(d) /\ d \in Above(d) /\ d \notin Above(c)
    BY <1>2 DEF Above
  <2>2. /\ Cardinality(Above(c)) <= Cardinality(Above(d))
        /\ Cardinality(Above(c)) # Cardinality(Above(d))
    BY <2>1, <1>4, FS_Subset
  <2>3. Cardinality(Above(c)) \in Nat /\ Cardinality(Above(d)) \in Nat
    BY <1>4, <1>1
  <2> QED
    BY <2>2, <2>3
<1>6. rank \in [S -> 1..n] /\ \A c, d \in S : rank[c] = rank[d] => c = d
  <2>1. rank \in [S -> 1..n]
    BY <1>4
  <2>2. ASSUME NEW c \in S, NEW d \in S, rank[c] = rank[d]
        PROVE  Priority[c] = Priority[d]
    <3>1. ~(Priority[c] > Priority[d]) /\ ~(Priority[d] > Priority[c])
      BY <1>5, <2>1, <2>2
    <3> QED
      BY <3>1, <1>2
  <2> QED
    BY <2>1, <2>2, <1>1, PriorityAssumption
<1> HIDE DEF rank
<1>7. \A i \in 1..n : \E c \in S : rank[c] = i
  <2>1. rank \in Injection(S, 1..n)
    BY <1>6 DEF Injection, IsInjective
  <2>2. IsFiniteSet(1..n) /\ Cardinality(1..n) = n
    BY <1>1, FS_Interval
  <2>3. rank \in Surjection(S, 1..n)
    BY <2>1, <2>2, <1>3, FS_Injection
  <2> QED
    BY <2>3 DEF Surjection
<1>8. \A i \in 1..n : sorted[i] \in S /\ rank[sorted[i]] = i
  BY <1>7
<1> HIDE DEF sorted
<1>9. ToSet(sorted) = S
  <2>1. DOMAIN sorted = 1..n
    BY DEF sorted
  <2>2. \A c \in S : sorted[rank[c]] = c
    BY <1>6, <1>8
  <2>3. \A c \in S : rank[c] \in 1..n
    BY <1>6
  <2> HIDE DEF S
  <2> QED
    BY <2>1, <2>2, <2>3, <1>8 DEF ToSet
<1>10. HigherFirst(sorted)
  <2>1. DOMAIN sorted = 1..n
    BY DEF sorted
  <2> SUFFICES ASSUME NEW i \in 1..n, NEW j \in 1..n, i < j
               PROVE  Priority[sorted[i]] > Priority[sorted[j]]
    BY <2>1 DEF HigherFirst
  <2>2. sorted[i] \in S /\ sorted[j] \in S /\ sorted[i] # sorted[j]
    BY <1>8
  <2>3. ~(Priority[sorted[j]] > Priority[sorted[i]])
    BY <2>2, <1>5, <1>8
  <2>4. Priority[sorted[i]] # Priority[sorted[j]]
    BY <2>2, <1>1, PriorityAssumption
  <2> QED
    BY <2>2, <2>3, <2>4, <1>2
<1>11. sorted \in [DOMAIN list -> ToSet(list)]
  BY <1>1, <1>8 DEF sorted
<1> QED
  BY <1>9, <1>10, <1>11

\* Sorting keeps the clients of a list without repetition.
LEMMA SortLemma ==
    ASSUME NEW list \in Seq(Client), Injective(list)
    PROVE  /\ SortByPriority(list) \in Seq(Client)
           /\ DOMAIN SortByPriority(list) = DOMAIN list
           /\ ToSet(SortByPriority(list)) = ToSet(list)
           /\ HigherFirst(SortByPriority(list))
<1> DEFINE sorted == SortByPriority(list)
<1>1. /\ sorted \in [DOMAIN list -> ToSet(list)]
      /\ ToSet(sorted) = ToSet(list) /\ HigherFirst(sorted)
  BY SortExists DEF SortByPriority
<1>2. DOMAIN list = 1..Len(list) /\ Len(list) \in Nat /\ ToSet(list) \subseteq Client
  BY DEF ToSet
<1>3. sorted \in Seq(Client)
  <2> HIDE DEF sorted
  <2> QED BY <1>1, <1>2
<1> QED
  BY <1>1, <1>3

OneName(list) ==
    \A i, j \in DOMAIN list : NameOf[list[i]] = NameOf[list[j]] => i = j

\* The clients of a list, apart from those of a given name.
Others(list, name) == {d \in ToSet(list) : NameOf[d] # name}

\* Whether a list has one client per name depends on its set of clients only,
\* once it is sorted.
LEMMA OneNameOfSet ==
    ASSUME NEW list \in Seq(Client), HigherFirst(list),
           \A c, d \in ToSet(list) : NameOf[c] = NameOf[d] => c = d
    PROVE  OneName(list)
<1> SUFFICES ASSUME NEW i \in DOMAIN list, NEW j \in DOMAIN list,
                    NameOf[list[i]] = NameOf[list[j]], i # j
             PROVE  FALSE
  BY DEF OneName
<1>1. list[i] = list[j] /\ list[i] \in Client
  BY DEF ToSet
<1>2. Priority[list[i]] \in Nat
  BY <1>1, PriorityAssumption
<1>3. i \in Nat /\ j \in Nat
  OBVIOUS
<1>4. Priority[list[i]] > Priority[list[j]] \/ Priority[list[j]] > Priority[list[i]]
  BY <1>3 DEF HigherFirst
<1> QED
  BY <1>1, <1>2, <1>4

LEMMA SetOfOneName ==
    ASSUME NEW list \in Seq(Client), OneName(list)
    PROVE  \A c, d \in ToSet(list) : NameOf[c] = NameOf[d] => c = d
  BY DEF ToSet, OneName

\* addOrUpdateClient: the client takes the place of the one of its name.
LEMMA AddLemma ==
    ASSUME NEW list \in Seq(Client), OneName(list), NEW c \in Client
    PROVE  LET new == addOrUpdateClient(list, c)
           IN  /\ new \in Seq(Client) /\ new # <<>>
               /\ ToSet(new) = Others(list, NameOf[c]) \cup {c}
               /\ HigherFirst(new) /\ OneName(new)
<1> DEFINE new == addOrUpdateClient(list, c)
           found == {i \in DOMAIN list : NameOf[list[i]] = NameOf[c]}
           mixed == IF found = {} THEN Append(list, c)
                                  ELSE ReplaceAt(list, Min(found), c)
<1>1. /\ mixed \in Seq(Client) /\ mixed # <<>> /\ OneName(mixed)
      /\ ToSet(mixed) = Others(list, NameOf[c]) \cup {c}
  <2>1. CASE found = {}
    <3>1. mixed = Append(list, c)
      BY <2>1
    <3>2. \A i \in 1..Len(list) : NameOf[list[i]] # NameOf[c]
      BY <2>1
    <3>3. /\ Append(list, c) \in Seq(Client) /\ Append(list, c) # <<>>
          /\ Len(Append(list, c)) = Len(list) + 1
          /\ Append(list, c)[Len(list) + 1] = c
          /\ \A i \in 1..Len(list) : Append(list, c)[i] = list[i]
      OBVIOUS
    <3> HIDE DEF mixed
    <3>4. OneName(Append(list, c))
      BY <3>2, <3>3 DEF OneName
    <3>5. ToSet(Append(list, c)) = Others(list, NameOf[c]) \cup {c}
      BY <3>2, <3>3 DEF ToSet, Others
    <3> QED
      BY <3>1, <3>3, <3>4, <3>5
  <2>2. CASE found # {}
    <3>1. PICK k \in DOMAIN list : NameOf[list[k]] = NameOf[c]
      BY <2>2
    <3>2. found = {k} /\ k \in Nat
      BY <3>1 DEF OneName
    <3>3. Min(found) = k
      BY <3>2 DEF Min
    <3>4. mixed = [list EXCEPT ![k] = c]
      BY <2>2, <3>3 DEF ReplaceAt
    <3> HIDE DEF mixed, found
    <3>5. /\ mixed \in Seq(Client) /\ DOMAIN mixed = DOMAIN list
          /\ mixed[k] = c /\ \A i \in DOMAIN list \ {k} : mixed[i] = list[i]
      BY <3>1, <3>4
    <3>6. \A i \in DOMAIN list \ {k} : NameOf[list[i]] # NameOf[c]
      BY <3>1 DEF OneName
    <3>7. OneName(mixed)
      BY <3>5, <3>6, <3>1 DEF OneName
    <3>8. ToSet(mixed) = Others(list, NameOf[c]) \cup {c}
      BY <3>5, <3>6, <3>1 DEF ToSet, Others
    <3> QED
      BY <3>5, <3>7, <3>8, <3>1
  <2> QED
    BY <2>1, <2>2
<1>2. new = SortByPriority(mixed)
  BY DEF addOrUpdateClient
<1> HIDE DEF mixed, new
<1>3. Injective(mixed)
  BY <1>1 DEF Injective, OneName
<1>4. /\ new \in Seq(Client) /\ DOMAIN new = DOMAIN mixed
      /\ ToSet(new) = ToSet(mixed) /\ HigherFirst(new)
  BY <1>1, <1>2, <1>3, SortLemma
<1>5. new # <<>>
  BY <1>1, <1>4
<1>6. OneName(new)
  <2>1. \A d, e \in ToSet(new) : NameOf[d] = NameOf[e] => d = e
    BY <1>1, <1>4, SetOfOneName
  <2> QED
    BY <1>4, <2>1, OneNameOfSet
<1> QED
  BY <1>1, <1>4, <1>5, <1>6 DEF new

\* removeClient: no client of that name is left, the others are.
LEMMA RemoveLemma ==
    ASSUME NEW list \in Seq(Client), OneName(list), HigherFirst(list), NEW name
    PROVE  LET new == removeClient(list, name)
           IN  /\ new \in Seq(Client)
               /\ ToSet(new) = Others(list, name)
               /\ HigherFirst(new) /\ OneName(new)
<1> DEFINE new == removeClient(list, name)
           found == {i \in DOMAIN list : NameOf[list[i]] = name}
<1>1. CASE found = {}
  <2>1. new = list
    BY <1>1 DEF removeClient
  <2>2. ToSet(list) = Others(list, name)
    BY <1>1 DEF ToSet, Others
  <2> QED
    BY <2>1, <2>2
<1>2. CASE found # {}
  <2>1. PICK k \in DOMAIN list : NameOf[list[k]] = name
    BY <1>2
  <2>2. found = {k} /\ k \in 1..Len(list) /\ Len(list) \in Nat
    BY <2>1 DEF OneName
  <2>3. Min(found) = k
    BY <2>2 DEF Min
  <2> DEFINE shorter == RemoveAt(list, k)
  <2>4. new = SortByPriority(shorter)
    BY <1>2, <2>3 DEF removeClient
  <2> DEFINE old(i) == IF i < k THEN i ELSE i + 1
  <2>5. /\ shorter \in Seq(Client) /\ DOMAIN shorter = 1..(Len(list) - 1)
        /\ \A i \in DOMAIN shorter : shorter[i] = list[old(i)]
    <3> DEFINE before == SubSeq(list, 1, k - 1)
               after  == SubSeq(list, k + 1, Len(list))
    <3>1. /\ before \in Seq(Client) /\ Len(before) = k - 1
          /\ \A i \in 1..(k - 1) : before[i] = list[i]
      BY <2>2
    <3>2. /\ after \in Seq(Client) /\ Len(after) = Len(list) - k
          /\ \A i \in 1..(Len(list) - k) : after[i] = list[k + i]
      BY <2>2
    <3>3. shorter = before \o after
      BY DEF RemoveAt
    <3> HIDE DEF before, after, shorter
    <3>4. shorter \in Seq(Client) /\ Len(shorter) = Len(list) - 1
      BY <3>1, <3>2, <3>3, <2>2
    <3>5. ASSUME NEW i \in 1..(Len(list) - 1), i < k
          PROVE  shorter[i] = list[i]
      BY <3>1, <3>2, <3>3, <3>5, <2>2
    <3>6. ASSUME NEW i \in 1..(Len(list) - 1), ~(i < k)
          PROVE  shorter[i] = list[i + 1]
      <4>1. i - (k - 1) \in 1..(Len(list) - k)
        BY <3>6, <2>2
      <4>2. shorter[i] = after[i - (k - 1)]
        <5>1. i \in 1..(Len(before) + Len(after)) /\ ~(i <= Len(before))
          BY <3>1, <3>2, <3>6, <2>2
        <5>2. (before \o after)[i] = after[i - Len(before)]
          BY <5>1, <3>1, <3>2, ConcatProperties
        <5> QED
          BY <5>2, <3>1, <3>3
      <4>3. k + (i - (k - 1)) = i + 1
        BY <2>2
      <4> QED
        BY <4>1, <4>2, <4>3, <3>2
    <3> QED
      BY <3>4, <3>5, <3>6
  <2>6. /\ \A i \in DOMAIN shorter : old(i) \in DOMAIN list /\ old(i) # k
        /\ \A i, j \in DOMAIN shorter : old(i) = old(j) => i = j
    BY <2>2, <2>5
  <2> HIDE DEF shorter, new, found, old
  <2>7. OneName(shorter)
    BY <2>5, <2>6 DEF OneName
  <2>8. ToSet(shorter) = Others(list, name)
    <3>1. ASSUME NEW i \in DOMAIN shorter
          PROVE  shorter[i] \in Others(list, name)
      <4>1. old(i) \in DOMAIN list /\ old(i) # k /\ shorter[i] = list[old(i)]
        BY <2>5, <2>6
      <4>2. NameOf[list[old(i)]] # name
        BY <4>1, <2>1 DEF OneName
      <4> QED
        BY <4>1, <4>2 DEF Others, ToSet
    <3>2. ASSUME NEW j \in DOMAIN list, j # k
          PROVE  \E i \in DOMAIN shorter : shorter[i] = list[j]
      <4>1. CASE j < k
        <5>1. j \in DOMAIN shorter /\ old(j) = j
          BY <4>1, <2>2, <2>5 DEF old
        <5> QED
          BY <5>1, <2>5
      <4>2. CASE j > k
        <5>1. j - 1 \in DOMAIN shorter /\ old(j - 1) = j
          BY <4>2, <2>2, <2>5 DEF old
        <5> QED
          BY <5>1, <2>5
      <4> QED
        BY <4>1, <4>2, <3>2, <2>2
    <3>3. ToSet(shorter) \subseteq Others(list, name)
      BY <3>1 DEF ToSet
    <3>4. Others(list, name) \subseteq ToSet(shorter)
      BY <3>2, <2>1 DEF ToSet, Others
    <3> QED
      BY <3>3, <3>4
  <2>9. Injective(shorter)
    BY <2>7 DEF OneName, Injective
  <2>10. /\ new \in Seq(Client) /\ ToSet(new) = ToSet(shorter)
         /\ HigherFirst(new)
    BY <2>4, <2>5, <2>9, SortLemma
  <2>11. \A d, e \in ToSet(new) : NameOf[d] = NameOf[e] => d = e
    BY <2>5, <2>7, <2>10, SetOfOneName
  <2>12. OneName(new)
    BY <2>10, <2>11, OneNameOfSet
  <2> QED
    BY <2>8, <2>10, <2>12 DEF new
<1> QED
  BY <1>1, <1>2

-----------------------------------------------------------------------------
WellFormed(metrics) ==
    Listed(metrics) /\ OneClientPerName(metrics) /\ BestFirst(metrics)

\* The clients listed for a metric.
Serving(metrics, m) == IF m \in DOMAIN metrics THEN ToSet(metrics[m]) ELSE {}

\* The first half of an update: who serves a metric that the client has
\* stopped serving loses that client.
LEMMA RemoveOutdatedLemma ==
    ASSUME NEW Metric, NEW metrics, IsRegistryOf(metrics, Metric),
           WellFormed(metrics), NEW name, NEW infos \in SUBSET Metric
    PROVE  LET kept == RemoveOutdated(metrics, name, infos)
           IN  /\ IsRegistryOf(kept, Metric) /\ WellFormed(kept)
               /\ \A m \in Metric \ infos : Serving(kept, m) =
                     {d \in Serving(metrics, m) : NameOf[d] # name}
               /\ \A m \in infos : Serving(kept, m) = Serving(metrics, m)
<1> DEFINE kept == RemoveOutdated(metrics, name, infos)
           outdated == getMetricsFrom(metrics, name) \ infos
           left(m) == IF m \in outdated THEN removeClient(metrics[m], name)
                                        ELSE metrics[m]
           D == {n \in DOMAIN metrics : n \in outdated => left(n) # <<>>}
<1>1. DOMAIN metrics \subseteq Metric /\ \A m \in DOMAIN metrics : metrics[m] \in Seq(Client)
  BY DEF IsRegistryOf
<1>2. \A m \in DOMAIN metrics :
        metrics[m] # <<>> /\ OneName(metrics[m]) /\ HigherFirst(metrics[m])
  BY DEF WellFormed, Listed, OneClientPerName, BestFirst, OneName
<1>3. outdated \subseteq DOMAIN metrics
  BY DEF getMetricsFrom
<1>4. \A m \in DOMAIN metrics :
        /\ left(m) \in Seq(Client) /\ OneName(left(m)) /\ HigherFirst(left(m))
        /\ m \in outdated => ToSet(left(m)) = Others(metrics[m], name)
  BY <1>1, <1>2, RemoveLemma
<1>5. kept = [m \in D |-> left(m)]
  BY DEF RemoveOutdated
<1>6. \A m \in DOMAIN metrics : m \notin outdated => left(m) = metrics[m]
  OBVIOUS
<1>7. \A m \in DOMAIN metrics : m \notin outdated /\ m \notin infos
         => \A d \in ToSet(metrics[m]) : NameOf[d] # name
  BY DEF getMetricsFrom
<1>8. outdated \cap infos = {} /\ D \subseteq DOMAIN metrics
  OBVIOUS
<1>9. /\ \A m \in D : left(m) # <<>>
      /\ \A m \in DOMAIN metrics \ D : m \in outdated /\ left(m) = <<>>
  BY <1>2, <1>6
<1> HIDE DEF kept, outdated, left, D
<1>10. IsRegistryOf(kept, Metric)
  BY <1>1, <1>4, <1>5, <1>8 DEF IsRegistryOf
<1>11. WellFormed(kept)
  BY <1>4, <1>5, <1>8, <1>9
     DEF WellFormed, Listed, OneClientPerName, BestFirst, OneName
<1>12. ASSUME NEW m \in Metric \ infos
       PROVE  Serving(kept, m) = {d \in Serving(metrics, m) : NameOf[d] # name}
  <2>1. CASE m \notin DOMAIN metrics
    BY <2>1, <1>5, <1>8 DEF Serving
  <2>2. CASE m \in D /\ m \in outdated
    BY <2>2, <1>4, <1>5, <1>8 DEF Serving, Others
  <2>3. CASE m \in D /\ m \notin outdated
    BY <2>3, <1>5, <1>6, <1>7, <1>8 DEF Serving
  <2>4. CASE m \in DOMAIN metrics \ D
    <3>1. ToSet(<<>>) = {}
      BY DEF ToSet
    <3>2. Others(metrics[m], name) = {}
      BY <2>4, <3>1, <1>4, <1>9
    <3> QED
      BY <2>4, <3>2, <1>5 DEF Serving, Others
  <2> QED
    BY <2>1, <2>2, <2>3, <2>4
<1>13. ASSUME NEW m \in infos
       PROVE  Serving(kept, m) = Serving(metrics, m)
  BY <1>5, <1>6, <1>8, <1>9 DEF Serving
<1> QED
  BY <1>10, <1>11, <1>12, <1>13 DEF kept

\* An update by a client: the lists stay well formed, and a metric is served
\* by the clients of other names that served it and by the client itself when
\* it announces the metric.
LEMMA UpdateLemma ==
    ASSUME NEW Metric, NEW metrics, IsRegistryOf(metrics, Metric),
           WellFormed(metrics), NEW c \in Client, NEW infos \in SUBSET Metric
    PROVE  LET new == UpdateMetrics(metrics, c, infos)
           IN  /\ IsRegistryOf(new, Metric) /\ WellFormed(new)
               /\ \A m \in Metric : Serving(new, m) =
                     {d \in Serving(metrics, m) : NameOf[d] # NameOf[c]}
                        \cup (IF m \in infos THEN {c} ELSE {})
<1> DEFINE new == UpdateMetrics(metrics, c, infos)
           kept == RemoveOutdated(metrics, NameOf[c], infos)
           list(m) == IF m \in DOMAIN kept THEN kept[m] ELSE <<>>
           D == DOMAIN kept \cup infos
<1>1. /\ IsRegistryOf(kept, Metric) /\ WellFormed(kept)
      /\ \A m \in Metric \ infos : Serving(kept, m) =
            {d \in Serving(metrics, m) : NameOf[d] # NameOf[c]}
      /\ \A m \in infos : Serving(kept, m) = Serving(metrics, m)
  BY RemoveOutdatedLemma
<1>2. new = [m \in D |-> IF m \in infos THEN addOrUpdateClient(list(m), c)
                                        ELSE list(m)]
  BY DEF UpdateMetrics
<1>3. /\ DOMAIN kept \subseteq Metric
      /\ \A m \in DOMAIN kept :
            /\ kept[m] \in Seq(Client) /\ kept[m] # <<>>
            /\ OneName(kept[m]) /\ HigherFirst(kept[m])
  <2> HIDE DEF kept
  <2> QED
    BY <1>1 DEF IsRegistryOf, WellFormed, Listed, OneClientPerName, BestFirst, OneName
<1> HIDE DEF kept
<1>4. ASSUME NEW m
      PROVE  /\ list(m) \in Seq(Client) /\ OneName(list(m))
             /\ ToSet(list(m)) = Serving(kept, m)
  <2>1. <<>> \in Seq(Client) /\ OneName(<<>>) /\ ToSet(<<>>) = {}
    BY DEF OneName, ToSet
  <2> QED
    BY <2>1, <1>3 DEF Serving
<1>5. \A m \in DOMAIN kept : list(m) = kept[m]
  OBVIOUS
<1>6. \A m : m \notin DOMAIN kept => Serving(kept, m) = {}
  BY DEF Serving
<1> HIDE DEF list
<1>7. ASSUME NEW m \in infos
      PROVE  /\ new[m] \in Seq(Client) /\ new[m] # <<>>
             /\ OneName(new[m]) /\ HigherFirst(new[m])
             /\ ToSet(new[m]) =
                   {d \in Serving(metrics, m) : NameOf[d] # NameOf[c]} \cup {c}
  <2>1. new[m] = addOrUpdateClient(list(m), c)
    BY <1>2
  <2> HIDE DEF new
  <2>2. Others(list(m), NameOf[c]) =
           {d \in Serving(metrics, m) : NameOf[d] # NameOf[c]}
    BY <1>1, <1>4 DEF Others
  <2> QED
    BY <1>4, <2>1, <2>2, AddLemma
<1>8. ASSUME NEW m \in DOMAIN kept \ infos
      PROVE  /\ new[m] = kept[m]
             /\ ToSet(new[m]) =
                   {d \in Serving(metrics, m) : NameOf[d] # NameOf[c]}
  <2>1. new[m] = kept[m]
    BY <1>2, <1>5
  <2> QED
    BY <2>1, <1>1, <1>3, <1>5, <1>4
<1>9. DOMAIN new = DOMAIN kept \cup infos /\ DOMAIN new \subseteq Metric
  BY <1>2, <1>3
<1>10. /\ \A m \in DOMAIN new :
            /\ new[m] \in Seq(Client) /\ new[m] # <<>>
            /\ OneName(new[m]) /\ HigherFirst(new[m])
  BY <1>3, <1>7, <1>8, <1>9
<1>11. new = [m \in DOMAIN new |-> new[m]]
  BY <1>2
<1> HIDE DEF new
<1>12. IsRegistryOf(new, Metric)
  BY <1>9, <1>10, <1>11 DEF IsRegistryOf
<1>13. WellFormed(new)
  BY <1>10 DEF WellFormed, Listed, OneClientPerName, BestFirst, OneName
<1>14. ASSUME NEW m \in Metric
       PROVE  Serving(new, m) =
                {d \in Serving(metrics, m) : NameOf[d] # NameOf[c]}
                   \cup (IF m \in infos THEN {c} ELSE {})
  <2>1. CASE m \in infos
    BY <2>1, <1>7, <1>9 DEF Serving
  <2>2. CASE m \in DOMAIN kept \ infos
    BY <2>2, <1>8, <1>9 DEF Serving
  <2>3. CASE m \notin DOMAIN new
    BY <2>3, <1>1, <1>6, <1>9 DEF Serving
  <2> QED
    BY <2>1, <2>2, <2>3, <1>9
<1> QED
  BY <1>12, <1>13, <1>14 DEF new

-----------------------------------------------------------------------------
\* A lookup in a well-formed map: the client it gives is one of those that
\* serve the metric, and none of them has a higher priority.
LEMMA LookupLemma ==
    ASSUME NEW Metric, NEW metrics, IsRegistryOf(metrics, Metric),
           WellFormed(metrics), NEW m \in Metric
    PROVE  \/ /\ GetMetricClient(metrics, m) = NotFound
              /\ Serving(metrics, m) = {}
           \/ \E c \in Serving(metrics, m) :
                 /\ c \in Client /\ GetMetricClient(metrics, m) = Client200(c)
                 /\ \A d \in Serving(metrics, m) : Priority[d] <= Priority[c]
<1>1. CASE m \notin DOMAIN metrics
  BY <1>1 DEF GetMetricClient, Serving
<1>2. CASE m \in DOMAIN metrics
  <2> DEFINE list == metrics[m]
             c == list[1]
  <2>1. list \in Seq(Client) /\ list # <<>> /\ HigherFirst(list)
    BY <1>2 DEF IsRegistryOf, WellFormed, Listed, BestFirst
  <2>2. GetMetricClient(metrics, m) = Client200(c)
    BY <1>2, <2>1 DEF GetMetricClient
  <2> HIDE DEF list
  <2>3. 1 \in DOMAIN list /\ c \in Client /\ c \in ToSet(list)
    BY <2>1 DEF ToSet
  <2>4. ASSUME NEW i \in DOMAIN list
        PROVE  Priority[list[i]] <= Priority[c]
    <3>1. list[i] \in Client /\ (i = 1 \/ 1 < i)
      BY <2>1
    <3>2. Priority[list[i]] \in Nat /\ Priority[c] \in Nat
      BY <2>3, <3>1, PriorityAssumption
    <3>3. CASE i = 1
      BY <3>2, <3>3
    <3>4. CASE 1 < i
      <4>1. Priority[c] > Priority[list[i]]
        BY <2>1, <2>3, <3>4 DEF HigherFirst
      <4> QED
        BY <3>2, <4>1
    <3> QED
      BY <3>1, <3>3, <3>4
  <2>5. \A d \in ToSet(list) : Priority[d] <= Priority[c]
    BY <2>4 DEF ToSet
  <2>6. Serving(metrics, m) = ToSet(list)
    BY <1>2 DEF Serving, list
  <2> QED
    BY <2>2, <2>3, <2>5, <2>6
<1> QED
  BY <1>1, <1>2

-----------------------------------------------------------------------------
\* ServedBy reads the lists the other way round: from the
\* clients of each metric to the metrics of each client.
LEMMA ServedByServing ==
    ASSUME NEW Metric, NEW metrics, IsRegistryOf(metrics, Metric)
    PROVE  /\ ServedBy(metrics) \in [Client -> SUBSET Metric]
           /\ \A c \in Client : \A m \in Metric :
                 m \in ServedBy(metrics)[c] <=> c \in Serving(metrics, m)
           /\ \A m \in Metric : Serving(metrics, m) \subseteq Client
<1>1. DOMAIN metrics \subseteq Metric /\ \A m \in DOMAIN metrics : metrics[m] \in Seq(Client)
  BY DEF IsRegistryOf
<1>2. \A m \in DOMAIN metrics : ToSet(metrics[m]) \subseteq Client
  BY <1>1 DEF ToSet
<1> QED
  BY <1>1, <1>2 DEF ServedBy, Serving

\* Whatever names clients share, an update makes the client serve exactly what
\* it announces, and gives nothing to another client.
LEMMA UpdateGivesNobodyElse ==
    ASSUME NEW Metric, NEW metrics, IsRegistryOf(metrics, Metric),
           WellFormed(metrics), NEW c \in Client, NEW infos \in SUBSET Metric
    PROVE  LET new == UpdateMetrics(metrics, c, infos)
           IN  /\ ServedBy(new)[c] = infos
               /\ \A d \in Client \ {c} : ServedBy(new)[d] \subseteq ServedBy(metrics)[d]
<1> DEFINE new == UpdateMetrics(metrics, c, infos)
<1>1. /\ IsRegistryOf(new, Metric)
      /\ \A m \in Metric : Serving(new, m) =
            {d \in Serving(metrics, m) : NameOf[d] # NameOf[c]}
               \cup (IF m \in infos THEN {c} ELSE {})
  BY UpdateLemma
<1> HIDE DEF new
<1>2. /\ ServedBy(new) \in [Client -> SUBSET Metric]
      /\ ServedBy(metrics) \in [Client -> SUBSET Metric]
  BY <1>1, ServedByServing
<1>3. \A m \in Metric : m \in ServedBy(new)[c] <=> m \in infos
  BY <1>1, ServedByServing
<1>4. \A d \in Client \ {c} : \A m \in Metric :
         m \in ServedBy(new)[d] => m \in ServedBy(metrics)[d]
  BY <1>1, ServedByServing
<1> QED
  BY <1>2, <1>3, <1>4 DEF new

LEMMA AnnouncedByServing ==
    ASSUME NEW Metric, NEW metrics, IsRegistryOf(metrics, Metric), NEW n \in Name
    PROVE  /\ AnnouncedBy(metrics)[n] \subseteq Metric
           /\ \A m \in Metric : m \in AnnouncedBy(metrics)[n] <=>
                 \E d \in Serving(metrics, m) : NameOf[d] = n
<1>1. DOMAIN metrics \subseteq Metric
  BY DEF IsRegistryOf
<1> QED
  BY <1>1 DEF AnnouncedBy, getMetricsFrom, Serving

\* An update replaces what its name announces, and concerns no other name.
LEMMA UpdateAnnouncesName ==
    ASSUME NEW Metric, NEW metrics, IsRegistryOf(metrics, Metric),
           WellFormed(metrics), NEW c \in Client, NEW infos \in SUBSET Metric
    PROVE  AnnouncedBy(UpdateMetrics(metrics, c, infos)) =
             [AnnouncedBy(metrics) EXCEPT ![NameOf[c]] = infos]
<1> DEFINE new == UpdateMetrics(metrics, c, infos)
<1>1. /\ IsRegistryOf(new, Metric)
      /\ \A m \in Metric : Serving(new, m) =
            {d \in Serving(metrics, m) : NameOf[d] # NameOf[c]}
               \cup (IF m \in infos THEN {c} ELSE {})
  BY UpdateLemma
<1> HIDE DEF new
<1>2. ASSUME NEW n \in Name
      PROVE  AnnouncedBy(new)[n] = IF n = NameOf[c] THEN infos ELSE AnnouncedBy(metrics)[n]
  <2>1. \A m \in Metric : m \in AnnouncedBy(new)[n] <=>
           IF n = NameOf[c] THEN m \in infos ELSE m \in AnnouncedBy(metrics)[n]
    BY <1>1, AnnouncedByServing
  <2>2. AnnouncedBy(new)[n] \subseteq Metric /\ AnnouncedBy(metrics)[n] \subseteq Metric
    BY <1>1, AnnouncedByServing
  <2> QED
    BY <2>1, <2>2
<1>3. DOMAIN AnnouncedBy(new) = Name /\ DOMAIN AnnouncedBy(metrics) = Name
  BY DEF AnnouncedBy
<1>4. AnnouncedBy(new) = [n \in Name |-> AnnouncedBy(new)[n]]
  BY DEF AnnouncedBy
<1> QED
  BY <1>2, <1>3, <1>4 DEF new

LEMMA LookupFinds ==
    ASSUME NEW Metric, NEW metrics, IsRegistryOf(metrics, Metric),
           WellFormed(metrics), NEW m \in Metric
    PROVE  Finds(GetMetricClient(metrics, m), metrics, m)
<1>1. \A n \in Name :
         m \in AnnouncedBy(metrics)[n] <=> \E d \in Serving(metrics, m) : NameOf[d] = n
  BY AnnouncedByServing
<1>2. \A d \in Client : NameOf[d] \in Name
  BY NameAssumption
<1> QED
  BY <1>1, <1>2, LookupLemma DEF Finds

\* An update replaces what the client serves and nothing else.
LEMMA UpdateAnnounces ==
    ASSUME DistinctNames, NEW Metric, NEW metrics, IsRegistryOf(metrics, Metric),
           WellFormed(metrics), NEW c \in Client, NEW infos \in SUBSET Metric
    PROVE  ServedBy(UpdateMetrics(metrics, c, infos)) =
             [ServedBy(metrics) EXCEPT ![c] = infos]
<1> DEFINE new == UpdateMetrics(metrics, c, infos)
<1>1. /\ IsRegistryOf(new, Metric)
      /\ \A m \in Metric : Serving(new, m) =
            {d \in Serving(metrics, m) : NameOf[d] # NameOf[c]}
               \cup (IF m \in infos THEN {c} ELSE {})
  BY UpdateLemma
<1> HIDE DEF new
<1>2. \A d \in Client : NameOf[d] = NameOf[c] <=> d = c
  BY DEF DistinctNames
<1>3. \A d \in Client : \A m \in Metric :
         m \in ServedBy(new)[d] <=>
            IF d = c THEN m \in infos ELSE m \in ServedBy(metrics)[d]
  BY <1>1, <1>2, ServedByServing
<1>4. /\ ServedBy(new) \in [Client -> SUBSET Metric]
      /\ ServedBy(metrics) \in [Client -> SUBSET Metric]
  BY <1>1, ServedByServing
<1>5. \A d \in Client : ServedBy(new)[d] =
         IF d = c THEN infos ELSE ServedBy(metrics)[d]
  BY <1>3, <1>4
<1> QED
  BY <1>4, <1>5 DEF new
=============================================================================
