-------------------------- MODULE MonitoringProofs --------------------------
(***************************************************************************)
(* Proofs about the monitoring server and readyHandler, for any servers,   *)
(* names and threshold.                                                    *)
(***************************************************************************)
EXTENDS ReadyHandler, TLAPS

\* The names the successes of a type are counted for.
LEMMA NamesType == \A t : NamesOf(t) \subseteq Name
BY NameAssumption DEF NamesOf

LEMMA ThresholdType == FailureThreshold \in Nat \ {0}
BY ThresholdAssumption DEF FailureThreshold, defaultFailureThreshold

LEMMA IncrementType ==
    ASSUME NEW max \in Nat, NEW n \in 0..max
    PROVE  Increment(n, max) \in 0..max
BY DEF Increment

\* A report writes the counters of one type and one name.
LEMMA FailureWritten ==
    ASSUME TypeOK, NEW c \in Client, NEW t \in MetricType, NEW k \in 0..FailureThreshold,
           clientFailures' = [clientFailures EXCEPT ![t][NameOf[c]] = k]
    PROVE  /\ clientFailures' \in [MetricType -> [Name -> 0..FailureThreshold]]
           /\ clientFailures'[t][NameOf[c]] = k
           /\ \A u \in MetricType, n \in Name : u # t \/ n # NameOf[c] =>
                 clientFailures'[u][n] = clientFailures[u][n]
<1>1. NameOf[c] \in Name
  BY NameAssumption
<1>2. clientFailures \in [MetricType -> [Name -> 0..FailureThreshold]]
  BY DEF TypeOK
<1> QED
  BY <1>1, <1>2

LEMMA SuccessWritten ==
    ASSUME TypeOK, NEW c \in Client, NEW t \in MetricType, HasType(c, t),
           clientSuccesses' =
               [clientSuccesses EXCEPT ![t][NameOf[c]] = Increment(@, MaxSuccesses)]
    PROVE  /\ DOMAIN clientSuccesses' = MetricType
           /\ \A u \in MetricType : clientSuccesses'[u] \in [NamesOf(u) -> 0..MaxSuccesses]
           /\ clientSuccesses'[t][NameOf[c]] # 0
           /\ \A u \in MetricType : \A n \in NamesOf(u) :
                 /\ clientSuccesses[u][n] # 0 => clientSuccesses'[u][n] # 0
                 /\ u # t \/ n # NameOf[c] =>
                       clientSuccesses'[u][n] = clientSuccesses[u][n]
<1>1. NameOf[c] \in NamesOf(t)
  BY DEF NamesOf
<1>2. \A u \in MetricType : clientSuccesses[u] \in [NamesOf(u) -> 0..1]
  BY DEF TypeOK, MaxSuccesses
<1>3. DOMAIN clientSuccesses = MetricType
  BY DEF TypeOK
<1>4. clientSuccesses'[t] = [clientSuccesses[t] EXCEPT ![NameOf[c]] = Increment(@, MaxSuccesses)]
  BY <1>3
<1>5. \A u \in MetricType : u # t => clientSuccesses'[u] = clientSuccesses[u]
  BY <1>3
<1>6. clientSuccesses'[t][NameOf[c]] = 1
  BY <1>1, <1>2, <1>4 DEF Increment, MaxSuccesses
<1>7. \A n \in NamesOf(t) : n # NameOf[c] => clientSuccesses'[t][n] = clientSuccesses[t][n]
  BY <1>2, <1>4
<1>8. clientSuccesses'[t] \in [NamesOf(t) -> 0..1]
  <2>1. clientSuccesses[t] \in [NamesOf(t) -> 0..1]
    BY <1>2
  <2>2. Increment(clientSuccesses[t][NameOf[c]], MaxSuccesses) \in 0..1
    BY <1>1, <2>1 DEF Increment, MaxSuccesses
  <2> QED
    BY <1>4, <2>1, <2>2
<1>9. DOMAIN clientSuccesses' = MetricType
  BY <1>3
<1> QED
  BY <1>2, <1>5, <1>6, <1>7, <1>8, <1>9 DEF MaxSuccesses

LEMMA TypeInit == Init => TypeOK
BY ThresholdType DEF Init, TypeOK, MaxSuccesses

LEMMA FailsType ==
    ASSUME TypeOK, NEW c \in Client, NEW t \in MetricType, OnError(c, t)
    PROVE  TypeOK'
<1> DEFINE k == Increment(clientFailures[t][NameOf[c]], FailureThreshold)
<1>1. k \in 0..FailureThreshold
  BY IncrementType, ThresholdType, NameAssumption DEF TypeOK
<1>2. clientFailures' = [clientFailures EXCEPT ![t][NameOf[c]] = k]
  BY DEF OnError
<1> HIDE DEF k
<1>3. clientFailures' \in [MetricType -> [Name -> 0..FailureThreshold]]
  BY <1>1, <1>2, FailureWritten
<1> QED
  BY <1>3 DEF TypeOK, OnError

LEMMA SucceedsType ==
    ASSUME TypeOK, NEW c \in Client, NEW t \in MetricType, HasType(c, t), Update(c, t)
    PROVE  TypeOK'
<1>1. clientFailures' \in [MetricType -> [Name -> 0..FailureThreshold]]
  <2>1. clientFailures' = [clientFailures EXCEPT ![t][NameOf[c]] = 0]
    BY DEF Update
  <2>2. 0 \in 0..FailureThreshold
    BY ThresholdType
  <2> QED
    BY <2>1, <2>2, FailureWritten
<1>2. /\ DOMAIN clientSuccesses' = MetricType
      /\ \A u \in MetricType : clientSuccesses'[u] \in [NamesOf(u) -> 0..MaxSuccesses]
  BY SuccessWritten DEF Update
<1> QED
  BY <1>1, <1>2 DEF TypeOK

\* The monitoring server is the only one to write its counters.
LEMMA ReportType ==
    ASSUME TypeOK, NEW c \in Client, NEW t \in MetricType, Report(c, t)
    PROVE  TypeOK'
<1>1. CASE Fails(c, t)
  BY <1>1, FailsType DEF Fails
<1>2. CASE Succeeds(c, t)
  BY <1>2, SucceedsType DEF Succeeds, Report
<1> QED
  BY <1>1, <1>2 DEF Report

LEMMA HandlerType == TypeOK /\ [HandlerNext]_handlerVars => TypeOK'
<1> SUFFICES ASSUME TypeOK, [HandlerNext]_handlerVars PROVE TypeOK'
  OBVIOUS
<1>1. ASSUME NEW c \in Client, NEW t \in MetricType, Report(c, t)
      PROVE  TypeOK'
  BY <1>1, ReportType
<1>2. CASE UNCHANGED vars
  BY <1>2 DEF vars, TypeOK
<1>3. CASE Evaluate \/ (\E n \in Name : EncodeEntry(n)) \/ NextMap \/ Respond
  BY <1>2, <1>3 DEF Evaluate, EncodeEntry, NextMap, Respond, historyVars
<1> QED
  BY <1>1, <1>2, <1>3 DEF HandlerNext, handlerVars, historyVars

\* The counters of the monitoring server have their type (OnError, Update, and
\* readyHandler, which only reads them).
THEOREM TypeCorrect == HandlerSpec => []TypeOK
<1>1. HandlerInit => TypeOK
  BY TypeInit DEF HandlerInit, HInit
<1> QED
  BY <1>1, HandlerType, PTL DEF HandlerSpec

-----------------------------------------------------------------------------
\* Once everything was retrieved, it stays so.
AllRetrieved == \A t \in MetricType : \A n \in NamesOf(t) : clientSuccesses[t][n] # 0

\* The entries a probe has still to read are those of the map it is at, and
\* what a 200 decided on stays as it was.
ProbeFits ==
    /\ probe \in [at : 0..5, unread : SUBSET Name, status : {0, 200, 503},
                  showsFailing : BOOLEAN, showsMissing : BOOLEAN]
    /\ probe.at \in DOMAIN Maps => probe.unread \subseteq Entries(probe.at)
    /\ probe.status = 200 => AllRetrieved
    /\ ReadyShowsNoMissing

LEMMA ReadyRetrieved ==
    ASSUME TypeOK, isReadyAndHealthy
    PROVE  AllRetrieved
<1> SUFFICES ASSUME NEW t \in MetricType, NEW n \in NamesOf(t)
             PROVE  clientSuccesses[t][n] # 0
  BY DEF AllRetrieved
<1>1. PICK c \in Client : n = NameOf[c]
  BY DEF NamesOf
<1>2. n \in DOMAIN clientSuccesses[t]
  BY DEF TypeOK
<1> QED
  BY <1>1, <1>2 DEF isReadyAndHealthy, Synced

LEMMA ReportRetrieved ==
    ASSUME TypeOK, AllRetrieved, NEW c \in Client, NEW t \in MetricType, Report(c, t)
    PROVE  AllRetrieved'
<1>1. CASE Fails(c, t)
  BY <1>1 DEF Fails, OnError, AllRetrieved
<1>2. CASE Succeeds(c, t)
  <2>1. /\ HasType(c, t)
        /\ clientSuccesses' =
              [clientSuccesses EXCEPT ![t][NameOf[c]] = Increment(@, MaxSuccesses)]
    BY <1>2 DEF Report, Succeeds, Update
  <2> QED
    BY <2>1, SuccessWritten DEF AllRetrieved
<1> QED
  BY <1>1, <1>2 DEF Report

LEMMA MapsType ==
    /\ DOMAIN Maps = 1..4 /\ Len(Maps) = 4
    /\ \A k \in DOMAIN Maps : Maps[k][2] \in MetricType
BY DEF Maps, MetricType

LEMMA EntriesType == \A k : Entries(k) \subseteq Name
BY NamesType DEF Entries

LEMMA ProbeStep ==
    ASSUME TypeOK, ProbeFits, [HandlerNext]_handlerVars
    PROVE  ProbeFits'
<1>1. ASSUME NEW c \in Client, NEW t \in MetricType, Report(c, t)
      PROVE  ProbeFits'
  BY <1>1, ReportRetrieved DEF Report, ProbeFits, ReadyShowsNoMissing, Entries
<1>2. CASE Evaluate
  <2> DEFINE status == IF isReadyAndHealthy THEN 200 ELSE 503
  <2>1. probe' = [at |-> 1, unread |-> Entries(1), status |-> status,
                  showsFailing |-> FALSE, showsMissing |-> FALSE]
    <3>1. probe' = [NoProbe EXCEPT !.at = 1, !.unread = Entries(1), !.status = status]
      BY <1>2 DEF Evaluate
    <3> HIDE DEF status
    <3> QED
      BY <3>1 DEF NoProbe
  <2>2. UNCHANGED <<clientSuccesses>>
    BY <1>2 DEF Evaluate, historyVars, vars
  <2>3. probe'.status = 200 => AllRetrieved'
    BY <2>1, <2>2, ReadyRetrieved DEF AllRetrieved
  <2> QED
    BY <2>1, <2>3, EntriesType DEF ProbeFits, ReadyShowsNoMissing, Entries
<1>3. ASSUME NEW n \in Name, EncodeEntry(n)
      PROVE  ProbeFits'
  <2> DEFINE counted == Maps[probe.at][1]
             type    == Maps[probe.at][2]
             failing == probe.showsFailing \/ (counted = "failures" /\ clientFailures[type][n] >= FailureThreshold)
             missing == probe.showsMissing \/ (counted = "successes" /\ clientSuccesses[type][n] = 0)
  <2>1. probe' = [at |-> probe.at, unread |-> probe.unread \ {n}, status |-> probe.status,
                  showsFailing |-> failing, showsMissing |-> missing]
    BY <1>3 DEF EncodeEntry, ProbeFits
  <2>2. UNCHANGED <<clientSuccesses>>
    BY <1>3 DEF EncodeEntry, historyVars, vars
  <2>3. probe.at \in DOMAIN Maps /\ n \in Entries(probe.at)
    BY <1>3 DEF EncodeEntry, ProbeFits
  <2>4. type \in MetricType
    BY <2>3, MapsType
  <2>5. probe.status = 200 => ~missing
    <3> SUFFICES ASSUME probe.status = 200, counted = "successes"
                 PROVE  clientSuccesses[type][n] # 0
      BY DEF ProbeFits, ReadyShowsNoMissing
    <3>1. n \in NamesOf(type)
      BY <2>3 DEF Entries
    <3> QED
      BY <3>1, <2>4 DEF ProbeFits, AllRetrieved
  <2>6. failing \in BOOLEAN /\ missing \in BOOLEAN
    OBVIOUS
  <2> HIDE DEF failing, missing
  <2>7. probe'.status = 200 => AllRetrieved'
    BY <2>1, <2>2 DEF ProbeFits, AllRetrieved
  <2>8. ReadyShowsNoMissing'
    BY <2>1, <2>5 DEF ReadyShowsNoMissing
  <2> QED
    BY <2>1, <2>6, <2>7, <2>8 DEF ProbeFits, Entries
<1>4. CASE NextMap
  <2> DEFINE left == IF probe.at < Len(Maps) THEN Entries(probe.at + 1) ELSE {}
  <2>1. probe' = [at |-> probe.at + 1, unread |-> left, status |-> probe.status,
                  showsFailing |-> probe.showsFailing, showsMissing |-> probe.showsMissing]
    BY <1>4 DEF NextMap, ProbeFits
  <2>2. UNCHANGED <<clientSuccesses>>
    BY <1>4 DEF NextMap, historyVars, vars
  <2>3. probe.at \in 1..4
    BY <1>4, MapsType DEF NextMap
  <2>4. left \subseteq Name
    BY EntriesType
  <2>5. probe'.at \in DOMAIN Maps => probe'.unread \subseteq Entries(probe'.at)
    BY <2>1, <2>3, MapsType
  <2> HIDE DEF left
  <2> QED
    BY <2>1, <2>2, <2>3, <2>4, <2>5 DEF ProbeFits, ReadyShowsNoMissing, AllRetrieved, Entries
<1>5. CASE Respond
  BY <1>5, MapsType DEF Respond, NoProbe, ProbeFits, ReadyShowsNoMissing
<1>6. CASE UNCHANGED handlerVars
  BY <1>6 DEF handlerVars, historyVars, vars, ProbeFits, ReadyShowsNoMissing, AllRetrieved, Entries
<1> QED
  BY <1>1, <1>2, <1>3, <1>4, <1>5, <1>6 DEF HandlerNext

\* Although its body is read after the lock was released, a response 200 shows no
\* server that was not retrieved yet, for any number of servers, also when they
\* share a name (readyHandler, isReadyAndHealthy).
THEOREM NeverShowsMissing == HandlerSpec => []ReadyShowsNoMissing
<1>1. HandlerInit => ProbeFits
  BY MapsType DEF HandlerInit, NoProbe, ProbeFits, ReadyShowsNoMissing
<1>2. ProbeFits => ReadyShowsNoMissing
  BY DEF ProbeFits
<1>3. TypeOK /\ ProbeFits /\ [HandlerNext]_handlerVars => ProbeFits'
  BY ProbeStep
<1> QED
  BY <1>1, <1>2, <1>3, TypeCorrect, PTL DEF HandlerSpec

-----------------------------------------------------------------------------
(* Readiness and history *)

Results == {"ok", "error"}

\* k is the number of errors the outcomes s end with.
Counts(k, s) ==
    /\ k <= Len(s) /\ Len(s) <= FailureThreshold
    /\ \A i \in 1..Len(s) : i > Len(s) - k => s[i] = "error"
    /\ k < Len(s) => s[Len(s) - k] # "error"

LEMMA KeepAppend ==
    ASSUME NEW s \in Seq(Results), Len(s) <= FailureThreshold, NEW x \in Results
    PROVE  LET kept == Keep(Append(s, x)) IN
           /\ kept \in Seq(Results)
           /\ Len(kept) = IF Len(s) < FailureThreshold THEN Len(s) + 1 ELSE Len(s)
           /\ kept[Len(kept)] = x
           /\ \A i \in 1..(Len(kept) - 1) :
                 kept[i] = IF Len(s) < FailureThreshold THEN s[i] ELSE s[i + 1]
<1> DEFINE a == Append(s, x)
<1>1. a \in Seq(Results) /\ Len(a) = Len(s) + 1 /\ a[Len(a)] = x
  OBVIOUS
<1>2. \A i \in 1..Len(s) : a[i] = s[i]
  OBVIOUS
<1>3. FailureThreshold \in Nat \ {0} /\ Len(s) \in Nat
  BY ThresholdType
<1>4. CASE Len(s) < FailureThreshold
  <2>1. Keep(a) = a
    BY <1>1, <1>3, <1>4 DEF Keep
  <2> QED
    BY <1>1, <1>2, <1>3, <1>4, <2>1
<1>5. CASE Len(s) = FailureThreshold
  <2>1. Keep(a) = Tail(a)
    BY <1>1, <1>3, <1>5 DEF Keep
  <2>2. Tail(a) \in Seq(Results) /\ Len(Tail(a)) = Len(s)
    BY <1>1, <1>3
  <2>3. \A i \in 1..Len(s) : Tail(a)[i] = a[i + 1]
    BY <1>1, <1>3
  <2> HIDE DEF a
  <2>4. Tail(a)[Len(s)] = x
    BY <1>1, <1>3, <1>5, <2>3
  <2>5. ASSUME NEW i \in 1..(Len(s) - 1)
        PROVE  Tail(a)[i] = s[i + 1]
    <3>1. i \in 1..Len(s) /\ i + 1 \in 1..Len(s)
      BY <1>3
    <3> QED
      BY <3>1, <1>2, <2>3
  <2> DEFINE kept == Tail(a)
  <2>6. Len(kept) = Len(s)
    BY <2>2
  <2>7. kept \in Seq(Results) /\ kept[Len(kept)] = x
    BY <2>2, <2>4, <2>6
  <2>8. \A i \in 1..(Len(kept) - 1) : kept[i] = s[i + 1]
    BY <2>5, <2>6
  <2> HIDE DEF kept
  <2>9. Keep(a) = kept
    BY <2>1 DEF kept
  <2> QED
    BY <1>3, <1>5, <2>6, <2>7, <2>8, <2>9 DEF a
<1> QED
  BY <1>3, <1>4, <1>5

LEMMA CountsError ==
    ASSUME NEW s \in Seq(Results), NEW k \in Nat, Counts(k, s)
    PROVE  Counts(Increment(k, FailureThreshold), Keep(Append(s, "error")))
<1> DEFINE kept == Keep(Append(s, "error"))
<1>1. /\ kept \in Seq(Results)
      /\ Len(kept) = IF Len(s) < FailureThreshold THEN Len(s) + 1 ELSE Len(s)
      /\ kept[Len(kept)] = "error"
      /\ \A i \in 1..(Len(kept) - 1) :
            kept[i] = IF Len(s) < FailureThreshold THEN s[i] ELSE s[i + 1]
  BY KeepAppend DEF Counts, Results
<1>2. FailureThreshold \in Nat \ {0} /\ Len(s) \in Nat /\ Len(kept) \in Nat
  BY <1>1, ThresholdType
<1> HIDE DEF kept
<1> DEFINE j == Increment(k, FailureThreshold)
<1>3. k <= Len(s) /\ k \in Nat /\ j \in Nat /\ Len(s) <= FailureThreshold
  BY <1>2 DEF Counts, Increment
<1>4. j <= Len(kept) /\ Len(kept) <= FailureThreshold
  BY <1>1, <1>2, <1>3 DEF Increment
<1>5. ASSUME NEW i \in 1..Len(kept), i > Len(kept) - j
      PROVE  kept[i] = "error"
  <2>1. CASE i = Len(kept)
    BY <2>1, <1>1
  <2>2. CASE i # Len(kept)
    <3> DEFINE m == IF Len(s) < FailureThreshold THEN i ELSE i + 1
    <3>1. i \in 1..(Len(kept) - 1)
      BY <2>2, <1>2
    <3>2. m \in 1..Len(s) /\ m > Len(s) - k
      <4>1. CASE Len(s) < FailureThreshold
        <5>1. m = i /\ Len(kept) = Len(s) + 1 /\ j = k + 1
          BY <4>1, <1>1, <1>2, <1>3 DEF Increment
        <5> HIDE DEF j, m
        <5> QED
          BY <5>1, <3>1, <1>2, <1>3, <1>5
      <4>2. CASE Len(s) = FailureThreshold
        <5>1. m = i + 1 /\ Len(kept) = Len(s) /\ j <= k + 1
          BY <4>2, <1>1, <1>2, <1>3 DEF Increment
        <5> HIDE DEF j, m
        <5> QED
          BY <5>1, <3>1, <1>2, <1>3, <1>5
      <4> QED
        BY <4>1, <4>2, <1>2, <1>3
    <3>3. kept[i] = s[m]
      BY <3>1, <1>1
    <3>4. \A l \in 1..Len(s) : l > Len(s) - k => s[l] = "error"
      BY DEF Counts
    <3> HIDE DEF m
    <3> QED
      BY <3>2, <3>3, <3>4
  <2> QED
    BY <2>1, <2>2
<1>6. ASSUME j < Len(kept)
      PROVE  kept[Len(kept) - j] # "error"
  <2> DEFINE i == Len(kept) - j
             m == IF Len(s) < FailureThreshold THEN i ELSE i + 1
  <2>1. i \in 1..(Len(kept) - 1) /\ j = k + 1
    BY <1>2, <1>3, <1>4, <1>6 DEF Increment
  <2>2. m = Len(s) - k /\ k < Len(s)
    BY <2>1, <1>1, <1>2, <1>3, <1>6
  <2>3. kept[i] = s[m]
    BY <2>1, <1>1
  <2> QED
    BY <2>2, <2>3 DEF Counts
<1>7. Counts(j, kept)
  BY <1>4, <1>5, <1>6 DEF Counts
<1> QED
  BY <1>7 DEF kept

LEMMA CountsOk ==
    ASSUME NEW s \in Seq(Results), Len(s) <= FailureThreshold
    PROVE  Counts(0, Keep(Append(s, "ok")))
<1> DEFINE kept == Keep(Append(s, "ok"))
<1>1. /\ kept \in Seq(Results)
      /\ Len(kept) = IF Len(s) < FailureThreshold THEN Len(s) + 1 ELSE Len(s)
      /\ kept[Len(kept)] = "ok"
  BY KeepAppend DEF Results
<1>2. FailureThreshold \in Nat \ {0} /\ Len(s) \in Nat /\ Len(kept) \in Nat
  BY <1>1, ThresholdType
<1> HIDE DEF kept
<1>3. Counts(0, kept)
  BY <1>1, <1>2 DEF Counts
<1> QED
  BY <1>3 DEF kept

LEMMA CountsThreshold ==
    ASSUME NEW s \in Seq(Results), NEW k \in Nat, Counts(k, s)
    PROVE  k < FailureThreshold <=>
           ~(Len(s) = FailureThreshold /\ \A i \in DOMAIN s : s[i] = "error")
<1>1. FailureThreshold \in Nat /\ Len(s) \in Nat /\ DOMAIN s = 1..Len(s)
  BY ThresholdType
<1>2. k <= Len(s) /\ Len(s) <= FailureThreshold
  BY DEF Counts
<1>3. \A i \in 1..Len(s) : i > Len(s) - k => s[i] = "error"
  BY DEF Counts
<1>4. k < Len(s) => s[Len(s) - k] # "error"
  BY DEF Counts
<1>5. ASSUME k < FailureThreshold, Len(s) = FailureThreshold,
             \A i \in DOMAIN s : s[i] = "error"
      PROVE  FALSE
  <2>1. k < Len(s) /\ Len(s) - k \in DOMAIN s
    BY <1>1, <1>5
  <2> QED
    BY <1>4, <1>5, <2>1
<1>6. ASSUME ~(k < FailureThreshold)
      PROVE  Len(s) = FailureThreshold /\ \A i \in DOMAIN s : s[i] = "error"
  <2>1. k = Len(s) /\ Len(s) = FailureThreshold
    <3>1. \A a, b, d \in Nat : a <= b /\ b <= d /\ ~(a < d) => a = b /\ b = d
      OBVIOUS
    <3> QED
      BY <3>1, <1>1, <1>2, <1>6
  <2>2. \A i \in 1..Len(s) : i > Len(s) - k
    BY <1>1, <2>1
  <2> QED
    BY <1>1, <1>3, <2>1, <2>2
<1> QED
  BY <1>1, <1>5, <1>6

-----------------------------------------------------------------------------
\* The counters of a client's name are those of its own history.
CountersFit ==
    /\ retrieved \in [Client -> SUBSET MetricType]
    /\ recent \in [Client -> [MetricType -> Seq(Results)]]
    /\ \A c \in Client, t \in MetricType :
          /\ HasType(c, t) =>
                (clientSuccesses[t][NameOf[c]] # 0 <=> t \in retrieved[c])
          /\ Counts(clientFailures[t][NameOf[c]], recent[c][t])

LEMMA CountersInit == HandlerInit => CountersFit
<1> SUFFICES ASSUME HandlerInit PROVE CountersFit
  OBVIOUS
<1>1. HInit
  BY DEF HandlerInit
<1>2. retrieved \in [Client -> SUBSET MetricType]
  BY <1>1 DEF HInit
<1>3. recent \in [Client -> [MetricType -> Seq(Results)]]
  BY <1>1 DEF HInit
<1>4. ASSUME NEW c \in Client, NEW t \in MetricType
      PROVE  /\ HasType(c, t) =>
                   (clientSuccesses[t][NameOf[c]] # 0 <=> t \in retrieved[c])
             /\ Counts(clientFailures[t][NameOf[c]], recent[c][t])
  <2>1. retrieved[c] = {} /\ recent[c][t] = <<>>
    BY <1>1 DEF HInit
  <2>2. clientFailures[t][NameOf[c]] = 0
    BY <1>1, NameAssumption DEF HInit, Init
  <2>3. HasType(c, t) => clientSuccesses[t][NameOf[c]] = 0
    BY <1>1 DEF HInit, Init, NamesOf
  <2>4. Counts(0, <<>>)
    BY ThresholdType DEF Counts
  <2> QED
    BY <2>1, <2>2, <2>3, <2>4
<1> QED
  BY <1>2, <1>3, <1>4 DEF CountersFit

LEMMA RecordStep ==
    ASSUME CountersFit, NEW c \in Client, NEW t \in MetricType, NEW x \in Results,
           Record(c, t, x)
    PROVE  /\ recent' \in [Client -> [MetricType -> Seq(Results)]]
           /\ recent'[c][t] = Keep(Append(recent[c][t], x))
           /\ \A d \in Client, u \in MetricType : d # c \/ u # t =>
                 recent'[d][u] = recent[d][u]
<1> DEFINE kept == Keep(Append(recent[c][t], x))
<1>1. recent \in [Client -> [MetricType -> Seq(Results)]]
  BY DEF CountersFit
<1>2. kept \in Seq(Results)
  BY <1>1, KeepAppend DEF CountersFit, Counts
<1>3. recent' = [recent EXCEPT ![c][t] = kept]
  BY DEF Record
<1> HIDE DEF kept
<1>4. recent' \in [Client -> [MetricType -> Seq(Results)]]
  BY <1>1, <1>2, <1>3
<1>5. recent'[c][t] = kept
  BY <1>1, <1>3
<1>6. \A d \in Client, u \in MetricType : d # c \/ u # t => recent'[d][u] = recent[d][u]
  BY <1>1, <1>3
<1> QED
  BY <1>4, <1>5, <1>6 DEF kept

LEMMA FailsCounters ==
    ASSUME DistinctNames, TypeOK, CountersFit, NEW c \in Client, NEW t \in MetricType,
           Fails(c, t)
    PROVE  CountersFit'
<1> DEFINE k == Increment(clientFailures[t][NameOf[c]], FailureThreshold)
<1>1. clientFailures[t][NameOf[c]] \in 0..FailureThreshold /\ k \in 0..FailureThreshold
  BY IncrementType, ThresholdType, NameAssumption DEF TypeOK
<1>2. clientFailures' = [clientFailures EXCEPT ![t][NameOf[c]] = k]
  BY DEF Fails, OnError
<1> HIDE DEF k
<1>3. /\ clientFailures'[t][NameOf[c]] = k
      /\ \A u \in MetricType, n \in Name : u # t \/ n # NameOf[c] =>
            clientFailures'[u][n] = clientFailures[u][n]
  BY <1>1, <1>2, FailureWritten
<1>4. Record(c, t, "error")
  BY DEF Fails
<1>5. /\ recent' \in [Client -> [MetricType -> Seq(Results)]]
      /\ recent'[c][t] = Keep(Append(recent[c][t], "error"))
      /\ \A d \in Client, u \in MetricType : d # c \/ u # t =>
            recent'[d][u] = recent[d][u]
  BY <1>4, RecordStep DEF Results
<1>6. recent[c][t] \in Seq(Results) /\ Counts(clientFailures[t][NameOf[c]], recent[c][t])
  BY DEF CountersFit
<1>7. Counts(k, Keep(Append(recent[c][t], "error")))
  BY <1>1, <1>6, CountsError DEF k
<1>8. UNCHANGED <<retrieved, clientSuccesses>>
  BY DEF Fails, OnError
<1>9. ASSUME NEW d \in Client, NEW u \in MetricType
      PROVE  Counts(clientFailures'[u][NameOf[d]], recent'[d][u])
  <2>1. CASE d = c /\ u = t
    BY <2>1, <1>3, <1>5, <1>7
  <2>2. CASE d # c \/ u # t
    <3>1. NameOf[d] \in Name /\ (d # c => NameOf[d] # NameOf[c])
      BY NameAssumption DEF DistinctNames
    <3>2. clientFailures'[u][NameOf[d]] = clientFailures[u][NameOf[d]]
      BY <2>2, <3>1, <1>3
    <3> QED
      BY <2>2, <3>2, <1>5 DEF CountersFit
  <2> QED
    BY <2>1, <2>2
<1> QED
  BY <1>5, <1>8, <1>9 DEF CountersFit

LEMMA SucceedsCounters ==
    ASSUME DistinctNames, TypeOK, CountersFit, NEW c \in Client, NEW t \in MetricType,
           HasType(c, t), Succeeds(c, t)
    PROVE  CountersFit'
<1>1. clientFailures' = [clientFailures EXCEPT ![t][NameOf[c]] = 0]
  BY DEF Succeeds, Update
<1>2. 0 \in 0..FailureThreshold
  BY ThresholdType
<1>3. /\ clientFailures'[t][NameOf[c]] = 0
      /\ \A u \in MetricType, n \in Name : u # t \/ n # NameOf[c] =>
            clientFailures'[u][n] = clientFailures[u][n]
  BY <1>1, <1>2, FailureWritten
<1>4. clientSuccesses' =
          [clientSuccesses EXCEPT ![t][NameOf[c]] = Increment(@, MaxSuccesses)]
  BY DEF Succeeds, Update
<1>5. /\ clientSuccesses'[t][NameOf[c]] # 0
      /\ \A u \in MetricType : \A n \in NamesOf(u) : u # t \/ n # NameOf[c] =>
            clientSuccesses'[u][n] = clientSuccesses[u][n]
  <2>1. clientSuccesses'[t][NameOf[c]] # 0
    BY <1>4, SuccessWritten
  <2>2. ASSUME NEW u \in MetricType, NEW n \in NamesOf(u), u # t \/ n # NameOf[c]
        PROVE  clientSuccesses'[u][n] = clientSuccesses[u][n]
    BY <1>4, <2>2, SuccessWritten
  <2> QED
    BY <2>1, <2>2
<1>6. Record(c, t, "ok")
  BY DEF Succeeds
<1>7. /\ recent' \in [Client -> [MetricType -> Seq(Results)]]
      /\ recent'[c][t] = Keep(Append(recent[c][t], "ok"))
      /\ \A d \in Client, u \in MetricType : d # c \/ u # t =>
            recent'[d][u] = recent[d][u]
  BY <1>6, RecordStep DEF Results
<1>8. Counts(0, Keep(Append(recent[c][t], "ok")))
  <2>1. recent[c][t] \in Seq(Results) /\ Len(recent[c][t]) <= FailureThreshold
    BY DEF CountersFit, Counts
  <2> QED
    BY <2>1, CountsOk
<1>9. retrieved' = [retrieved EXCEPT ![c] = @ \cup {t}]
  BY DEF Succeeds
<1>10. /\ retrieved' \in [Client -> SUBSET MetricType]
       /\ \A d \in Client, u \in MetricType :
             u \in retrieved'[d] <=> u \in retrieved[d] \/ (d = c /\ u = t)
  BY <1>9 DEF CountersFit
<1>11. ASSUME NEW d \in Client, NEW u \in MetricType
       PROVE  /\ HasType(d, u) =>
                    (clientSuccesses'[u][NameOf[d]] # 0 <=> u \in retrieved'[d])
              /\ Counts(clientFailures'[u][NameOf[d]], recent'[d][u])
  <2>1. CASE d = c /\ u = t
    BY <2>1, <1>3, <1>5, <1>7, <1>8, <1>10
  <2>2. CASE d # c \/ u # t
    <3>1. NameOf[d] \in Name /\ (d # c => NameOf[d] # NameOf[c])
      BY NameAssumption DEF DistinctNames
    <3>2. clientFailures'[u][NameOf[d]] = clientFailures[u][NameOf[d]]
      BY <2>2, <3>1, <1>3
    <3>3. HasType(d, u) => clientSuccesses'[u][NameOf[d]] = clientSuccesses[u][NameOf[d]]
      BY <2>2, <3>1, <1>5 DEF NamesOf
    <3>4. recent'[d][u] = recent[d][u]
      BY <2>2, <1>7
    <3>5. u \in retrieved'[d] <=> u \in retrieved[d]
      BY <2>2, <1>10
    <3> QED
      BY <3>2, <3>3, <3>4, <3>5 DEF CountersFit
  <2> QED
    BY <2>1, <2>2
<1> QED
  BY <1>7, <1>10, <1>11 DEF CountersFit, HasType

LEMMA CountersStep ==
    ASSUME DistinctNames, TypeOK, CountersFit, [HandlerNext]_handlerVars
    PROVE  CountersFit'
<1>1. ASSUME NEW c \in Client, NEW t \in MetricType, Report(c, t)
      PROVE  CountersFit'
  BY <1>1, FailsCounters, SucceedsCounters DEF Report
<1>2. CASE UNCHANGED historyVars
  BY <1>2 DEF historyVars, vars, CountersFit, HasType
<1>3. CASE Evaluate \/ (\E n \in Name : EncodeEntry(n)) \/ NextMap \/ Respond
  BY <1>2, <1>3 DEF Evaluate, EncodeEntry, NextMap, Respond
<1> QED
  BY <1>1, <1>2, <1>3 DEF HandlerNext, handlerVars

LEMMA CountersMeanReady ==
    ASSUME DistinctNames, TypeOK, CountersFit
    PROVE  ReadyMatchesHistory
<1>1. ASSUME NEW c \in Client
      PROVE  Synced(c) <=> Retrieved(c)
  <2>1. ASSUME NEW t \in MetricType
        PROVE  NameOf[c] \in DOMAIN clientSuccesses[t] <=> HasType(c, t)
    <3>1. DOMAIN clientSuccesses[t] = NamesOf(t)
      BY DEF TypeOK
    <3>2. NameOf[c] \in NamesOf(t) <=> HasType(c, t)
      BY DEF NamesOf, DistinctNames
    <3> QED
      BY <3>1, <3>2
  <2> QED
    BY <2>1 DEF Synced, Retrieved, CountersFit
<1>2. ASSUME NEW c \in Client, NEW t \in MetricType
      PROVE  clientFailures[t][NameOf[c]] < FailureThreshold <=> ~KeepsFailing(c, t)
  <2>1. clientFailures[t][NameOf[c]] \in Nat
    BY NameAssumption, ThresholdType DEF TypeOK
  <2>2. recent[c][t] \in Seq(Results) /\ Counts(clientFailures[t][NameOf[c]], recent[c][t])
    BY DEF CountersFit
  <2> QED
    BY <2>1, <2>2, CountsThreshold DEF KeepsFailing
<1> QED
  BY <1>1, <1>2 DEF ReadyMatchesHistory, isReadyAndHealthy, Healthy

\* If names are distinct, /readyz answers 200 exactly when every client has given
\* all its types and none has failed in each of its last FailureThreshold calls
\* (isReadyAndHealthy, OnError, UpdateCustomMetrics, UpdateExternalMetrics).
THEOREM ReadinessIsHistory ==
    ASSUME DistinctNames
    PROVE  HandlerSpec => []ReadyMatchesHistory
<1>1. HandlerInit => CountersFit
  BY CountersInit
<1>2. TypeOK /\ CountersFit /\ [HandlerNext]_handlerVars => CountersFit'
  BY CountersStep
<1>3. TypeOK /\ CountersFit => ReadyMatchesHistory
  BY CountersMeanReady
<1> QED
  BY <1>1, <1>2, <1>3, TypeCorrect, PTL DEF HandlerSpec
=============================================================================
