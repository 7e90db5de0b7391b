-------------------------- MODULE RequestPathProofs --------------------------
(***************************************************************************)
(* Theorems about the request path, for any requests, addresses and limits. *)
(***************************************************************************)
EXTENDS RequestPath, SumTheorems, SequenceTheorems, TLAPS

(* What the limiter keeps of an address is an end of what it had.          *)
LEMMA PrunedIsTyped ==
    ASSUME NEW times \in Seq(Times), NEW now \in Times
    PROVE  Pruned(times, now) \in Seq(Times) /\ Len(Pruned(times, now)) <= Len(times)
<1> DEFINE old == {i \in DOMAIN times : \A j \in 1..i : times[j] <= now - Window}
<1>1. Len(times) \in Nat /\ DOMAIN times = 1..Len(times)
  OBVIOUS
<1>2. IsFiniteSet(1..Len(times)) /\ Cardinality(1..Len(times)) = Len(times)
  BY <1>1, FS_Interval
<1>3. Cardinality(old) \in Nat /\ Cardinality(old) <= Len(times)
  <2>1. old \subseteq 1..Len(times)
    BY <1>1
  <2> HIDE DEF old
  <2> QED
    BY <1>2, <2>1, FS_Subset, FS_CardinalityType
<1> DEFINE n == Cardinality(old)
<1>4. n \in Nat /\ n <= Len(times) /\ Pruned(times, now) = SubSeq(times, n + 1, Len(times))
  BY <1>3 DEF Pruned
<1> HIDE DEF n
<1>5. \A i \in (n + 1)..Len(times) : times[i] \in Times
  <2> SUFFICES ASSUME NEW i \in (n + 1)..Len(times)
               PROVE  times[i] \in Times
    OBVIOUS
  <2>1. i \in DOMAIN times
    BY <1>1, <1>4
  <2> QED
    BY <2>1
<1>6. n + 1 \in Int /\ Len(times) \in Int
  BY <1>1, <1>4
<1>7. /\ SubSeq(times, n + 1, Len(times)) \in Seq(Times)
      /\ Len(SubSeq(times, n + 1, Len(times))) =
             IF n + 1 <= Len(times) THEN Len(times) - (n + 1) + 1 ELSE 0
  BY <1>5, <1>6, SubSeqProperties
<1> QED
  BY <1>1, <1>4, <1>7

(* The table after a request with the time now has pruned it.              *)
LEMMA PrunedTable ==
    ASSUME TypeOK, NEW now \in Times
    PROVE  /\ PrunedAll(now) \in [Clients -> Seq(Times)]
           /\ \A c \in Clients : Len(PrunedAll(now)[c]) <= Limit
           /\ {c \in Clients : PrunedAll(now)[c] # << >>} \subseteq {c \in Clients : recent[c] # << >>}
<1>1. \A c \in Clients : recent[c] \in Seq(Times) /\ Len(recent[c]) <= Limit
  BY DEF TypeOK
<1>2. \A c \in Clients : /\ PrunedAll(now)[c] \in Seq(Times)
                         /\ Len(PrunedAll(now)[c]) <= Len(recent[c])
  BY <1>1, PrunedIsTyped DEF PrunedAll
<1>3. \A c \in Clients : Len(PrunedAll(now)[c]) <= Limit
  <2> SUFFICES ASSUME NEW c \in Clients
               PROVE  Len(PrunedAll(now)[c]) <= Limit
    OBVIOUS
  <2>1. Len(PrunedAll(now)[c]) \in Nat /\ Len(recent[c]) \in Nat
    BY <1>1, <1>2
  <2> QED
    BY <1>1, <1>2, <2>1, LimitsAssumption
<1>4. ASSUME NEW c \in Clients, recent[c] = << >>
      PROVE  PrunedAll(now)[c] = << >>
  <2>1. Len(PrunedAll(now)[c]) \in Nat /\ Len(PrunedAll(now)[c]) <= 0
    BY <1>1, <1>2, <1>4
  <2> QED
    BY <1>2, <2>1, EmptySeq
<1> QED
  BY <1>2, <1>3, <1>4 DEF PrunedAll

(* A table of a part of the addresses is not fuller.                       *)
LEMMA PartOfTable ==
    ASSUME NEW S \in SUBSET Clients, NEW T \in SUBSET S, Cardinality(S) <= MaxClients
    PROVE  Cardinality(T) \in Nat /\ Cardinality(T) <= MaxClients
<1>1. IsFiniteSet(S)
  BY SetsAssumption, FS_Subset
<1>2. IsFiniteSet(T) /\ Cardinality(T) <= Cardinality(S)
  BY <1>1, FS_Subset
<1> QED
  BY <1>1, <1>2, FS_CardinalityType, LimitsAssumption

(* The table of a process that starts.                                     *)
LEMMA EmptyTable ==
    ASSUME NEW table, table = [c \in Clients |-> << >>]
    PROVE  /\ table \in [Clients -> Seq(Times)]
           /\ \A c \in Clients : Len(table[c]) <= Limit
           /\ Cardinality({c \in Clients : table[c] # << >>}) <= MaxClients
<1>1. << >> \in Seq(Times) /\ Len(<< >>) = 0
  OBVIOUS
<1>2. {c \in Clients : table[c] # << >>} = {}
  OBVIOUS
<1>3. Cardinality({c \in Clients : table[c] # << >>}) = 0
  BY <1>2, FS_EmptySet
<1> QED
  BY <1>1, <1>3, LimitsAssumption

(* The locals of a request that ends, and of one that goes on.             *)
LocalsTyped ==
    /\ at' \in [Requests -> Phases] /\ kind' \in [Requests -> Kinds]
    /\ client' \in [Requests -> Clients \cup {Nobody}]
    /\ \A r \in Requests : at'[r] # "idle" => client'[r] \in Clients
    /\ stamp' \in [Requests -> Times] /\ used' \in [Requests -> BOOLEAN]

LEMMA EndTyping ==
    ASSUME TypeOK, NEW r \in Requests, End(r)
    PROVE  LocalsTyped
<1>1. 0 \in Times
  BY TimesAssumption DEF Times
<1> QED
  BY <1>1 DEF TypeOK, End, Place, Phases, Kinds, LocalsTyped

LEMMA GoingTyping ==
    ASSUME TypeOK, NEW r \in Requests, NEW phase \in Phases, at[r] # "idle", Place(r, phase),
           UNCHANGED <<kind, client, stamp>>, used' \in [Requests -> BOOLEAN]
    PROVE  LocalsTyped
  BY DEF TypeOK, Place, LocalsTyped

LEMMA TypingStep == TypeOK /\ [Next]_vars => TypeOK'
<1> SUFFICES ASSUME TypeOK, [Next]_vars
             PROVE  TypeOK'
  OBVIOUS
<1> DEFINE Table(t) == /\ t \in [Clients -> Seq(Times)]
                       /\ \A c \in Clients : Len(t[c]) <= Limit
                       /\ Cardinality({c \in Clients : t[c] # << >>}) <= MaxClients
<1>l. Table(recent) /\ Cardinality({c \in Clients : recent[c] # << >>}) \in Nat
  BY SetsAssumption, FS_Subset, FS_CardinalityType DEF TypeOK
<1>p. ASSUME NEW now \in Times
      PROVE  Table(PrunedAll(now))
  BY <1>l, PrunedTable, PartOfTable
<1>1. ASSUME LocalsTyped, UNCHANGED <<clock, limiter, metrics>>,
             catalog' \in Nat, fallback' \in Nat
      PROVE  TypeOK'
  BY <1>1 DEF TypeOK, LocalsTyped, limiter, metrics
<1>2. ASSUME NEW r \in Requests, NEW c \in Clients, NEW k \in Kinds, Arrive(r, c, k)
      PROVE  TypeOK'
  <2>1. LocalsTyped
    BY <1>2 DEF TypeOK, Arrive, Place, Phases, LocalsTyped
  <2> QED
    BY <1>1, <1>2, <2>1 DEF TypeOK, Arrive, fallbacks
<1>3. ASSUME NEW r \in Requests, Admit(r)
      PROVE  TypeOK'
  <2>1. LocalsTyped
    BY <1>3, GoingTyping DEF TypeOK, Admit, Phases
  <2> DEFINE c == client[r]
             table == PrunedAll(stamp[r])
             new == [table EXCEPT ![c] = Append(table[c], stamp[r])]
  <2>2. c \in Clients /\ stamp[r] \in Times
    BY <1>3 DEF TypeOK, Admit
  <2>3. Table(table)
    BY <1>p, <2>2
  <2>4. HasPlace(table, c) /\ recent' = new
    BY <1>3 DEF Admit
  <2> HIDE DEF table, c
  <2>5. new \in [Clients -> Seq(Times)]
    BY <2>2, <2>3, AppendProperties
  <2>6. \A d \in Clients : Len(new[d]) <= Limit
    <3>1. Len(table[c]) \in Nat /\ Len(table[c]) < Limit
      BY <2>2, <2>3, <2>4 DEF HasPlace
    <3>2. Len(new[c]) = Len(table[c]) + 1
      BY <2>2, <2>3, AppendProperties
    <3> QED
      BY <2>2, <2>3, <3>1, <3>2, LimitsAssumption
  <2> DEFINE Full == {d \in Clients : table[d] # << >>}
  <2>7. Cardinality({d \in Clients : new[d] # << >>}) <= MaxClients
    <3>1. {d \in Clients : new[d] # << >>} \subseteq Full \cup {c}
      BY <2>2, <2>3
    <3>2. IsFiniteSet(Full) /\ Cardinality(Full) \in Nat /\ Cardinality(Full) <= MaxClients
      BY <2>3, SetsAssumption, FS_Subset, FS_CardinalityType
    <3>3. IsFiniteSet(Full \cup {c}) /\ Cardinality(Full \cup {c}) <= MaxClients
      <4>1. CASE c \in Full
        <5>1. Full \cup {c} = Full
          BY <4>1
        <5> HIDE DEF Full
        <5> QED
          BY <3>2, <5>1
      <4>2. CASE c \notin Full
        <5>1. Cardinality(Full) < MaxClients
          BY <2>2, <2>4, <4>2 DEF HasPlace
        <5>2. IsFiniteSet(Full \cup {c}) /\ Cardinality(Full \cup {c}) = Cardinality(Full) + 1
          BY <3>2, <4>2, FS_AddElement
        <5> QED
          BY <3>2, <5>1, <5>2, LimitsAssumption
      <4> QED
        BY <4>1, <4>2
    <3>4. Cardinality({d \in Clients : new[d] # << >>}) <= Cardinality(Full \cup {c})
      BY <3>1, <3>3, FS_Subset
    <3>5. Cardinality({d \in Clients : new[d] # << >>}) \in Nat /\ Cardinality(Full \cup {c}) \in Nat
      BY <3>3, SetsAssumption, FS_Subset, FS_CardinalityType
    <3> QED
      BY <3>3, <3>4, <3>5, LimitsAssumption
  <2>8. admitted' \in [Clients -> [Times -> Nat]]
    <3>1. admitted \in [Clients -> [Times -> Nat]]
      BY DEF TypeOK
    <3>2. admitted' = [admitted EXCEPT ![c][stamp[r]] = admitted[c][stamp[r]] + 1]
      BY <1>3 DEF Admit, c
    <3> QED
      BY <2>2, <3>1, <3>2
  <2>9. /\ clock' = clock /\ catalog' = catalog /\ fallback' = fallback
        /\ hourly' = hourly /\ counted' = counted
    BY <1>3 DEF Admit, fallbacks, metrics
  <2> HIDE DEF new
  <2> QED
    BY <2>1, <2>4, <2>5, <2>6, <2>7, <2>8, <2>9 DEF TypeOK, LocalsTyped
<1>4. ASSUME NEW r \in Requests, Refuse(r)
      PROVE  TypeOK'
  <2>1. LocalsTyped /\ stamp[r] \in Times
    BY <1>4, EndTyping DEF Refuse, TypeOK
  <2>2. Table(recent')
    BY <1>4, <1>p, <2>1 DEF Refuse
  <2> QED
    BY <1>4, <2>1, <2>2 DEF TypeOK, LocalsTyped, Refuse, fallbacks, metrics
<1>5. ASSUME NEW r \in Requests, Track(r)
      PROVE  TypeOK'
  <2>1. LocalsTyped
    BY <1>5, GoingTyping DEF TypeOK, Track, Phases
  <2> QED
    BY <1>1, <1>5, <2>1 DEF TypeOK, Track
<1>6. ASSUME NEW r \in Requests, FallBack(r)
      PROVE  TypeOK'
  <2>1. LocalsTyped
    BY <1>6 DEF TypeOK, FallBack, LocalsTyped
  <2> QED
    BY <1>1, <1>6, <2>1 DEF TypeOK, FallBack
<1>7. ASSUME NEW r \in Requests, Answer(r) \/ Leave(r)
      PROVE  TypeOK'
  <2>1. CASE End(r)
    BY <1>1, <1>7, <2>1, EndTyping DEF TypeOK, Answer, Leave, fallbacks
  <2>2. CASE Place(r, "answered") /\ UNCHANGED <<kind, client, stamp, used>> /\ Answer(r)
    <3>1. LocalsTyped
      BY <2>2, GoingTyping DEF TypeOK, Answer, Phases
    <3> QED
      BY <1>1, <2>2, <3>1 DEF TypeOK, Answer, fallbacks
  <2> QED
    BY <1>7, <2>1, <2>2 DEF Answer, Leave
<1>8. ASSUME NEW r \in Requests, Record(r)
      PROVE  TypeOK'
  <2>1. LocalsTyped
    BY <1>8, EndTyping DEF Record
  <2> DEFINE h == clock \div Hour
  <2>2. hourly' \in [Times -> Nat]
    <3>1. hourly' = [hourly EXCEPT ![h] = hourly[h] + 1] /\ hourly \in [Times -> Nat]
      BY <1>8 DEF TypeOK, Record
    <3> HIDE DEF h
    <3>2. CASE h \in Times
      BY <3>1, <3>2
    <3>3. CASE h \notin Times
      BY <3>1, <3>3
    <3> QED
      BY <3>2, <3>3
  <2>3. counted' \in [Times -> Nat]
    BY <1>8 DEF TypeOK, Record
  <2> QED
    BY <1>8, <2>1, <2>2, <2>3 DEF TypeOK, LocalsTyped, Record, limiter, fallbacks
<1>9. ASSUME Tick
      PROVE  TypeOK'
  BY <1>9, TimesAssumption DEF Tick, TypeOK, Times, locals, limiter, fallbacks, metrics
<1>10. ASSUME Restart
       PROVE  TypeOK'
  <2>1. LocalsTyped
    BY <1>10, TimesAssumption DEF Restart, LocalsTyped, Phases, Kinds, Times
  <2>2. Table(recent')
    <3>1. recent' = [c \in Clients |-> << >>]
      BY <1>10 DEF Restart
    <3> QED
      BY <3>1, EmptyTable
  <2> QED
    BY <1>10, <2>1, <2>2 DEF Restart, TypeOK, LocalsTyped, metrics
<1>11. CASE UNCHANGED vars
  BY <1>11 DEF TypeOK, vars, locals, limiter, fallbacks, metrics
<1> QED
  BY <1>2, <1>3, <1>4, <1>5, <1>6, <1>7, <1>8, <1>9, <1>10, <1>11 DEF Next

(* Every variable has its type, no address has more times than the limit,  *)
(* and no more addresses have one than the table may hold.                 *)
THEOREM TypeCorrect == Spec => []TypeOK
<1>1. Init => TypeOK
  <2> SUFFICES ASSUME Init
               PROVE  TypeOK
    OBVIOUS
  <2>1. /\ recent \in [Clients -> Seq(Times)] /\ \A c \in Clients : Len(recent[c]) <= Limit
        /\ Cardinality({c \in Clients : recent[c] # << >>}) <= MaxClients
    BY EmptyTable DEF Init
  <2> QED
    BY <2>1, TimesAssumption DEF Init, TypeOK, Phases, Kinds, Times
<1> QED
  BY <1>1, TypingStep, PTL DEF Spec

(* A request that has not fallen back has a place among the catalog        *)
(* requests that no fallback has taken.                                    *)
LEMMA FallbacksStep == TypeOK /\ FallbacksAreRequests /\ [Next]_vars => FallbacksAreRequests'
<1> SUFFICES ASSUME TypeOK, FallbacksAreRequests, [Next]_vars
             PROVE  FallbacksAreRequests'
  OBVIOUS
<1>f. /\ IsFiniteSet(MayYetFallBack) /\ Cardinality(MayYetFallBack) \in Nat
      /\ IsFiniteSet(MayYetFallBack') /\ Cardinality(MayYetFallBack') \in Nat
      /\ catalog \in Nat /\ fallback \in Nat
      /\ fallback + Cardinality(MayYetFallBack) <= catalog
  BY SetsAssumption, FS_Subset, FS_CardinalityType DEF MayYetFallBack, TypeOK, FallbacksAreRequests
<1>1. ASSUME MayYetFallBack' \subseteq MayYetFallBack, UNCHANGED fallbacks
      PROVE  FallbacksAreRequests'
  <2>1. Cardinality(MayYetFallBack') <= Cardinality(MayYetFallBack)
    BY <1>f, <1>1, FS_Subset
  <2> QED
    BY <1>f, <1>1, <2>1 DEF FallbacksAreRequests, fallbacks
<1>2. ASSUME NEW r \in Requests, Place(r, "handling"), UNCHANGED <<kind, used>>
      PROVE  MayYetFallBack' \subseteq MayYetFallBack \cup
                 IF MayFallBack(kind[r]) THEN {r} ELSE {}
  BY <1>2 DEF MayYetFallBack, Place, TypeOK
<1>3. ASSUME NEW r \in Requests, Track(r)
      PROVE  FallbacksAreRequests'
  <2>1. CASE ~MayFallBack(kind[r])
    BY <1>1, <1>2, <1>3, <2>1 DEF Track, fallbacks
  <2>2. CASE MayFallBack(kind[r])
    <3>1. r \notin MayYetFallBack /\ MayYetFallBack' \subseteq MayYetFallBack \cup {r}
      BY <1>2, <1>3, <2>2 DEF Track, MayYetFallBack
    <3>2. /\ IsFiniteSet(MayYetFallBack \cup {r})
          /\ Cardinality(MayYetFallBack \cup {r}) = Cardinality(MayYetFallBack) + 1
      BY <1>f, <3>1, FS_AddElement
    <3>3. Cardinality(MayYetFallBack') <= Cardinality(MayYetFallBack) + 1
      BY <3>1, <3>2, FS_Subset
    <3>4. catalog' = catalog + 1 /\ fallback' = fallback
      BY <1>3, <2>2 DEF Track
    <3> QED
      BY <1>f, <3>3, <3>4 DEF FallbacksAreRequests
  <2> QED
    BY <2>1, <2>2
<1>4. ASSUME NEW r \in Requests, FallBack(r)
      PROVE  FallbacksAreRequests'
  <2>1. r \in MayYetFallBack /\ MayYetFallBack' \subseteq MayYetFallBack \ {r}
    BY <1>4 DEF FallBack, MayYetFallBack, TypeOK
  <2>2. /\ IsFiniteSet(MayYetFallBack \ {r})
        /\ Cardinality(MayYetFallBack \ {r}) = Cardinality(MayYetFallBack) - 1
    BY <1>f, <2>1, FS_RemoveElement
  <2>3. Cardinality(MayYetFallBack') <= Cardinality(MayYetFallBack) - 1
    BY <2>1, <2>2, FS_Subset
  <2>4. catalog' = catalog /\ fallback' = fallback + 1
    BY <1>4 DEF FallBack
  <2> QED
    BY <1>f, <2>3, <2>4 DEF FallbacksAreRequests
<1>5. ASSUME Restart
      PROVE  FallbacksAreRequests'
  <2>1. MayYetFallBack' = {} /\ catalog' = 0 /\ fallback' = 0
    BY <1>5 DEF Restart, MayYetFallBack
  <2> QED
    BY <2>1, FS_EmptySet DEF FallbacksAreRequests
<1>6. ASSUME NEW r \in Requests, End(r)
      PROVE  MayYetFallBack' \subseteq MayYetFallBack
  BY <1>6 DEF End, Place, MayYetFallBack, TypeOK
<1>7. ASSUME NEW r \in Requests, NEW phase \in Phases \ {"handling"}, Place(r, phase),
             \A q \in Requests : q # r => kind'[q] = kind[q] /\ used'[q] = used[q]
      PROVE  MayYetFallBack' \subseteq MayYetFallBack
  BY <1>7 DEF Place, MayYetFallBack, TypeOK
<1>8. ASSUME NEW r \in Requests, Admit(r) \/ Refuse(r) \/ Answer(r) \/ Record(r) \/ Leave(r)
      PROVE  FallbacksAreRequests'
  <2>1. CASE End(r)
    BY <1>1, <1>6, <1>8, <2>1 DEF Admit, Refuse, Answer, Record, Leave
  <2>2. CASE (Place(r, "admitted") \/ Place(r, "answered")) /\ UNCHANGED <<kind, used>>
    BY <1>1, <1>7, <1>8, <2>2 DEF Admit, Refuse, Answer, Record, Leave, Phases
  <2> QED
    BY <1>8, <2>1, <2>2 DEF Admit, Refuse, Answer, Record, Leave
<1>9. ASSUME NEW r \in Requests, NEW c \in Clients, NEW k \in Kinds, Arrive(r, c, k)
      PROVE  FallbacksAreRequests'
  <2>1. \A q \in Requests : q # r => kind'[q] = kind[q] /\ used'[q] = used[q]
    BY <1>9 DEF Arrive, TypeOK
  <2> QED
    BY <1>1, <1>7, <1>9, <2>1 DEF Arrive, Phases
<1>10. CASE Tick \/ UNCHANGED vars
  <2>1. MayYetFallBack' = MayYetFallBack /\ UNCHANGED fallbacks
    BY <1>10 DEF Tick, MayYetFallBack, vars, locals, fallbacks
  <2> QED
    BY <1>1, <2>1
<1> QED
  BY <1>3, <1>4, <1>5, <1>8, <1>9, <1>10 DEF Next

(* A request counts as a fallback at most once, and only one that counts   *)
(* as a catalog request.                                                   *)
THEOREM FallbacksBounded == Spec => []FallbacksAreRequests
<1>1. Init => FallbacksAreRequests
  <2> SUFFICES ASSUME Init
               PROVE  FallbacksAreRequests
    OBVIOUS
  <2>1. MayYetFallBack = {} /\ catalog = 0 /\ fallback = 0
    BY DEF Init, MayYetFallBack
  <2> QED
    BY <2>1, FS_EmptySet DEF FallbacksAreRequests
<1> QED
  BY <1>1, TypeCorrect, FallbacksStep, PTL DEF Spec

(***************************************************************************)
(* The week.                                                               *)
(***************************************************************************)

LEMMA SumsAreSums ==
    ASSUME NEW f, NEW S
    PROVE  SumFunctionOnSet(f, S) = Sum(f, S)
  BY DEF SumFunctionOnSet, FoldFunctionOnSet, MapThenFoldSet, Sum, IsFold, Pick

LEMMA TimesAreFinite == \A S \in SUBSET Times : IsFiniteSet(S)
<1>1. IsFiniteSet(Times)
  BY TimesAssumption, FS_Interval DEF Times
<1> QED
  BY <1>1, FS_Subset

(* An hour begins no later than any of its times, and no earlier than its  *)
(* length before.                                                          *)
LEMMA HourOfTime ==
    ASSUME NEW t \in Int
    PROVE  /\ t \div Hour \in Int
           /\ (t \div Hour) * Hour <= t
           /\ t < (t \div Hour) * Hour + Hour
  BY TimesAssumption

LEMMA HoursAreTimes == \A t \in Times : t \div Hour \in Times
<1>1. \A t \in Nat : t \div Hour \in Nat /\ t \div Hour <= t
  BY TimesAssumption
<1> QED
  BY <1>1, TimesAssumption DEF Times

LEMMA HoursInOrder ==
    ASSUME NEW s \in Int, NEW t \in Int, s <= t
    PROVE  s \div Hour <= t \div Hour
<1> DEFINE h == s \div Hour
           k == t \div Hour
<1>1. h \in Int /\ k \in Int /\ h * Hour <= s /\ t < k * Hour + Hour
  BY HourOfTime
<1> HIDE DEF h, k
<1>2. \A i, j \in Int : i < j => i * Hour + Hour <= j * Hour
  BY TimesAssumption
<1>3. CASE k < h
  BY <1>1, <1>2, <1>3, TimesAssumption
<1>4. CASE h <= k
  BY <1>4 DEF h, k
<1> QED
  BY <1>1, <1>3, <1>4

(* From any hour on, the buckets hold what was counted since it began.     *)
HoursSince(k) == {h \in Times : h >= k}
TimesSince(k) == {t \in Times : t \div Hour >= k}
HoursHold == \A k \in Int : Sum(hourly, HoursSince(k)) = Sum(counted, TimesSince(k))

LEMMA HoursStep == TypeOK /\ HoursHold /\ [Next]_vars => HoursHold'
<1> SUFFICES ASSUME TypeOK, HoursHold, [Next]_vars
             PROVE  HoursHold'
  OBVIOUS
<1>1. ASSUME UNCHANGED metrics PROVE HoursHold'
  BY <1>1 DEF metrics, HoursHold
<1>2. ASSUME NEW r \in Requests, Record(r) PROVE HoursHold'
  <2> SUFFICES ASSUME NEW k \in Int
               PROVE  Sum(hourly', HoursSince(k)) = Sum(counted', TimesSince(k))
    BY DEF HoursHold
  <2> DEFINE hour == clock \div Hour
  <2>1. /\ clock \in Times /\ hour \in Times
        /\ hourly \in [Times -> Nat] /\ counted \in [Times -> Nat]
    BY HoursAreTimes DEF TypeOK
  <2>2. /\ hourly' = [hourly EXCEPT ![hour] = hourly[hour] + 1]
        /\ counted' = [counted EXCEPT ![clock] = counted[clock] + 1]
    BY <1>2 DEF Record
  <2>3. hour \in HoursSince(k) <=> clock \in TimesSince(k)
    BY <2>1 DEF HoursSince, TimesSince
  <2> HIDE DEF hour
  <2>4. IsFiniteSet(HoursSince(k)) /\ IsFiniteSet(TimesSince(k))
    BY TimesAreFinite DEF HoursSince, TimesSince
  <2>5. Sum(hourly', HoursSince(k)) =
            IF hour \in HoursSince(k) THEN Sum(hourly, HoursSince(k)) + 1
            ELSE Sum(hourly, HoursSince(k))
    <3>1. \A h \in HoursSince(k) : /\ hourly[h] \in Nat
                                   /\ hourly'[h] = IF h = hour THEN hourly[h] + 1 ELSE hourly[h]
      BY <2>1, <2>2 DEF HoursSince
    <3> QED
      BY <2>4, <3>1, SumIncremented
  <2>6. Sum(counted', TimesSince(k)) =
            IF clock \in TimesSince(k) THEN Sum(counted, TimesSince(k)) + 1
            ELSE Sum(counted, TimesSince(k))
    <3>1. \A t \in TimesSince(k) : /\ counted[t] \in Nat
                                   /\ counted'[t] = IF t = clock THEN counted[t] + 1 ELSE counted[t]
      BY <2>1, <2>2 DEF TimesSince
    <3> QED
      BY <2>4, <3>1, SumIncremented
  <2>7. Sum(hourly, HoursSince(k)) = Sum(counted, TimesSince(k))
    BY DEF HoursHold
  <2> QED
    BY <2>3, <2>5, <2>6, <2>7
<1>3. CASE Next /\ ~\E r \in Requests : Record(r)
  BY <1>1, <1>3 DEF Next, Arrive, Admit, Refuse, Track, FallBack, Answer, Leave, Tick, Restart
<1>4. CASE UNCHANGED vars
  BY <1>1, <1>4 DEF vars, metrics
<1> QED
  BY <1>2, <1>3, <1>4

LEMMA HoursInit == Init => HoursHold
<1> SUFFICES ASSUME Init, NEW k \in Int
             PROVE  Sum(hourly, HoursSince(k)) = Sum(counted, TimesSince(k))
  BY DEF HoursHold
<1>1. IsFiniteSet(HoursSince(k)) /\ IsFiniteSet(TimesSince(k))
  BY TimesAreFinite DEF HoursSince, TimesSince
<1>2. \A t \in HoursSince(k) : hourly[t] = 0
  BY DEF Init, HoursSince
<1>3. \A t \in TimesSince(k) : counted[t] = 0
  BY DEF Init, TimesSince
<1> QED
  BY <1>1, <1>2, <1>3, SumOfZeros

(* The week's total holds what was counted within a week and nothing from  *)
(* more than an hour before, across restarts.                              *)
THEOREM WeekCovered == Spec => []WeekIsCovered
<1>1. ASSUME TypeOK, HoursHold PROVE WeekIsCovered
  <2> DEFINE since(t) == {s \in Times : s >= t}
             first == (clock - Week) \div Hour
  <2>1. /\ clock \in Int /\ clock - Week \in Int /\ first \in Int
        /\ first * Hour <= clock - Week /\ clock - Week < first * Hour + Hour
    <3>1. clock \in Int /\ clock - Week \in Int
      BY <1>1, TimesAssumption DEF TypeOK, Times
    <3> QED
      BY <3>1, HourOfTime
  <2>2. Total(clock) = Sum(counted, TimesSince(first))
    BY <1>1, <2>1, SumsAreSums DEF Total, HoursSince, HoursHold
  <2>3. since(clock - Week) \subseteq TimesSince(first)
    BY <2>1, HoursInOrder, TimesAssumption DEF TimesSince, Times
  <2>4. TimesSince(first) \subseteq since(clock - Week - Hour + 1)
    <3> SUFFICES ASSUME NEW t \in Times, t \div Hour >= first
                 PROVE  t >= clock - Week - Hour + 1
      BY DEF TimesSince
    <3> DEFINE h == t \div Hour
    <3>1. t \in Int /\ h \in Int /\ h * Hour <= t
      BY HourOfTime, TimesAssumption DEF Times
    <3>2. first <= h
      BY <2>1, <3>1
    <3> HIDE DEF h, first
    <3>3. first * Hour <= h * Hour
      BY <2>1, <3>1, <3>2, TimesAssumption
    <3> QED
      BY <2>1, <3>1, <3>3, TimesAssumption
  <2>5. \A t \in Times : counted[t] \in Nat
    BY <1>1 DEF TypeOK
  <2>6. ASSUME NEW S \in SUBSET Times, NEW T \in SUBSET S
        PROVE  Sum(counted, T) <= Sum(counted, S)
    <3>1. IsFiniteSet(S) /\ \A t \in S : counted[t] \in Nat
      BY <2>5, TimesAreFinite
    <3> QED
      BY <3>1, SumOfParts
  <2>7. Sum(counted, since(clock - Week)) <= Sum(counted, TimesSince(first))
    <3>1. TimesSince(first) \in SUBSET Times
      BY DEF TimesSince
    <3> QED
      BY <2>3, <2>6, <3>1
  <2>8. Sum(counted, TimesSince(first)) <= Sum(counted, since(clock - Week - Hour + 1))
    BY <2>4, <2>6
  <2> QED
    BY <2>2, <2>7, <2>8, SumsAreSums DEF WeekIsCovered
<1> QED
  BY <1>1, TypeCorrect, HoursInit, HoursStep, PTL DEF Spec

(***************************************************************************)
(* The limiter: what is kept of an address is what was admitted.           *)
(***************************************************************************)

(* The places of the times that are in S.                                  *)
Kept(times, S) == {i \in DOMAIN times : times[i] \in S}

LEMMA KeptIsFinite ==
    ASSUME NEW times \in Seq(Times), NEW S
    PROVE  /\ IsFiniteSet(Kept(times, S)) /\ Cardinality(Kept(times, S)) \in Nat
           /\ Cardinality(Kept(times, S)) <= Len(times)
           /\ (\A i \in DOMAIN times : times[i] \in S) => Cardinality(Kept(times, S)) = Len(times)
<1>1. Len(times) \in Nat /\ DOMAIN times = 1..Len(times)
  OBVIOUS
<1>2. IsFiniteSet(1..Len(times)) /\ Cardinality(1..Len(times)) = Len(times)
  <2>1. \A n \in Nat : IsFiniteSet(1..n) /\ Cardinality(1..n) = n
    BY FS_Interval
  <2> QED
    BY <1>1, <2>1
<1>3. Kept(times, S) \in SUBSET (1..Len(times))
  BY <1>1 DEF Kept
<1>4. IsFiniteSet(Kept(times, S)) /\ Cardinality(Kept(times, S)) <= Len(times)
  BY <1>2, <1>3, FS_Subset
<1>5. (\A i \in DOMAIN times : times[i] \in S) => Kept(times, S) = 1..Len(times)
  BY <1>1 DEF Kept
<1> QED
  BY <1>2, <1>4, <1>5, FS_CardinalityType

LEMMA KeptOfAppended ==
    ASSUME NEW times \in Seq(Times), NEW now \in Times, NEW S
    PROVE  Cardinality(Kept(Append(times, now), S)) =
               IF now \in S THEN Cardinality(Kept(times, S)) + 1
               ELSE Cardinality(Kept(times, S))
<1> DEFINE n == Len(times) + 1
           new == Append(times, now)
<1>1. /\ Len(times) \in Nat /\ DOMAIN times = 1..Len(times) /\ DOMAIN new = 1..n
      /\ new[n] = now /\ \A i \in 1..Len(times) : new[i] = times[i]
  BY AppendProperties
<1>2. Kept(new, S) = Kept(times, S) \cup (IF now \in S THEN {n} ELSE {})
  BY <1>1 DEF Kept
<1>3. n \notin Kept(times, S)
  BY <1>1 DEF Kept
<1>4. IsFiniteSet(Kept(times, S))
  BY KeptIsFinite
<1> HIDE DEF n, new
<1>5. CASE now \in S
  <2>1. Cardinality(Kept(times, S) \cup {n}) = Cardinality(Kept(times, S)) + 1
    BY <1>3, <1>4, FS_AddElement
  <2> QED
    BY <1>2, <1>5, <2>1 DEF new
<1>6. CASE now \notin S
  BY <1>2, <1>6 DEF new
<1> QED
  BY <1>5, <1>6

(* Pruning drops an old beginning: the first time that stays is young.     *)
LEMMA PrunedIsEnd ==
    ASSUME NEW times \in Seq(Times), NEW now \in Times
    PROVE  \E n \in 0..Len(times) :
               /\ Len(Pruned(times, now)) = Len(times) - n
               /\ \A i \in 1..(Len(times) - n) : Pruned(times, now)[i] = times[i + n]
               /\ \A j \in 1..n : times[j] <= now - Window
               /\ n < Len(times) => times[n + 1] > now - Window
<1> DEFINE L == Len(times)
           old == {i \in DOMAIN times : \A j \in 1..i : times[j] <= now - Window}
<1>1. L \in Nat /\ DOMAIN times = 1..L /\ \A i \in 1..L : times[i] \in Int
  BY TimesAssumption DEF Times
<1>2. \E n \in 0..L : old = 1..n
  <2>1. CASE old = 1..L
    BY <1>1, <2>1
  <2>2. CASE old # 1..L
    <3> DEFINE G == {i \in Nat : i <= L => i \in old \cup {0}}
    <3>1. PICK k \in Nat : k \in G /\ k + 1 \notin G
      <4>1. 0 \in G
        OBVIOUS
      <4>2. ~(Nat \subseteq G)
        BY <1>1, <2>2
      <4> HIDE DEF G
      <4> QED
        BY <4>1, <4>2, NatInductionOnSet
    <3>2. k + 1 <= L /\ k + 1 \notin old /\ k \in old \cup {0}
      BY <1>1, <3>1
    <3>3. 1..k \subseteq old
      BY <1>1, <3>2
    <3>4. \A i \in old : i <= k
      <4> SUFFICES ASSUME NEW i \in old, k + 1 <= i PROVE FALSE
        BY <1>1, <3>1
      <4>1. \A j \in 1..(k + 1) : times[j] <= now - Window
        BY <1>1, <3>1
      <4> QED
        BY <1>1, <3>2, <4>1
    <3>5. old = 1..k
      BY <1>1, <3>3, <3>4
    <3> QED
      BY <1>1, <3>2, <3>5
  <2> QED
    BY <2>1, <2>2
<1>3. PICK n \in 0..L : old = 1..n
  BY <1>2
<1>4. n \in Nat /\ n <= L
  BY <1>1, <1>3
<1>5. Cardinality(old) = n
  <2>1. Cardinality(1..n) = IF 1 > n THEN 0 ELSE n - 1 + 1
    BY <1>4, FS_Interval
  <2> HIDE DEF old
  <2> QED
    BY <1>3, <1>4, <2>1
<1>6. \A j \in 1..n : times[j] <= now - Window
  BY <1>1, <1>3
<1>7. n < L => times[n + 1] > now - Window
  <2> SUFFICES ASSUME n < L, ~(times[n + 1] > now - Window) PROVE FALSE
    OBVIOUS
  <2>1. n + 1 \in 1..L /\ times[n + 1] \in Int /\ now - Window \in Int
    BY <1>1, <1>4, TimesAssumption DEF Times
  <2>2. \A j \in 1..(n + 1) : times[j] <= now - Window
    BY <1>4, <1>6, <2>1
  <2>3. n + 1 \in old
    BY <1>1, <2>1, <2>2
  <2> QED
    BY <1>3, <1>4, <2>3
<1>8. Pruned(times, now) = SubSeq(times, n + 1, L)
  BY <1>5 DEF Pruned
<1> HIDE DEF old
<1> DEFINE end == SubSeq(times, n + 1, L)
<1>9. Len(end) = L - n /\ \A i \in 1..(L - n) : end[i] = times[i + n]
  <2>1. \A i \in (n + 1)..L : times[i] \in Times
    BY <1>1, <1>4
  <2>2. n + 1 \in Int /\ L \in Int
    BY <1>1, <1>4
  <2>3. \A i \in 1..(L - (n + 1) + 1) : end[i] = times[(n + 1) + i - 1]
    BY <2>1, <2>2, SubSeqProperties
  <2>7. Len(end) = IF n + 1 <= L THEN L - (n + 1) + 1 ELSE 0
    BY <2>1, <2>2, SubSeqProperties
  <2> HIDE DEF end
  <2>4. L - (n + 1) + 1 = L - n
    BY <1>1, <1>4
  <2>5. ASSUME NEW i \in 1..(L - n) PROVE end[i] = times[i + n]
    <3>1. (n + 1) + i - 1 = i + n
      BY <1>1, <1>4
    <3>2. i \in 1..(L - (n + 1) + 1)
      BY <2>4
    <3>3. end[i] = times[(n + 1) + i - 1]
      BY <2>3, <3>2
    <3> QED
      BY <3>1, <3>3
  <2>6. Len(end) = L - n
    <3>1. CASE n + 1 <= L
      BY <2>4, <2>7, <3>1
    <3>2. CASE ~(n + 1 <= L)
      <4>1. L \in Int /\ n \in Int /\ n <= L /\ ~(n + 1 <= L)
        BY <1>1, <1>4, <3>2
      <4>2. L - n = 0
        BY <4>1
      <4> QED
        BY <2>7, <3>2, <4>2
    <3> QED
      BY <3>1, <3>2
  <2> QED
    BY <2>5, <2>6
<1>10. n \in 0..Len(times)
  BY <1>4
<1> QED
  BY <1>6, <1>7, <1>8, <1>9, <1>10

(* Pruning keeps what is young, and adds nothing.                          *)
LEMMA KeptOfPruned ==
    ASSUME NEW times \in Seq(Times), NEW now \in Times, NEW S
    PROVE  /\ Cardinality(Kept(Pruned(times, now), S)) <= Cardinality(Kept(times, S))
           /\ (\A t \in S : t > now - Window) =>
                  Cardinality(Kept(Pruned(times, now), S)) = Cardinality(Kept(times, S))
<1> DEFINE p == Pruned(times, now)
<1>1. PICK n \in 0..Len(times) :
          /\ Len(p) = Len(times) - n
          /\ \A i \in 1..(Len(times) - n) : p[i] = times[i + n]
          /\ \A j \in 1..n : times[j] <= now - Window
  BY PrunedIsEnd
<1>2. /\ Len(times) \in Nat /\ n \in Nat /\ n <= Len(times)
      /\ DOMAIN times = 1..Len(times) /\ p \in Seq(Times)
  BY <1>1, PrunedIsTyped
<1>3. DOMAIN p = 1..(Len(times) - n)
  BY <1>1, <1>2
<1> HIDE DEF p
<1> DEFINE shift == [i \in Kept(p, S) |-> i + n]
<1>4. shift \in Injection(Kept(p, S), Kept(times, S))
  <2>1. ASSUME NEW i \in Kept(p, S)
        PROVE  i \in Int /\ i + n \in Kept(times, S)
    <3>1. i \in 1..(Len(times) - n) /\ p[i] \in S
      BY <1>3 DEF Kept
    <3>2. i + n \in 1..Len(times) /\ times[i + n] \in S
      BY <1>1, <1>2, <3>1
    <3> QED
      BY <1>2, <3>1, <3>2 DEF Kept
  <2>2. shift \in [Kept(p, S) -> Kept(times, S)]
    BY <2>1
  <2>3. ASSUME NEW i \in Kept(p, S), NEW j \in Kept(p, S), shift[i] = shift[j]
        PROVE  i = j
    <3>1. i \in Int /\ j \in Int /\ n \in Int /\ i + n = j + n
      BY <1>2, <2>1, <2>3
    <3> QED
      BY <3>1
  <2> QED
    BY <2>2, <2>3 DEF Injection, IsInjective
<1>5. IsFiniteSet(Kept(times, S))
  BY KeptIsFinite
<1>6. ASSUME \A t \in S : t > now - Window
      PROVE  shift \in Surjection(Kept(p, S), Kept(times, S))
  <2>1. \A j \in Kept(times, S) : \E i \in Kept(p, S) : j = i + n
    <3> SUFFICES ASSUME NEW j \in Kept(times, S)
                 PROVE  j - n \in Kept(p, S) /\ j = (j - n) + n
      OBVIOUS
    <3>1. j \in 1..Len(times) /\ times[j] \in S /\ times[j] \in Times
      BY <1>2 DEF Kept
    <3>2. j \notin 1..n
      <4>1. now - Window \in Int /\ times[j] \in Int /\ times[j] > now - Window
        BY <1>6, <3>1, TimesAssumption DEF Times
      <4> QED
        BY <1>1, <4>1
    <3>3. j - n \in 1..(Len(times) - n) /\ (j - n) + n = j
      BY <1>2, <3>1, <3>2
    <3>4. p[j - n] = times[j]
      BY <1>1, <3>3
    <3> QED
      BY <1>3, <3>1, <3>3, <3>4 DEF Kept
  <2> QED
    BY <1>4, <2>1 DEF Surjection, Injection
<1> HIDE DEF shift
<1>7. /\ Cardinality(Kept(p, S)) <= Cardinality(Kept(times, S))
      /\ Cardinality(Kept(p, S)) = Cardinality(Kept(times, S)) <=>
             shift \in Surjection(Kept(p, S), Kept(times, S))
  BY <1>4, <1>5, FS_Injection
<1> QED
  BY <1>6, <1>7 DEF p

(* A request gets the mutex at most MaxDelay after it read the clock.      *)
ClocksRead ==
    \A r \in Requests : at[r] = "stamped" => clock - MaxDelay <= stamp[r] /\ stamp[r] <= clock

(* The times of an address are in order but for that wait.                 *)
Orderly(times, now) ==
    \A j \in DOMAIN times :
        times[j] <= now /\ \A i \in 1..j : times[i] <= times[j] + MaxDelay
TimesOrderly == \A c \in Clients : Orderly(recent[c], clock)

(* All that is kept was admitted, and what is still within the window has  *)
(* been kept.                                                              *)
KeptWereAdmitted ==
    \A c \in Clients : \A S \in SUBSET Times :
        Cardinality(Kept(recent[c], S)) <= Sum(admitted[c], S)
Recently == {t \in Times : t > clock - Window}
RecentAreKept ==
    \A c \in Clients : \A S \in SUBSET Recently :
        Cardinality(Kept(recent[c], S)) = Sum(admitted[c], S)

LimiterInv == ClocksRead /\ TimesOrderly /\ KeptWereAdmitted /\ RecentAreKept

LEMMA OrderlyPruned ==
    ASSUME NEW times \in Seq(Times), NEW now \in Times, NEW limit, Orderly(times, limit)
    PROVE  Orderly(Pruned(times, now), limit)
<1> DEFINE p == Pruned(times, now)
<1>1. PICK n \in 0..Len(times) : /\ Len(p) = Len(times) - n
                                 /\ \A i \in 1..(Len(times) - n) : p[i] = times[i + n]
  BY PrunedIsEnd
<1>2. /\ Len(times) \in Nat /\ n \in Nat /\ n <= Len(times)
      /\ DOMAIN times = 1..Len(times) /\ p \in Seq(Times)
  BY <1>1, PrunedIsTyped
<1>3. DOMAIN p = 1..(Len(times) - n)
  BY <1>1, <1>2
<1> HIDE DEF p
<1> SUFFICES ASSUME NEW j \in DOMAIN p
             PROVE  p[j] <= limit /\ \A i \in 1..j : p[i] <= p[j] + MaxDelay
  BY DEF p, Orderly
<1>4. j \in Nat /\ j + n \in DOMAIN times /\ p[j] = times[j + n]
  BY <1>1, <1>2, <1>3
<1>5. \A i \in 1..j : i + n \in 1..(j + n) /\ p[i] = times[i + n]
  BY <1>1, <1>2, <1>3, <1>4
<1> QED
  BY <1>4, <1>5 DEF Orderly

LEMMA OrderlyAppended ==
    ASSUME NEW times \in Seq(Times), NEW now \in Times, NEW limit \in Times,
           Orderly(times, limit), limit - MaxDelay <= now, now <= limit
    PROVE  Orderly(Append(times, now), limit)
<1> DEFINE new == Append(times, now)
           L == Len(times)
<1>1. /\ L \in Nat /\ DOMAIN times = 1..L /\ DOMAIN new = 1..(L + 1)
      /\ new[L + 1] = now /\ \A i \in 1..L : new[i] = times[i]
  BY AppendProperties
<1>2. limit \in Int /\ now \in Int /\ MaxDelay \in Nat
  BY TimesAssumption DEF Times
<1>3. \A i \in 1..L : times[i] \in Int /\ times[i] <= limit
  BY <1>1, TimesAssumption DEF Orderly, Times
<1> HIDE DEF new, L
<1> SUFFICES ASSUME NEW j \in 1..(L + 1)
             PROVE  new[j] <= limit /\ \A i \in 1..j : new[i] <= new[j] + MaxDelay
  BY <1>1 DEF Orderly, new
<1>4. CASE j \in 1..L
  <2>1. \A i \in 1..j : i \in 1..L
    BY <1>1, <1>4
  <2> QED
    BY <1>1, <1>4, <2>1 DEF Orderly
<1>5. CASE j = L + 1
  <2>1. \A i \in 1..j : i \in 1..L \/ i = L + 1
    BY <1>1, <1>5
  <2>2. \A i \in 1..L : new[i] <= new[j] + MaxDelay
    BY <1>1, <1>2, <1>3, <1>5
  <2> QED
    BY <1>1, <1>2, <1>5, <2>1, <2>2
<1> QED
  BY <1>1, <1>4, <1>5

(* The limiter keeps its counts when a request with an admissible time     *)
(* prunes the table.                                                       *)
LEMMA PrunedCounts ==
    ASSUME TypeOK, LimiterInv, NEW now \in Times, now <= clock, NEW c \in Clients
    PROVE  /\ Orderly(Pruned(recent[c], now), clock)
           /\ \A S \in SUBSET Times :
                 Cardinality(Kept(Pruned(recent[c], now), S)) <= Sum(admitted[c], S)
           /\ \A S \in SUBSET Recently :
                 Cardinality(Kept(Pruned(recent[c], now), S)) = Sum(admitted[c], S)
<1> DEFINE p == Pruned(recent[c], now)
<1>1. recent[c] \in Seq(Times) /\ p \in Seq(Times)
  BY PrunedIsTyped DEF TypeOK
<1>2. Orderly(p, clock)
  BY <1>1, OrderlyPruned DEF LimiterInv, TimesOrderly
<1>3. ASSUME NEW S \in SUBSET Times
      PROVE  Cardinality(Kept(p, S)) <= Sum(admitted[c], S)
  <2>1. Cardinality(Kept(p, S)) <= Cardinality(Kept(recent[c], S))
    BY <1>1, KeptOfPruned
  <2>2. Cardinality(Kept(recent[c], S)) <= Sum(admitted[c], S)
    BY DEF LimiterInv, KeptWereAdmitted
  <2>3. /\ Cardinality(Kept(p, S)) \in Nat /\ Cardinality(Kept(recent[c], S)) \in Nat
        /\ Sum(admitted[c], S) \in Nat
    <3>1. IsFiniteSet(S) /\ \A t \in S : admitted[c][t] \in Nat
      BY TimesAreFinite DEF TypeOK
    <3> QED
      BY <1>1, <3>1, KeptIsFinite, SumType
  <2> QED
    BY <2>1, <2>2, <2>3
<1>4. ASSUME NEW S \in SUBSET Recently
      PROVE  Cardinality(Kept(p, S)) = Sum(admitted[c], S)
  <2>1. \A t \in S : t > now - Window
    BY TimesAssumption DEF Recently, Times, TypeOK
  <2>2. Cardinality(Kept(p, S)) = Cardinality(Kept(recent[c], S))
    BY <1>1, <2>1, KeptOfPruned
  <2> QED
    BY <2>2 DEF LimiterInv, RecentAreKept
<1> QED
  BY <1>2, <1>3, <1>4

LEMMA LimiterKept ==
    ASSUME TypeOK, LimiterInv, UNCHANGED <<clock, recent, admitted>>,
           \A r \in Requests : at'[r] = "stamped" => at[r] = "stamped" /\ stamp'[r] = stamp[r]
    PROVE  LimiterInv'
<1>1. ClocksRead' /\ TimesOrderly'
  BY DEF LimiterInv, ClocksRead, TimesOrderly
<1>2. KeptWereAdmitted' /\ RecentAreKept'
  BY DEF LimiterInv, KeptWereAdmitted, RecentAreKept, Recently
<1> QED
  BY <1>1, <1>2 DEF LimiterInv

LEMMA LimiterAdmit ==
    ASSUME TypeOK, LimiterInv, NEW r \in Requests, Admit(r)
    PROVE  LimiterInv'
<1> DEFINE c == client[r]
           now == stamp[r]
           p(d) == Pruned(recent[d], now)
<1>1. /\ c \in Clients /\ now \in Times /\ clock \in Times /\ clock' = clock
      /\ clock - MaxDelay <= now /\ now <= clock
  BY DEF Admit, TypeOK, LimiterInv, ClocksRead
<1>2. \A d \in Clients : p(d) \in Seq(Times)
  BY <1>1, PrunedIsTyped DEF TypeOK
<1>3. \A d \in Clients : recent'[d] = IF d = c THEN Append(p(c), now) ELSE p(d)
  BY <1>1 DEF Admit, PrunedAll
<1>4. admitted' = [admitted EXCEPT ![c][now] = admitted[c][now] + 1]
  BY DEF Admit
<1>5. ASSUME NEW d \in Clients
      PROVE  /\ Orderly(p(d), clock)
             /\ \A S \in SUBSET Times : Cardinality(Kept(p(d), S)) <= Sum(admitted[d], S)
             /\ \A S \in SUBSET Recently : Cardinality(Kept(p(d), S)) = Sum(admitted[d], S)
  BY <1>1, PrunedCounts
<1> HIDE DEF c, now, p
<1>6. ASSUME NEW S \in SUBSET Times
      PROVE  /\ Sum(admitted'[c], S) = IF now \in S THEN Sum(admitted[c], S) + 1
                                       ELSE Sum(admitted[c], S)
             /\ Sum(admitted[c], S) \in Nat
  <2>1. admitted \in [Clients -> [Times -> Nat]]
    BY DEF TypeOK
  <2>2. IsFiniteSet(S) /\ \A t \in S : admitted[c][t] \in Nat
    BY <1>1, <2>1, TimesAreFinite
  <2>3. \A t \in S : admitted'[c][t] = IF t = now THEN admitted[c][t] + 1 ELSE admitted[c][t]
    <3>1. admitted'[c] = [admitted[c] EXCEPT ![now] = admitted[c][now] + 1]
      BY <1>1, <1>4, <2>1
    <3>2. DOMAIN admitted[c] = Times
      BY <1>1, <2>1
    <3> QED
      BY <3>1, <3>2
  <2> QED
    BY <2>2, <2>3, SumIncremented, SumType, SMTT(20)
<1>7. \A d \in Clients \ {c} : admitted'[d] = admitted[d]
  BY <1>1, <1>4 DEF TypeOK
<1>8. ASSUME NEW S
      PROVE  /\ Cardinality(Kept(recent'[c], S)) = IF now \in S THEN Cardinality(Kept(p(c), S)) + 1
                                                   ELSE Cardinality(Kept(p(c), S))
             /\ Cardinality(Kept(p(c), S)) \in Nat
  BY <1>1, <1>2, <1>3, KeptOfAppended, KeptIsFinite
<1>9. ClocksRead'
  BY <1>1 DEF Admit, Place, LimiterInv, ClocksRead, TypeOK
<1>10. TimesOrderly'
  <2>1. Orderly(Append(p(c), now), clock)
    BY <1>1, <1>2, <1>5, OrderlyAppended
  <2> QED
    BY <1>1, <1>3, <1>5, <2>1 DEF TimesOrderly
<1>11. KeptWereAdmitted'
  <2> SUFFICES ASSUME NEW d \in Clients, NEW S \in SUBSET Times
               PROVE  Cardinality(Kept(recent'[d], S)) <= Sum(admitted'[d], S)
    BY DEF KeptWereAdmitted
  <2>1. CASE d = c
    <3>1. Cardinality(Kept(p(c), S)) <= Sum(admitted[c], S)
      BY <1>1, <1>5
    <3>2. Cardinality(Kept(p(c), S)) + 1 <= Sum(admitted[c], S) + 1
      BY <1>6, <1>8, <3>1
    <3> QED
      BY <1>6, <1>8, <2>1, <3>1, <3>2
  <2>2. CASE d # c
    BY <1>3, <1>5, <1>7, <2>2
  <2> QED
    BY <2>1, <2>2
<1>12. RecentAreKept'
  <2>1. Recently' = Recently
    BY <1>1 DEF Recently
  <2> SUFFICES ASSUME NEW d \in Clients, NEW S \in SUBSET Recently
               PROVE  Cardinality(Kept(recent'[d], S)) = Sum(admitted'[d], S)
    BY <2>1 DEF RecentAreKept
  <2>2. S \in SUBSET Times
    BY DEF Recently
  <2>3. CASE d = c
    <3>1. Cardinality(Kept(p(c), S)) = Sum(admitted[c], S)
      BY <1>1, <1>5
    <3> QED
      BY <1>6, <1>8, <2>2, <2>3, <3>1
  <2>4. CASE d # c
    BY <1>3, <1>5, <1>7, <2>4
  <2> QED
    BY <2>3, <2>4
<1> QED
  BY <1>9, <1>10, <1>11, <1>12 DEF LimiterInv

LEMMA LimiterRefuse ==
    ASSUME TypeOK, LimiterInv, NEW r \in Requests, Refuse(r)
    PROVE  LimiterInv'
<1> DEFINE now == stamp[r]
<1>1. now \in Times /\ now <= clock /\ clock' = clock /\ admitted' = admitted
  BY DEF Refuse, TypeOK, LimiterInv, ClocksRead
<1>2. \A d \in Clients : recent'[d] = Pruned(recent[d], now)
  BY DEF Refuse, PrunedAll
<1> HIDE DEF now
<1>3. ClocksRead'
  BY <1>1 DEF Refuse, End, Place, LimiterInv, ClocksRead, TypeOK
<1>4. TimesOrderly'
  BY <1>1, <1>2, PrunedCounts DEF TimesOrderly
<1>5. KeptWereAdmitted'
  BY <1>1, <1>2, PrunedCounts DEF KeptWereAdmitted
<1>6. RecentAreKept'
  <2>1. Recently' = Recently
    BY <1>1 DEF Recently
  <2> QED
    BY <1>1, <1>2, <2>1, PrunedCounts DEF RecentAreKept
<1> QED
  BY <1>3, <1>4, <1>5, <1>6 DEF LimiterInv

LEMMA LimiterTick ==
    ASSUME TypeOK, LimiterInv, Tick
    PROVE  LimiterInv'
<1>1. /\ clock \in Int /\ clock' = clock + 1 /\ UNCHANGED <<at, stamp, recent, admitted>>
      /\ \A r \in Requests : at[r] = "stamped" => clock - stamp[r] < MaxDelay
  BY TimesAssumption DEF Tick, TypeOK, Times, locals, limiter
<1>2. ClocksRead'
  <2>1. \A r \in Requests : stamp[r] \in Int
    BY TimesAssumption DEF TypeOK, Times
  <2> QED
    BY <1>1, <2>1, TimesAssumption DEF LimiterInv, ClocksRead
<1>3. TimesOrderly'
  <2>1. \A c \in Clients : \A j \in DOMAIN recent[c] : recent[c][j] \in Int
    BY TimesAssumption DEF TypeOK, Times
  <2> QED
    BY <1>1, <2>1 DEF LimiterInv, TimesOrderly, Orderly
<1>4. KeptWereAdmitted'
  BY <1>1 DEF LimiterInv, KeptWereAdmitted
<1>5. RecentAreKept'
  <2>1. Recently' \subseteq Recently
    BY <1>1, TimesAssumption DEF Recently, Times
  <2> QED
    BY <1>1, <2>1 DEF LimiterInv, RecentAreKept
<1> QED
  BY <1>2, <1>3, <1>4, <1>5 DEF LimiterInv

(* A limiter that has let in nobody.                                       *)
LEMMA LimiterEmpty ==
    ASSUME NEW times, times = << >>, NEW counts \in [Times -> {0}],
           NEW S \in SUBSET Times, NEW now
    PROVE  /\ Orderly(times, now)
           /\ Cardinality(Kept(times, S)) = 0 /\ Sum(counts, S) = 0
<1>1. DOMAIN times = {}
  OBVIOUS
<1>2. Kept(times, S) = {}
  BY <1>1 DEF Kept
<1>3. IsFiniteSet(S) /\ \A t \in S : counts[t] = 0
  BY TimesAreFinite
<1> QED
  BY <1>1, <1>2, <1>3, FS_EmptySet, SumOfZeros DEF Orderly

LEMMA LimiterRestart ==
    ASSUME TypeOK, Restart
    PROVE  LimiterInv'
<1>1. /\ \A c \in Clients : recent'[c] = << >> /\ admitted'[c] \in [Times -> {0}]
      /\ \A r \in Requests : at'[r] = "idle"
  BY DEF Restart
<1>2. ClocksRead'
  BY <1>1 DEF ClocksRead
<1>3. TimesOrderly'
  <2>1. {} \in SUBSET Times
    OBVIOUS
  <2> QED
    BY <1>1, <2>1, LimiterEmpty DEF TimesOrderly
<1>4. KeptWereAdmitted'
  <2> SUFFICES ASSUME NEW c \in Clients, NEW S \in SUBSET Times
               PROVE  Cardinality(Kept(recent'[c], S)) <= Sum(admitted'[c], S)
    BY DEF KeptWereAdmitted
  <2>1. Cardinality(Kept(recent'[c], S)) = 0 /\ Sum(admitted'[c], S) = 0
    BY <1>1, LimiterEmpty
  <2> QED
    BY <2>1
<1>5. RecentAreKept'
  <2>1. Recently' \subseteq Times
    BY DEF Recently
  <2> QED
    BY <1>1, <2>1, LimiterEmpty DEF RecentAreKept
<1> QED
  BY <1>2, <1>3, <1>4, <1>5 DEF LimiterInv

LEMMA LimiterStep == TypeOK /\ LimiterInv /\ [Next]_vars => LimiterInv'
<1> SUFFICES ASSUME TypeOK, LimiterInv, [Next]_vars
             PROVE  LimiterInv'
  OBVIOUS
<1>1. ASSUME NEW r \in Requests, NEW c \in Clients, NEW k \in Kinds, Arrive(r, c, k)
      PROVE  LimiterInv'
  <2>1. ClocksRead'
    <3>1. /\ at' = [at EXCEPT ![r] = "stamped"] /\ stamp' = [stamp EXCEPT ![r] = clock]
          /\ clock' = clock
      BY <1>1 DEF Arrive, Place
    <3>2. /\ at \in [Requests -> Phases] /\ stamp \in [Requests -> Times]
          /\ clock \in Int /\ MaxDelay \in Nat
      BY TimesAssumption DEF TypeOK, Times
    <3>3. clock - MaxDelay <= clock
      BY <3>2
    <3> QED
      BY <3>1, <3>2, <3>3 DEF LimiterInv, ClocksRead
  <2>2. TimesOrderly' /\ KeptWereAdmitted' /\ RecentAreKept'
    BY <1>1 DEF Arrive, limiter, LimiterInv, TimesOrderly, KeptWereAdmitted, RecentAreKept,
                Recently
  <2> QED
    BY <2>1, <2>2 DEF LimiterInv
<1>2. ASSUME NEW r \in Requests,
             Track(r) \/ FallBack(r) \/ Answer(r) \/ Record(r) \/ Leave(r)
      PROVE  LimiterInv'
  <2>1. UNCHANGED <<clock, recent, admitted>>
    BY <1>2 DEF Track, FallBack, Answer, Record, Leave, limiter
  <2>2. \A q \in Requests : at'[q] = "stamped" => at[q] = "stamped" /\ stamp'[q] = stamp[q]
    <3>1. CASE End(r)
      BY <3>1 DEF End, Place, TypeOK
    <3>2. CASE stamp' = stamp /\ (at' = at \/ Place(r, "handling") \/ Place(r, "answered"))
      BY <3>2 DEF Place, TypeOK
    <3> QED
      BY <1>2, <3>1, <3>2 DEF Track, FallBack, Answer, Record, Leave
  <2> QED
    BY <2>1, <2>2, LimiterKept
<1>3. CASE UNCHANGED vars
  BY <1>3, LimiterKept DEF vars, locals, limiter
<1> QED
  BY <1>1, <1>2, <1>3, LimiterAdmit, LimiterRefuse, LimiterTick, LimiterRestart DEF Next

LEMMA LimiterInit == Init => LimiterInv
<1> SUFFICES ASSUME Init PROVE LimiterInv
  OBVIOUS
<1>1. \A c \in Clients : recent[c] = << >> /\ admitted[c] \in [Times -> {0}]
  BY DEF Init
<1>2. ClocksRead
  BY DEF Init, ClocksRead
<1>3. TimesOrderly
  <2>1. {} \in SUBSET Times
    OBVIOUS
  <2> QED
    BY <1>1, <2>1, LimiterEmpty DEF TimesOrderly
<1>4. KeptWereAdmitted
  <2> SUFFICES ASSUME NEW c \in Clients, NEW S \in SUBSET Times
               PROVE  Cardinality(Kept(recent[c], S)) <= Sum(admitted[c], S)
    BY DEF KeptWereAdmitted
  <2>1. Cardinality(Kept(recent[c], S)) = 0 /\ Sum(admitted[c], S) = 0
    BY <1>1, LimiterEmpty
  <2> QED
    BY <2>1
<1>5. RecentAreKept
  <2>1. Recently \subseteq Times
    BY DEF Recently
  <2> QED
    BY <1>1, <2>1, LimiterEmpty DEF RecentAreKept
<1> QED
  BY <1>2, <1>3, <1>4, <1>5 DEF LimiterInv

(* No client is let in more often than the limit within a minute, less the *)
(* wait for the mutex: what was admitted in it is still in the table.      *)
THEOREM AdmissionsAreBounded == Spec => []AdmissionsBounded
<1> DEFINE Span(t) == (t - (Window - MaxDelay) + 1)..t
           Bounded == \A c \in Clients, t \in Times :
                         Sum(admitted[c], Span(t) \cap Times) <= Limit
<1>1. Bounded <=> AdmissionsBounded
  BY SumsAreSums DEF AdmissionsBounded, AdmittedIn
<1>2. Init => Bounded
  <2> SUFFICES ASSUME Init, NEW c \in Clients, NEW t \in Times
               PROVE  Sum(admitted[c], Span(t) \cap Times) <= Limit
    OBVIOUS
  <2>1. recent[c] = << >> /\ admitted[c] \in [Times -> {0}]
    BY DEF Init
  <2>2. Span(t) \cap Times \in SUBSET Times
    OBVIOUS
  <2>3. Sum(admitted[c], Span(t) \cap Times) = 0
    BY <2>1, <2>2, LimiterEmpty
  <2> QED
    BY <2>3, LimitsAssumption
<1>3. ASSUME TypeOK, TypeOK', LimiterInv, LimiterInv', Bounded, [Next]_vars
      PROVE  Bounded'
  <2>1. CASE UNCHANGED admitted
    BY <1>3, <2>1
  <2>2. CASE Restart
    <3> SUFFICES ASSUME NEW c \in Clients, NEW t \in Times
                 PROVE  Sum(admitted'[c], Span(t) \cap Times) <= Limit
      OBVIOUS
    <3>1. admitted'[c] \in [Times -> {0}]
      BY <2>2 DEF Restart
    <3>2. Span(t) \cap Times \in SUBSET Times
      OBVIOUS
    <3> HIDE DEF Span
    <3>3. Sum(admitted'[c], Span(t) \cap Times) = 0
      BY <3>1, <3>2, LimiterEmpty
    <3> QED
      BY <3>3, LimitsAssumption
  <2>3. ASSUME NEW r \in Requests, Admit(r) PROVE Bounded'
    <3> SUFFICES ASSUME NEW c \in Clients, NEW t \in Times
                 PROVE  Sum(admitted'[c], Span(t) \cap Times) <= Limit
      OBVIOUS
    <3> DEFINE S == Span(t) \cap Times
               now == stamp[r]
    <3>1. S \in SUBSET Times /\ IsFiniteSet(S)
      BY TimesAreFinite
    <3>2. /\ client[r] \in Clients /\ now \in Times /\ clock \in Times /\ clock' = clock
          /\ clock - MaxDelay <= now
          /\ admitted' = [admitted EXCEPT ![client[r]][now] = admitted[client[r]][now] + 1]
      BY <1>3, <2>3 DEF Admit, TypeOK, LimiterInv, ClocksRead
    <3>3. CASE c = client[r] /\ now \in S
      <4>1. S \subseteq Recently'
        <5> SUFFICES ASSUME NEW x \in S PROVE x > clock - Window
          BY <3>2 DEF Recently
        <5>1. x \in Int /\ t \in Int /\ now \in Int /\ clock \in Int
              /\ Window \in Int /\ MaxDelay \in Int
          BY <3>2, TimesAssumption DEF Times
        <5>2. x >= t - (Window - MaxDelay) + 1 /\ now <= t
          BY <3>3, <5>1
        <5> QED
          BY <3>2, <5>1, <5>2
      <4>2. Sum(admitted'[c], S) = Cardinality(Kept(recent'[c], S))
        BY <1>3, <4>1 DEF LimiterInv, RecentAreKept
      <4>3. recent'[c] \in Seq(Times) /\ Len(recent'[c]) <= Limit
        BY <1>3 DEF TypeOK
      <4>4. /\ Cardinality(Kept(recent'[c], S)) <= Len(recent'[c])
            /\ Cardinality(Kept(recent'[c], S)) \in Nat /\ Len(recent'[c]) \in Nat
        BY <4>3, KeptIsFinite
      <4> QED
        BY <4>2, <4>3, <4>4, LimitsAssumption
    <3>4. CASE ~(c = client[r] /\ now \in S)
      <4>1. \A x \in S : admitted'[c][x] = admitted[c][x]
        BY <1>3, <3>1, <3>2, <3>4 DEF TypeOK
      <4>2. Sum(admitted'[c], S) = Sum(admitted[c], S)
        BY <3>1, <4>1, SumCongruence
      <4> QED
        BY <1>3, <4>2
    <3> QED
      BY <3>3, <3>4
  <2>4. CASE Next /\ ~Restart /\ ~\E r \in Requests : Admit(r)
    BY <2>1, <2>4 DEF Next, Arrive, Refuse, Track, FallBack, Answer, Record, Leave, Tick, limiter
  <2>5. CASE UNCHANGED vars
    BY <2>1, <2>5 DEF vars, limiter
  <2> QED
    BY <1>3, <2>2, <2>3, <2>4, <2>5
<1>4. TypeOK /\ LimiterInv /\ Bounded /\ [Next]_vars => Bounded'
  BY <1>3, TypingStep, LimiterStep
<1> HIDE DEF Bounded
<1> QED
  BY <1>1, <1>2, <1>4, TypeCorrect, LimiterInit, LimiterStep, PTL DEF Spec

(* What pruning leaves of an address is from the last minute, less the     *)
(* wait for the mutex, and was admitted then.                              *)
LEMMA PrunedWereAdmitted ==
    ASSUME TypeOK, LimiterInv, NEW now \in Times, now <= clock, NEW c \in Clients
    PROVE  /\ Len(Pruned(recent[c], now)) <= AdmittedIn(c, (now - Window - MaxDelay + 1)..clock)
           /\ AdmittedIn(c, (now - Window - MaxDelay + 1)..clock) \in Nat
<1> DEFINE times == recent[c]
           p == Pruned(times, now)
           S == ((now - Window - MaxDelay + 1)..clock) \cap Times
<1>1. times \in Seq(Times) /\ p \in Seq(Times)
  BY PrunedIsTyped DEF TypeOK
<1>2. PICK n \in 0..Len(times) :
          /\ Len(p) = Len(times) - n
          /\ \A i \in 1..(Len(times) - n) : p[i] = times[i + n]
          /\ n < Len(times) => times[n + 1] > now - Window
  BY <1>1, PrunedIsEnd
<1>3. Len(times) \in Nat /\ n \in Nat /\ n <= Len(times) /\ DOMAIN times = 1..Len(times)
  BY <1>1, <1>2
<1>4. DOMAIN p = 1..(Len(times) - n)
  BY <1>1, <1>2
<1>5. Orderly(times, clock)
  BY DEF LimiterInv, TimesOrderly
<1>6. \A i \in DOMAIN p : p[i] \in S
  <2> SUFFICES ASSUME NEW i \in DOMAIN p
               PROVE  p[i] \in S
    OBVIOUS
  <2> HIDE DEF p, times
  <2>1. i + n \in DOMAIN times /\ n + 1 \in 1..(i + n) /\ n + 1 \in DOMAIN times /\ n < Len(times)
    BY <1>3, <1>4
  <2>2. times[i + n] \in Times /\ times[n + 1] \in Times /\ p[i] = times[i + n]
    BY <1>1, <1>2, <1>4, <2>1
  <2>3. times[i + n] <= clock /\ times[n + 1] <= times[i + n] + MaxDelay
    BY <1>5, <2>1 DEF Orderly
  <2>4. times[n + 1] > now - Window
    BY <1>2, <2>1
  <2>5. /\ now \in Int /\ clock \in Int /\ Window \in Int /\ MaxDelay \in Int
        /\ times[i + n] \in Int /\ times[n + 1] \in Int
    <3>1. Window \in Int /\ MaxDelay \in Int /\ Times \subseteq Int
      BY TimesAssumption DEF Times
    <3>2. clock \in Times
      BY DEF TypeOK
    <3> QED
      BY <2>2, <3>1, <3>2
  <2>6. times[i + n] \in (now - Window - MaxDelay + 1)..clock
    BY <2>3, <2>4, <2>5
  <2> QED
    BY <2>2, <2>6
<1>7. Cardinality(Kept(p, S)) = Len(p)
  BY <1>1, <1>6, KeptIsFinite
<1>8. S \in SUBSET Times
  OBVIOUS
<1>9. Cardinality(Kept(p, S)) <= Sum(admitted[c], S)
  BY <1>8, PrunedCounts
<1>10. Sum(admitted[c], S) \in Nat
  <2>1. IsFiniteSet(S) /\ \A t \in S : admitted[c][t] \in Nat
    BY <1>8, TimesAreFinite DEF TypeOK
  <2> QED
    BY <2>1, SumType
<1>11. AdmittedIn(c, (now - Window - MaxDelay + 1)..clock) = Sum(admitted[c], S)
  BY SumsAreSums DEF AdmittedIn
<1> QED
  BY <1>7, <1>9, <1>10, <1>11

(* A refusal has a reason from the last minute and the wait for the mutex: *)
(* the client's own requests, or as many other clients as the table holds. *)
THEOREM RefusalsHaveReasons == Spec => RefusedOnlyIfBusy
<1> DEFINE Busy(r) ==
        LET span == (stamp[r] - Window - MaxDelay + 1)..clock
        IN  \/ AdmittedIn(client[r], span) >= Limit
            \/ Cardinality({c \in Clients \ {client[r]} : AdmittedIn(c, span) > 0}) >= MaxClients
<1>1. ASSUME TypeOK, LimiterInv, NEW r \in Requests, Refuse(r)
      PROVE  Busy(r)
  <2> DEFINE now == stamp[r]
             span == (now - Window - MaxDelay + 1)..clock
             table == PrunedAll(now)
             Others == {c \in Clients \ {client[r]} : AdmittedIn(c, span) > 0}
             Full == {c \in Clients : table[c] # << >>}
  <2>1. now \in Times /\ now <= clock /\ client[r] \in Clients
    BY <1>1 DEF Refuse, TypeOK, LimiterInv, ClocksRead
  <2>2. ~HasPlace(table, client[r])
    BY <1>1 DEF Refuse
  <2>3. \A c \in Clients : table[c] = Pruned(recent[c], now)
    BY DEF PrunedAll
  <2>4. ASSUME NEW c \in Clients
        PROVE  /\ Len(table[c]) <= AdmittedIn(c, span) /\ AdmittedIn(c, span) \in Nat
               /\ Len(table[c]) \in Nat /\ (table[c] # << >> => Len(table[c]) > 0)
    <3>1. Len(table[c]) <= AdmittedIn(c, span) /\ AdmittedIn(c, span) \in Nat
      BY <1>1, <2>1, <2>3, PrunedWereAdmitted
    <3>2. table[c] \in Seq(Times)
      BY <1>1, <2>1, <2>3, PrunedIsTyped DEF TypeOK
    <3>3. Len(table[c]) \in Nat /\ (table[c] # << >> => Len(table[c]) # 0)
      BY <3>2, EmptySeq
    <3> QED
      BY <3>1, <3>3
  <2> HIDE DEF table, span, now
  <2>5. CASE ~(Len(table[client[r]]) < Limit)
    BY <2>1, <2>4, <2>5, LimitsAssumption DEF span, now
  <2>6. CASE table[client[r]] = << >> /\ ~(Cardinality(Full) < MaxClients)
    <3>1. Full \in SUBSET Others
      <4> SUFFICES ASSUME NEW c \in Full PROVE c \in Others
        OBVIOUS
      <4>1. c \in Clients /\ table[c] # << >> /\ c # client[r]
        BY <2>6
      <4>2. AdmittedIn(c, span) > 0
        BY <2>4, <4>1
      <4> QED
        BY <4>1, <4>2
    <3>2. IsFiniteSet(Others) /\ IsFiniteSet(Full)
      BY SetsAssumption, FS_Subset
    <3> HIDE DEF Full, Others
    <3>3. Cardinality(Full) <= Cardinality(Others)
          /\ Cardinality(Full) \in Nat /\ Cardinality(Others) \in Nat
      BY <3>1, <3>2, FS_Subset, FS_CardinalityType
    <3>4. Cardinality(Others) >= MaxClients
      BY <2>6, <3>3, LimitsAssumption
    <3> QED
      BY <3>4 DEF Others, span, now
  <2> QED
    BY <2>2, <2>5, <2>6 DEF HasPlace
<1>2. TypeOK /\ LimiterInv /\ [Next]_vars => [\A r \in Requests : Refuse(r) => Busy(r)]_vars
  BY <1>1
<1> QED
  BY <1>2, TypeCorrect, LimiterInit, TypingStep, LimiterStep, PTL DEF Spec, RefusedOnlyIfBusy

=============================================================================
