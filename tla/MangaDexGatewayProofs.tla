----------------------- MODULE MangaDexGatewayProofs -----------------------
(***************************************************************************)
(* Theorems about the MangaDex gateway, for every set of callers, every    *)
(* pace, threshold and cooldown.  Those about a quiet wire need the single *)
(* permit the code deploys; those about the wedged breaker need nothing.   *)
(***************************************************************************)
EXTENDS MangaDexGateway, FiniteSetTheorems, TLAPS

USE DEF Closed, MaxShift

(* The cooldown ladder stays between the base cooldown and the cap.        *)
LEMMA CooldownAfterInRange ==
    ASSUME NEW n \in 0..MaxShift
    PROVE  CooldownAfter(n) \in Cooldown..MaxCooldown
<1>1. Multiplier(n) \in {1, 2, 4, 8}
  BY DEF Multiplier
<1>2. Cooldown * Multiplier(n) \in Nat /\ Cooldown * Multiplier(n) >= Cooldown
  BY <1>1, CooldownAssumption
<1> QED
  BY <1>2, CooldownAssumption DEF CooldownAfter, Lesser

(* TypeOK without the upper bound on permits, which rests on their         *)
(* conservation; the flag apart from the rest, because no one prover does  *)
(* both arithmetic and Boolean-valued variables.                           *)
FlagTyped == halfOpenProbeActive \in BOOLEAN

RestTyped ==
    /\ phase \in [Requests -> Phases]
    /\ ahead \in [Requests -> SUBSET Requests]
    /\ permits \in Nat
    /\ slot \in [Requests -> Nat]
    /\ result \in [Requests -> Results]
    /\ nextRequestAt \in Nat
    /\ consecutiveFailures \in 0..(Threshold - 1)
    /\ openUntil \in {Closed} \cup 0..MaxCooldown
    /\ openCount \in 0..MaxShift
    /\ failureRun \in 0..Threshold
    /\ sinceThrottle \in 0..Cooldown
    /\ sinceSend \in 0..Interval

LEMMA FlagStep == FlagTyped /\ [Next]_vars => FlagTyped'
  BY DEF FlagTyped, Next, Step, Abandon, Call, Acquire, Send, Refuse, Respond,
     Record, RecordResult, RecordSuccess, RecordFailure, AbandonWaiting,
     AbandonHolding, Tick, vars, breakerVars

LEMMA RestStep == RestTyped /\ [Next]_vars => RestTyped'
<1> SUFFICES ASSUME RestTyped, [Next]_vars PROVE RestTyped'
  OBVIOUS
<1> USE CooldownAssumption, ThresholdAssumption, IntervalAssumption,
        PermitsAssumption DEF RestTyped, Phases, Results
<1>1. CASE UNCHANGED vars
  BY <1>1 DEF vars, queueVars, breakerVars, observerVars
<1>2. ASSUME NEW r \in Requests, Call(r) PROVE RestTyped'
  BY <1>2 DEF Call, breakerVars, observerVars
<1>3. ASSUME NEW r \in Requests, Acquire(r) PROVE RestTyped'
  BY <1>3 DEF Acquire, LeaveQueue, breakerVars, observerVars
<1>4. ASSUME NEW r \in Requests, Send(r) PROVE RestTyped'
  BY <1>4 DEF Send
<1>5. ASSUME NEW r \in Requests, Refuse(r) PROVE RestTyped'
  BY <1>5 DEF Refuse, Release, breakerVars, observerVars
<1>6. ASSUME NEW r \in Requests, NEW res \in Results, Respond(r, res)
      PROVE  RestTyped'
  BY <1>6 DEF Respond, breakerVars, observerVars
<1>7. ASSUME NEW r \in Requests, Record(r) PROVE RestTyped'
  <2>1. CASE result[r] = "success"
    BY <1>7, <2>1 DEF Record, Release, RecordResult, RecordSuccess, Lesser
  <2>2. CASE result[r] # "success" /\ Trips(result[r])
    BY <1>7, <2>2, CooldownAfterInRange
    DEF Record, Release, RecordResult, RecordFailure, Lesser
  <2>3. CASE result[r] # "success" /\ ~Trips(result[r])
    BY <1>7, <2>3
    DEF Record, Release, RecordResult, RecordFailure, Trips, Lesser
  <2> QED
    BY <2>1, <2>2, <2>3
<1>8. ASSUME NEW r \in Requests, Abandon(r) PROVE RestTyped'
  BY <1>8 DEF Abandon, AbandonWaiting, AbandonHolding, LeaveQueue, Release,
     breakerVars, observerVars
<1>9. CASE Tick
  BY <1>9 DEF Tick, Earlier, Greater, Lesser
<1> QED
  BY <1>1, <1>2, <1>3, <1>4, <1>5, <1>6, <1>7, <1>8, <1>9 DEF Next, Step

LEMMA Typing == Spec => [](RestTyped /\ FlagTyped)
<1>1. Init => RestTyped
  BY CooldownAssumption, ThresholdAssumption, IntervalAssumption,
     PermitsAssumption DEF Init, RestTyped, Phases, Results
<1>2. Init => FlagTyped
  BY DEF Init, FlagTyped
<1> QED
  BY <1>1, <1>2, RestStep, FlagStep, PTL DEF Spec

Inv == RestTyped /\ FlagTyped

(***************************************************************************)
(* Permits.                                                                *)
(***************************************************************************)

LEMMA HoldersFinite == IsFiniteSet(Holders)
  BY RequestsAssumption, FS_Subset DEF Holders

(* A call that starts to hold a permit adds itself to the holders.         *)
LEMMA HoldersGain ==
    ASSUME NEW r \in Requests, phase \in [Requests -> Phases],
           r \notin Holders, phase' = [phase EXCEPT ![r] = "sleeping"]
    PROVE  Cardinality(Holders') = Cardinality(Holders) + 1
<1>1. Holders' = Holders \cup {r}
  BY DEF Holders
<1> QED
  BY <1>1, HoldersFinite, FS_AddElement

(* A call that ends while it holds a permit leaves the holders.            *)
LEMMA HoldersLoss ==
    ASSUME NEW r \in Requests, phase \in [Requests -> Phases],
           r \in Holders, phase' = [phase EXCEPT ![r] = "idle"]
    PROVE  Cardinality(Holders') = Cardinality(Holders) - 1
<1>1. Holders' = Holders \ {r}
  BY DEF Holders
<1> QED
  BY <1>1, HoldersFinite, FS_RemoveElement

(* However calls end, no permit is lost and none is returned twice.        *)
THEOREM PermitsAreConserved == Spec => []PermitsConserved
<1>1. Init => PermitsConserved
  <2>1. Init => Holders = {}
    BY DEF Init, Holders
  <2> QED
    BY <2>1, FS_EmptySet, PermitsAssumption DEF Init, PermitsConserved
<1>2. Inv /\ PermitsConserved /\ [Next]_vars => PermitsConserved'
  <2> SUFFICES ASSUME Inv, PermitsConserved, [Next]_vars
               PROVE  PermitsConserved'
    OBVIOUS
  <2> USE PermitsAssumption DEF Inv, RestTyped
  <2>0. Cardinality(Holders) \in Nat
    BY HoldersFinite, FS_CardinalityType
  <2>1. ASSUME NEW r \in Requests, Acquire(r) PROVE PermitsConserved'
    <3>1. Cardinality(Holders') = Cardinality(Holders) + 1
      BY <2>1, HoldersGain DEF Acquire, Holders
    <3> QED
      BY <2>0, <2>1, <3>1 DEF Acquire, PermitsConserved
  <2>2. ASSUME NEW r \in Requests, r \in Holders, Release(r)
        PROVE  PermitsConserved'
    <3>1. Cardinality(Holders') = Cardinality(Holders) - 1
      BY <2>2, HoldersLoss DEF Release
    <3> QED
      BY <2>0, <2>2, <3>1 DEF Release, PermitsConserved
  <2>3. ASSUME NEW r \in Requests, Refuse(r) \/ Record(r) \/ AbandonHolding(r)
        PROVE  PermitsConserved'
    BY <2>2, <2>3 DEF Refuse, Record, AbandonHolding, Holders
  <2>4. ASSUME Holders' = Holders, permits' = permits PROVE PermitsConserved'
    BY <2>4 DEF PermitsConserved
  <2>5. ASSUME NEW r \in Requests, Call(r) \/ AbandonWaiting(r)
        PROVE  PermitsConserved'
    BY <2>4, <2>5 DEF Call, AbandonWaiting, Holders
  <2>6. ASSUME NEW r \in Requests, NEW res \in Results,
               Send(r) \/ Respond(r, res)
        PROVE  PermitsConserved'
    BY <2>4, <2>6 DEF Send, Respond, Holders
  <2>7. CASE Tick \/ UNCHANGED vars
    BY <2>4, <2>7 DEF Tick, vars, queueVars, Holders
  <2> QED
    BY <2>1, <2>3, <2>5, <2>6, <2>7 DEF Next, Step, Abandon
<1> QED
  BY <1>1, <1>2, Typing, PTL DEF Spec, Inv

(* Every variable stays in its range: the typing of the variables, and no  *)
(* more free permits than the semaphore was built with.                    *)
THEOREM TypeCorrect == Spec => []TypeOK
<1>1. RestTyped /\ FlagTyped /\ PermitsConserved => TypeOK
  <2>1. Cardinality(Holders) \in Nat
    BY HoldersFinite, FS_CardinalityType
  <2>2. RestTyped /\ PermitsConserved => permits \in 0..Permits
    BY <2>1, PermitsAssumption DEF RestTyped, PermitsConserved
  <2> QED
    BY <2>2 DEF RestTyped, FlagTyped, TypeOK
<1> QED
  BY <1>1, Typing, PermitsAreConserved, PTL

(***************************************************************************)
(* The circuit breaker.                                                    *)
(***************************************************************************)

(* Why a closed circuit has seen few failures: its counter then counts     *)
(* exactly the failures since the last success, and no probe is out.       *)
ClosedCounts ==
    openUntil = Closed => ~halfOpenProbeActive /\ failureRun = consecutiveFailures

LEMMA ClosedCountsStep == Inv /\ ClosedCounts /\ [Next]_vars => ClosedCounts'
<1> SUFFICES ASSUME Inv, ClosedCounts, [Next]_vars PROVE ClosedCounts'
  OBVIOUS
<1> USE CooldownAssumption, ThresholdAssumption DEF Inv, RestTyped, FlagTyped
<1>1. ASSUME NEW r \in Requests, Record(r) PROVE ClosedCounts'
  <2>1. CASE result[r] = "success"
    BY <1>1, <2>1 DEF Record, RecordResult, RecordSuccess, ClosedCounts
  <2>2. CASE result[r] # "success" /\ Trips(result[r])
    <3>1. openUntil' # Closed
      BY <1>1, <2>2, CooldownAfterInRange
      DEF Record, RecordResult, RecordFailure
    <3> QED
      BY <3>1 DEF ClosedCounts
  <2>3. CASE result[r] # "success" /\ ~Trips(result[r])
    <3>1. consecutiveFailures' = consecutiveFailures + 1
      BY <1>1, <2>3 DEF Record, RecordResult, RecordFailure
    <3>2. openUntil' = openUntil /\ ~halfOpenProbeActive'
      BY <1>1, <2>3 DEF Record, RecordResult, RecordFailure
    <3>3. consecutiveFailures + 1 < Threshold
      BY <2>3 DEF Trips
    <3>4. failureRun' = Lesser(failureRun + 1, Threshold)
      BY <1>1, <2>3 DEF Record
    <3> QED
      BY <3>1, <3>2, <3>3, <3>4 DEF ClosedCounts, Lesser
  <2> QED
    BY <2>1, <2>2, <2>3
<1>2. ASSUME NEW r \in Requests, Send(r) PROVE ClosedCounts'
  BY <1>2 DEF Send, ClosedCounts
<1>3. CASE Tick
  BY <1>3 DEF Tick, Earlier, Greater, ClosedCounts
<1>4. ASSUME UNCHANGED <<breakerVars, observerVars>> PROVE ClosedCounts'
  BY <1>4 DEF breakerVars, observerVars, ClosedCounts
<1> QED
  BY <1>1, <1>2, <1>3, <1>4
  DEF Next, Step, Abandon, Call, Acquire, Refuse, Respond, AbandonWaiting,
      AbandonHolding, vars

(* A closed circuit has recorded fewer than Threshold failures in a row.   *)
THEOREM ClosedHasFewFailures == Spec => []ClosedMeansFewFailures
<1>1. Init => ClosedCounts
  BY DEF Init, ClosedCounts
<1>2. Inv /\ ClosedCounts => ClosedMeansFewFailures
  BY ThresholdAssumption
  DEF Inv, RestTyped, ClosedCounts, ClosedMeansFewFailures
<1> QED
  BY <1>1, <1>2, ClosedCountsStep, Typing, PTL DEF Spec, Inv

(***************************************************************************)
(* How the breaker is wedged: the probe's caller leaves, and nothing else. *)
(***************************************************************************)

(* The flag is up only while open_until is set.                            *)
ProbeMeansOpen == halfOpenProbeActive => openUntil # Closed

LEMMA RecordLowersFlag ==
    ASSUME NEW r \in Requests, Record(r)
    PROVE  ~halfOpenProbeActive'
  BY DEF Record, RecordResult, RecordSuccess, RecordFailure

LEMMA ProbeMeansOpenStep == Inv /\ ProbeMeansOpen /\ [Next]_vars => ProbeMeansOpen'
<1> SUFFICES ASSUME Inv, ProbeMeansOpen, [Next]_vars PROVE ProbeMeansOpen'
  OBVIOUS
<1> USE DEF ProbeMeansOpen
<1>1. ASSUME NEW r \in Requests, Record(r) PROVE ProbeMeansOpen'
  BY <1>1, RecordLowersFlag
<1>2. ASSUME NEW r \in Requests, Send(r) PROVE ProbeMeansOpen'
  BY <1>2 DEF Send
<1>3. CASE Tick
  BY <1>3 DEF Tick, Inv, RestTyped, Earlier, Greater
<1>4. CASE UNCHANGED breakerVars
  BY <1>4 DEF breakerVars
<1> QED
  BY <1>1, <1>2, <1>3, <1>4
  DEF Next, Step, Abandon, Call, Acquire, Refuse, Respond, AbandonWaiting,
      AbandonHolding, vars

LEMMA ProbeIsOpen == Spec => []ProbeMeansOpen
<1>1. Init => ProbeMeansOpen
  BY DEF Init, ProbeMeansOpen
<1> QED
  BY <1>1, ProbeMeansOpenStep, Typing, PTL DEF Spec, Inv

(* Every step that wedges the breaker is the drop of a request in flight:  *)
(* any other step keeps the exchange that will lower the flag, or lowers   *)
(* it itself.                                                              *)
THEOREM DropsAloneWedge == Spec => WedgedByDropsOnly
<1>1. ASSUME Inv, [Next]_vars, ~Wedged, Wedged'
      PROVE  \E r \in Abandonable : r \in InFlight /\ AbandonHolding(r)
  <2> USE <1>1 DEF Inv, RestTyped, Phases, InFlight, Wedged
  <2>1. ASSUME NEW r \in Requests, Record(r) PROVE FALSE
    BY <2>1, RecordLowersFlag
  <2>2. ASSUME NEW r \in Requests, Send(r) PROVE FALSE
    <3>1. r \in InFlight'
      BY <2>2 DEF Send
    <3> QED
      BY <3>1
  <2>3. ASSUME NEW r \in Requests, NEW res \in Results, Respond(r, res) PROVE FALSE
    BY <2>3 DEF Respond, breakerVars
  <2>4. ASSUME NEW r \in Requests, Call(r) \/ Acquire(r) \/ AbandonWaiting(r)
        PROVE  FALSE
    BY <2>4 DEF Call, Acquire, AbandonWaiting, breakerVars
  <2>5. ASSUME NEW r \in Requests, Refuse(r) PROVE FALSE
    BY <2>5 DEF Refuse, Release, breakerVars
  <2>6. ASSUME NEW r \in Requests, AbandonHolding(r)
        PROVE  r \in Abandonable /\ r \in InFlight
    BY <2>6 DEF AbandonHolding, Release, breakerVars
  <2>7. CASE Tick \/ UNCHANGED vars
    BY <2>7 DEF Tick, vars, queueVars, breakerVars
  <2> QED
    BY <2>1, <2>2, <2>3, <2>4, <2>5, <2>6, <2>7 DEF Next, Step, Abandon
<1> QED
  BY <1>1, Typing, PTL DEF Spec, Inv, WedgedByDropsOnly

(* Nobody recovers a wedged breaker: the flag bars every request, and only *)
(* a request in flight could have lowered it.                              *)
THEOREM WedgeIsForGood == Spec => WedgedForGood
<1>1. ASSUME Inv, ProbeMeansOpen, [Next]_vars, Wedged
      PROVE  Wedged' /\ \A r \in Requests : ~Send(r)
  <2> USE <1>1 DEF Inv, RestTyped, Phases, InFlight, Wedged
  <2>1. ASSUME NEW r \in Requests PROVE ~Send(r)
    BY DEF Send, AllowsRequest, ProbeMeansOpen
  <2>2. ASSUME NEW r \in Requests, Record(r) PROVE FALSE
    BY <2>2 DEF Record
  <2>3. ASSUME NEW r \in Requests, NEW res \in Results, Respond(r, res) PROVE FALSE
    BY <2>3 DEF Respond
  <2>4. ASSUME NEW r \in Requests, Call(r) \/ Acquire(r) \/ AbandonWaiting(r)
        PROVE  Wedged'
    BY <2>4 DEF Call, Acquire, AbandonWaiting, breakerVars
  <2>5. ASSUME NEW r \in Requests, Refuse(r) \/ AbandonHolding(r) PROVE Wedged'
    BY <2>5 DEF Refuse, AbandonHolding, Release, breakerVars
  <2>6. CASE Tick \/ UNCHANGED vars
    <3>1. phase' = phase /\ halfOpenProbeActive' = halfOpenProbeActive
      BY <2>6, Zenon DEF Tick, vars, queueVars, breakerVars
    <3>2. InFlight' = {}
      BY <3>1
    <3> QED
      BY <2>1, <3>1, <3>2
  <2> QED
    BY <2>1, <2>2, <2>3, <2>4, <2>5, <2>6 DEF Next, Step, Abandon
<1> QED
  BY <1>1, Typing, ProbeIsOpen, PTL DEF Spec, Inv, WedgedForGood

(***************************************************************************)
(* One permit: nothing on the wire while the circuit cools down.           *)
(***************************************************************************)

(* With one permit, two holders are the same call.                         *)
LEMMA OneHolder ==
    ASSUME Permits = 1, RestTyped, PermitsConserved, NEW r \in Holders
    PROVE  Holders = {r}
<1>1. Cardinality(Holders) \in Nat /\ Cardinality(Holders) <= 1
  BY HoldersFinite, FS_CardinalityType DEF RestTyped, PermitsConserved
<1>2. IsFiniteSet(Holders \ {r}) /\ Cardinality(Holders \ {r}) = Cardinality(Holders) - 1
  BY HoldersFinite, FS_RemoveElement
<1>3. Cardinality(Holders \ {r}) \in Nat
  BY <1>2, FS_CardinalityType
<1>4. Holders \ {r} = {}
  BY <1>1, <1>2, <1>3, FS_EmptySet
<1> QED
  BY <1>4

(* How far the cooldown still reaches after a recorded throttling.         *)
ThrottleHolds ==
    sinceThrottle < Cooldown => openUntil >= Cooldown - sinceThrottle

QuietInv == Inv /\ PermitsConserved /\ OpenMeansQuiet /\ ThrottleHolds

LEMMA QuietStep ==
    ASSUME Permits = 1
    PROVE  QuietInv /\ [Next]_vars => OpenMeansQuiet' /\ ThrottleHolds'
<1> SUFFICES ASSUME QuietInv, [Next]_vars PROVE OpenMeansQuiet' /\ ThrottleHolds'
  OBVIOUS
<1> USE CooldownAssumption
    DEF QuietInv, Inv, RestTyped, OpenMeansQuiet, ThrottleHolds
<1>1. ASSUME NEW r \in Requests, Record(r) PROVE OpenMeansQuiet' /\ ThrottleHolds'
  <2>1. InFlight' = {}
    <3>1. r \in Holders /\ InFlight' \subseteq Holders \ {r}
      BY <1>1 DEF Record, Release, Holders, InFlight, Phases
    <3> QED
      BY <3>1, OneHolder
  <2>2. sinceThrottle = Cooldown
    BY <1>1 DEF Record, InFlight
  <2>3. CASE result[r] = "throttled"
    <3>1. openUntil' \in Cooldown..MaxCooldown /\ sinceThrottle' = 0
      BY <1>1, <2>3, CooldownAfterInRange
      DEF Record, RecordResult, RecordFailure, Trips
    <3> QED
      BY <2>1, <3>1
  <2>4. CASE result[r] # "throttled"
    BY <1>1, <2>1, <2>2, <2>4 DEF Record
  <2> QED
    BY <2>3, <2>4
<1>2. ASSUME NEW r \in Requests, Send(r) PROVE OpenMeansQuiet' /\ ThrottleHolds'
  BY <1>2 DEF Send, AllowsRequest
<1>3. CASE Tick
  BY <1>3 DEF Tick, Earlier, Greater, Lesser, InFlight
<1>4. ASSUME UNCHANGED <<breakerVars, observerVars>>, InFlight' \subseteq InFlight
      PROVE  OpenMeansQuiet' /\ ThrottleHolds'
  BY <1>4 DEF breakerVars, observerVars
<1>5. ASSUME NEW r \in Requests, NEW res \in Results,
             Call(r) \/ Acquire(r) \/ Refuse(r) \/ Respond(r, res)
      PROVE  InFlight' \subseteq InFlight
  BY <1>5 DEF Call, Acquire, Refuse, Respond, Release, InFlight, Phases
<1>6. ASSUME NEW r \in Requests, Abandon(r) PROVE InFlight' \subseteq InFlight
  BY <1>6 DEF Abandon, AbandonWaiting, AbandonHolding, Release, InFlight, Phases
<1> QED
  BY <1>1, <1>2, <1>3, <1>4, <1>5, <1>6
  DEF Next, Step, Abandon, Call, Acquire, Refuse, Respond, AbandonWaiting,
      AbandonHolding, vars, queueVars, InFlight

(* With the deployed single permit nothing is on the wire while the        *)
(* circuit cools down, whoever disconnects and whenever.                   *)
THEOREM OpenCircuitIsQuiet ==
    ASSUME Permits = 1
    PROVE  Spec => []OpenMeansQuiet
<1>1. Init => OpenMeansQuiet /\ ThrottleHolds
  BY CooldownAssumption DEF Init, OpenMeansQuiet, ThrottleHolds
<1> QED
  BY <1>1, QuietStep, Typing, PermitsAreConserved, PTL DEF Spec, QuietInv, Inv

(* With a single permit no request leaves for a full cooldown after a      *)
(* recorded 429 or 403.                                                    *)
THEOREM ThrottlingIsSilent ==
    ASSUME Permits = 1
    PROVE  Spec => ThrottleSilence
<1>1. Init => OpenMeansQuiet /\ ThrottleHolds
  BY CooldownAssumption DEF Init, OpenMeansQuiet, ThrottleHolds
<1>2. Inv /\ ThrottleHolds => \A r \in Requests : Send(r) => sinceThrottle = Cooldown
  BY CooldownAssumption
  DEF Inv, RestTyped, ThrottleHolds, Send, AllowsRequest
<1>3. Inv /\ ThrottleHolds /\ [Next]_vars
        => [\A r \in Requests : Send(r) => sinceThrottle = Cooldown]_vars
  BY <1>2
<1> QED
  BY <1>1, <1>3, QuietStep, Typing, PermitsAreConserved, PTL
  DEF Spec, QuietInv, Inv, ThrottleSilence

(***************************************************************************)
(* Pacing.                                                                 *)
(***************************************************************************)

(* Slots reserved ahead of the present are an interval apart, for any      *)
(* number of permits and with sleepers that disconnect.                    *)
THEOREM SlotsStaySpaced == Spec => []SlotsSpaced
<1>1. Init => SlotsSpaced
  BY DEF Init, SlotsSpaced
<1>2. Inv /\ SlotsSpaced /\ [Next]_vars => SlotsSpaced'
  <2> SUFFICES ASSUME Inv, SlotsSpaced, [Next]_vars PROVE SlotsSpaced'
    OBVIOUS
  <2> USE IntervalAssumption DEF Inv, RestTyped, Phases, SlotsSpaced
  <2>1. ASSUME NEW r \in Requests, Acquire(r) PROVE SlotsSpaced'
    BY <2>1 DEF Acquire
  <2>2. ASSUME NEW r \in Requests, Release(r), nextRequestAt' = nextRequestAt
        PROVE  SlotsSpaced'
    BY <2>2 DEF Release
  <2>3. ASSUME NEW r \in Requests, NEW res \in Results,
               Call(r) \/ Send(r) \/ Respond(r, res) \/ AbandonWaiting(r)
        PROVE  SlotsSpaced'
    BY <2>3 DEF Call, Send, Respond, AbandonWaiting
  <2>4. ASSUME NEW r \in Requests, Refuse(r) \/ Record(r) \/ AbandonHolding(r)
        PROVE  SlotsSpaced'
    BY <2>2, <2>4 DEF Refuse, Record, AbandonHolding
  <2>5. CASE Tick
    BY <2>5 DEF Tick, Earlier, Greater
  <2>6. CASE UNCHANGED vars
    BY <2>6 DEF vars, queueVars
  <2> QED
    BY <2>1, <2>3, <2>4, <2>5, <2>6 DEF Next, Step, Abandon
<1> QED
  BY <1>1, <1>2, Typing, PTL DEF Spec, Inv

(* Why requests leave an interval apart when timers fire in time: the      *)
(* slots of the sleepers, those that are due among them, are an interval   *)
(* apart and an interval past the last request, and the pacing clock is an *)
(* interval past them all.                                                 *)
Paced ==
    /\ nextRequestAt + sinceSend >= Interval
    /\ \A r \in Requests :
          phase[r] = "sleeping" =>
              /\ slot[r] + sinceSend >= Interval
              /\ nextRequestAt >= slot[r] + Interval
              /\ \A q \in Requests \ {r} :
                     phase[q] = "sleeping" =>
                         \/ slot[q] >= slot[r] + Interval
                         \/ slot[r] >= slot[q] + Interval

LEMMA PacedStep ==
    ASSUME PromptTimers
    PROVE  Inv /\ Paced /\ [Next]_vars => Paced'
<1> SUFFICES ASSUME Inv, Paced, [Next]_vars PROVE Paced'
  OBVIOUS
<1> USE IntervalAssumption DEF Inv, RestTyped, Phases, Paced
<1>1. ASSUME NEW r \in Requests, Acquire(r) PROVE Paced'
  BY <1>1 DEF Acquire, observerVars
<1>2. ASSUME NEW r \in Requests, Send(r) PROVE Paced'
  BY <1>2 DEF Send
<1>3. ASSUME NEW r \in Requests, Release(r), UNCHANGED <<nextRequestAt, sinceSend>>
      PROVE  Paced'
  BY <1>3 DEF Release
<1>4. ASSUME NEW r \in Requests, Refuse(r) \/ Record(r) \/ AbandonHolding(r)
      PROVE  Paced'
  BY <1>3, <1>4 DEF Refuse, Record, AbandonHolding, observerVars
<1>5. ASSUME NEW r \in Requests, NEW res \in Results,
             Call(r) \/ Respond(r, res) \/ AbandonWaiting(r)
      PROVE  Paced'
  BY <1>5 DEF Call, Respond, AbandonWaiting, observerVars
<1>6. CASE Tick
  <2>1. \A r \in Requests : phase[r] = "sleeping" => slot[r] > 0
    BY <1>6 DEF Tick, Due
  <2> QED
    BY <1>6, <2>1 DEF Tick, Earlier, Greater, Lesser
<1>7. CASE UNCHANGED vars
  BY <1>7 DEF vars, queueVars, observerVars
<1> QED
  BY <1>1, <1>2, <1>4, <1>5, <1>6, <1>7 DEF Next, Step, Abandon

(* When timers fire in time two requests leave at least the minimum        *)
(* interval apart, for any number of permits, whatever the breaker refuses *)
(* in between and whoever disconnects (acquire, send).                     *)
THEOREM PromptSendsAreSpaced ==
    ASSUME PromptTimers
    PROVE  Spec => SendsSpaced
<1>1. Init => Paced
  BY IntervalAssumption DEF Init, Paced
<1>2. Inv /\ Paced => \A r \in Requests : Send(r) => sinceSend = Interval
  BY IntervalAssumption DEF Inv, RestTyped, Paced, Send
<1>3. Inv /\ Paced /\ [Next]_vars
        => [\A r \in Requests : Send(r) => sinceSend = Interval]_vars
  BY <1>2
<1> QED
  BY <1>1, <1>3, PacedStep, Typing, PTL DEF Spec, Inv, SendsSpaced

=============================================================================
