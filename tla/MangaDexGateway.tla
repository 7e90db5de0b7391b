-------------------------- MODULE MangaDexGateway --------------------------
(***************************************************************************)
(* The one door through which every call to MangaDex leaves the process    *)
(* (src/src/mangadex.rs): the request limiter (a semaphore and a pacing    *)
(* clock), the circuit breaker, and MangaDexClient::send, which takes a    *)
(* permit, sleeps until its slot, asks the breaker, sends, writes a metric *)
(* and reports the outcome to the breaker.                                 *)
(*                                                                         *)
(* The future that runs send belongs to the HTTP handler of a caller.      *)
(* When that caller disconnects, the future is dropped at the await it is  *)
(* suspended in: its permit is released and nothing else is undone.        *)
(*                                                                         *)
(* Instants are kept as their distance ahead of the present, never below   *)
(* 0: the code only compares an Instant with Instant::now() or adds a      *)
(* Duration to the later of the two, so nothing it does depends on more.   *)
(***************************************************************************)
EXTENDS Integers, FiniteSets

CONSTANTS
    Requests,     \* the concurrent callers of send
    Abandonable,  \* those whose caller may disconnect
    Permits,      \* MANGADEX_MAX_CONCURRENT_REQUESTS
    Interval,     \* MANGADEX_MIN_REQUEST_INTERVAL, in ticks
    Threshold,    \* MANGADEX_FAILURE_THRESHOLD
    Cooldown,     \* MANGADEX_CIRCUIT_COOLDOWN, in ticks
    MaxCooldown,  \* MANGADEX_CIRCUIT_MAX_COOLDOWN, in ticks
    MaxBacklog,   \* bound: no sleeper disconnects once the pacing clock is
                  \* further ahead than this
    PromptTimers  \* TRUE: time does not pass while a sleeper is due

ASSUME RequestsAssumption == IsFiniteSet(Requests) /\ Abandonable \subseteq Requests
ASSUME PermitsAssumption == Permits \in Nat \ {0}
ASSUME IntervalAssumption == Interval \in Nat
ASSUME ThresholdAssumption == Threshold \in Nat \ {0}
ASSUME CooldownAssumption ==
    Cooldown \in Nat \ {0} /\ MaxCooldown \in Nat /\ MaxCooldown >= Cooldown
ASSUME BoundsAssumption == MaxBacklog \in Nat /\ PromptTimers \in BOOLEAN

Results == {"success", "failure", "throttled"}

(* Where a call of send is suspended.                                      *)
Phases == {"idle", "waiting", "sleeping", "sending", "measuring"}

Closed == -1     \* open_until = None
MaxShift == 3    \* open_count is only read as min(open_count, 3)

VARIABLES
    phase,                \* where each call is
    ahead,                \* the waiters queued before each waiter
    permits,              \* free permits of the semaphore
    slot,                 \* scheduled_at of each sleeper
    result,               \* how the exchange of each call ended
    nextRequestAt,        \* next_request_at
    consecutiveFailures,
    openUntil,
    halfOpenProbeActive,
    openCount,
    failureRun,           \* observer: failures recorded since the last success
    sinceThrottle,        \* observer: ticks since a recorded 429/403
    sinceSend             \* observer: ticks since the last request was sent

queueVars == <<phase, ahead, permits, slot, result, nextRequestAt>>
breakerVars == <<consecutiveFailures, openUntil, halfOpenProbeActive, openCount>>
observerVars == <<failureRun, sinceThrottle, sinceSend>>
vars == <<queueVars, breakerVars, observerVars>>

Lesser(a, b) == IF a < b THEN a ELSE b
Greater(a, b) == IF a > b THEN a ELSE b

Holders == {r \in Requests : phase[r] \in {"sleeping", "sending", "measuring"}}
InFlight == {r \in Requests : phase[r] \in {"sending", "measuring"}}

Init ==
    /\ phase = [r \in Requests |-> "idle"]
    /\ ahead = [r \in Requests |-> {}]
    /\ permits = Permits
    /\ slot = [r \in Requests |-> 0]
    /\ result = [r \in Requests |-> "success"]
    /\ nextRequestAt = 0
    /\ consecutiveFailures = 0
    /\ openUntil = Closed
    /\ halfOpenProbeActive = FALSE
    /\ openCount = 0
    /\ failureRun = 0
    /\ sinceThrottle = Cooldown
    /\ sinceSend = Interval

(***************************************************************************)
(* The limiter.                                                            *)
(***************************************************************************)

(* A handler calls send and joins the semaphore's first-come queue.        *)
Call(r) ==
    /\ phase[r] = "idle"
    /\ phase' = [phase EXCEPT ![r] = "waiting"]
    /\ ahead' = [ahead EXCEPT ![r] = {q \in Requests : phase[q] = "waiting"}]
    /\ UNCHANGED <<permits, slot, result, nextRequestAt, breakerVars, observerVars>>

LeaveQueue(r) == [q \in Requests |-> ahead[q] \ {r}]

(* Faulty variants of Acquire for the mutation runs: the next slot counted *)
(* from the present instead of from the reserved one; a queue that is not  *)
(* first-come.                                                             *)
AcquireFromNow(r) ==
    /\ phase[r] = "waiting" /\ ahead[r] = {} /\ permits > 0
    /\ permits' = permits - 1
    /\ ahead' = LeaveQueue(r)
    /\ slot' = [slot EXCEPT ![r] = nextRequestAt]
    /\ nextRequestAt' = Interval
    /\ phase' = [phase EXCEPT ![r] = "sleeping"]
    /\ UNCHANGED <<result, breakerVars, observerVars>>

AcquireUnfair(r) ==
    /\ phase[r] = "waiting" /\ permits > 0
    /\ permits' = permits - 1
    /\ ahead' = LeaveQueue(r)
    /\ slot' = [slot EXCEPT ![r] = nextRequestAt]
    /\ nextRequestAt' = nextRequestAt + Interval
    /\ phase' = [phase EXCEPT ![r] = "sleeping"]
    /\ UNCHANGED <<result, breakerVars, observerVars>>

(* The first waiter gets a free permit and, in the same poll, reserves the *)
(* next slot of the pacing clock.                                          *)
Acquire(r) ==
    /\ phase[r] = "waiting"
    /\ ahead[r] = {}
    /\ permits > 0
    /\ permits' = permits - 1
    /\ ahead' = LeaveQueue(r)
    /\ slot' = [slot EXCEPT ![r] = nextRequestAt]
    /\ nextRequestAt' = nextRequestAt + Interval
    /\ phase' = [phase EXCEPT ![r] = "sleeping"]
    /\ UNCHANGED <<result, breakerVars, observerVars>>

(* The call returns, or its future is dropped: the permit goes back and    *)
(* the locals of the call are gone.                                        *)
Release(r) ==
    /\ phase' = [phase EXCEPT ![r] = "idle"]
    /\ permits' = permits + 1
    /\ slot' = [slot EXCEPT ![r] = 0]
    /\ result' = [result EXCEPT ![r] = "success"]

(***************************************************************************)
(* The circuit breaker.                                                    *)
(***************************************************************************)

(* Faulty variant for the mutation runs: the cooldown is not looked at.    *)
AllowsEarly == openUntil = Closed \/ ~halfOpenProbeActive

AllowsRequest ==
    \/ openUntil = Closed
    \/ openUntil = 0 /\ ~halfOpenProbeActive

Multiplier(n) ==
    CASE n = 0 -> 1
      [] n = 1 -> 2
      [] n = 2 -> 4
      [] OTHER -> 8

CooldownAfter(n) == Lesser(Cooldown * Multiplier(n), MaxCooldown)

RecordSuccess ==
    /\ consecutiveFailures' = 0
    /\ openUntil' = Closed
    /\ halfOpenProbeActive' = FALSE
    /\ openCount' = 0

(* Faulty variant for the mutation runs: throttling counted as any other   *)
(* failure.                                                                *)
TripsSlowly(res) ==
    halfOpenProbeActive \/ consecutiveFailures + 1 >= Threshold
Trips(res) ==
    \/ res = "throttled"
    \/ halfOpenProbeActive
    \/ consecutiveFailures + 1 >= Threshold

(* Faulty variants for the mutation runs: the counter is not reset when    *)
(* the circuit opens; the probe flag is left up, by a failure.             *)
RecordFailureKeepsCount(res) ==
    /\ halfOpenProbeActive' = FALSE
    /\ consecutiveFailures' = consecutiveFailures + 1
    /\ openUntil' = IF Trips(res) THEN CooldownAfter(openCount) ELSE openUntil
    /\ openCount' = IF Trips(res) THEN Lesser(openCount + 1, MaxShift) ELSE openCount
RecordFailureKeepsProbe(res) ==
    /\ UNCHANGED halfOpenProbeActive
    /\ consecutiveFailures' = IF Trips(res) THEN 0 ELSE consecutiveFailures + 1
    /\ openUntil' = IF Trips(res) THEN CooldownAfter(openCount) ELSE openUntil
    /\ openCount' = IF Trips(res) THEN Lesser(openCount + 1, MaxShift) ELSE openCount

RecordFailure(res) ==
    /\ halfOpenProbeActive' = FALSE
    /\ \/ /\ Trips(res)
          /\ openUntil' = CooldownAfter(openCount)
          /\ consecutiveFailures' = 0
          /\ openCount' = Lesser(openCount + 1, MaxShift)
       \/ /\ ~Trips(res)
          /\ consecutiveFailures' = consecutiveFailures + 1
          /\ UNCHANGED <<openUntil, openCount>>

RecordResult(res) ==
    \/ res = "success" /\ RecordSuccess
    \/ res # "success" /\ RecordFailure(res)

(***************************************************************************)
(* MangaDexClient::send past the limiter.                                  *)
(***************************************************************************)

(* The slot has come and the breaker lets the request out.  A request let  *)
(* out while open_until is set is the half-open probe.                     *)
Send(r) ==
    /\ phase[r] = "sleeping"
    /\ slot[r] = 0
    /\ AllowsRequest
    /\ halfOpenProbeActive' = (halfOpenProbeActive \/ openUntil # Closed)
    /\ phase' = [phase EXCEPT ![r] = "sending"]
    /\ sinceSend' = 0
    /\ UNCHANGED <<ahead, permits, slot, result, nextRequestAt,
                   consecutiveFailures, openUntil, openCount,
                   failureRun, sinceThrottle>>

(* The slot has come and the breaker refuses: CircuitOpen.                 *)
Refuse(r) ==
    /\ phase[r] = "sleeping"
    /\ slot[r] = 0
    /\ ~AllowsRequest
    /\ Release(r)
    /\ UNCHANGED <<ahead, nextRequestAt, breakerVars, observerVars>>

(* MangaDex answers, the connection fails, or the client's timeout fires;  *)
(* the metrics row is written next, which is an await of its own.          *)
Respond(r, res) ==
    /\ phase[r] = "sending"
    /\ result' = [result EXCEPT ![r] = res]
    /\ phase' = [phase EXCEPT ![r] = "measuring"]
    /\ UNCHANGED <<ahead, permits, slot, nextRequestAt, breakerVars, observerVars>>

(* The metrics write is over, whatever came of it; the breaker learns the  *)
(* result and send returns.                                                *)
Record(r) ==
    /\ phase[r] = "measuring"
    /\ RecordResult(result[r])
    /\ Release(r)
    /\ failureRun' = IF result[r] = "success" THEN 0
                     ELSE Lesser(failureRun + 1, Threshold)
    /\ sinceThrottle' = IF result[r] = "throttled" THEN 0 ELSE sinceThrottle
    /\ UNCHANGED <<ahead, nextRequestAt, sinceSend>>

(* The caller disconnects while its request waits for a permit.            *)
AbandonWaiting(r) ==
    /\ r \in Abandonable
    /\ phase[r] = "waiting"
    /\ ahead' = LeaveQueue(r)
    /\ phase' = [phase EXCEPT ![r] = "idle"]
    /\ UNCHANGED <<permits, slot, result, nextRequestAt, breakerVars, observerVars>>

(* The caller disconnects while its request holds a permit: the slot stays *)
(* reserved, the breaker is not told.                                      *)
AbandonHolding(r) ==
    /\ r \in Abandonable
    /\ r \in Holders
    /\ phase[r] = "sleeping" => nextRequestAt <= MaxBacklog
    /\ Release(r)
    /\ UNCHANGED <<ahead, nextRequestAt, breakerVars, observerVars>>

Earlier(n) == Greater(n - 1, 0)

Due == {r \in Requests : phase[r] = "sleeping" /\ slot[r] = 0}

Tick ==
    /\ PromptTimers => Due = {}
    /\ nextRequestAt' = Earlier(nextRequestAt)
    /\ slot' = [r \in Requests |-> Earlier(slot[r])]
    /\ openUntil' = IF openUntil = Closed THEN Closed ELSE Earlier(openUntil)
    /\ sinceThrottle' = Lesser(sinceThrottle + 1, Cooldown)
    /\ sinceSend' = Lesser(sinceSend + 1, Interval)
    /\ UNCHANGED <<phase, ahead, permits, result, consecutiveFailures,
                   halfOpenProbeActive, openCount, failureRun>>

Step(r) ==
    \/ Acquire(r)
    \/ Send(r)
    \/ Refuse(r)
    \/ \E res \in Results : Respond(r, res)
    \/ Record(r)

Abandon(r) == AbandonWaiting(r) \/ AbandonHolding(r)

Next ==
    \/ \E r \in Requests : Call(r) \/ Step(r) \/ Abandon(r)
    \/ Tick

Spec == Init /\ [][Next]_vars

(* The runtime polls every task that can move and reqwest's timeout ends   *)
(* every exchange; nobody is obliged to call or to disconnect.             *)
Fairness ==
    /\ WF_vars(Tick)
    /\ \A r \in Requests : WF_vars(Step(r))

FairSpec == Spec /\ Fairness

(***************************************************************************)
(* Properties.                                                             *)
(***************************************************************************)

(* Every variable stays in its range; consecutive_failures never reaches   *)
(* the threshold, because record_result resets it when it would.           *)
TypeOK ==
    /\ phase \in [Requests -> Phases]
    /\ ahead \in [Requests -> SUBSET Requests]
    /\ permits \in 0..Permits
    /\ slot \in [Requests -> Nat]
    /\ result \in [Requests -> Results]
    /\ nextRequestAt \in Nat
    /\ consecutiveFailures \in 0..(Threshold - 1)
    /\ openUntil \in {Closed} \cup 0..MaxCooldown
    /\ halfOpenProbeActive \in BOOLEAN
    /\ openCount \in 0..MaxShift
    /\ failureRun \in 0..Threshold
    /\ sinceThrottle \in 0..Cooldown
    /\ sinceSend \in 0..Interval

(* However calls end - answered, refused, or dropped at any await - no     *)
(* permit of the semaphore is lost or returned twice (acquire, send).      *)
PermitsConserved == permits + Cardinality(Holders) = Permits

(* Two calls that hold a permit never sleep towards slots closer than the  *)
(* minimum interval, and the pacing clock is an interval past all of them, *)
(* even when sleepers before them disconnected (acquire).                  *)
SlotsSpaced ==
    \A r \in Requests :
        phase[r] = "sleeping" /\ slot[r] > 0 =>
            /\ nextRequestAt >= slot[r] + Interval
            /\ \A q \in Requests \ {r} :
                   phase[q] = "sleeping" /\ slot[q] > 0 =>
                       \/ slot[q] >= slot[r] + Interval
                       \/ slot[r] >= slot[q] + Interval

(* While the breaker is cooling down nothing is on the wire: the permit is *)
(* held across record_result, so a request let out earlier cannot still be *)
(* in flight.  True of the deployed single permit only.                    *)
OpenMeansQuiet == openUntil > 0 => InFlight = {}

(* "Three consecutive errors open it" (src/README.md:82): while the        *)
(* circuit is closed, fewer than Threshold failures in a row have been     *)
(* recorded, however probes, trips and dropped calls were interleaved.     *)
ClosedMeansFewFailures == openUntil = Closed => failureRun < Threshold

(* After a recorded 429 or 403 no request leaves for a full cooldown,      *)
(* whatever the state of the ladder when it was recorded.                  *)
ThrottleSilence ==
    [][\A r \in Requests : Send(r) => sinceThrottle = Cooldown]_vars

(* "After a cooldown, one half-open probe is allowed" (src/README.md:82):  *)
(* when the cooldown is over and no call is in flight, the breaker lets    *)
(* the next one out.                                                       *)
NotWedged == openUntil = 0 /\ InFlight = {} => AllowsRequest

(* The probe of a circuit that is not closed belongs to nobody: its result *)
(* will never be recorded.                                                 *)
Wedged == halfOpenProbeActive /\ InFlight = {}

(* Only one thing wedges the breaker, whatever the number of permits: the  *)
(* caller of a request in flight disconnects before record_result.  Its    *)
(* failures, refusals, trips, timeouts and cooldowns never do.             *)
WedgedByDropsOnly ==
    [][~Wedged /\ Wedged' =>
           \E r \in Abandonable : r \in InFlight /\ AbandonHolding(r)]_vars

(* A wedged breaker stays wedged and lets nobody out, until the process is *)
(* restarted: nothing but record_result lowers the flag, and nobody is     *)
(* left to call it.                                                        *)
WedgedForGood ==
    [][Wedged => Wedged' /\ \A r \in Requests : ~Send(r)]_vars

(* "A 250 ms minimum interval" (src/README.md:82): two requests leave at   *)
(* least an interval apart.                                                *)
SendsSpaced == [][\A r \in Requests : Send(r) => sinceSend = Interval]_vars

(* Every call of send ends: the semaphore queue is first-come, slots come, *)
(* exchanges time out, and the breaker answers at once.                    *)
EveryCallReturns ==
    \A r \in Requests : phase[r] # "idle" ~> phase[r] = "idle"

(* The circuit never stays shut for good: as long as callers keep coming,  *)
(* requests keep being let out.                                            *)
KeepsTrying ==
    []<>(\E r \in Requests : phase[r] = "waiting") => []<>(InFlight # {})
=============================================================================
