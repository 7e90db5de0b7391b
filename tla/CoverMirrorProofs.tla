-------------------------- MODULE CoverMirrorProofs --------------------------
(***************************************************************************)
(* Theorems about the cover mirror, for any number of workers, uploads and *)
(* covers.                                                                 *)
(***************************************************************************)
EXTENDS CoverMirror, FiniteSetTheorems, TLAPS

LEMMA MaxOfTwo ==
    ASSUME NEW m \in Int, NEW n \in Int
    PROVE  Max({m, n}) = IF m >= n THEN m ELSE n
<1>1. \E x \in {m, n} : \A y \in {m, n} : x >= y
  OBVIOUS
<1>2. Max({m, n}) \in {m, n} /\ \A y \in {m, n} : Max({m, n}) >= y
  BY <1>1 DEF Max
<1> QED
  BY <1>2

LEMMA MinOfTwo ==
    ASSUME NEW m \in Int, NEW n \in Int
    PROVE  Min({m, n}) = IF m <= n THEN m ELSE n
<1>1. \E x \in {m, n} : \A y \in {m, n} : x <= y
  OBVIOUS
<1>2. Min({m, n}) \in {m, n} /\ \A y \in {m, n} : Min({m, n}) <= y
  BY <1>1 DEF Min
<1> QED
  BY <1>2

(* A delay is a number of ticks.                                           *)
LEMMA RetryDelayType ==
    ASSUME NEW n \in Nat, NEW throttled \in BOOLEAN, NEW after \in Nat
    PROVE  RetryDelay(n, throttled, after) \in Nat
<1>1. Max({0, Min({n - 1, 7})}) \in 0..7
  BY MinOfTwo, MaxOfTwo
<1>2. Powers[1 + Max({0, Min({n - 1, 7})})] \in Nat
  BY <1>1 DEF Powers
<1>3. BaseDelay * Powers[1 + Max({0, Min({n - 1, 7})})] \in Nat
  BY <1>2, TimesAssumption
<1>4. Ladder(n) \in Nat
  <2>1. \A m \in Nat : Min({m, MaxDelay}) \in Nat
    BY TimesAssumption, MinOfTwo
  <2> QED
    BY <1>3, <2>1 DEF Ladder
<1>5. (IF throttled THEN ThrottleDelay ELSE Ladder(n)) \in Nat /\ after \in Nat
  BY <1>4, TimesAssumption
<1> QED
  BY <1>5, MaxOfTwo DEF RetryDelay

LEMMA DownType ==
    ASSUME NEW n \in Nat
    PROVE  Down(n) \in Nat /\ Down(n) <= n /\ (n > 0 => Down(n) = n - 1) /\ (n = 0 => Down(n) = 0)
  BY MaxOfTwo DEF Down

LEMMA CapType == AttemptCap \in Nat
  BY AttemptCapAssumption

(* A counter that stops at its bound.                                      *)
LEMMA CappedType ==
    ASSUME NEW m \in Nat, NEW n \in 0..m
    PROVE  Min({n + 1, m}) = (IF n < m THEN n + 1 ELSE m)
  BY MinOfTwo

LEMMA AttemptsType ==
    \A n \in 0..AttemptCap : Min({n + 1, AttemptCap}) \in 0..AttemptCap
<1> SUFFICES ASSUME NEW n \in 0..AttemptCap
             PROVE  Min({n + 1, AttemptCap}) \in 0..AttemptCap
  OBVIOUS
<1>1. Min({n + 1, AttemptCap}) = (IF n < AttemptCap THEN n + 1 ELSE AttemptCap)
  BY CapType, CappedType
<1> QED
  BY <1>1, CapType

(* Past instants stay integers.                                            *)
LEMMA OrderedType ==
    ASSUME NEW f \in [Covers -> Int]
    PROVE  Ordered(f) \in [Covers -> Int]
<1> DEFINE instants == {f[d] : d \in Covers}
           past == {n \in instants : n < 0}
<1>1. IsFiniteSet(instants)
  <2>1. f \in Surjection(Covers, instants)
    BY DEF Surjection
  <2> QED
    BY <2>1, FS_Surjection, ImagesAssumption
<1>2. \A c \in Covers : IsFiniteSet({n \in past : f[c] <= n})
  BY <1>1, FS_Subset
<1>3. \A c \in Covers : Cardinality({n \in past : f[c] <= n}) \in Nat
  BY <1>2, FS_CardinalityType
<1> QED
  BY <1>3 DEF Ordered

(* A worker at work has an asset, and an upload under way an image.        *)
HaveWork ==
    /\ \A w \in Workers : at[w] \in Working => job[w] \in Covers
    /\ \A u \in Uploaders : at[u] # "idle" => image[u] \in Images

TypeInv == TypeOK /\ HaveWork

USE DEF Working, Statements, Storing, Fetching

LEMMA TypeInit == Init => TypeInv
  BY FaultsAssumption, LeaseAssumption, AttemptCapAssumption, TimesAssumption, ActorsAssumption DEF Init, TypeInv, TypeOK, HaveWork

LEMMA TypeWork ==
    ASSUME TypeInv, NEW w \in Workers, Work(w)
    PROVE  TypeInv'
<1> USE DEF TypeInv, TypeOK, HaveWork, Go
<1> USE ActorsAssumption, FaultsAssumption
<1>1. CASE Boot(w)
  BY <1>1 DEF Boot, Backfill, sessionVars, quietVars, fileVars, clockVars
<1>2. CASE Claim(w)
  BY <1>2, AttemptsType, LeaseAssumption DEF Claim, TryLock, quietVars, fileVars, clockVars
<1>3. CASE TakeSlot(w)
  BY <1>3, TimesAssumption
     DEF TakeSlot, assetVars, sessionVars, quietVars, fileVars, clockVars
<1>4. CASE Start(w)
  BY <1>4, TimesAssumption DEF Start, assetVars, sessionVars, fileVars
<1>5. CASE Downloaded(w)
  BY <1>5 DEF Downloaded, assetVars, sessionVars, quietVars, fileVars, clockVars
<1>6. CASE Store(w)
  BY <1>6, ImagesAssumption
     DEF Store, StoreOriginal, LookForThumbnail, CreateThumbnail, FinishThumbnail, Carried,
         assetVars, sessionVars, fileVars, clockVars
<1>7. CASE RecordReady(w)
  <2>1. job[w] \in Covers /\ ImageOf[job[w]] \in Images
    BY <1>7, ImagesAssumption DEF RecordReady
  <2> QED
    BY <1>7, <2>1, LeaseAssumption
       DEF RecordReady, Unlock, Rest, quietVars, fileVars, clockVars
<1>8. CASE RecordConflict(w)
  BY <1>8 DEF RecordConflict, Unlock, Rest, assetVars, quietVars, fileVars, clockVars
<1>9. CASE RecordFailure(w)
  BY <1>9, LeaseAssumption DEF RecordFailure, Unlock, Rest, quietVars, fileVars, clockVars
<1>10. CASE GiveUp(w)
  BY <1>10 DEF GiveUp, Rest, assetVars, quietVars, fileVars, clockVars
<1> QED
  BY <1>1, <1>2, <1>3, <1>4, <1>5, <1>6, <1>7, <1>8, <1>9, <1>10 DEF Work

LEMMA FailsType ==
    ASSUME TypeInv, NEW w \in Workers, job[w] \in Covers,
           NEW throttled \in BOOLEAN, NEW after \in Nat, Fails(w, throttled, after)
    PROVE  due' \in [Workers -> Nat] /\ pause' \in [Covers -> 0..ThrottleDelay]
<1>1. attempts[job[w]] \in Nat
  BY CapType DEF TypeInv, TypeOK
<1>2. RetryDelay(attempts[job[w]], throttled, after) \in Nat
  BY <1>1, RetryDelayType
<1> QED
  BY <1>2, TimesAssumption DEF TypeInv, TypeOK, Fails

LEMMA TypeFault ==
    ASSUME TypeInv, NEW w \in Workers, Fault(w)
    PROVE  TypeInv'
<1> USE DEF TypeInv, TypeOK, HaveWork, Go
<1> USE ActorsAssumption, FaultsAssumption
<1>1. CASE DownloadFails(w)
  <2>1. PICK throttled \in BOOLEAN, after \in RetryAfters : Fails(w, throttled, after)
    BY <1>1 DEF DownloadFails
  <2>2. due' \in [Workers -> Nat] /\ pause' \in [Covers -> 0..ThrottleDelay]
    BY <1>1, <2>1, FailsType, TimesAssumption DEF DownloadFails
  <2> QED
    BY <1>1, <2>1, <2>2 DEF DownloadFails, Fails, assetVars, sessionVars, fileVars
<1>2. CASE StoreFails(w)
  <2>1. job[w] \in Covers /\ ThumbOf[Carried(w)] \in Thumbs
    BY <1>2, ImagesAssumption DEF StoreFails, Carried
  <2>2. due' \in [Workers -> Nat] /\ pause' \in [Covers -> 0..ThrottleDelay]
    BY <1>2, <2>1, FailsType DEF StoreFails
  <2>3. torn' \subseteq Thumbs /\ faults' \in 0..MaxFaults
    BY <1>2, <2>1 DEF StoreFails, Tear, Strike
  <2> QED
    BY <1>2, <2>1, <2>2, <2>3 DEF StoreFails, Fails, Tear, assetVars, sessionVars
<1>3. CASE Crash(w)
  BY <1>3, ImagesAssumption DEF Crash, Tear, Carried, Free, Strike, assetVars, clockVars
<1>4. CASE LoseSession(w)
  BY <1>4 DEF LoseSession, Free, Strike, assetVars, workVars, fileVars, clockVars
<1> QED
  BY <1>1, <1>2, <1>3, <1>4 DEF Fault

LEMMA TypeRest ==
    ASSUME TypeInv, [(\E u \in Uploaders : Upload(u)) \/ (\E c \in Covers : Enqueue(c)) \/ Tick]_vars
    PROVE  TypeInv'
<1> USE DEF TypeInv, TypeOK, HaveWork, Go
<1> USE ActorsAssumption, FaultsAssumption
<1>1. ASSUME NEW u \in Uploaders, BeginUpload(u) PROVE TypeInv'
  BY <1>1 DEF BeginUpload, assetVars, sessionVars, fileVars, clockVars
<1>2. ASSUME NEW u \in Uploaders, Store(u) PROVE TypeInv'
  BY <1>2, ImagesAssumption
     DEF Store, StoreOriginal, LookForThumbnail, CreateThumbnail, FinishThumbnail, Carried,
         assetVars, sessionVars, fileVars, clockVars
<1>3. ASSUME NEW u \in Uploaders, RecordUpload(u) PROVE TypeInv'
  BY <1>3 DEF RecordUpload, EndUpload, sessionVars, fileVars, clockVars
<1>4. ASSUME NEW u \in Uploaders, AbandonUpload(u) PROVE TypeInv'
  BY <1>4, ImagesAssumption
     DEF AbandonUpload, EndUpload, Tear, Carried, assetVars, sessionVars, clockVars
<1>5. ASSUME NEW c \in Covers, Enqueue(c) PROVE TypeInv'
  <2>1. Min({nextAt[c], 0}) \in Int
    BY MinOfTwo
  <2> QED
    BY <1>5, <2>1 DEF Enqueue, sessionVars, workVars, fileVars, clockVars
<1>6. ASSUME Tick PROVE TypeInv'
  <2>1. nextAt' \in [Covers -> Int]
    <3>1. [c \in Covers |-> IF status[c] = "absent" THEN 0 ELSE nextAt[c] - 1] \in [Covers -> Int]
      OBVIOUS
    <3> QED
      BY <3>1, <1>6, OrderedType DEF Tick
  <2>2. lease' \in [Covers -> 0..Lease] /\ pause' \in [Covers -> 0..ThrottleDelay]
    <3>1. \A c \in Covers : Down(lease[c]) \in 0..Lease /\ Down(pause[c]) \in 0..ThrottleDelay
      BY DownType, LeaseAssumption, TimesAssumption
    <3>2. /\ lease' = [c \in Covers |-> Down(lease[c])]
          /\ pause' = [c \in Covers |-> Down(pause[c])]
      BY <1>6 DEF Tick
    <3> QED
      BY <3>1, <3>2
  <2>3. due' \in [Workers -> Nat] /\ pacing' \in Nat
    <3>1. /\ \A w \in Workers : Down(due[w]) \in Nat
          /\ Down(pacing) \in Nat
      BY DownType
    <3>2. /\ due' = [w \in Workers |-> IF at[w] \in Fetching THEN Down(due[w]) ELSE due[w]]
          /\ pacing' = Down(pacing)
      BY <1>6 DEF Tick
    <3> QED
      BY <3>1, <3>2
  <2>4. sinceStart' \in 0..Interval
    <3>1. Interval \in Nat /\ sinceStart \in 0..Interval
      BY TimesAssumption
    <3>2. sinceStart' = IF sinceStart < Interval THEN sinceStart + 1 ELSE Interval
      BY <1>6, <3>1, CappedType DEF Tick
    <3> QED
      BY <3>1, <3>2
  <2> QED
    BY <1>6, <2>1, <2>2, <2>3, <2>4, SMTT(20) DEF Tick, sessionVars, fileVars
<1>7. ASSUME UNCHANGED vars PROVE TypeInv'
  BY <1>7 DEF vars, assetVars, sessionVars, workVars, fileVars, clockVars
<1> QED
  BY <1>1, <1>2, <1>3, <1>4, <1>5, <1>6, <1>7 DEF Upload

LEMMA TypeStep == TypeInv /\ [Next]_vars => TypeInv'
  BY TypeWork, TypeFault, TypeRest DEF Next

(* The states of assets, workers, uploads and files stay in their ranges.  *)
THEOREM TypeCorrect == Spec => []TypeOK
<1>1. TypeInv => TypeOK
  BY DEF TypeInv
<1> QED
  BY <1>1, TypeInit, TypeStep, PTL DEF Spec

(***************************************************************************)
(* The advisory lock.                                                      *)
(***************************************************************************)

(* A worker whose session is alive holds the lock while it works.          *)
LockHeld == \A w \in Workers : at[w] \in Working /\ w \notin broken => holder = w

(* A session that broke is noticed before the worker rests.                *)
BrokenAtWork == \A w \in broken : at[w] \in Working

(* The asset such a worker has claimed was not ready, and still is not.    *)
NotYetReady ==
    \A w \in Workers :
        at[w] \in Working /\ w \notin broken => status[job[w]] \in {"pending", "failed"}

LockInv == LockHeld /\ BrokenAtWork /\ NotYetReady

LEMMA LockKept ==
    ASSUME LockInv, UNCHANGED <<holder, broken, status, job>>,
           \A w \in Workers : at'[w] \in Working <=> at[w] \in Working,
           broken \subseteq Workers
    PROVE  LockInv'
  BY DEF LockInv, LockHeld, BrokenAtWork, NotYetReady

LEMMA LockWork ==
    ASSUME TypeInv, LockInv, NEW w \in Workers, Work(w)
    PROVE  LockInv'
<1> USE DEF TypeInv, TypeOK, HaveWork, Go
<1>1. CASE Boot(w)
  BY <1>1 DEF Boot, Backfill, sessionVars, LockInv, LockHeld, BrokenAtWork, NotYetReady
<1>2. CASE Claim(w)
  <2>1. \A v \in Workers : at[v] \in Working => v \in broken
    BY <1>2, NamesAssumption DEF Claim, TryLock, LockInv, LockHeld
  <2>2. w \notin broken
    BY <1>2 DEF Claim, LockInv, BrokenAtWork
  <2> QED
    BY <1>2, <2>1, <2>2
       DEF Claim, TryLock, FirstInLine, Due, LockInv, LockHeld, BrokenAtWork, NotYetReady
<1>3. CASE TakeSlot(w) \/ Start(w) \/ Downloaded(w) \/ Store(w)
  <2>1. UNCHANGED <<holder, broken, status, job>>
    BY <1>3 DEF TakeSlot, Start, Downloaded, Store, assetVars, sessionVars
  <2>2. \A v \in Workers : at'[v] \in Working <=> at[v] \in Working
    BY <1>3 DEF TakeSlot, Start, Downloaded, Store, StoreOriginal, LookForThumbnail,
                CreateThumbnail, FinishThumbnail
  <2> QED
    BY <2>1, <2>2, LockKept
<1>4. CASE RecordReady(w) \/ RecordConflict(w) \/ RecordFailure(w)
  <2>1. at[w] \in Working /\ w \notin broken
    BY <1>4 DEF RecordReady, RecordConflict, RecordFailure
  <2>2. \A v \in Workers \ {w} : at[v] \in Working => v \in broken
    BY <2>1 DEF LockInv, LockHeld
  <2>3. broken' = broken /\ at' = [at EXCEPT ![w] = "idle"]
    BY <1>4 DEF RecordReady, RecordConflict, RecordFailure, Unlock, Rest
  <2> QED
    BY <2>1, <2>2, <2>3 DEF LockInv, LockHeld, BrokenAtWork, NotYetReady
<1>5. CASE GiveUp(w)
  BY <1>5 DEF GiveUp, Rest, assetVars, LockInv, LockHeld, BrokenAtWork, NotYetReady
<1> QED
  BY <1>1, <1>2, <1>3, <1>4, <1>5 DEF Work

LEMMA LockFault ==
    ASSUME TypeInv, LockInv, NEW w \in Workers, Fault(w)
    PROVE  LockInv'
<1> USE DEF TypeInv, TypeOK, HaveWork, Go
<1>1. CASE DownloadFails(w) \/ StoreFails(w)
  <2>1. UNCHANGED <<holder, broken, status, job>>
    BY <1>1 DEF DownloadFails, StoreFails, Fails, assetVars, sessionVars
  <2>2. \A v \in Workers : at'[v] \in Working <=> at[v] \in Working
    BY <1>1 DEF DownloadFails, StoreFails, Fails
  <2> QED
    BY <2>1, <2>2, LockKept
<1>2. CASE Crash(w)
  BY <1>2 DEF Crash, Free, assetVars, LockInv, LockHeld, BrokenAtWork, NotYetReady
<1>3. CASE LoseSession(w)
  BY <1>3 DEF LoseSession, Free, assetVars, workVars, LockInv, LockHeld, BrokenAtWork, NotYetReady
<1> QED
  BY <1>1, <1>2, <1>3 DEF Fault

LEMMA LockStep == TypeInv /\ LockInv /\ [Next]_vars => LockInv'
<1> SUFFICES ASSUME TypeInv, LockInv, [Next]_vars
             PROVE  LockInv'
  OBVIOUS
<1> USE DEF TypeInv, TypeOK, HaveWork, Go
<1>1. ASSUME NEW u \in Uploaders, Upload(u) PROVE LockInv'
  <2>1. UNCHANGED <<holder, broken, status, job>>
    BY <1>1 DEF Upload, BeginUpload, Store, RecordUpload, AbandonUpload, assetVars, sessionVars
  <2>2. \A v \in Workers : at'[v] = at[v]
    BY <1>1, ActorsAssumption
       DEF Upload, BeginUpload, Store, StoreOriginal, LookForThumbnail, CreateThumbnail,
           FinishThumbnail, RecordUpload, AbandonUpload, EndUpload
  <2> QED
    BY <2>1, <2>2, LockKept
<1>2. ASSUME NEW c \in Covers, Enqueue(c) PROVE LockInv'
  BY <1>2 DEF Enqueue, sessionVars, workVars, LockInv, LockHeld, BrokenAtWork, NotYetReady
<1>3. CASE Tick
  BY <1>3, LockKept DEF Tick, sessionVars
<1>4. CASE UNCHANGED vars
  BY <1>4, LockKept DEF vars, assetVars, sessionVars, workVars
<1> QED
  BY <1>1, <1>2, <1>3, <1>4, LockWork, LockFault DEF Next

LEMMA LockInit == Init => LockInv
  BY ActorsAssumption DEF Init, LockInv, LockHeld, BrokenAtWork, NotYetReady

(* At most one worker with a living session downloads: the lock is taken   *)
(* before the claim and given back after the outcome is recorded.          *)
THEOREM DownloadsAreSerialized == Spec => []DownloadsSerialized
<1>1. TypeInv /\ LockInv => DownloadsSerialized
  BY DEF TypeInv, TypeOK, LockInv, LockHeld, DownloadsSerialized, Downloading
<1> QED
  BY <1>1, TypeInit, LockInit, TypeStep, LockStep, PTL DEF Spec

(* A ready asset keeps its status and its image: outcomes are recorded in  *)
(* the session that holds the lock.                                        *)
THEOREM ReadyAssetsStay == Spec => ReadyStays
<1> DEFINE Stays == \A c \in Covers :
        status[c] = "ready" => status'[c] = "ready" /\ stored'[c] = stored[c]
<1>1. ASSUME TypeInv, LockInv, [Next]_vars PROVE [Stays]_vars
  <2> USE DEF TypeInv, TypeOK, HaveWork
  <2>1. ASSUME NEW w \in Workers, Boot(w) PROVE Stays
    BY <2>1 DEF Boot, Backfill
  <2>2. ASSUME NEW w \in Workers, RecordReady(w) \/ RecordFailure(w) PROVE Stays
    <3>1. job[w] \in Covers /\ status[job[w]] # "ready"
      BY <1>1, <2>2 DEF RecordReady, RecordFailure, LockInv, NotYetReady
    <3>2. \A c \in Covers \ {job[w]} : status'[c] = status[c] /\ stored'[c] = stored[c]
      BY <2>2, <1>1 DEF RecordReady, RecordFailure
    <3> QED
      BY <3>1, <3>2
  <2>3. ASSUME NEW c \in Covers, Enqueue(c) PROVE Stays
    BY <2>3 DEF Enqueue
  <2>4. ASSUME NEW w \in Workers,
               Claim(w) \/ TakeSlot(w) \/ Start(w) \/ Downloaded(w) \/ Store(w)
                 \/ RecordConflict(w) \/ GiveUp(w) \/ Fault(w)
        PROVE  Stays
    BY <2>4 DEF Claim, TakeSlot, Start, Downloaded, Store, RecordConflict, GiveUp, Fault,
                DownloadFails, StoreFails, Fails, Crash, LoseSession, assetVars
  <2>5. ASSUME NEW u \in Uploaders, Upload(u) PROVE Stays
    BY <2>5 DEF Upload, BeginUpload, Store, RecordUpload, AbandonUpload, assetVars
  <2>6. CASE Tick
    BY <2>6 DEF Tick
  <2> QED
    BY <1>1, <2>1, <2>2, <2>3, <2>4, <2>5, <2>6 DEF Next, Work
<1> QED
  BY <1>1, TypeInit, LockInit, TypeStep, LockStep, PTL DEF Spec, ReadyStays

(***************************************************************************)
(* The download schedule.                                                  *)
(***************************************************************************)

(* next_download_at is an interval past every slot given and every start.  *)
ScheduleAhead ==
    /\ sinceStart + pacing >= Interval
    /\ \A w \in Workers : at[w] = "sleeping" => due[w] + Interval <= pacing

(* Slots not yet used are an interval apart and past the last start.       *)
SlotsApart ==
    /\ \A w \in Workers : at[w] = "sleeping" => sinceStart + due[w] >= Interval
    /\ \A v, w \in Workers :
          v # w /\ at[v] = "sleeping" /\ at[w] = "sleeping" =>
              due[v] + Interval <= due[w] \/ due[w] + Interval <= due[v]

SpacingInv == ScheduleAhead /\ SlotsApart

(* A step that gives no slot and starts nothing.                           *)
LEMMA SpacingKept ==
    ASSUME SpacingInv, UNCHANGED <<pacing, sinceStart>>,
           \A w \in Workers : at'[w] = "sleeping" => at[w] = "sleeping" /\ due'[w] = due[w]
    PROVE  SpacingInv'
  BY DEF SpacingInv, ScheduleAhead, SlotsApart

LEMMA SpacingStep == TypeInv /\ SpacingInv /\ [Next]_vars => SpacingInv'
<1> SUFFICES ASSUME TypeInv, SpacingInv, [Next]_vars
             PROVE  SpacingInv'
  OBVIOUS
<1> USE TimesAssumption DEF TypeInv, TypeOK, Go
<1>1. ASSUME NEW w \in Workers, TakeSlot(w) PROVE SpacingInv'
  BY <1>1 DEF TakeSlot, quietVars, clockVars, SpacingInv, ScheduleAhead, SlotsApart
<1>2. ASSUME NEW w \in Workers, Start(w) PROVE SpacingInv'
  BY <1>2 DEF Start, SpacingInv, ScheduleAhead, SlotsApart
<1>3. ASSUME NEW w \in Workers,
             Boot(w) \/ Claim(w) \/ Downloaded(w) \/ RecordReady(w) \/ RecordConflict(w)
               \/ RecordFailure(w) \/ GiveUp(w)
      PROVE  SpacingInv'
  BY <1>3, SpacingKept
     DEF Boot, Claim, Downloaded, RecordReady, RecordConflict, RecordFailure, Unlock, Rest,
         GiveUp, quietVars, clockVars
<1>4. ASSUME NEW w \in Workers, Store(w) PROVE SpacingInv'
  BY <1>4, SpacingKept
     DEF Store, StoreOriginal, LookForThumbnail, CreateThumbnail, FinishThumbnail, clockVars
<1>5. ASSUME NEW w \in Workers, Fault(w) PROVE SpacingInv'
  <2>1. CASE DownloadFails(w) \/ StoreFails(w)
    BY <2>1, SpacingKept DEF DownloadFails, StoreFails, Fails
  <2>2. CASE Crash(w)
    BY <2>2, SpacingKept DEF Crash, clockVars
  <2>3. CASE LoseSession(w)
    BY <2>3, SpacingKept DEF LoseSession, workVars, clockVars
  <2> QED
    BY <1>5, <2>1, <2>2, <2>3 DEF Fault
<1>6. ASSUME NEW u \in Uploaders, Upload(u) PROVE SpacingInv'
  BY <1>6, SpacingKept, ActorsAssumption
     DEF Upload, BeginUpload, Store, StoreOriginal, LookForThumbnail, CreateThumbnail,
         FinishThumbnail, RecordUpload, AbandonUpload, EndUpload, clockVars
<1>7. ASSUME NEW c \in Covers, Enqueue(c) PROVE SpacingInv'
  BY <1>7, SpacingKept DEF Enqueue, workVars, clockVars
<1>8. CASE Tick
  <2>1. \A w \in Workers : at[w] = "sleeping" => due[w] > 0 /\ due'[w] = due[w] - 1
    BY <1>8, DownType DEF Tick, Urgent
  <2>2. pacing' = (IF pacing > 0 THEN pacing - 1 ELSE 0)
    BY <1>8, DownType DEF Tick
  <2>3. sinceStart' = (IF sinceStart < Interval THEN sinceStart + 1 ELSE Interval)
    BY <1>8, CappedType DEF Tick
  <2>4. at' = at
    BY <1>8 DEF Tick
  <2>5. ScheduleAhead'
    BY <2>1, <2>2, <2>3, <2>4 DEF SpacingInv, ScheduleAhead
  <2>6. SlotsApart'
    BY <2>1, <2>3, <2>4 DEF SpacingInv, SlotsApart
  <2> QED
    BY <2>5, <2>6 DEF SpacingInv
<1>9. CASE UNCHANGED vars
  BY <1>9, SpacingKept DEF vars, workVars, clockVars
<1> QED
  BY <1>1, <1>2, <1>3, <1>4, <1>5, <1>6, <1>7, <1>8, <1>9 DEF Next, Work

LEMMA SpacingInit == Init => SpacingInv
  BY ActorsAssumption, TimesAssumption DEF Init, SpacingInv, ScheduleAhead, SlotsApart

(* Downloads start an interval apart, whichever worker starts them and     *)
(* however many sessions were lost.                                        *)
THEOREM StartsStaySpaced == Spec => StartsSpaced
<1>1. TypeInv /\ SpacingInv => \A w \in Workers : Start(w) => sinceStart = Interval
  BY TimesAssumption DEF TypeInv, TypeOK, SpacingInv, SlotsApart, Start
<1> QED
  BY <1>1, TypeInit, SpacingInit, TypeStep, SpacingStep, PTL DEF Spec, StartsSpaced

(***************************************************************************)
(* The files.                                                              *)
(***************************************************************************)

(* The thumbnail is whole, or somebody is writing it, or somebody failed   *)
(* to.                                                                     *)
Accounted(t) ==
    \/ thumbs[t] = "complete"
    \/ t \in torn
    \/ \E a \in Workers \cup Uploaders : Written(a) /\ ThumbOf[Carried(a)] = t

FoundAccounted == \A t \in Thumbs : thumbs[t] = "absent" \/ Accounted(t)

(* The files of an image, as far as store_upload has come.                 *)
HasOriginal == \A a \in Workers \cup Uploaders :
    at[a] \in {"thumbnailing", "creating", "writing", "recording"} => Carried(a) \in originals
HasThumbnail == \A a \in Workers \cup Uploaders :
    at[a] \in {"writing", "recording"} => thumbs[ThumbOf[Carried(a)]] # "absent"

RowsHaveFiles == \A i \in Held(None) : i \in originals /\ thumbs[ThumbOf[i]] # "absent"

FilesInv == FoundAccounted /\ HasOriginal /\ HasThumbnail /\ RowsHaveFiles

(* Steps that leave files and rows alone, and nobody's writing.            *)
LEMMA FilesKept ==
    ASSUME FilesInv, UNCHANGED <<fileVars, stored, uploaded>>,
           \A a \in Workers \cup Uploaders :
              /\ at[a] = "writing" => at'[a] = "writing"
              /\ at'[a] \in Storing \cup {"recording"} =>
                    \/ at'[a] = "storing"
                    \/ at'[a] = at[a] /\ Carried(a)' = Carried(a)
    PROVE  FilesInv'
  BY DEF FilesInv, FoundAccounted, Accounted, Written, HasOriginal, HasThumbnail,
         RowsHaveFiles, Held, fileVars

LEMMA FilesStore ==
    ASSUME TypeInv, FilesInv, NEW a \in Workers \cup Uploaders, Store(a)
    PROVE  FilesInv'
<1> USE DEF TypeInv, TypeOK, Go
<1>1. /\ \A b \in Workers \cup Uploaders : Carried(b)' = Carried(b)
      /\ Held(None)' = Held(None)
  BY DEF Store, Carried, Held, assetVars
<1>2. Carried(a) \in Images /\ ThumbOf[Carried(a)] \in Thumbs
  BY ImagesAssumption
     DEF HaveWork, Store, StoreOriginal, LookForThumbnail, CreateThumbnail, FinishThumbnail,
         Carried
<1> DEFINE t == ThumbOf[Carried(a)]
<1>3. CASE StoreOriginal(a)
  BY <1>1, <1>3 DEF StoreOriginal, FilesInv, FoundAccounted, Accounted, Written, HasOriginal,
                    HasThumbnail, RowsHaveFiles
<1>4. CASE LookForThumbnail(a)
  BY <1>1, <1>4 DEF LookForThumbnail, fileVars, FilesInv, FoundAccounted, Accounted, Written,
                    HasOriginal, HasThumbnail, RowsHaveFiles
<1>5. CASE CreateThumbnail(a)
  <2>1. thumbs' = [thumbs EXCEPT ![t] = "partial"] /\ at' = [at EXCEPT ![a] = "writing"]
        /\ UNCHANGED <<originals, torn>> /\ at[a] = "creating"
    BY <1>5 DEF CreateThumbnail
  <2>2. FoundAccounted'
    BY <1>1, <1>2, <2>1 DEF FilesInv, FoundAccounted, Accounted, Written
  <2>3. HasOriginal' /\ HasThumbnail' /\ RowsHaveFiles'
    BY <1>1, <1>2, <2>1 DEF FilesInv, HasOriginal, HasThumbnail, RowsHaveFiles
  <2> QED
    BY <2>2, <2>3 DEF FilesInv
<1>6. CASE FinishThumbnail(a)
  <2>1. thumbs' = [thumbs EXCEPT ![t] = "complete"] /\ at' = [at EXCEPT ![a] = "recording"]
        /\ UNCHANGED originals /\ torn' = torn \ {t} /\ at[a] = "writing"
    BY <1>6 DEF FinishThumbnail
  <2>2. FoundAccounted'
    BY <1>1, <1>2, <2>1 DEF FilesInv, FoundAccounted, Accounted, Written
  <2>3. HasOriginal' /\ HasThumbnail' /\ RowsHaveFiles'
    BY <1>1, <1>2, <2>1 DEF FilesInv, HasOriginal, HasThumbnail, RowsHaveFiles
  <2> QED
    BY <2>2, <2>3 DEF FilesInv
<1> QED
  BY <1>3, <1>4, <1>5, <1>6 DEF Store

(* Whoever stops writing leaves a torn thumbnail, not an unaccounted one.  *)
LEMMA FilesTorn ==
    ASSUME TypeInv, FilesInv, NEW a \in Workers \cup Uploaders, Tear(a),
           UNCHANGED <<stored, uploaded>>, at'[a] \in {"idle", "down", "failing"},
           \A b \in (Workers \cup Uploaders) \ {a} : at'[b] = at[b] /\ Carried(b)' = Carried(b)
    PROVE  FilesInv'
<1>1. FoundAccounted'
  BY DEF FilesInv, FoundAccounted, Accounted, Written, Tear
<1>2. HasOriginal' /\ HasThumbnail' /\ RowsHaveFiles'
  BY DEF FilesInv, HasOriginal, HasThumbnail, RowsHaveFiles, Held, Tear
<1> QED
  BY <1>1, <1>2 DEF FilesInv

(* A row that becomes ready belongs to an image that was stored.           *)
LEMMA FilesRecorded ==
    ASSUME TypeInv, FilesInv, NEW a \in Workers \cup Uploaders, at[a] = "recording",
           UNCHANGED fileVars, at'[a] = "idle",
           Held(None)' \subseteq Held(None) \cup {Carried(a)},
           \A b \in (Workers \cup Uploaders) \ {a} : at'[b] = at[b] /\ Carried(b)' = Carried(b)
    PROVE  FilesInv'
<1>1. FoundAccounted' /\ HasOriginal' /\ HasThumbnail'
  BY DEF FilesInv, FoundAccounted, Accounted, Written, HasOriginal, HasThumbnail, fileVars
<1>2. RowsHaveFiles'
  BY DEF FilesInv, HasOriginal, HasThumbnail, RowsHaveFiles, fileVars
<1> QED
  BY <1>1, <1>2 DEF FilesInv

LEMMA FilesStep == TypeInv /\ FilesInv /\ [Next]_vars => FilesInv'
<1> SUFFICES ASSUME TypeInv, FilesInv, [Next]_vars
             PROVE  FilesInv'
  OBVIOUS
<1> USE ActorsAssumption DEF TypeInv, TypeOK, Go
<1>1. ASSUME NEW w \in Workers,
             Boot(w) \/ Claim(w) \/ TakeSlot(w) \/ Start(w) \/ Downloaded(w)
               \/ RecordConflict(w) \/ RecordFailure(w) \/ GiveUp(w) \/ DownloadFails(w)
               \/ LoseSession(w)
      PROVE  FilesInv'
  <2>1. UNCHANGED <<fileVars, stored, uploaded, image>>
    BY <1>1 DEF Boot, Backfill, Claim, TakeSlot, Start, Downloaded, RecordConflict,
                RecordFailure, GiveUp, DownloadFails, Fails, LoseSession, assetVars, quietVars,
                workVars
  <2>2. \A b \in (Workers \cup Uploaders) \ {w} : at'[b] = at[b] /\ Carried(b)' = Carried(b)
    <3>1. \A b \in (Workers \cup Uploaders) \ {w} : at'[b] = at[b]
      BY <1>1 DEF Boot, Claim, TakeSlot, Start, Downloaded, RecordConflict, RecordFailure,
                  GiveUp, DownloadFails, Fails, LoseSession, Unlock, Rest, workVars
    <3>2. \A v \in Workers \ {w} : job'[v] = job[v]
      BY <1>1 DEF Boot, Claim, TakeSlot, Start, Downloaded, RecordConflict, RecordFailure,
                  GiveUp, DownloadFails, Fails, LoseSession, Unlock, Rest, workVars
    <3> QED
      BY <2>1, <3>1, <3>2, SMTT(20) DEF Carried
  <2>3. CASE LoseSession(w)
    BY <2>1, <2>2, <2>3, FilesKept DEF LoseSession, workVars, Carried
  <2>4. CASE ~LoseSession(w)
    <3>1. at[w] # "writing" /\ at'[w] \notin {"thumbnailing", "creating", "writing", "recording"}
      BY <1>1, <2>4 DEF Boot, Claim, TakeSlot, Start, Downloaded, RecordConflict, RecordFailure,
                        GiveUp, DownloadFails, Fails, Unlock, Rest
    <3> QED
      BY <2>1, <2>2, <3>1, FilesKept
  <2> QED
    BY <2>3, <2>4
<1>2. ASSUME NEW w \in Workers, RecordReady(w) PROVE FilesInv'
  <2>1. Held(None)' \subseteq Held(None) \cup {Carried(w)}
    BY <1>2, NamesAssumption DEF RecordReady, Held, Carried
  <2>2. \A b \in (Workers \cup Uploaders) \ {w} : at'[b] = at[b] /\ Carried(b)' = Carried(b)
    BY <1>2 DEF RecordReady, Unlock, Rest, quietVars, Carried
  <2> QED
    BY <1>2, <2>1, <2>2, FilesRecorded DEF RecordReady, Unlock, Rest, quietVars
<1>3. ASSUME NEW a \in Workers \cup Uploaders, Store(a) PROVE FilesInv'
  BY <1>3, FilesStore
<1>4. ASSUME NEW w \in Workers, StoreFails(w) \/ Crash(w) PROVE FilesInv'
  BY <1>4, FilesTorn DEF StoreFails, Fails, Crash, assetVars, Carried
<1>5. ASSUME NEW u \in Uploaders, AbandonUpload(u) PROVE FilesInv'
  BY <1>5, FilesTorn DEF AbandonUpload, EndUpload, assetVars, Carried
<1>6. ASSUME NEW u \in Uploaders, BeginUpload(u) PROVE FilesInv'
  <2>1. UNCHANGED <<fileVars, stored, uploaded, job>>
    BY <1>6 DEF BeginUpload, assetVars
  <2>2. \A b \in (Workers \cup Uploaders) \ {u} : at'[b] = at[b] /\ Carried(b)' = Carried(b)
    BY <1>6 DEF BeginUpload, Carried
  <2> QED
    BY <1>6, <2>1, <2>2, FilesKept DEF BeginUpload
<1>7. ASSUME NEW u \in Uploaders, RecordUpload(u) PROVE FilesInv'
  <2>1. Held(None)' \subseteq Held(None) \cup {Carried(u)}
    BY <1>7 DEF RecordUpload, Held, Carried
  <2>2. \A b \in (Workers \cup Uploaders) \ {u} : at'[b] = at[b] /\ Carried(b)' = Carried(b)
    BY <1>7 DEF RecordUpload, EndUpload, Carried
  <2> QED
    BY <1>7, <2>1, <2>2, FilesRecorded DEF RecordUpload, EndUpload
<1>8. CASE (\E c \in Covers : Enqueue(c)) \/ Tick \/ UNCHANGED vars
  <2>1. UNCHANGED <<fileVars, stored, uploaded, at, job, image>>
    BY <1>8 DEF Enqueue, Tick, vars, assetVars, workVars
  <2> QED
    BY <2>1, FilesKept DEF Carried
<1> QED
  BY <1>1, <1>2, <1>3, <1>4, <1>5, <1>6, <1>7, <1>8 DEF Next, Work, Fault, Upload

LEMMA FilesInit == Init => FilesInv
  BY ActorsAssumption
     DEF Init, FilesInv, FoundAccounted, HasOriginal, HasThumbnail, RowsHaveFiles, Held

(* A ready asset has its original file and its thumbnail, which is whole   *)
(* unless it is being written or a write of it was cut short.              *)
THEOREM ReadyAssetsHaveFiles == Spec => []ReadyServesFiles
<1>1. TypeInv /\ FilesInv => ReadyServesFiles
  BY ImagesAssumption
     DEF TypeInv, TypeOK, FilesInv, FoundAccounted, Accounted, RowsHaveFiles, Held,
         ReadyServesFiles
<1> QED
  BY <1>1, TypeInit, FilesInit, TypeStep, FilesStep, PTL DEF Spec

(***************************************************************************)
(* The lease.                                                              *)
(***************************************************************************)

(* The lease is longer than the wait for a slot and the timeout together,  *)
(* when every fault has left a slot unused before.                         *)
LeaseSuffices == Lease > Interval * (MaxFaults + 1) + Timeout

(* A worker whose session is alive and that waits for its slot: it has the *)
(* last one.                                                               *)
InLine(w) == at[w] = "sleeping" /\ w \notin broken

(* Nobody takes a slot while such a worker waits, so that the schedule is  *)
(* ahead by one interval, one for that worker, and one for every fault.    *)
BacklogInv ==
    /\ pacing <= Interval * (faults + 2)
    /\ (\A w \in Workers : ~InLine(w)) => pacing <= Interval * (faults + 1)
    /\ \A w \in Workers : InLine(w) => pacing = due[w] + Interval

(* A lease runs from the claim to the end of the download, ...             *)
Claiming(w) == at[w] \in {"scheduling"} \cup Fetching
LeaseRuns ==
    \A w \in Workers :
        /\ at[w] = "scheduling" => lease[job[w]] = Lease
        /\ at[w] = "sleeping" => lease[job[w]] > due[w] + Timeout
        /\ at[w] = "downloading" => lease[job[w]] > due[w]

(* ... and until then the asset is nobody else's, unless the session of    *)
(* who worked on it is broken: that one will record nothing.               *)
OneClaim ==
    \A v, w \in Workers :
        v # w /\ Claiming(w) /\ at[v] \in Working /\ (v \notin broken \/ Claiming(v)) =>
            job[v] # job[w]

LeaseInv == LeaseRuns /\ OneClaim

LEMMA SlotArithmetic ==
    ASSUME NEW n \in Nat
    PROVE  /\ Interval * (n + 2) = Interval * (n + 1) + Interval
           /\ Interval * (n + 1) \in Nat /\ Interval <= Interval * (n + 1)
           /\ \A m \in Nat : n <= m => Interval * (n + 1) <= Interval * (m + 1)
<1>1. Interval \in Nat /\ n + 1 \in Nat
  BY TimesAssumption
<1>2. Interval * n \in Nat /\ Interval * (n + 1) = Interval * n + Interval
  BY <1>1
<1>3. Interval * (n + 2) = Interval * n + Interval + Interval
  BY <1>1
<1>4. ASSUME NEW m \in Nat, n <= m PROVE Interval * (n + 1) <= Interval * (m + 1)
  <2> DEFINE d == m - n
  <2>1. d \in Nat /\ m = n + d
    BY <1>4
  <2>2. Interval * d \in Nat
    BY <1>1, <2>1
  <2>3. Interval * (m + 1) = Interval * (n + 1) + Interval * d
    BY <1>1, <2>1
  <2> QED
    BY <1>1, <1>2, <2>2, <2>3
<1> QED
  BY <1>1, <1>2, <1>3, <1>4

(* A step that takes no slot, and after which no more workers are in line. *)
LEMMA BacklogKept ==
    ASSUME TypeInv, BacklogInv, UNCHANGED <<pacing, faults>>,
           \A w \in Workers : InLine(w)' <=> InLine(w),
           \A w \in Workers : InLine(w) => due'[w] = due[w]
    PROVE  BacklogInv'
  BY DEF BacklogInv

(* A fault: the slot of whoever was in line may stay unused.               *)
LEMMA BacklogFault ==
    ASSUME TypeInv, BacklogInv, UNCHANGED pacing, faults' = faults + 1,
           \A w \in Workers : InLine(w)' => InLine(w) /\ due'[w] = due[w]
    PROVE  BacklogInv'
<1>1. faults \in Nat /\ pacing \in Nat /\ faults' \in Nat
  BY FaultsAssumption DEF TypeInv, TypeOK
<1>2. Interval * (faults + 2) = Interval * (faults' + 1)
      /\ Interval * (faults' + 1) <= Interval * (faults' + 2)
  <2>1. faults + 2 = faults' + 1
    BY <1>1
  <2>2. Interval * (faults' + 1) \in Nat /\ Interval \in Nat
        /\ Interval * (faults' + 2) = Interval * (faults' + 1) + Interval
    BY <1>1, SlotArithmetic, TimesAssumption
  <2> QED
    BY <2>1, <2>2
<1>3. Interval * (faults' + 1) \in Nat /\ Interval * (faults' + 2) \in Nat
  BY <1>1, SlotArithmetic, TimesAssumption
<1>4. pacing' <= Interval * (faults' + 1)
  BY <1>2 DEF BacklogInv
<1>5. pacing' <= Interval * (faults' + 2)
  BY <1>1, <1>2, <1>3, <1>4
<1> QED
  BY <1>4, <1>5 DEF BacklogInv

LEMMA BacklogStep == TypeInv /\ LockInv /\ BacklogInv /\ [Next]_vars => BacklogInv'
<1> SUFFICES ASSUME TypeInv, LockInv, BacklogInv, [Next]_vars
             PROVE  BacklogInv'
  OBVIOUS
<1> USE DEF TypeInv, TypeOK, Go
<1>0. /\ faults \in Nat /\ pacing \in Nat /\ Interval \in Nat
      /\ Interval * (faults + 2) = Interval * (faults + 1) + Interval
      /\ Interval * (faults + 1) \in Nat /\ Interval <= Interval * (faults + 1)
  BY SlotArithmetic, TimesAssumption, FaultsAssumption
<1>1. ASSUME NEW w \in Workers, TakeSlot(w) PROVE BacklogInv'
  <2>1. \A v \in Workers : ~InLine(v)
    BY <1>1, NamesAssumption DEF TakeSlot, InLine, LockInv, LockHeld
  <2>2. pacing <= Interval * (faults + 1)
    BY <2>1 DEF BacklogInv
  <2>3. /\ pacing' = pacing + Interval /\ faults' = faults
        /\ at' = [at EXCEPT ![w] = "sleeping"] /\ due' = [due EXCEPT ![w] = pacing]
        /\ broken' = broken /\ w \notin broken
    BY <1>1 DEF TakeSlot, quietVars, sessionVars
  <2>4. InLine(w)' /\ \A v \in Workers \ {w} : ~InLine(v)'
    BY <2>1, <2>3 DEF InLine
  <2>5. pacing' <= Interval * (faults' + 2)
    BY <1>0, <2>2, <2>3
  <2>6. \A v \in Workers : InLine(v)' => pacing' = due'[v] + Interval
    BY <1>0, <2>3, <2>4
  <2> QED
    BY <2>4, <2>5, <2>6 DEF BacklogInv
<1>2. ASSUME NEW w \in Workers, Start(w) PROVE BacklogInv'
  <2>1. /\ at' = [at EXCEPT ![w] = "downloading"] /\ due' = [due EXCEPT ![w] = Timeout]
        /\ UNCHANGED <<pacing, faults, broken>> /\ at[w] = "sleeping" /\ due[w] = 0
    BY <1>2 DEF Start, sessionVars
  <2>2. CASE w \in broken
    BY <2>1, <2>2, BacklogKept DEF InLine
  <2>3. CASE w \notin broken
    <3>1. pacing = Interval
      BY <1>0, <2>1, <2>3 DEF BacklogInv, InLine
    <3>2. pacing' <= Interval * (faults' + 1) /\ pacing' <= Interval * (faults' + 2)
      BY <1>0, <2>1, <3>1
    <3>3. \A v \in Workers : InLine(v)' => InLine(v) /\ due'[v] = due[v]
      BY <2>1 DEF InLine
    <3> QED
      BY <2>1, <3>2, <3>3 DEF BacklogInv
  <2> QED
    BY <2>2, <2>3
<1>3. ASSUME NEW w \in Workers,
             Boot(w) \/ Claim(w) \/ Downloaded(w) \/ RecordReady(w) \/ RecordConflict(w)
               \/ RecordFailure(w) \/ GiveUp(w) \/ DownloadFails(w)
      PROVE  BacklogInv'
  BY <1>3, BacklogKept
     DEF Boot, Claim, Downloaded, RecordReady, RecordConflict, RecordFailure, Unlock, Rest,
         GiveUp, DownloadFails, Fails, quietVars, sessionVars, InLine
<1>4. ASSUME NEW w \in Workers, Store(w) PROVE BacklogInv'
  BY <1>4, BacklogKept
     DEF Store, StoreOriginal, LookForThumbnail, CreateThumbnail, FinishThumbnail,
         sessionVars, InLine
<1>5. ASSUME NEW w \in Workers, StoreFails(w) \/ Crash(w) \/ LoseSession(w) PROVE BacklogInv'
  <2>1. faults' = faults + 1 /\ pacing' = pacing
    BY <1>5 DEF StoreFails, Crash, LoseSession, Strike, Fails
  <2>2. \A v \in Workers : InLine(v)' => InLine(v) /\ due'[v] = due[v]
    BY <1>5 DEF StoreFails, Crash, LoseSession, Fails, InLine, sessionVars, workVars
  <2> QED
    BY <2>1, <2>2, BacklogFault
<1>6. ASSUME NEW u \in Uploaders, Upload(u) PROVE BacklogInv'
  BY <1>6, BacklogKept, ActorsAssumption
     DEF Upload, BeginUpload, Store, StoreOriginal, LookForThumbnail, CreateThumbnail,
         FinishThumbnail, RecordUpload, AbandonUpload, EndUpload, sessionVars, InLine
<1>7. CASE (\E c \in Covers : Enqueue(c)) \/ UNCHANGED vars
  BY <1>7, BacklogKept DEF Enqueue, vars, workVars, sessionVars, InLine
<1>8. CASE Tick
  <2>1. /\ \A w \in Workers : at[w] = "sleeping" => due[w] > 0 /\ due'[w] = due[w] - 1
        /\ UNCHANGED <<at, broken, faults>>
    BY <1>8, DownType DEF Tick, Urgent, sessionVars
  <2>2. /\ pacing' \in Nat /\ pacing' <= pacing
        /\ pacing > 0 => pacing' = pacing - 1
    BY <1>8, DownType DEF Tick
  <2>3. \A w \in Workers : InLine(w)' <=> InLine(w)
    BY <2>1 DEF InLine
  <2>4. \A w \in Workers : InLine(w)' => pacing' = due'[w] + Interval
    BY <1>0, <2>1, <2>2, <2>3 DEF BacklogInv, InLine
  <2>5. pacing' <= Interval * (faults' + 2)
        /\ ((\A w \in Workers : ~InLine(w)) => pacing' <= Interval * (faults' + 1))
    BY <1>0, <2>1, <2>2 DEF BacklogInv
  <2> QED
    BY <2>3, <2>4, <2>5 DEF BacklogInv
<1> QED
  BY <1>1, <1>2, <1>3, <1>4, <1>5, <1>6, <1>7, <1>8 DEF Next, Work, Fault

LEMMA BacklogInit == Init => BacklogInv
<1> SUFFICES ASSUME Init PROVE BacklogInv
  OBVIOUS
<1>1. Interval * (0 + 1) \in Nat /\ Interval * (0 + 2) = Interval * (0 + 1) + Interval
      /\ Interval \in Nat
  BY SlotArithmetic, TimesAssumption
<1> QED
  BY <1>1, ActorsAssumption DEF Init, BacklogInv, InLine

(* A step that claims nothing and that clears at most the lease of an      *)
(* asset no other worker has claimed.                                      *)
LEMMA LeaseKept ==
    ASSUME TypeInv, LeaseInv,
           \A w \in Workers : Claiming(w)' =>
               at'[w] = at[w] /\ due'[w] = due[w] /\ lease'[job[w]] = lease[job[w]],
           \A v \in Workers :
               at'[v] \in Working /\ (v \notin broken' \/ Claiming(v)') =>
                   at[v] \in Working /\ (v \notin broken \/ Claiming(v)) /\ job'[v] = job[v]
    PROVE  LeaseInv'
<1>1. \A w \in Workers : Claiming(w)' => Claiming(w) /\ job'[w] = job[w]
  BY DEF Claiming
<1>2. LeaseRuns'
  BY <1>1 DEF LeaseInv, LeaseRuns, Claiming
<1>3. OneClaim'
  BY <1>1 DEF LeaseInv, OneClaim
<1> QED
  BY <1>2, <1>3 DEF LeaseInv

LEMMA LeaseWork ==
    ASSUME LeaseSuffices, TypeInv, LockInv, BacklogInv, LeaseInv, NEW w \in Workers, Work(w)
    PROVE  LeaseInv'
<1> USE DEF TypeInv, TypeOK, HaveWork, Go
<1>1. CASE Boot(w) \/ Downloaded(w) \/ RecordConflict(w) \/ GiveUp(w)
  BY <1>1, LeaseKept
     DEF Boot, Backfill, Downloaded, RecordConflict, GiveUp, Unlock, Rest, assetVars,
         sessionVars, Claiming
<1>2. CASE Store(w)
  BY <1>2, LeaseKept
     DEF Store, StoreOriginal, LookForThumbnail, CreateThumbnail, FinishThumbnail, assetVars,
         sessionVars, Claiming
<1>3. CASE RecordReady(w) \/ RecordFailure(w)
  <2>1. at[w] \in Working /\ w \notin broken /\ ~Claiming(w)
    BY <1>3 DEF RecordReady, RecordFailure, Claiming
  <2>2. /\ at' = [at EXCEPT ![w] = "idle"] /\ job' = [job EXCEPT ![w] = None]
        /\ due' = [due EXCEPT ![w] = 0] /\ lease' = [lease EXCEPT ![job[w]] = 0]
        /\ broken' = broken
    BY <1>3 DEF RecordReady, RecordFailure, Unlock, Rest
  <2>3. \A v \in Workers : Claiming(v) => job[v] \in Covers /\ job[v] # job[w]
    BY <2>1 DEF LeaseInv, OneClaim, Claiming
  <2>4. \A v \in Workers : Claiming(v)' =>
            at'[v] = at[v] /\ due'[v] = due[v] /\ lease'[job[v]] = lease[job[v]]
    BY <2>2, <2>3 DEF Claiming
  <2>5. \A v \in Workers :
            at'[v] \in Working /\ (v \notin broken' \/ Claiming(v)') =>
                at[v] \in Working /\ (v \notin broken \/ Claiming(v)) /\ job'[v] = job[v]
    BY <2>2 DEF Claiming
  <2> QED
    BY <2>4, <2>5, LeaseKept
<1>4. CASE Claim(w)
  <2>1. PICK c \in Covers :
            /\ FirstInLine(c) /\ lease' = [lease EXCEPT ![c] = Lease]
            /\ job' = [job EXCEPT ![w] = c]
    BY <1>4 DEF Claim
  <2>2. lease[c] = 0
    BY <2>1 DEF FirstInLine, Due
  <2>3. /\ at' = [at EXCEPT ![w] = "scheduling"] /\ at[w] = "idle" /\ holder = NoOne
        /\ UNCHANGED <<due, broken>>
    BY <1>4 DEF Claim, TryLock
  <2>4. \A v \in Workers : at[v] \in Working => v \in broken
    BY <2>3, NamesAssumption DEF LockInv, LockHeld
  <2>5. \A v \in Workers : Claiming(v) => job[v] \in Covers /\ job[v] # c /\ v # w
    <3> SUFFICES ASSUME NEW v \in Workers, Claiming(v)
                 PROVE  job[v] \in Covers /\ job[v] # c /\ v # w
      OBVIOUS
    <3>1. job[v] \in Covers /\ v # w
      BY <2>3 DEF Claiming
    <3>2. lease[job[v]] > 0
      BY <3>1, LeaseAssumption, TimesAssumption DEF Claiming, LeaseInv, LeaseRuns
    <3> QED
      BY <2>2, <3>1, <3>2
  <2>6. \A v \in Workers \ {w} : Claiming(v)' <=> Claiming(v)
    BY <2>3 DEF Claiming
  <2>7. LeaseRuns'
    BY <2>1, <2>3, <2>5, <2>6 DEF LeaseInv, LeaseRuns, Claiming
  <2>8. OneClaim'
    BY <2>1, <2>3, <2>4, <2>5, <2>6 DEF LeaseInv, OneClaim
  <2> QED
    BY <2>7, <2>8 DEF LeaseInv
<1>5. CASE TakeSlot(w)
  <2>1. /\ at' = [at EXCEPT ![w] = "sleeping"] /\ at[w] = "scheduling"
        /\ due' = [due EXCEPT ![w] = pacing] /\ w \notin broken
        /\ UNCHANGED <<lease, job, broken>>
    BY <1>5 DEF TakeSlot, assetVars, sessionVars
  <2>2. \A v \in Workers : ~InLine(v)
    BY <2>1, NamesAssumption DEF InLine, LockInv, LockHeld
  <2>3. pacing <= Interval * (faults + 1)
    BY <2>2 DEF BacklogInv
  <2>4. Interval * (faults + 1) <= Interval * (MaxFaults + 1)
        /\ Interval * (faults + 1) \in Nat /\ Interval * (MaxFaults + 1) \in Nat
    BY SlotArithmetic, FaultsAssumption
  <2>5. Lease > pacing + Timeout
    BY <2>3, <2>4, LeaseAssumption, TimesAssumption DEF LeaseSuffices
  <2>6. \A v \in Workers : Claiming(v)' <=> Claiming(v)
    BY <2>1 DEF Claiming
  <2>7. LeaseRuns'
    BY <2>1, <2>5 DEF LeaseInv, LeaseRuns
  <2>8. OneClaim'
    BY <2>1, <2>6 DEF LeaseInv, OneClaim
  <2> QED
    BY <2>7, <2>8 DEF LeaseInv
<1>6. CASE Start(w)
  <2>1. /\ at' = [at EXCEPT ![w] = "downloading"] /\ at[w] = "sleeping" /\ due[w] = 0
        /\ due' = [due EXCEPT ![w] = Timeout] /\ UNCHANGED <<lease, job, broken>>
    BY <1>6 DEF Start, assetVars, sessionVars
  <2>2. \A v \in Workers : Claiming(v)' <=> Claiming(v)
    BY <2>1 DEF Claiming
  <2>3. LeaseRuns'
    BY <2>1, TimesAssumption DEF LeaseInv, LeaseRuns
  <2>4. OneClaim'
    BY <2>1, <2>2 DEF LeaseInv, OneClaim
  <2> QED
    BY <2>3, <2>4 DEF LeaseInv
<1> QED
  BY <1>1, <1>2, <1>3, <1>4, <1>5, <1>6 DEF Work

LEMMA LeaseStep ==
    LeaseSuffices /\ TypeInv /\ LockInv /\ BacklogInv /\ LeaseInv /\ [Next]_vars => LeaseInv'
<1> SUFFICES ASSUME LeaseSuffices, TypeInv, LockInv, BacklogInv, LeaseInv, [Next]_vars
             PROVE  LeaseInv'
  OBVIOUS
<1> USE DEF TypeInv, TypeOK, HaveWork, Go
<1>1. ASSUME NEW w \in Workers, Fault(w) PROVE LeaseInv'
  <2>1. CASE DownloadFails(w) \/ StoreFails(w)
    <3>1. /\ at' = [at EXCEPT ![w] = "failing"] /\ at[w] \in Working
          /\ UNCHANGED <<job, lease, broken>>
      BY <2>1 DEF DownloadFails, StoreFails, Fails, assetVars, sessionVars, Working, Fetching
    <3>2. \A v \in Workers \ {w} : due'[v] = due[v]
      BY <2>1 DEF DownloadFails, StoreFails, Fails
    <3>3. /\ ~Claiming(w)'
          /\ \A v \in Workers \ {w} : (Claiming(v)' <=> Claiming(v)) /\ at'[v] = at[v]
      BY <3>1 DEF Claiming, Fetching
    <3> QED
      BY <3>1, <3>2, <3>3, LeaseKept
  <2>2. CASE Crash(w)
    BY <2>2, LeaseKept DEF Crash, assetVars, Claiming
  <2>3. CASE LoseSession(w)
    BY <2>3, LeaseKept DEF LoseSession, assetVars, workVars, Claiming
  <2> QED
    BY <1>1, <2>1, <2>2, <2>3 DEF Fault
<1>2. ASSUME NEW u \in Uploaders, Upload(u) PROVE LeaseInv'
  <2>1. u \notin Workers
    BY ActorsAssumption
  <2>2. \A w \in Workers : at'[w] = at[w] /\ job'[w] = job[w]
    BY <1>2, <2>1
       DEF Upload, BeginUpload, Store, StoreOriginal, LookForThumbnail, CreateThumbnail,
           FinishThumbnail, RecordUpload, AbandonUpload, EndUpload, sessionVars
  <2>3. UNCHANGED <<due, lease, broken>>
    BY <1>2
       DEF Upload, BeginUpload, Store, StoreOriginal, LookForThumbnail, CreateThumbnail,
           FinishThumbnail, RecordUpload, AbandonUpload, EndUpload, assetVars, sessionVars
  <2> QED
    BY <2>2, <2>3, LeaseKept DEF Claiming
<1>3. CASE (\E c \in Covers : Enqueue(c)) \/ UNCHANGED vars
  BY <1>3, LeaseKept DEF Enqueue, vars, assetVars, workVars, sessionVars, Claiming
<1>4. CASE Tick
  <2>1. /\ \A w \in Workers : at[w] # "scheduling"
        /\ \A w \in Workers : at[w] \in Fetching => due[w] > 0 /\ due'[w] = due[w] - 1
        /\ UNCHANGED <<at, broken, job>>
    BY <1>4, DownType DEF Tick, Urgent, sessionVars
  <2>2. \A c \in Covers : lease[c] > 0 => lease'[c] = lease[c] - 1
    BY <1>4, DownType, LeaseAssumption DEF Tick
  <2>3. LeaseRuns'
    <3> SUFFICES ASSUME NEW w \in Workers, at[w] \in Fetching
                 PROVE  /\ at[w] = "sleeping" => lease'[job[w]] > due'[w] + Timeout
                        /\ at[w] = "downloading" => lease'[job[w]] > due'[w]
      BY <2>1 DEF LeaseRuns
    <3>1. /\ job[w] \in Covers /\ lease[job[w]] \in Nat /\ due[w] \in Nat /\ Timeout \in Nat
          /\ due[w] > 0 /\ due'[w] = due[w] - 1
      BY <2>1, LeaseAssumption, TimesAssumption
    <3>2. /\ at[w] = "sleeping" => lease[job[w]] > due[w] + Timeout
          /\ at[w] = "downloading" => lease[job[w]] > due[w]
      BY DEF LeaseInv, LeaseRuns
    <3>3. lease'[job[w]] = lease[job[w]] - 1
      BY <2>2, <3>1, <3>2
    <3> QED
      BY <3>1, <3>2, <3>3
  <2>4. OneClaim'
    BY <2>1 DEF LeaseInv, OneClaim, Claiming
  <2> QED
    BY <2>3, <2>4 DEF LeaseInv
<1> QED
  BY <1>1, <1>2, <1>3, <1>4, LeaseWork DEF Next

LEMMA LeaseInit == Init => LeaseInv
  BY ActorsAssumption DEF Init, LeaseInv, LeaseRuns, OneClaim, Claiming

(* Two workers never download the same cover, whatever sessions break,     *)
(* when the lease covers the backlog of slots and the timeout: a worker    *)
(* that lost its session still has its lease when the download ends.       *)
THEOREM LeaseKeepsDownloadsApart == LeaseSuffices /\ Spec => []OneDownloadPerCover
<1> SUFFICES ASSUME LeaseSuffices PROVE Spec => []OneDownloadPerCover
  OBVIOUS
<1>1. TypeInv /\ LeaseInv => OneDownloadPerCover
  BY DEF TypeInv, TypeOK, LeaseInv, OneClaim, Claiming, OneDownloadPerCover, Downloading
<1>2. TypeInv /\ LockInv /\ BacklogInv /\ LeaseInv /\ [Next]_vars => LeaseInv'
  BY LeaseStep
<1> QED
  BY <1>1, <1>2, TypeInit, LockInit, BacklogInit, LeaseInit, TypeStep, LockStep, BacklogStep,
     PTL DEF Spec

=============================================================================
