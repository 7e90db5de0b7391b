----------------------------- MODULE CoverMirror -----------------------------
(***************************************************************************)
(* The mirror of cover images (src/src/cover_storage.rs): the worker that  *)
(* each instance runs (main.rs), uploads of images, the table cover_assets *)
(* and the directory of files.  Workers are serialized by an advisory lock *)
(* of a PostgreSQL session, which is gone as soon as the session is; what  *)
(* then still keeps two of them apart is the lease on the asset they       *)
(* claimed.                                                                *)
(*                                                                         *)
(* Instants are distances from now.  Above 0 they are ticks; below, only   *)
(* their order matters, and -1 is the latest.  All instances share the     *)
(* directory of files and one clock.                                       *)
(***************************************************************************)
EXTENDS Integers, Sequences, FiniteSetsExt

CONSTANTS
    Workers,       \* the instances of the service
    Uploaders,     \* requests that upload an image
    Covers,        \* source URLs of covers at MangaDex
    Legacy,        \* those in the catalog since before there were assets
    Images,        \* contents of image files
    ImageOf,       \* the image behind each source URL
    Thumbs,        \* contents of thumbnails
    ThumbOf,       \* the thumbnail of each image
    Interval,      \* COVER_DOWNLOAD_INTERVAL
    Timeout,       \* timeout of the workers' HTTP client
    Lease,         \* the two minutes of locked_until
    BaseDelay,     \* COVER_RETRY_BASE_DELAY
    MaxDelay,      \* COVER_RETRY_MAX_DELAY
    ThrottleDelay, \* COVER_THROTTLE_DELAY
    RetryAfters,   \* values of Retry-After, 0 when there is none
    AttemptCap,    \* bound: attempts above it have the same delay
    MaxFaults,     \* bound on crashes, lost sessions and failed writes
    Watched        \* the covers whose pauses the observer follows

(* 1_u32 << n for n up to 7.                                               *)
Powers == <<1, 2, 4, 8, 16, 32, 64, 128>>

ASSUME ImagesAssumption ==
    /\ IsFiniteSet(Covers) /\ Legacy \subseteq Covers
    /\ ImageOf \in [Covers -> Images] /\ ThumbOf \in [Images -> Thumbs]
ASSUME ActorsAssumption == Workers \cap Uploaders = {}
ASSUME TimesAssumption ==
    /\ Interval \in Nat \ {0} /\ Timeout \in Nat
    /\ BaseDelay \in Nat \ {0} /\ MaxDelay \in Nat \ {0}
    /\ ThrottleDelay \in Nat \ {0} /\ RetryAfters \subseteq Nat
ASSUME LeaseAssumption == Lease \in Nat /\ Lease > Timeout
ASSUME FaultsAssumption == MaxFaults \in Nat
ASSUME AttemptCapAssumption ==
    AttemptCap \in 1..8 /\ (AttemptCap = 8 \/ BaseDelay * Powers[AttemptCap] >= MaxDelay)

VARIABLES
    status,    \* the status of each cover's asset; "absent" without a row
    stored,    \* its storage_key: the image it is ready with
    attempts,  \* attempt_count
    nextAt,    \* next_attempt_at
    lease,     \* locked_until, 0 when null or past
    uploaded,  \* images with a row of their own, without source URL
    pacing,    \* next_download_at, 0 when past
    holder,    \* the session that holds the advisory lock
    at,        \* where each worker and each upload is
    job,       \* the asset a worker claimed
    due,       \* ticks until its slot, until its timeout, or the delay it
               \* has computed, according to where the worker is
    broken,    \* workers whose session PostgreSQL has given up
    image,     \* the image an upload carries
    originals, \* the images whose file exists
    thumbs,    \* the state of each thumbnail's file
    faults,    \* those so far
    torn,      \* observer: thumbnails of which a write was cut short
    sinceStart,\* observer: ticks since a download began, up to Interval
    pause      \* observer: ticks left of the pause that the last failure of a
               \* watched cover calls for

assetVars == <<status, stored, attempts, nextAt, lease, uploaded>>
sessionVars == <<holder, broken>>
workVars == <<at, job, due, image>>
fileVars == <<originals, thumbs, torn>>
clockVars == <<sinceStart, pause>>
quietVars == <<image, fileVars, clockVars, faults>>
vars == <<assetVars, pacing, sessionVars, workVars, fileVars, clockVars, faults>>

NoOne == "no one"
None == "none"

ASSUME NamesAssumption == NoOne \notin Workers /\ None \notin Covers \cup Images

(* A worker is down, idle, or between pg_try_advisory_lock and the unlock. *)

Statements == {"scheduling", "recording", "failing"}
Storing == {"storing", "thumbnailing", "creating", "writing"}
Fetching == {"sleeping", "downloading"}

Working == Statements \cup Storing \cup Fetching

(* The delays of retry_delay, by attempt.                                  *)
Ladder(n) == Min({BaseDelay * Powers[1 + Max({0, Min({n - 1, 7})})], MaxDelay})

RetryDelay(n, throttled, after) ==
    Max({after, IF throttled THEN ThrottleDelay ELSE Ladder(n)})

(* Past instants keep their order and nothing else.                        *)
Ordered(f) ==
    LET past == {n \in {f[d] : d \in Covers} : n < 0} IN
    [c \in Covers |-> IF f[c] >= 0 THEN f[c] ELSE -Cardinality({n \in past : f[c] <= n})]

Init ==
    /\ status = [c \in Covers |-> "absent"]
    /\ stored = [c \in Covers |-> None]
    /\ attempts = [c \in Covers |-> 0]
    /\ nextAt = [c \in Covers |-> 0]
    /\ lease = [c \in Covers |-> 0]
    /\ uploaded = {}
    /\ pacing = 0
    /\ holder = NoOne
    /\ at = [a \in Workers \cup Uploaders |-> IF a \in Workers THEN "down" ELSE "idle"]
    /\ job = [w \in Workers |-> None]
    /\ due = [w \in Workers |-> 0]
    /\ broken = {}
    /\ image = [u \in Uploaders |-> None]
    /\ originals = {}
    /\ thumbs = [t \in Thumbs |-> "absent"]
    /\ torn = {}
    /\ faults = 0
    /\ sinceStart = Interval
    /\ pause = [c \in Covers |-> 0]

Go(a, where) == at' = [at EXCEPT ![a] = where]

(***************************************************************************)
(* Rows appear.                                                            *)
(***************************************************************************)

(* enqueue_existing_mangadex_assets: a row for every catalogued cover that *)
(* has none; ON CONFLICT DO NOTHING.                                       *)
Backfill ==
    /\ status' = [c \in Covers |-> IF c \in Legacy /\ status[c] = "absent" THEN "pending"
                                  ELSE status[c]]
    /\ UNCHANGED <<stored, attempts, nextAt, lease, uploaded>>

(* enqueue_source_asset, called by every upsert of a cover or a volume:    *)
(* an asset that is there becomes due, LEAST(next_attempt_at, now()).      *)
Enqueue(c) ==
    /\ status' = [status EXCEPT ![c] = IF @ = "absent" THEN "pending" ELSE @]
    /\ nextAt' = [nextAt EXCEPT ![c] = Min({@, 0})]
    /\ UNCHANGED <<stored, attempts, lease, uploaded, pacing, sessionVars, workVars,
                   fileVars, clockVars, faults>>

(***************************************************************************)
(* A worker: process_next and process_next_locked, statement by statement. *)
(***************************************************************************)

(* main: the backfill is done before the worker is spawned.                *)
Boot(w) ==
    /\ at[w] = "down"
    /\ Backfill
    /\ Go(w, "idle")
    /\ UNCHANGED <<pacing, sessionVars, job, due, quietVars>>

(* Faulty variant for the mutation runs: the subquery without locked_until.*)
DueUnleased == {c \in Covers : status[c] \in {"pending", "failed"} /\ nextAt[c] <= 0}

Due == {c \in Covers : /\ status[c] \in {"pending", "failed"}
                       /\ nextAt[c] <= 0
                       /\ lease[c] = 0}

(* Faulty variant for the mutation runs: no ORDER BY.                      *)
FirstInLineAny(c) == c \in Due

(* ORDER BY next_attempt_at LIMIT 1                                        *)
FirstInLine(c) == c \in Due /\ \A d \in Due : nextAt[c] <= nextAt[d]

(* Faulty variant for the mutation runs: the answer of                     *)
(* pg_try_advisory_lock is not looked at.                                  *)
TryLockAnyway(w) == holder' = w

(* pg_try_advisory_lock                                                    *)
TryLock(w) == holder = NoOne /\ holder' = w

(* The worker gets the lock and claims the oldest asset that is due, with  *)
(* a lease and an attempt.  When the lock is taken, or nothing is due and  *)
(* it is given back, process_next changes nothing.                         *)
Claim(w) ==
    /\ at[w] = "idle"
    /\ TryLock(w)
    /\ \E c \in Covers :
          /\ FirstInLine(c)
          /\ lease' = [lease EXCEPT ![c] = Lease]
          /\ attempts' = [attempts EXCEPT ![c] = Min({@ + 1, AttemptCap})]
          /\ job' = [job EXCEPT ![w] = c]
    /\ Go(w, "scheduling")
    /\ UNCHANGED <<status, stored, nextAt, uploaded, pacing, broken, due, quietVars>>

(* Faulty variant for the mutation runs: the next slot is counted from now.*)
TakeSlotFromNow(w) ==
    /\ at[w] = "scheduling" /\ w \notin broken
    /\ due' = [due EXCEPT ![w] = 0]
    /\ pacing' = Interval
    /\ Go(w, "sleeping")
    /\ UNCHANGED <<assetVars, sessionVars, job, quietVars>>

(* Faulty variant for the mutation runs: as if RETURNING gave the old      *)
(* next_download_at.                                                       *)
TakeSlotOld(w) ==
    /\ at[w] = "scheduling" /\ w \notin broken
    /\ due' = [due EXCEPT ![w] = pacing - Interval]
    /\ pacing' = pacing + Interval
    /\ Go(w, "sleeping")
    /\ UNCHANGED <<assetVars, sessionVars, job, quietVars>>

(* wait_for_download_slot: GREATEST(next_download_at, now()).              *)
TakeSlot(w) ==
    /\ at[w] = "scheduling" /\ w \notin broken
    /\ due' = [due EXCEPT ![w] = pacing]
    /\ pacing' = pacing + Interval
    /\ Go(w, "sleeping")
    /\ UNCHANGED <<assetVars, sessionVars, job, quietVars>>

(* The sleep is over and mirror_asset sends the GET.                       *)
Start(w) ==
    /\ at[w] = "sleeping" /\ due[w] = 0
    /\ due' = [due EXCEPT ![w] = Timeout]
    /\ sinceStart' = 0
    /\ Go(w, "downloading")
    /\ UNCHANGED <<assetVars, pacing, sessionVars, job, image, fileVars, pause, faults>>

Downloaded(w) ==
    /\ at[w] = "downloading"
    /\ due' = [due EXCEPT ![w] = 0]
    /\ Go(w, "storing")
    /\ UNCHANGED <<assetVars, pacing, sessionVars, job, quietVars>>

(* mirror_asset failed and its delay has been computed.                    *)
Fails(w, throttled, after) ==
    /\ due' = [due EXCEPT ![w] = RetryDelay(attempts[job[w]], throttled, after)]
    /\ pause' = [pause EXCEPT ![job[w]] =
                     IF throttled /\ job[w] \in Watched THEN ThrottleDelay ELSE 0]
    /\ Go(w, "failing")
    /\ UNCHANGED <<assetVars, pacing, sessionVars, job, image, sinceStart>>

(* An error response, with Retry-After or without, or none in time, or a   *)
(* body that is too long.                                                  *)
DownloadFails(w) ==
    /\ at[w] = "downloading"
    /\ \E throttled \in BOOLEAN, after \in RetryAfters : Fails(w, throttled, after)
    /\ UNCHANGED <<fileVars, faults>>

(* Back to main's loop, without locals.                                    *)
Rest(w) ==
    /\ Go(w, "idle")
    /\ job' = [job EXCEPT ![w] = None]
    /\ due' = [due EXCEPT ![w] = 0]

(* pg_advisory_unlock, whatever the outcome was: the next statement after  *)
(* the one that records it.                                                *)
Unlock(w) == holder' = NoOne /\ Rest(w)

(* The images of rows other than c's.                                      *)
Held(c) == uploaded \cup ({stored[d] : d \in Covers \ {c}} \ {None})

(* thumbnail_storage_key is unique, and so is storage_key: images with     *)
(* different thumbnails are different.                                     *)
Conflicts(i, held) == ThumbOf[i] \in {ThumbOf[j] : j \in held}

(* UPDATE ... status='ready', in the session that holds the lock.          *)
RecordReady(w) ==
    LET c == job[w] IN
    /\ at[w] = "recording" /\ w \notin broken
    /\ ~Conflicts(ImageOf[c], Held(c))
    /\ status' = [status EXCEPT ![c] = "ready"]
    /\ stored' = [stored EXCEPT ![c] = ImageOf[c]]
    /\ lease' = [lease EXCEPT ![c] = 0]
    /\ Unlock(w)
    /\ UNCHANGED <<attempts, nextAt, uploaded, pacing, broken, quietVars>>

(* The UPDATE violates a unique constraint: the asset keeps its lease.     *)
RecordConflict(w) ==
    /\ at[w] = "recording" /\ w \notin broken
    /\ Conflicts(ImageOf[job[w]], Held(job[w]))
    /\ Unlock(w)
    /\ UNCHANGED <<assetVars, pacing, broken, quietVars>>

(* Faulty variant for the mutation runs: executed on the pool, not on the  *)
(* session that holds the lock.                                            *)
RecordFailureOnPool(w) ==
    LET c == job[w] IN
    /\ at[w] = "failing"
    /\ status' = [status EXCEPT ![c] = "failed"]
    /\ nextAt' = [nextAt EXCEPT ![c] = due[w]]
    /\ lease' = [lease EXCEPT ![c] = 0]
    /\ Unlock(w)
    /\ UNCHANGED <<stored, attempts, uploaded, pacing, broken, quietVars>>

(* UPDATE ... status='failed', with the next attempt after the delay.      *)
RecordFailure(w) ==
    LET c == job[w] IN
    /\ at[w] = "failing" /\ w \notin broken
    /\ status' = [status EXCEPT ![c] = "failed"]
    /\ nextAt' = [nextAt EXCEPT ![c] = due[w]]
    /\ lease' = [lease EXCEPT ![c] = 0]
    /\ Unlock(w)
    /\ UNCHANGED <<stored, attempts, uploaded, pacing, broken, quietVars>>

(* A statement of a broken session fails, and the unlock as well.          *)
GiveUp(w) ==
    /\ at[w] \in Statements /\ w \in broken
    /\ broken' = broken \ {w}
    /\ Rest(w)
    /\ UNCHANGED <<assetVars, pacing, holder, quietVars>>

(***************************************************************************)
(* store_upload, for workers and uploads.                                  *)
(***************************************************************************)

Carried(a) == IF a \in Workers THEN ImageOf[job[a]] ELSE image[a]

(* Faulty variant for the mutation runs: the row before the files.         *)
StoreOriginalLater(a) ==
    /\ at[a] = "storing"
    /\ Go(a, "recording")
    /\ UNCHANGED fileVars

(* The file is there, or it is written under another name and renamed.     *)
StoreOriginal(a) ==
    /\ at[a] = "storing"
    /\ originals' = originals \cup {Carried(a)}
    /\ Go(a, "thumbnailing")
    /\ UNCHANGED <<thumbs, torn>>

(* fs::metadata tells whether the thumbnail's file is there, not whether   *)
(* it is complete.                                                         *)
LookForThumbnail(a) ==
    /\ at[a] = "thumbnailing"
    /\ Go(a, IF thumbs[ThumbOf[Carried(a)]] = "absent" THEN "creating" ELSE "recording")
    /\ UNCHANGED fileVars

(* fs::write creates the file, or truncates it, ...                        *)
CreateThumbnail(a) ==
    /\ at[a] = "creating"
    /\ thumbs' = [thumbs EXCEPT ![ThumbOf[Carried(a)]] = "partial"]
    /\ Go(a, "writing")
    /\ UNCHANGED <<originals, torn>>

(* ... and writes it.                                                      *)
FinishThumbnail(a) ==
    /\ at[a] = "writing"
    /\ thumbs' = [thumbs EXCEPT ![ThumbOf[Carried(a)]] = "complete"]
    /\ torn' = torn \ {ThumbOf[Carried(a)]}
    /\ Go(a, "recording")
    /\ UNCHANGED originals

Store(a) ==
    /\ StoreOriginal(a) \/ LookForThumbnail(a) \/ CreateThumbnail(a) \/ FinishThumbnail(a)
    /\ UNCHANGED <<assetVars, pacing, sessionVars, job, due, image, clockVars, faults>>

Strike == faults < MaxFaults /\ faults' = faults + 1

(* A write that is cut short leaves what it has written.                   *)
Tear(a) ==
    /\ torn' = IF at[a] = "writing" THEN torn \cup {ThumbOf[Carried(a)]} ELSE torn
    /\ UNCHANGED <<originals, thumbs>>

(* The image is invalid, or the file system refuses.                       *)
StoreFails(w) ==
    /\ at[w] \in Storing
    /\ Fails(w, FALSE, 0)
    /\ Tear(w)
    /\ Strike

(***************************************************************************)
(* An upload.                                                              *)
(***************************************************************************)

BeginUpload(u) ==
    /\ at[u] = "idle"
    /\ \E i \in Images : image' = [image EXCEPT ![u] = i]
    /\ Go(u, "storing")
    /\ UNCHANGED <<assetVars, pacing, sessionVars, job, due, fileVars, clockVars, faults>>

EndUpload(u) ==
    /\ Go(u, "idle")
    /\ image' = [image EXCEPT ![u] = None]

(* record_upload: the row that has the image already, or a new one, or the *)
(* violation of thumbnail_storage_key.                                     *)
RecordUpload(u) ==
    /\ at[u] = "recording"
    /\ uploaded' = IF Conflicts(image[u], Held(None)) THEN uploaded
                   ELSE uploaded \cup {image[u]}
    /\ EndUpload(u)
    /\ UNCHANGED <<status, stored, attempts, nextAt, lease, pacing, sessionVars, job, due,
                   fileVars, clockVars, faults>>

(* An error, a disconnection or the end of the instance.                   *)
AbandonUpload(u) ==
    /\ at[u] # "idle"
    /\ Tear(u)
    /\ EndUpload(u)
    /\ UNCHANGED <<assetVars, pacing, sessionVars, job, due, clockVars, faults>>

(***************************************************************************)
(* Faults and time.                                                        *)
(***************************************************************************)

Free(w) == holder' = IF holder = w THEN NoOne ELSE holder

(* An instance stops, at any point; its session ends with it.              *)
Crash(w) ==
    /\ at[w] # "down"
    /\ Go(w, "down")
    /\ job' = [job EXCEPT ![w] = None]
    /\ due' = [due EXCEPT ![w] = 0]
    /\ Tear(w)
    /\ Free(w)
    /\ broken' = broken \ {w}
    /\ Strike
    /\ UNCHANGED <<assetVars, pacing, image, clockVars>>

(* PostgreSQL ends a worker's session; the worker is told by its next      *)
(* statement.                                                              *)
LoseSession(w) ==
    /\ at[w] \in Working /\ w \notin broken
    /\ broken' = broken \cup {w}
    /\ Free(w)
    /\ Strike
    /\ UNCHANGED <<assetVars, pacing, workVars, fileVars, clockVars>>

Down(n) == Max({n - 1, 0})

(* Timers fire on time, a download ends with its timeout, and the          *)
(* statement that takes a slot is quick: assumptions about the runtime and *)
(* the database, on which StartsSpaced and OneDownloadPerCover rest.       *)
Urgent(w) == at[w] = "scheduling" \/ (at[w] \in Fetching /\ due[w] = 0)

Tick ==
    /\ \A w \in Workers : ~Urgent(w)
    /\ nextAt' = Ordered([c \in Covers |-> IF status[c] = "absent" THEN 0 ELSE nextAt[c] - 1])
    /\ lease' = [c \in Covers |-> Down(lease[c])]
    /\ pacing' = Down(pacing)
    /\ due' = [w \in Workers |-> IF at[w] \in Fetching THEN Down(due[w]) ELSE due[w]]
    /\ sinceStart' = Min({sinceStart + 1, Interval})
    /\ pause' = [c \in Covers |-> Down(pause[c])]
    /\ UNCHANGED <<status, stored, attempts, uploaded, sessionVars, at, job, image,
                   fileVars, faults>>

(* What a worker does when nothing goes wrong.                             *)
Work(w) ==
    \/ Boot(w) \/ Claim(w) \/ TakeSlot(w) \/ Start(w)
    \/ Downloaded(w) \/ Store(w) \/ RecordReady(w) \/ RecordConflict(w)
    \/ RecordFailure(w) \/ GiveUp(w)

Fault(w) == DownloadFails(w) \/ StoreFails(w) \/ Crash(w) \/ LoseSession(w)

Upload(u) == BeginUpload(u) \/ Store(u) \/ RecordUpload(u) \/ AbandonUpload(u)

Next ==
    \/ \E w \in Workers : Work(w) \/ Fault(w)
    \/ \E u \in Uploaders : Upload(u)
    \/ \E c \in Covers : Enqueue(c)
    \/ Tick

Spec == Init /\ [][Next]_vars
FairSpec == Spec /\ WF_vars(Tick) /\ \A w \in Workers : WF_vars(Work(w))

(***************************************************************************)
(* Properties.                                                             *)
(***************************************************************************)

(* Every variable keeps to its range.                                      *)
TypeOK ==
    /\ status \in [Covers -> {"absent", "pending", "failed", "ready"}]
    /\ stored \in [Covers -> Images \cup {None}]
    /\ attempts \in [Covers -> 0..AttemptCap]
    /\ nextAt \in [Covers -> Int]
    /\ lease \in [Covers -> 0..Lease]
    /\ uploaded \subseteq Images
    /\ pacing \in Nat
    /\ holder \in Workers \cup {NoOne}
    /\ at \in [Workers \cup Uploaders -> Working \cup {"idle", "down"}]
    /\ job \in [Workers -> Covers \cup {None}]
    /\ due \in [Workers -> Nat]
    /\ broken \subseteq Workers
    /\ image \in [Uploaders -> Images \cup {None}]
    /\ originals \subseteq Images
    /\ thumbs \in [Thumbs -> {"absent", "partial", "complete"}]
    /\ torn \subseteq Thumbs
    /\ faults \in 0..MaxFaults
    /\ sinceStart \in 0..Interval
    /\ pause \in [Covers -> 0..ThrottleDelay]

Downloading(w) == at[w] = "downloading"

(* Two workers download at once only if PostgreSQL has ended the session   *)
(* of one: pg_try_advisory_lock is asked first and the lock is kept until  *)
(* the outcome is recorded.                                                *)
DownloadsSerialized ==
    \A v, w \in Workers :
        v # w /\ Downloading(v) /\ Downloading(w) => {v, w} \cap broken # {}

(* Even then they do not download the same cover, as long as the lease of  *)
(* its asset lasts longer than the wait for the slot and the timeout       *)
(* together: every fault can add an interval to that wait.                 *)
OneDownloadPerCover ==
    \A v, w \in Workers : v # w /\ Downloading(v) /\ Downloading(w) => job[v] # job[w]

(* Downloads start an interval apart, over all instances, broken sessions  *)
(* or not: next_download_at is never set back.  Slots are what is kept     *)
(* apart: the downloads are, too, when timers fire on time (Urgent).       *)
StartsSpaced ==
    [][\A w \in Workers : Start(w) => sinceStart = Interval]_vars

Written(a) == at[a] = "writing"

(* A ready asset has its original, complete, and its thumbnail, complete   *)
(* unless it is being written or a write of it was once cut short.         *)
ReadyServesFiles ==
    \A i \in Held(None) :
        /\ i \in originals
        /\ \/ thumbs[ThumbOf[i]] = "complete"
           \/ ThumbOf[i] \in torn
           \/ \E a \in Workers \cup Uploaders :
                 Written(a) /\ ThumbOf[Carried(a)] = ThumbOf[i]

(* An asset that is ready stays ready with its image: a worker that comes  *)
(* late, after its lease and its session, records nothing.                 *)
ReadyStays ==
    [][\A c \in Covers : status[c] = "ready" =>
          status'[c] = "ready" /\ stored'[c] = stored[c]]_vars

(* A cover that answered 429 or 403 is not downloaded again before         *)
(* COVER_THROTTLE_DELAY (README.md:94).  It does not hold: Enqueue makes   *)
(* the cover due at once (README.md here).                                 *)
ThrottlePause == \A w \in Workers : Downloading(w) => pause[job[w]] = 0

(* No file of another image has the same thumbnail.                        *)
Alone(c) ==
    /\ Uploaders = {}
    /\ \A d \in Covers \ {c} : ThumbOf[ImageOf[d]] # ThumbOf[ImageOf[c]]

(* Every queued cover whose image no other asset has is mirrored once its  *)
(* own downloads stop failing, whatever becomes of the others: oldest      *)
(* first, and every path gives the lock back.                              *)
EventuallyMirrored ==
    \A c \in Covers :
        Alone(c) /\ <>[][\A w \in Workers : job[w] = c => ~DownloadFails(w)]_vars =>
            (status[c] = "pending" ~> status[c] = "ready")
=============================================================================
