------------------------------ MODULE Catalog ------------------------------
(***************************************************************************)
(* Manga, their credits and their general covers in PostgreSQL             *)
(* (src/src/manga_service.rs): reads that synchronise with MangaDex,       *)
(* searches, edits, deletions, and covers added by hand.  The upsert of a  *)
(* manga is a transaction of many statements under READ COMMITTED; each    *)
(* statement that may wait for another transaction is an action, and the   *)
(* row locks are functions of where the transactions are.  What a          *)
(* transaction wrote is applied when it commits.                           *)
(*                                                                         *)
(* Metadata is the version MangaDex gave; a latest volume is the version   *)
(* at which it was true, 0 if unknown.  Titles, URLs and assets of covers  *)
(* are left out, and so is what a request answers: a stale read and a      *)
(* failed one end alike.  Whether a manga is a day old, or refresh=true,   *)
(* is a choice.  A volume's rows are in VolumeSync.                        *)
(***************************************************************************)
EXTENDS Integers, FiniteSets, Sequences

CONSTANTS
    Dex,         \* manga that MangaDex knows
    Illustrated, \* of them, those that MangaDex may have a cover of
    Manual,      \* local-only manga, by slug
    Creators,    \* authors and artists
    CreatorsOf,  \* the relationships of a manga, in order
    Listings,    \* what MangaDex may list: sequences of its manga
    Requests,    \* clients of the API
    CoverLimit,  \* 16
    MaxVersion,  \* bound on the versions MangaDex publishes
    MaxCovers,   \* bound on the covers added to a manga by hand
    Edits        \* TRUE: requests may edit and delete manga

ASSUME MangaAssumption ==
    Dex \cap Manual = {} /\ Illustrated \subseteq Dex /\ Listings \subseteq Seq(Dex) \ {<< >>}
ASSUME CreatorsAssumption == CreatorsOf \in [Dex -> Seq(Creators)]
ASSUME RequestsAssumption == IsFiniteSet(Requests) /\ Requests # {}
ASSUME BoundsAssumption ==
    /\ CoverLimit \in Nat \ {0} /\ MaxVersion \in Nat \ {0}
    /\ MaxCovers \in Nat /\ Edits \in BOOLEAN

Manga == Dex \cup Manual
Versions == 1..MaxVersion
DexCover == 0                      \* the cover row with MangaDex's cover id
CoverIds == 0..MaxCovers

(* The upsert of one manga: what MangaDex answered, with a cover or not.   *)
ItemType == [manga : Manga, version : 0..MaxVersion, last : 0..MaxVersion,
             cover : BOOLEAN]
Item(m, v, l, c) == [manga |-> m, version |-> v, last |-> l, cover |-> c]
Unasked(m) == Item(m, 0, 0, FALSE)

Phases == {"idle", "fetching", "upserting", "clearing", "flagging",
           "crediting", "latest", "learning", "deleting", "patching",
           "counted", "replacing", "inserting"}

VARIABLES
    row,       \* mangas: state (shown as MangaDex has it or as created,
               \* edited by hand, or deleted), version, last volume
    details,   \* the version of localizations, aliases and credits
    covers,    \* manga_covers: the ids
    flagged,   \* of them, those with is_primary
    upstream,  \* the version MangaDex publishes
    at,        \* where a request is
    queue,     \* the manga it has yet to upsert, the present one first
    seen,      \* the covers its UPDATE of is_primary found
    held,      \* of them, those whose rows it has locked so far
    credited,  \* how many relationships its transaction has upserted
    overtaken  \* observer: <<r, m>> for whom m was upserted by another
               \* request since MangaDex answered r

tables == <<row, details, covers, flagged>>
workVars == <<seen, held, credited>>
requestVars == <<at, queue, workVars>>
vars == <<tables, upstream, requestVars, overtaken>>

States == {"absent", "shown", "edited", "deleted"}
RowType == [state : States, version : 0..MaxVersion, last : 0..MaxVersion]

Init ==
    /\ row = [m \in Manga |-> [state |-> "absent", version |-> 0, last |-> 0]]
    /\ details = [m \in Manga |-> 0]
    /\ covers = [m \in Manga |-> {}]
    /\ flagged = [m \in Manga |-> {}]
    /\ upstream = [m \in Dex |-> 1]
    /\ at = [r \in Requests |-> "idle"]
    /\ queue = [r \in Requests |-> << >>]
    /\ seen = [r \in Requests |-> {}]
    /\ held = [r \in Requests |-> {}]
    /\ credited = [r \in Requests |-> 0]
    /\ overtaken = {}

Shown(m) == row[m].state \in {"shown", "edited"}
This(r) == Head(queue[r])
ThisManga(r) == This(r).manga
Busy(r, m) == at[r] # "idle" /\ ThisManga(r) = m
ByHand(m) == covers[m] \ {DexCover}

(***************************************************************************)
(* Row locks, held from the statement that took them to the commit.        *)
(***************************************************************************)

(* The row of the manga: an upsert begins with it.                         *)
HasRow(r, m) == Busy(r, m) /\ at[r] \in {"clearing", "flagging", "crediting"}

(* The cover rows whose flag it took away: an UPDATE of several rows locks *)
(* one after the other, and waits with those before.                       *)
HasCovers(r, m) == IF Busy(r, m) THEN held[r] ELSE {}

(* An entry of the index of primary covers that is not yet committed.      *)
HasPrimary(r, m) == Busy(r, m) /\ at[r] = "crediting" /\ This(r).cover

HasCreators(r) ==
    IF at[r] = "crediting"
    THEN {CreatorsOf[ThisManga(r)][i] : i \in 1..credited[r]} ELSE {}

(* Faulty variant for the mutation runs: a cover's insertion ends with an  *)
(* UPDATE of its manga.                                                    *)
UpdatesRowTouching(r) ==
    \/ at[r] \in {"upserting", "inserting"}
    \/ at[r] = "learning" /\ row[ThisManga(r)].last = 0
    \/ at[r] \in {"deleting", "patching"} /\ Shown(ThisManga(r))

(* The UPDATE of mangas that is next, and finds its row.                   *)
UpdatesRow(r) ==
    \/ at[r] = "upserting"
    \/ at[r] = "learning" /\ row[ThisManga(r)].last = 0
    \/ at[r] \in {"deleting", "patching"} /\ Shown(ThisManga(r))

(* Whom the statement of r has to wait for; an UPDATE of covers, in the    *)
(* order in which it may meet their rows.                                  *)
Blockers(r) == {q \in Requests \ {r} :
    \/ UpdatesRow(r) /\ HasRow(q, ThisManga(r))
    \/ /\ at[r] \in {"clearing", "replacing"}
       /\ (seen[r] \ held[r]) \cap HasCovers(q, ThisManga(r)) # {}
    \/ /\ at[r] = "flagging" \/ (at[r] = "inserting" /\ This(r).cover)
       /\ HasPrimary(q, ThisManga(r))
    \/ /\ at[r] = "crediting"
       /\ credited[r] < Len(CreatorsOf[ThisManga(r)])
       /\ CreatorsOf[ThisManga(r)][credited[r] + 1] \in HasCreators(q)}

Free(r) == Blockers(r) = {}

(* A cycle of waiting transactions, with nobody beside it.                 *)
Waiting(D) == \A q \in D : Blockers(q) \cap D # {}
Cycle(D) ==
    /\ D # {} /\ Waiting(D)
    /\ \A E \in SUBSET D : E # {} /\ Waiting(E) => E = D

(***************************************************************************)
(* Helpers of the handlers.                                                *)
(***************************************************************************)

Place(r, phase) == at' = [at EXCEPT ![r] = phase]

(* The request is over, whatever it has not committed is rolled back.      *)
End(r) ==
    /\ Place(r, "idle")
    /\ queue' = [queue EXCEPT ![r] = << >>]
    /\ seen' = [seen EXCEPT ![r] = {}]
    /\ held' = [held EXCEPT ![r] = {}]
    /\ credited' = [credited EXCEPT ![r] = 0]
    /\ overtaken' = {p \in overtaken : p[1] # r}

(* Faulty variant for the mutation runs: the handler forgets to advance.   *)
GoOnKeeps(r) ==
    /\ Place(r, IF Len(queue[r]) = 1 THEN "idle" ELSE "upserting")
    /\ UNCHANGED <<queue, workVars, overtaken>>

(* The handler goes on with the next manga of a search.                    *)
GoOn(r) ==
    IF Len(queue[r]) = 1 THEN End(r)
    ELSE /\ Place(r, "upserting")
         /\ queue' = [queue EXCEPT ![r] = Tail(@)]
         /\ UNCHANGED <<workVars, overtaken>>

Begin(r, phase, items) ==
    /\ at[r] = "idle"
    /\ Place(r, phase)
    /\ queue' = [queue EXCEPT ![r] = items]
    /\ UNCHANGED <<tables, upstream, workVars, overtaken>>

Rest(r) == UNCHANGED <<queue, workVars, overtaken>>

(***************************************************************************)
(* Reads: get_manga_inner and search_mangas_inner.                         *)
(***************************************************************************)

(* The manga is stored and fresh: it is answered from the tables, which is *)
(* all there is to a local-only one.                                       *)
GetStored(r, m) == m \in Dex /\ Shown(m) /\ Begin(r, "latest", <<Unasked(m)>>)

(* It is stale, or refresh=true, or not stored and named by its MangaDex   *)
(* UUID; or a search that no local-only manga matches.                     *)
Ask(r, ms) == Begin(r, "fetching", [i \in DOMAIN ms |-> Unasked(ms[i])])

(* Faulty variant for the mutation runs: the answer comes from a cache.    *)
AnswerCached(r) ==
    /\ at[r] = "fetching"
    /\ \E v \in Versions :
          queue' = [queue EXCEPT ![r] = [i \in DOMAIN @ |->
              Item(@[i].manga, v, 0, FALSE)]]
    /\ Place(r, "upserting")
    /\ UNCHANGED <<tables, upstream, workVars, overtaken>>

(* MangaDex answers.                                                       *)
Answer(r) ==
    /\ at[r] = "fetching"
    /\ queue' = [queue EXCEPT ![r] = [i \in DOMAIN @ |->
          Item(@[i].manga, upstream[@[i].manga], 0, FALSE)]]
    /\ Place(r, "upserting")
    /\ UNCHANGED <<tables, upstream, workVars, overtaken>>

(* It does not, or knows no such manga: what is stored is answered, or an  *)
(* error.                                                                  *)
AnswerLocally(r) ==
    /\ at[r] = "fetching"
    /\ End(r)
    /\ UNCHANGED <<tables, upstream>>

(* The last volume is in the answer or, unless the request names a locale, *)
(* looked up by the latest cover; it may be unknown.  upsert_mangadex_manga *)
(* locks and updates the row, then replaces titles and aliases;            *)
(* upsert_cover looks for rows to take the flag from, if there is a cover. *)
UpsertRow(r) ==
    /\ at[r] = "upserting"
    /\ Free(r)
    /\ \E last \in {0} \cup This(r).version..upstream[ThisManga(r)], cover \in BOOLEAN :
          /\ cover => ThisManga(r) \in Illustrated
          /\ queue' = [queue EXCEPT ![r][1] = Item(@.manga, @.version, last, cover)]
          /\ Place(r, IF cover THEN "clearing" ELSE "crediting")
          /\ seen' = [seen EXCEPT ![r] = IF cover THEN covers[ThisManga(r)] ELSE {}]
    /\ UNCHANGED <<tables, upstream, held, credited, overtaken>>

(* It takes their flags, and create_manual_cover does so too: one row      *)
(* after the other, in an order that no statement says (as their versions  *)
(* lie in the table), each as soon as nobody else has it.                  *)
ClearFlags(r) ==
    /\ at[r] \in {"clearing", "replacing"}
    /\ \/ /\ \E c \in seen[r] \ held[r] :
                /\ \A q \in Requests \ {r} : c \notin HasCovers(q, ThisManga(r))
                /\ held' = [held EXCEPT ![r] = @ \cup {c}]
          /\ UNCHANGED at
       \/ /\ held[r] = seen[r]
          /\ Place(r, IF at[r] = "clearing" THEN "flagging" ELSE "inserting")
          /\ UNCHANGED held
    /\ UNCHANGED <<tables, upstream, queue, seen, credited, overtaken>>

(* A row was flagged after the UPDATE had looked for such rows: the index  *)
(* of primary covers refuses another.                                      *)
Refused(r) == This(r).cover /\ ~(flagged[ThisManga(r)] \subseteq seen[r])

(* The cover of MangaDex's is inserted or updated, as the primary one.     *)
FlagCover(r) ==
    /\ at[r] = "flagging"
    /\ Free(r) /\ ~Refused(r)
    /\ Place(r, "crediting")
    /\ Rest(r)
    /\ UNCHANGED <<tables, upstream>>

(* upsert_creators: one INSERT ... ON CONFLICT DO UPDATE per relationship. *)
Credit(r) ==
    /\ at[r] = "crediting"
    /\ credited[r] < Len(CreatorsOf[ThisManga(r)])
    /\ Free(r)
    /\ credited' = [credited EXCEPT ![r] = @ + 1]
    /\ UNCHANGED <<tables, upstream, at, queue, seen, held, overtaken>>

(* Faulty variant for the mutation runs: EXCLUDED.mangadex_last_volume.    *)
UpsertedBlank(r) ==
    [state |-> "shown", version |-> This(r).version, last |-> This(r).last]

(* What the transaction wrote to the row: deleted_at becomes NULL and a    *)
(* missing last volume keeps the one there is.                             *)
Upserted(r) ==
    [state |-> "shown", version |-> This(r).version,
     last |-> IF This(r).last # 0 THEN This(r).last ELSE row[ThisManga(r)].last]

(* Those that MangaDex has answered for m, and that have yet to upsert it. *)
Late(r, m) == {q \in Requests \ {r} : \E i \in DOMAIN queue[q] :
    queue[q][i].manga = m /\ queue[q][i].version # 0}

(* The credits and the sync row are written, and all of it commits.        *)
Commit(r) ==
    /\ at[r] = "crediting"
    /\ credited[r] = Len(CreatorsOf[ThisManga(r)])
    /\ LET m == ThisManga(r)
       IN  /\ row' = [row EXCEPT ![m] = Upserted(r)]
           /\ details' = [details EXCEPT ![m] = This(r).version]
           /\ IF This(r).cover
              THEN /\ covers' = [covers EXCEPT ![m] = @ \cup {DexCover}]
                   /\ flagged' = [flagged EXCEPT ![m] = {DexCover}]
              ELSE UNCHANGED <<covers, flagged>>
           /\ overtaken' = overtaken \cup {<<q, m>> : q \in Late(r, m)}
    /\ Place(r, "latest")
    /\ seen' = [seen EXCEPT ![r] = {}]
    /\ held' = [held EXCEPT ![r] = {}]
    /\ credited' = [credited EXCEPT ![r] = 0]
    /\ UNCHANGED <<upstream, queue>>

(* The manga is read again, and its latest volume is known or cannot be    *)
(* found; a search goes on without one that is gone by now.                *)
Loaded(r) ==
    /\ at[r] = "latest"
    /\ GoOn(r)
    /\ UNCHANGED <<tables, upstream>>

(* populate_latest_volume finds none, and asks MangaDex for its covers.    *)
LookUp(r) ==
    /\ at[r] = "latest"
    /\ Shown(ThisManga(r)) /\ row[ThisManga(r)].last = 0
    /\ queue' = [queue EXCEPT ![r][1] = Item(@.manga, @.version, upstream[@.manga], @.cover)]
    /\ Place(r, "learning")
    /\ UNCHANGED <<tables, upstream, workVars, overtaken>>

(* It stores what it found where there still is none; MangaNotFound, if    *)
(* the manga was deleted meanwhile.                                        *)
Learn(r) ==
    /\ at[r] = "learning"
    /\ Free(r)
    /\ row' = [row EXCEPT ![ThisManga(r)].last = IF @ = 0 THEN This(r).last ELSE @]
    /\ IF Shown(ThisManga(r)) THEN GoOn(r) ELSE End(r)
    /\ UNCHANGED <<details, covers, flagged, upstream>>

(***************************************************************************)
(* Edits of manga.                                                         *)
(***************************************************************************)

(* delete_manga and update_manga find the manga.                           *)
BeginEdit(r, m) ==
    /\ Edits /\ Shown(m)
    /\ \E phase \in {"deleting", "patching"} : Begin(r, phase, <<Unasked(m)>>)

(* Their UPDATE looks again whether it is deleted.                         *)
EditRow(r) ==
    /\ at[r] \in {"deleting", "patching"}
    /\ Free(r)
    /\ row' = [row EXCEPT ![ThisManga(r)] =
          IF ~Shown(ThisManga(r)) THEN @
          ELSE [@ EXCEPT !.state = IF at[r] = "deleting" THEN "deleted" ELSE "edited"]]
    /\ End(r)
    /\ UNCHANGED <<details, covers, flagged, upstream>>

(* create_manual_manga: the slug is new, be it of a deleted manga or not,  *)
(* and the covers of the request, one of them primary at most, come with   *)
(* it in one transaction that no other can see.                            *)
CreateManga(m, n, primary) ==
    /\ m \in Manual
    /\ row[m].state = "absent"
    /\ n <= CoverLimit
    /\ primary \subseteq 1..n /\ Cardinality(primary) <= 1
    /\ row' = [row EXCEPT ![m].state = "shown"]
    /\ covers' = [covers EXCEPT ![m] = 1..n]
    /\ flagged' = [flagged EXCEPT ![m] = primary]
    /\ UNCHANGED <<details, upstream, requestVars, overtaken>>

(***************************************************************************)
(* Covers by hand: create_manual_cover, by which an upload is stored too.  *)
(***************************************************************************)

NewIds(m) == {c \in 1..MaxCovers : c - 1 \in covers[m] \cup {DexCover}} \ covers[m]

Adds(q, m) == Busy(q, m) /\ at[q] \in {"counted", "replacing", "inserting"}

(* Faulty variant for the mutation runs: one more is let in.               *)
HasRoomPlusOne(m) == Cardinality(covers[m]) <= CoverLimit

(* insert_manual_cover counts the covers that are committed.               *)
HasRoom(m) == Cardinality(covers[m]) < CoverLimit

BeginCover(r, m, primary) ==
    /\ Shown(m)
    /\ HasRoom(m)
    /\ Cardinality(ByHand(m)) + Cardinality({q \in Requests : Adds(q, m)}) < MaxCovers
    /\ Begin(r, IF primary THEN "counted" ELSE "inserting",
                <<Item(m, 0, 0, primary)>>)

(* It then looks for the rows to take the flag from, if its is_primary.    *)
LookForFlags(r) ==
    /\ at[r] = "counted"
    /\ Place(r, "replacing")
    /\ seen' = [seen EXCEPT ![r] = covers[ThisManga(r)]]
    /\ UNCHANGED <<tables, upstream, queue, held, credited, overtaken>>

(* The INSERT commits.                                                     *)
InsertCover(r) ==
    /\ at[r] = "inserting"
    /\ Free(r) /\ ~Refused(r)
    /\ \E c \in NewIds(ThisManga(r)) :
          /\ covers' = [covers EXCEPT ![ThisManga(r)] = @ \cup {c}]
          /\ flagged' = [flagged EXCEPT ![ThisManga(r)] =
                IF This(r).cover THEN {c} ELSE @]
    /\ End(r)
    /\ UNCHANGED <<row, details, upstream>>

(***************************************************************************)
(* What ends a transaction early, and MangaDex.                            *)
(***************************************************************************)

(* The index of primary covers is violated: 500, for a refresh as well.    *)
RefusePrimary(r) ==
    /\ at[r] \in {"flagging", "inserting"}
    /\ Free(r) /\ Refused(r)
    /\ End(r)
    /\ UNCHANGED <<tables, upstream>>

(* Faulty variant for the mutation runs: who is ended tries again.         *)
DeadlockRetried(r) ==
    /\ \E D \in SUBSET Requests : r \in D /\ Cycle(D)
    /\ Place(r, "upserting")
    /\ seen' = [seen EXCEPT ![r] = {}] /\ held' = [held EXCEPT ![r] = {}]
    /\ credited' = [credited EXCEPT ![r] = 0]
    /\ UNCHANGED <<tables, upstream, queue, overtaken>>

(* PostgreSQL ends one of a cycle.                                         *)
Deadlock(r) ==
    /\ \E D \in SUBSET Requests : r \in D /\ Cycle(D)
    /\ End(r)
    /\ UNCHANGED <<tables, upstream>>

(* The client disconnects, or the instance stops.                          *)
Leave(r) ==
    /\ at[r] # "idle"
    /\ End(r)
    /\ UNCHANGED <<tables, upstream>>

Publish(m) ==
    /\ upstream[m] < MaxVersion
    /\ upstream' = [upstream EXCEPT ![m] = @ + 1]
    /\ UNCHANGED <<tables, requestVars, overtaken>>

Step(r) ==
    \/ Answer(r) \/ AnswerLocally(r) \/ UpsertRow(r) \/ ClearFlags(r)
    \/ FlagCover(r) \/ Credit(r) \/ Commit(r) \/ Loaded(r) \/ LookUp(r)
    \/ Learn(r) \/ EditRow(r) \/ LookForFlags(r) \/ InsertCover(r)
    \/ RefusePrimary(r) \/ Deadlock(r)

Next ==
    \/ \E r \in Requests, m \in Manga : GetStored(r, m) \/ BeginEdit(r, m)
    \/ \E r \in Requests, ms \in Listings : Ask(r, ms)
    \/ \E r \in Requests, m \in Manga, p \in BOOLEAN : BeginCover(r, m, p)
    \/ \E r \in Requests : Step(r) \/ Leave(r)
    \/ \E m \in Manual, n \in 0..MaxCovers, p \in SUBSET CoverIds :
          CreateManga(m, n, p)
    \/ \E m \in Dex : Publish(m)

Spec == Init /\ [][Next]_vars

(* A statement whose lock is free again and again gets it: PostgreSQL      *)
(* queues the waiters.  MangaDex answers or times out.                     *)
FairSpec == Spec /\ \A r \in Requests : SF_vars(Step(r))

(***************************************************************************)
(* Properties.                                                             *)
(***************************************************************************)

(* Every variable has its type, and only a request at work has locals.     *)
TypeOK ==
    /\ row \in [Manga -> RowType]
    /\ details \in [Manga -> 0..MaxVersion]
    /\ covers \in [Manga -> SUBSET CoverIds]
    /\ flagged \in [Manga -> SUBSET CoverIds]
    /\ upstream \in [Dex -> Versions]
    /\ at \in [Requests -> Phases]
    /\ queue \in [Requests -> Seq(ItemType)]
    /\ seen \in [Requests -> SUBSET CoverIds]
    /\ held \in [Requests -> SUBSET CoverIds]
    /\ credited \in [Requests -> Nat]
    /\ overtaken \subseteq Requests \X Dex
    /\ \A r \in Requests : (at[r] = "idle") <=> (queue[r] = << >>)

(* Metadata never goes back to an older version, except where an upsert    *)
(* commits behind another one of the same manga that MangaDex answered     *)
(* later or that committed first (upsert_mangadex_manga has no guard on    *)
(* mangadex_version; the row lock alone orders the upserts).               *)
OlderOnlyIfOvertaken ==
    [][\A m \in Dex : row'[m].version < row[m].version =>
          \E r \in Requests : Commit(r) /\ <<r, m>> \in overtaken]_vars

(* The limit of covers is exceeded by no more than insertions that counted *)
(* at the same time: one of each request (insert_manual_cover counts in a  *)
(* statement of its own).                                                  *)
OvershootBounded ==
    \A m \in Manga :
        Cardinality(ByHand(m)) <= CoverLimit + Cardinality(Requests) - 1

(* Deadlocks are of two kinds.  Upserts of different manga wait for each   *)
(* other's creators; and UPDATEs that take the flags of one manga's covers *)
(* wait for each other's rows, one of an upsert at most and the others of  *)
(* primary covers added by hand, each with a row locked and another to     *)
(* lock.  No edit or deletion, no INSERT of a cover and no two upserts of  *)
(* one manga are ever part of a cycle.                                     *)
DeadlocksAreOfTwoKinds ==
    \A D \in SUBSET Requests : Cycle(D) =>
        \/ \A q, s \in D :
              at[q] = "crediting" /\ (q # s => ThisManga(q) # ThisManga(s))
        \/ \A q, s \in D :
              /\ at[q] \in {"clearing", "replacing"} /\ ThisManga(q) = ThisManga(s)
              /\ q # s => "replacing" \in {at[q], at[s]}
              /\ held[q] # {} /\ held[q] # seen[q]

(* A manga changes as a whole (AtomicCatalog).                             *)
EntryOf(m) ==
    [state |-> row[m].state, last |-> row[m].last,
     edition |-> IF details[m] = row[m].version THEN details[m] ELSE -1,
     primary |-> IF flagged[m] = {} THEN "none"
                 ELSE IF flagged[m] = {DexCover} THEN "dex"
                 ELSE IF Cardinality(flagged[m]) = 1 THEN "manual" ELSE "several"]

Atomic == INSTANCE AtomicCatalog WITH entry <- [m \in Manga |-> EntryOf(m)]
ChangesWhole == Atomic!Spec

(* Every request ends, though its transaction may wait for others, or be   *)
(* the one that breaks a deadlock.                                         *)
RequestsEnd == \A r \in Requests : at[r] # "idle" ~> at[r] = "idle"
=============================================================================
