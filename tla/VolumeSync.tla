----------------------------- MODULE VolumeSync -----------------------------
(***************************************************************************)
(* The volume covers of one MangaDex manga (src/src/manga_service.rs): the *)
(* rows of manga_volumes, the stamp volumes_last_success_at, the refreshes *)
(* that page through MangaDex and upsert what they see, and the editors    *)
(* that create, move and delete volumes by hand and then invalidate the    *)
(* stamp.  Every database statement that commits on its own is an action;  *)
(* a caller that disconnects, or a database that fails, ends a handler     *)
(* between two of them.                                                    *)
(*                                                                         *)
(* A key stands for (volume_key, locale): a numbered volume of a locale,   *)
(* or Special for the rows whose volume_key is NULL.  A page holds one     *)
(* cover, so a page's transaction is one upsert, and listing ends with an  *)
(* empty page.  File names, URLs and assets are left out.                  *)
(***************************************************************************)
EXTENDS Integers, FiniteSets

CONSTANTS
    Rows,         \* row ids, 1..n: bounds the table
    Covers,       \* MangaDex cover ids, a set of naturals
    Keys,         \* numbered keys, a set of positive naturals
    Readers,      \* requests for the volumes, which may refresh them
    Editors,      \* catalog mutations
    Renumbers,    \* TRUE: MangaDex may move a cover to another key
    Unlists,      \* TRUE: MangaDex may remove a cover
    Duplicates,   \* TRUE: MangaDex may list two covers of one numbered key
    EditorsLeave, \* TRUE: an edit may end between two of its statements
    MaxUpstream,  \* bound on the changes made at MangaDex
    MaxEdits      \* bound on the edits begun

ASSUME RowsAssumption == Rows \subseteq Nat \ {0} /\ IsFiniteSet(Rows)
ASSUME CoversAssumption == Covers \subseteq Nat \ {0} /\ IsFiniteSet(Covers)
ASSUME KeysAssumption == Keys \subseteq Nat \ {0}
ASSUME BoundsAssumption ==
    /\ {Renumbers, Unlists, Duplicates, EditorsLeave} \subseteq BOOLEAN
    /\ MaxUpstream \in Nat /\ MaxEdits \in Nat

Special == 0    \* volume_key IS NULL: not under the numbered-volume index
None == 0       \* no row, no cover; source_updated_at IS NULL

AnyKey == Keys \cup {Special}
Stamps == 0..MaxUpstream + 1

(* One row of manga_volumes: deleted_at is the status, at is the           *)
(* source_updated_at last written.                                         *)
RowType == [status : {"unused", "active", "deleted"},
            key : AnyKey, cover : Covers \cup {None}, at : Stamps]

(* What MangaDex lists: a cover's key and its updatedAt.                   *)
CoverType == [listed : BOOLEAN, key : AnyKey, at : Stamps]

VARIABLES
    rows,        \* manga_volumes
    synced,      \* volumes_last_success_at is set and younger than the TTL
    upstream,    \* the covers MangaDex lists
    changes,     \* changes made at MangaDex so far
    reader,      \* each refresh: where it is and its locals
    editor,      \* each edit: where it is and the key it inserts
    edits,       \* edits begun so far
    calm,        \* observer: refreshes begun since the last disturbance: an
                 \* edit, a change at MangaDex, or a write of a refresh begun
                 \* before one of these
    stampBehind, \* observer: the stamp, if any, comes from a refresh begun
                 \* before the last edit
    behind,      \* observer: refreshes begun before the last edit
    withdrawn,   \* observer: rows an editor deleted
    steady       \* observer: rows whose cover MangaDex has listed ever since
                 \* a refresh last wrote them

observerVars == <<calm, stampBehind, behind, withdrawn, steady>>
upstreamVars == <<upstream, changes>>
editorVars == <<editor, edits>>
vars == <<rows, synced, upstreamVars, reader, editorVars, observerVars>>

(* The locals of a refresh and of an edit.                                 *)
ReaderType ==
    [at : {"idle", "fetching", "writing", "reconciling"},
     offset : 0..Cardinality(Covers), seen : SUBSET Covers,
     cover : Covers \cup {None}, key : AnyKey, stamp : Stamps,
     existing : Rows \cup {None}]
EditorType == [at : {"idle", "inserting", "invalidating"}, key : AnyKey]

NoReader == [at |-> "idle", offset |-> 0, seen |-> {}, cover |-> None,
             key |-> Special, stamp |-> None, existing |-> None]
NoEdit == [at |-> "idle", key |-> Special]

Active == {r \in Rows : rows[r].status = "active"}
Running == {s \in Readers : reader[s].at # "idle"}

(* The order of a listing: by volume, specials last, then by id.           *)
Before(c, d) ==
    LET Rank(x) == IF upstream[x].key = Special THEN 1000 ELSE upstream[x].key
    IN  Rank(c) < Rank(d) \/ (Rank(c) = Rank(d) /\ c < d)

Listed == {c \in Covers : upstream[c].listed}
Position(c) == Cardinality({d \in Listed : Before(d, c)})

(* What MangaDex may list at once.                                         *)
Listable(listing) ==
    Duplicates \/
    \A c, d \in Covers :
        c # d /\ listing[c].listed /\ listing[d].listed =>
            listing[c].key = Special \/ listing[c].key # listing[d].key

(* MangaDex may list anything at first; the catalog is empty.              *)
Init ==
    /\ rows = [r \in Rows |-> [status |-> "unused", key |-> Special,
                               cover |-> None, at |-> None]]
    /\ synced = FALSE
    /\ upstream \in [Covers -> {u \in CoverType : u.at = 1}]
    /\ Listable(upstream)
    /\ changes = 0
    /\ reader = [s \in Readers |-> NoReader]
    /\ editor = [e \in Editors |-> NoEdit]
    /\ edits = 0
    /\ calm = {} /\ behind = {} /\ withdrawn = {} /\ steady = {}
    /\ stampBehind = FALSE

(***************************************************************************)
(* The unique indexes of manga_volumes.                                    *)
(***************************************************************************)

(* The numbered-volume index covers the active rows only; the index on     *)
(* mangadex_cover_id covers the deleted ones too.                          *)
KeyTaken(k, r) ==
    k # Special /\ \E q \in Active \ {r} : rows[q].key = k
CoverTaken(c, r) ==
    \E q \in Rows \ {r} : rows[q].status # "unused" /\ rows[q].cover = c

Unused == {r \in Rows : rows[r].status = "unused"}
NextRow == CHOOSE r \in Unused : \A q \in Unused : r <= q

(***************************************************************************)
(* A refresh.                                                              *)
(***************************************************************************)

(* A request finds no volumes or a stale stamp, or carries refresh=true.   *)
BeginRefresh(s, forced) ==
    /\ reader[s].at = "idle"
    /\ forced \/ Active = {} \/ ~synced
    /\ reader' = [reader EXCEPT ![s] = [NoReader EXCEPT !.at = "fetching"]]
    /\ calm' = calm \cup {s}
    /\ behind' = behind \ {s}
    /\ UNCHANGED <<rows, synced, upstreamVars, editorVars,
                   stampBehind, withdrawn, steady>>

(* list_covers answers with the cover at the offset, and upsert_volume     *)
(* opens its transaction by looking its key up among the active rows.      *)
FetchCover(s, c) ==
    /\ reader[s].at = "fetching"
    /\ c \in Listed
    /\ Position(c) = reader[s].offset
    /\ \E found \in Rows \cup {None} :
          /\ \/ /\ found \in Active
                /\ upstream[c].key # Special
                /\ rows[found].key = upstream[c].key
             \/ found = None /\ ~KeyTaken(upstream[c].key, None)
          /\ reader' = [reader EXCEPT ![s] =
                [at |-> "writing", offset |-> @.offset,
                 seen |-> @.seen \cup {c}, cover |-> c,
                 key |-> upstream[c].key, stamp |-> upstream[c].at,
                 existing |-> found]]
    /\ UNCHANGED <<rows, synced, upstreamVars, editorVars, observerVars>>

(* Faulty variant for the mutation runs: paging stops a page early.        *)
FetchEndEarly(s) ==
    /\ reader[s].at = "fetching"
    /\ reader[s].offset + 1 >= Cardinality(Listed)
    /\ reader' = [reader EXCEPT ![s].at = "reconciling"]
    /\ UNCHANGED <<rows, synced, upstreamVars, editorVars, observerVars>>

(* list_covers answers with an empty page.                                 *)
FetchEnd(s) ==
    /\ reader[s].at = "fetching"
    /\ reader[s].offset >= Cardinality(Listed)
    /\ reader' = [reader EXCEPT ![s].at = "reconciling"]
    /\ UNCHANGED <<rows, synced, upstreamVars, editorVars, observerVars>>

(* The row the upsert leaves behind, and what keeps it from doing so: a    *)
(* row found by key is updated whatever became of it since, unless what it *)
(* holds is newer; else the row of the cover is revived, or one is         *)
(* inserted.                                                               *)
RowOfCover(c) == {r \in Rows : rows[r].status # "unused" /\ rows[r].cover = c}

Target(s) ==
    IF reader[s].existing # None THEN reader[s].existing
    ELSE IF RowOfCover(reader[s].cover) # {}
         THEN CHOOSE r \in RowOfCover(reader[s].cover) : TRUE
         ELSE NextRow

(* The row's updatedAt is newer than the fetched cover's.  Every cover of  *)
(* this model has one: without it the code would always overwrite.         *)
KeepsNewer(s) ==
    reader[s].existing # None /\ rows[reader[s].existing].at > reader[s].stamp

Written(s) ==
    [status |-> "active",
     key |-> IF reader[s].existing # None THEN rows[reader[s].existing].key
             ELSE reader[s].key,
     cover |-> reader[s].cover,
     at |-> reader[s].stamp]

Conflicts(s) ==
    \/ CoverTaken(reader[s].cover, Target(s))
    \/ KeyTaken(Written(s).key, Target(s))

(* Faulty variant for the mutation runs: the offset is not advanced.       *)
SamePage(s) ==
    reader' = [reader EXCEPT ![s] =
        [NoReader EXCEPT !.at = "fetching", !.offset = reader[s].offset,
                         !.seen = reader[s].seen]]

NextPage(s) ==
    reader' = [reader EXCEPT ![s] =
        [NoReader EXCEPT !.at = "fetching", !.offset = reader[s].offset + 1,
                         !.seen = reader[s].seen]]

HasRoom(s) ==
    reader[s].existing # None \/ RowOfCover(reader[s].cover) # {} \/ Unused # {}

(* A refresh that is not calm disturbs those that are.                     *)
RefreshWrites(s) == calm' = IF s \in calm THEN calm ELSE {}

(* The upsert commits with its page.                                       *)
UpsertVolume(s) ==
    /\ reader[s].at = "writing"
    /\ HasRoom(s)
    /\ ~KeepsNewer(s)
    /\ ~Conflicts(s)
    /\ rows' = [rows EXCEPT ![Target(s)] = Written(s)]
    /\ NextPage(s)
    /\ RefreshWrites(s)
    /\ steady' = IF upstream[reader[s].cover].listed
                 THEN steady \cup {Target(s)} ELSE steady \ {Target(s)}
    /\ UNCHANGED <<synced, upstreamVars, editorVars, stampBehind, behind, withdrawn>>

(* The row holds something newer: the update matches no row.               *)
SkipVolume(s) ==
    /\ reader[s].at = "writing"
    /\ KeepsNewer(s)
    /\ NextPage(s)
    /\ UNCHANGED <<rows, synced, upstreamVars, editorVars, observerVars>>

(* Faulty variant for the mutation runs: the locals outlive the refresh.   *)
EndRefreshOnly(s) == reader' = [reader EXCEPT ![s].at = "idle"]

EndRefresh(s) == reader' = [reader EXCEPT ![s] = NoReader]

(* The upsert violates a unique index: the page rolls back and the refresh *)
(* ends in an error; the request serves what is stored.                    *)
UpsertConflict(s) ==
    /\ reader[s].at = "writing"
    /\ ~KeepsNewer(s)
    /\ HasRoom(s)
    /\ Conflicts(s)
    /\ EndRefresh(s)
    /\ UNCHANGED <<rows, synced, upstreamVars, editorVars, observerVars>>

(* Faulty variant for the mutation runs: the rows without a cover are      *)
(* reconciled too.                                                         *)
ReconcileAll(s) ==
    /\ reader[s].at = "reconciling"
    /\ rows' = [r \in Rows |->
          IF r \in Active /\ rows[r].cover \notin reader[s].seen
          THEN [rows[r] EXCEPT !.status = "deleted"] ELSE rows[r]]
    /\ synced' = TRUE
    /\ stampBehind' = (s \in behind)
    /\ EndRefresh(s)
    /\ RefreshWrites(s)
    /\ UNCHANGED <<upstreamVars, editorVars, behind, withdrawn, steady>>

(* The rows of covers that were not seen are soft-deleted and the stamp is *)
(* set, in one transaction.                                                *)
Reconcile(s) ==
    /\ reader[s].at = "reconciling"
    /\ rows' = [r \in Rows |->
          IF r \in Active /\ rows[r].cover \notin reader[s].seen \cup {None}
          THEN [rows[r] EXCEPT !.status = "deleted"] ELSE rows[r]]
    /\ synced' = TRUE
    /\ stampBehind' = (s \in behind)
    /\ EndRefresh(s)
    /\ RefreshWrites(s)
    /\ UNCHANGED <<upstreamVars, editorVars, behind, withdrawn, steady>>

(* MangaDex or the database fails, or the reader disconnects.              *)
DropRefresh(s) ==
    /\ reader[s].at # "idle"
    /\ EndRefresh(s)
    /\ UNCHANGED <<rows, synced, upstreamVars, editorVars, observerVars>>

(***************************************************************************)
(* Edits by hand.                                                          *)
(***************************************************************************)

(* An edit of the rows commits: whatever was running has not seen it.      *)
EditCommits ==
    /\ calm' = {}
    /\ behind' = Running
    /\ stampBehind' = synced

(* create_manual_volume finds no active row with its key.                  *)
BeginCreate(e, k) ==
    /\ editor[e].at = "idle"
    /\ edits < MaxEdits
    /\ Unused # {}
    /\ ~KeyTaken(k, None)
    /\ editor' = [editor EXCEPT ![e] = [at |-> "inserting", key |-> k]]
    /\ edits' = edits + 1
    /\ UNCHANGED <<rows, synced, upstreamVars, reader, observerVars>>

(* Faulty variant for the mutation runs: the earlier SELECT EXISTS is      *)
(* trusted and the table has no index.                                     *)
InsertUnindexed(e) ==
    /\ editor[e].at = "inserting"
    /\ Unused # {}
    /\ rows' = [rows EXCEPT ![NextRow] =
          [status |-> "active", key |-> editor[e].key, cover |-> None, at |-> None]]
    /\ editor' = [editor EXCEPT ![e].at = "invalidating"]
    /\ EditCommits
    /\ UNCHANGED <<synced, upstreamVars, reader, edits, withdrawn, steady>>

(* Its INSERT commits.                                                     *)
InsertVolume(e) ==
    /\ editor[e].at = "inserting"
    /\ Unused # {}
    /\ ~KeyTaken(editor[e].key, None)
    /\ rows' = [rows EXCEPT ![NextRow] =
          [status |-> "active", key |-> editor[e].key, cover |-> None, at |-> None]]
    /\ editor' = [editor EXCEPT ![e].at = "invalidating"]
    /\ EditCommits
    /\ UNCHANGED <<synced, upstreamVars, reader, edits, withdrawn, steady>>

(* Its INSERT violates the numbered-volume index: 409.                     *)
InsertConflict(e) ==
    /\ editor[e].at = "inserting"
    /\ KeyTaken(editor[e].key, None)
    /\ editor' = [editor EXCEPT ![e] = NoEdit]
    /\ UNCHANGED <<rows, synced, upstreamVars, reader, edits, observerVars>>

(* update_manga_volume moves an active row, whatever cover it holds, and   *)
(* commits; moving it to its own key edits its other fields.               *)
UpdateVolume(e, r, k) ==
    /\ editor[e].at = "idle"
    /\ edits < MaxEdits
    /\ r \in Active
    /\ ~KeyTaken(k, r)
    /\ rows' = [rows EXCEPT ![r].key = k]
    /\ editor' = [editor EXCEPT ![e].at = "invalidating"]
    /\ edits' = edits + 1
    /\ EditCommits
    /\ UNCHANGED <<synced, upstreamVars, reader, withdrawn, steady>>

(* delete_manga_volume soft-deletes an active row.                         *)
DeleteVolume(e, r) ==
    /\ editor[e].at = "idle"
    /\ edits < MaxEdits
    /\ r \in Active
    /\ rows' = [rows EXCEPT ![r].status = "deleted"]
    /\ editor' = [editor EXCEPT ![e].at = "invalidating"]
    /\ edits' = edits + 1
    /\ withdrawn' = withdrawn \cup {r}
    /\ EditCommits
    /\ UNCHANGED <<synced, upstreamVars, reader, steady>>

(* invalidate_volume_sync, a statement of its own after the commit.        *)
Invalidate(e) ==
    /\ editor[e].at = "invalidating"
    /\ synced' = FALSE
    /\ stampBehind' = FALSE
    /\ editor' = [editor EXCEPT ![e] = NoEdit]
    /\ UNCHANGED <<rows, upstreamVars, reader, edits, calm, behind, withdrawn, steady>>

(* The editor disconnects, or the database fails, between two statements.  *)
DropEdit(e) ==
    /\ EditorsLeave
    /\ editor[e].at # "idle"
    /\ editor' = [editor EXCEPT ![e] = NoEdit]
    /\ UNCHANGED <<rows, synced, upstreamVars, reader, edits, observerVars>>

(***************************************************************************)
(* The world.                                                              *)
(***************************************************************************)

(* Six hours pass.                                                         *)
Expire ==
    /\ synced
    /\ synced' = FALSE
    /\ stampBehind' = FALSE
    /\ UNCHANGED <<rows, upstreamVars, reader, editorVars, calm, behind, withdrawn, steady>>

(* MangaDex adds, removes, moves or touches a cover.                       *)
ChangeUpstream(c, u) ==
    /\ changes < MaxUpstream
    /\ u # upstream[c]
    /\ u.at = changes + 2
    /\ u.listed \/ upstream[c].listed
    /\ ~u.listed => Unlists
    /\ u.key # upstream[c].key => Renumbers /\ u.listed
    /\ upstream' = [upstream EXCEPT ![c] = u]
    /\ Listable(upstream')
    /\ changes' = changes + 1
    /\ calm' = {}
    /\ steady' = IF u.listed THEN steady
                 ELSE {r \in steady : rows[r].cover # c}
    /\ UNCHANGED <<rows, synced, reader, editorVars, stampBehind, behind, withdrawn>>

RefreshStep(s) ==
    \/ \E c \in Covers : FetchCover(s, c)
    \/ FetchEnd(s)
    \/ UpsertVolume(s)
    \/ SkipVolume(s)
    \/ UpsertConflict(s)
    \/ Reconcile(s)

EditStep(e) ==
    \/ InsertVolume(e)
    \/ InsertConflict(e)
    \/ Invalidate(e)

Next ==
    \/ \E s \in Readers, forced \in BOOLEAN : BeginRefresh(s, forced)
    \/ \E s \in Readers : RefreshStep(s) \/ DropRefresh(s)
    \/ \E e \in Editors, k \in AnyKey : BeginCreate(e, k)
    \/ \E e \in Editors, r \in Rows, k \in AnyKey : UpdateVolume(e, r, k)
    \/ \E e \in Editors, r \in Rows : DeleteVolume(e, r)
    \/ \E e \in Editors : EditStep(e) \/ DropEdit(e)
    \/ \E c \in Covers, u \in CoverType : ChangeUpstream(c, u)
    \/ Expire

Spec == Init /\ [][Next]_vars

(* A refresh in progress is polled until it ends.                          *)
FairSpec == Spec /\ \A s \in Readers : WF_vars(RefreshStep(s))

(***************************************************************************)
(* Properties.                                                             *)
(***************************************************************************)

(* Every variable has its type, and an idle handler keeps no locals.       *)
TypeOK ==
    /\ rows \in [Rows -> RowType]
    /\ synced \in BOOLEAN
    /\ upstream \in [Covers -> CoverType]
    /\ changes \in 0..MaxUpstream
    /\ reader \in [Readers -> ReaderType]
    /\ \A s \in Readers : reader[s].at = "idle" => reader[s] = NoReader
    /\ editor \in [Editors -> EditorType]
    /\ edits \in 0..MaxEdits
    /\ calm \in SUBSET Readers /\ behind \in SUBSET Readers
    /\ withdrawn \in SUBSET Rows /\ steady \in SUBSET Rows
    /\ stampBehind \in BOOLEAN

(* "Deduplicated by (manga_id, volume_key, locale) for numbered volumes"   *)
(* (src/README.md:187), and a cover is stored once, deleted rows included: *)
(* the lookups before an INSERT or UPDATE are stale when it runs, only the *)
(* indexes keep this.                                                      *)
Deduplicated ==
    /\ \A r \in Active : ~KeyTaken(rows[r].key, r)
    /\ \A r \in Rows : rows[r].cover # None => ~CoverTaken(rows[r].cover, r)

(* The catalog shows what MangaDex lists: a listed numbered cover has its  *)
(* key filled, a listed special is stored, and a stored cover is listed,   *)
(* under the key it is stored with if no other listed cover has that key.  *)
Mirrored ==
    /\ \A c \in Listed :
          \/ upstream[c].key # Special /\ KeyTaken(upstream[c].key, None)
          \/ \E r \in Active : rows[r].cover = c
    /\ \A r \in Active : rows[r].cover # None =>
          LET c == rows[r].cover
          IN  /\ c \in Listed
              /\ \/ rows[r].key = upstream[c].key
                 \/ \E d \in Listed \ {c} : upstream[d].key = upstream[c].key

(* "refresh=true forces a complete refresh and reconciles removed covers"  *)
(* (src/README.md:176): a refresh that completes undisturbed leaves the    *)
(* catalog equal to the listing, whatever the earlier refreshes and edits  *)
(* left behind and however its statements interleave with those of other   *)
(* undisturbed refreshes, where a cover keeps its key and nobody moves its *)
(* row: Editors, Duplicates and Renumbers each break it in their own way.  *)
CalmRefreshMirrors ==
    [][\A s \in Readers :
          Reconcile(s) /\ s \in calm => Mirrored']_vars

(* A volume made by hand and not adopted by a refresh is only deleted by   *)
(* hand.                                                                   *)
HandmadeStays ==
    [][\A r \in Active :
          rows[r].cover = None /\ r \notin Active' => r \in withdrawn']_vars

(* A refresh that is polled ends: paging stops although the listing moves. *)
RefreshEnds == \A s \in Readers : reader[s].at # "idle" ~> reader[s].at = "idle"

(* "Cached per manga for 6 hours and is invalidated by local catalog       *)
(* edits" (src/README.md:73): once no edit is under way, a fresh stamp     *)
(* comes from a refresh begun after the last edit.  It does not hold: a    *)
(* refresh begun before may end after it (README.md).                      *)
FreshAfterEdits ==
    synced /\ (\A e \in Editors : editor[e].at = "idle") => ~stampBehind

(* "refresh=true forces a complete refresh" (src/README.md:176): a refresh *)
(* that runs alone while nothing changes does not run into the unique      *)
(* indexes.  It does not hold: a deleted row keeps its cover (README.md).  *)
LoneRefreshCompletes ==
    [][\A s \in Readers : Running = {s} /\ s \in calm => ~UpsertConflict(s)]_vars

(* "Reconciles removed covers" (src/README.md:176): a refresh only deletes *)
(* rows whose cover MangaDex has stopped listing since they were written.  *)
(* It does not hold: paging by offset misses a cover (README.md).          *)
OnlyRemovedReconciled ==
    [][\A s \in Readers : Reconcile(s) => steady \cap Active \subseteq Active']_vars
=============================================================================
