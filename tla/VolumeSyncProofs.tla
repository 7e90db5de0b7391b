--------------------------- MODULE VolumeSyncProofs ---------------------------
(***************************************************************************)
(* Theorems about the volumes of a manga, for any number of rows, covers,  *)
(* refreshes and editors.                                                  *)
(***************************************************************************)
EXTENDS VolumeSync, FiniteSetTheorems, TLAPS

(* A refresh that writes has a cover, and the row it found by key is in    *)
(* use, whatever became of it since; paging goes on while there are covers *)
(* left.                                                                   *)
WritesWhatItFetched ==
    \A s \in Readers : reader[s].at = "writing" =>
        /\ reader[s].cover \in Covers
        /\ reader[s].offset < Cardinality(Covers)
        /\ reader[s].existing # None => reader[s].existing \notin Unused

(* A row not yet in use holds no cover.                                    *)
UnusedIsBlank == \A r \in Unused : rows[r].cover = None

TypeInv == TypeOK /\ WritesWhatItFetched /\ UnusedIsBlank

(* The types of what the handlers read.                                    *)
LEMMA Constants ==
    /\ None = 0 /\ Special = 0
    /\ None \notin Rows /\ None \notin Covers
    /\ Special \in AnyKey /\ Keys \subseteq AnyKey /\ AnyKey \subseteq Nat
    /\ MaxUpstream \in Nat /\ MaxEdits \in Nat
    /\ \A n \in 0..MaxUpstream + 1 : n \in Stamps
    /\ IsFiniteSet(Covers) /\ Cardinality(Covers) \in Nat
<1>1. Cardinality(Covers) \in Nat
  BY CoversAssumption, FS_CardinalityType
<1>2. AnyKey \subseteq Nat
  BY KeysAssumption DEF AnyKey, Special
<1> QED
  BY <1>1, <1>2, RowsAssumption, CoversAssumption, KeysAssumption, BoundsAssumption
     DEF None, Special, AnyKey, Stamps

(* Rows are taken in order: the next one is not in use.                    *)
LEMMA NextRowIsUnused ==
    ASSUME Unused # {}
    PROVE  NextRow \in Unused
<1>1. Unused \subseteq Nat
  BY RowsAssumption DEF Unused
<1>2. PICK r \in Unused : \A q \in Unused : ~(<<q, r>> \in OpToRel(<, Nat))
  BY <1>1, NatLessThanWellFounded, WFMin
<1>3. \A q \in Unused : r <= q
  <2> SUFFICES ASSUME NEW q \in Unused, ~(r <= q) PROVE FALSE
    OBVIOUS
  <2>1. q \in Nat /\ r \in Nat /\ q < r
    BY <1>1
  <2> QED
    BY <1>2, <2>1 DEF OpToRel
<1> QED
  BY <1>3 DEF NextRow

(* The row an upsert writes is a row of the table.                         *)
LEMMA TargetIsRow ==
    ASSUME TypeInv, NEW s \in Readers, reader[s].at = "writing", HasRoom(s)
    PROVE  Target(s) \in Rows
<1>1. CASE reader[s].existing # None
  BY <1>1 DEF Target, TypeInv, TypeOK, ReaderType
<1>2. CASE reader[s].existing = None /\ RowOfCover(reader[s].cover) # {}
  <2>1. Target(s) \in RowOfCover(reader[s].cover)
    BY <1>2 DEF Target
  <2> QED
    BY <2>1 DEF RowOfCover
<1>3. CASE reader[s].existing = None /\ RowOfCover(reader[s].cover) = {}
  <2>1. Target(s) = NextRow /\ Unused # {}
    BY <1>3 DEF Target, HasRoom
  <2> QED
    BY <2>1, NextRowIsUnused DEF Unused
<1> QED
  BY <1>1, <1>2, <1>3

(* What it writes is a row.                                                *)
LEMMA WrittenIsRow ==
    ASSUME TypeInv, NEW s \in Readers, reader[s].at = "writing"
    PROVE  Written(s) \in RowType /\ Written(s).status = "active"
<1>1. reader[s].existing # None => rows[reader[s].existing].key \in AnyKey
  BY DEF TypeInv, TypeOK, RowType, ReaderType
<1>2. reader[s].key \in AnyKey /\ reader[s].cover \in Covers \cup {None} /\ reader[s].stamp \in Stamps
  BY DEF TypeInv, TypeOK, ReaderType
<1> QED
  BY <1>1, <1>2 DEF Written, RowType

(* A listing is finite, and a listed cover has a place before its end.     *)
LEMMA ListingIsFinite ==
    /\ IsFiniteSet(Listed) /\ Cardinality(Listed) \in Nat
    /\ Cardinality(Listed) <= Cardinality(Covers)
<1>1. Listed \subseteq Covers
  BY DEF Listed
<1> QED
  BY <1>1, CoversAssumption, FS_Subset, FS_CardinalityType

LEMMA PositionIsBelow ==
    ASSUME TypeOK, NEW c \in Listed
    PROVE  Position(c) \in Nat /\ Position(c) < Cardinality(Listed)
<1> DEFINE earlier == {d \in Listed : Before(d, c)}
<1>1. ~Before(c, c)
  <2>1. upstream[c].key \in Nat
    <3>1. upstream[c] \in CoverType
      BY DEF TypeOK, Listed
    <3>2. upstream[c].key \in AnyKey
      BY <3>1 DEF CoverType
    <3> QED
      BY <3>2, Constants
  <2> QED
    BY <2>1, CoversAssumption DEF Before, Listed, Special
<1>2. earlier \subseteq Listed /\ earlier # Listed
  BY <1>1
<1> HIDE DEF earlier
<1>3. IsFiniteSet(earlier) /\ Cardinality(earlier) <= Cardinality(Listed)
      /\ Cardinality(earlier) # Cardinality(Listed)
  BY <1>2, ListingIsFinite, FS_Subset
<1>4. Cardinality(earlier) \in Nat /\ Cardinality(Listed) \in Nat
  BY <1>3, FS_CardinalityType, ListingIsFinite
<1> QED
  BY <1>3, <1>4 DEF Position, earlier

(***************************************************************************)
(* The types.                                                              *)
(***************************************************************************)

(* The part of the invariant about the table and about the rest.           *)
TableTyped == rows \in [Rows -> RowType] /\ UnusedIsBlank
RestTyped ==
    /\ synced \in BOOLEAN
    /\ upstream \in [Covers -> CoverType]
    /\ changes \in 0..MaxUpstream
    /\ editor \in [Editors -> EditorType]
    /\ edits \in 0..MaxEdits
    /\ calm \in SUBSET Readers /\ behind \in SUBSET Readers
    /\ withdrawn \in SUBSET Rows /\ steady \in SUBSET Rows
    /\ stampBehind \in BOOLEAN
ReadersTyped ==
    /\ reader \in [Readers -> ReaderType]
    /\ \A s \in Readers : reader[s].at = "idle" => reader[s] = NoReader

LEMMA TypeParts ==
    /\ TypeInv <=> TableTyped /\ RestTyped /\ ReadersTyped /\ WritesWhatItFetched
    /\ TypeInv' <=> TableTyped' /\ RestTyped' /\ ReadersTyped' /\ WritesWhatItFetched'
  BY DEF TypeInv, TypeOK, TableTyped, RestTyped, ReadersTyped

LEMMA NoLocals == NoReader \in ReaderType /\ NoEdit \in EditorType
<1>1. 0 \in 0..Cardinality(Covers) /\ 0 \in 0..MaxUpstream + 1
  BY Constants
<1> QED
  BY <1>1, Constants DEF NoReader, NoEdit, ReaderType, EditorType, Stamps

LEMMA TypeInit == Init => TypeInv
<1> SUFFICES ASSUME Init PROVE TypeInv
  OBVIOUS
<1>1. TableTyped
  BY Constants DEF Init, TableTyped, RowType, UnusedIsBlank, Unused
<1>2. RestTyped
  <2>1. upstream \in [Covers -> CoverType]
    BY DEF Init
  <2>2. changes \in 0..MaxUpstream /\ edits \in 0..MaxEdits
    BY Constants DEF Init
  <2>3. editor \in [Editors -> EditorType]
    BY NoLocals DEF Init
  <2> QED
    BY <2>1, <2>2, <2>3 DEF Init, RestTyped
<1>3. ReadersTyped /\ WritesWhatItFetched
  BY NoLocals DEF Init, ReadersTyped, WritesWhatItFetched, NoReader
<1> QED
  BY <1>1, <1>2, <1>3, TypeParts

(* A refresh that ends, or that has no cover in hand, keeps its types, and *)
(* so do the others while no row goes out of use.                          *)
LEMMA ReaderMoves ==
    ASSUME ReadersTyped, WritesWhatItFetched, NEW s \in Readers, NEW v \in ReaderType,
           reader' = [reader EXCEPT ![s] = v], v.at = "idle" => v = NoReader,
           v.at = "writing" =>
              /\ v.cover \in Covers /\ v.offset < Cardinality(Covers)
              /\ v.existing # None => v.existing \notin Unused',
           Unused' \subseteq Unused
    PROVE  ReadersTyped' /\ WritesWhatItFetched'
<1>1. \A q \in Readers : reader'[q] = IF q = s THEN v ELSE reader[q]
  BY DEF ReadersTyped
<1>2. ReadersTyped'
  BY <1>1 DEF ReadersTyped
<1>3. WritesWhatItFetched'
  BY <1>1 DEF WritesWhatItFetched
<1> QED
  BY <1>2, <1>3

(* A row once in use stays in use.                                         *)
LEMMA RowWrite ==
    ASSUME TableTyped, NEW t \in Rows, NEW w \in RowType, w.status # "unused",
           rows' = [rows EXCEPT ![t] = w]
    PROVE  TableTyped' /\ Unused' \subseteq Unused
<1>1. \A r \in Rows : rows'[r] = IF r = t THEN w ELSE rows[r]
  BY DEF TableTyped
<1>2. Unused' \subseteq Unused
  BY <1>1 DEF Unused
<1>3. rows' \in [Rows -> RowType]
  BY DEF TableTyped
<1>4. UnusedIsBlank'
  BY <1>1, <1>2 DEF UnusedIsBlank, TableTyped, Unused
<1> QED
  BY <1>2, <1>3, <1>4 DEF TableTyped

LEMMA SameTable ==
    ASSUME TableTyped, UNCHANGED rows
    PROVE  TableTyped' /\ Unused' \subseteq Unused
  BY DEF TableTyped, UnusedIsBlank, Unused

LEMMA SameReaders ==
    ASSUME ReadersTyped, WritesWhatItFetched, UNCHANGED reader, Unused' \subseteq Unused
    PROVE  ReadersTyped' /\ WritesWhatItFetched'
  BY DEF ReadersTyped, WritesWhatItFetched

(* What a refresh turns its locals into.                                   *)
LEMMA LocalsTyped ==
    ASSUME ReadersTyped, NEW s \in Readers
    PROVE  /\ [NoReader EXCEPT !.at = "fetching"] \in ReaderType
           /\ [reader[s] EXCEPT !.at = "reconciling"] \in ReaderType
           /\ \A n \in 0..Cardinality(Covers) :
                 [NoReader EXCEPT !.at = "fetching", !.offset = n, !.seen = reader[s].seen]
                    \in ReaderType
  BY NoLocals DEF ReadersTyped, ReaderType

LEMMA BeginRefreshType ==
    ASSUME TypeInv, NEW s \in Readers, NEW forced \in BOOLEAN, BeginRefresh(s, forced)
    PROVE  TypeInv'
<1> USE TypeParts
<1>1. RestTyped'
  BY DEF BeginRefresh, RestTyped, upstreamVars, editorVars
<1>2. TableTyped' /\ Unused' \subseteq Unused
  BY SameTable DEF BeginRefresh
<1> DEFINE v == [NoReader EXCEPT !.at = "fetching"]
<1>3. v \in ReaderType /\ v.at = "fetching"
  BY LocalsTyped DEF NoReader
<1>4. reader' = [reader EXCEPT ![s] = v]
  BY DEF BeginRefresh
<1> HIDE DEF v
<1>5. ReadersTyped' /\ WritesWhatItFetched'
  BY <1>2, <1>3, <1>4, ReaderMoves
<1> QED
  BY <1>1, <1>2, <1>5

LEMMA FetchCoverType ==
    ASSUME TypeInv, NEW s \in Readers, NEW c \in Covers, FetchCover(s, c)
    PROVE  TypeInv'
<1> USE TypeParts
<1>1. RestTyped'
  BY DEF FetchCover, RestTyped, upstreamVars, editorVars, observerVars
<1>2. TableTyped' /\ Unused' \subseteq Unused
  BY SameTable DEF FetchCover
<1>3. PICK found \in Rows \cup {None} :
        /\ found # None => found \in Active
        /\ reader' = [reader EXCEPT ![s] =
                [at |-> "writing", offset |-> reader[s].offset,
                 seen |-> reader[s].seen \cup {c}, cover |-> c,
                 key |-> upstream[c].key, stamp |-> upstream[c].at,
                 existing |-> found]]
  BY DEF FetchCover, TypeInv, TypeOK
<1> DEFINE v == [at |-> "writing", offset |-> reader[s].offset,
                 seen |-> reader[s].seen \cup {c}, cover |-> c,
                 key |-> upstream[c].key, stamp |-> upstream[c].at,
                 existing |-> found]
<1>4. v \in ReaderType
  <2>1. upstream[c].key \in AnyKey /\ upstream[c].at \in Stamps
    BY DEF RestTyped, CoverType
  <2>2. reader[s] \in ReaderType
    BY DEF ReadersTyped
  <2> QED
    BY <2>1, <2>2 DEF ReaderType
<1>5. v.offset < Cardinality(Covers)
  <2>1. Position(c) < Cardinality(Listed) /\ Position(c) \in Nat
    BY PositionIsBelow DEF TypeInv, FetchCover
  <2> QED
    BY <2>1, ListingIsFinite, Constants DEF FetchCover
<1>6. v.at = "writing" /\ v.cover = c /\ v.existing = found
  OBVIOUS
<1>7. found # None => found \notin Unused'
  BY <1>2, <1>3 DEF Active, Unused
<1>8. reader' = [reader EXCEPT ![s] = v]
  BY <1>3
<1> HIDE DEF v
<1>9. ReadersTyped' /\ WritesWhatItFetched'
  BY <1>2, <1>4, <1>5, <1>6, <1>7, <1>8, ReaderMoves
<1> QED
  BY <1>1, <1>2, <1>9

(* A refresh whose page is done, or that ends.                             *)
LEMMA NextPageType ==
    ASSUME ReadersTyped, WritesWhatItFetched, NEW s \in Readers,
           reader[s].at = "writing", NextPage(s), Unused' \subseteq Unused
    PROVE  ReadersTyped' /\ WritesWhatItFetched'
<1> DEFINE v == [NoReader EXCEPT !.at = "fetching", !.offset = reader[s].offset + 1,
                                 !.seen = reader[s].seen]
<1>1. reader[s].offset + 1 \in 0..Cardinality(Covers)
  <2>1. reader[s].offset \in 0..Cardinality(Covers)
    BY DEF ReadersTyped, ReaderType
  <2> QED
    BY <2>1, Constants DEF WritesWhatItFetched
<1>2. v \in ReaderType /\ v.at = "fetching"
  BY <1>1, LocalsTyped DEF NoReader
<1>3. reader' = [reader EXCEPT ![s] = v]
  BY DEF NextPage
<1> HIDE DEF v
<1> QED
  BY <1>2, <1>3, ReaderMoves

LEMMA EndRefreshType ==
    ASSUME ReadersTyped, WritesWhatItFetched, NEW s \in Readers,
           EndRefresh(s), Unused' \subseteq Unused
    PROVE  ReadersTyped' /\ WritesWhatItFetched'
<1>1. NoReader \in ReaderType /\ NoReader.at = "idle"
  BY NoLocals DEF NoReader
<1> QED
  BY <1>1, ReaderMoves DEF EndRefresh

(* A step of a refresh that writes no row, and what reconciling writes.    *)
LEMMA RefreshStepType ==
    ASSUME TypeInv, NEW s \in Readers, RefreshStep(s) \/ DropRefresh(s)
    PROVE  TypeInv'
<1> USE TypeParts
<1>1. CASE \E c \in Covers : FetchCover(s, c)
  BY <1>1, FetchCoverType
<1>2. CASE FetchEnd(s)
  <2>1. RestTyped'
    BY <1>2 DEF FetchEnd, RestTyped, upstreamVars, editorVars, observerVars
  <2>2. TableTyped' /\ Unused' \subseteq Unused
    BY <1>2, SameTable DEF FetchEnd
  <2> DEFINE v == [reader[s] EXCEPT !.at = "reconciling"]
  <2>3. v \in ReaderType /\ v.at = "reconciling" /\ reader' = [reader EXCEPT ![s] = v]
    <3>1. reader[s] \in ReaderType
      BY DEF ReadersTyped
    <3>2. v.at = "reconciling"
      BY <3>1 DEF ReaderType
    <3> QED
      BY <1>2, <3>2, LocalsTyped DEF FetchEnd
  <2> HIDE DEF v
  <2> QED
    BY <2>1, <2>2, <2>3, ReaderMoves
<1>3. CASE UpsertVolume(s)
  <2>1. Target(s) \in Rows
    BY <1>3, TargetIsRow DEF UpsertVolume
  <2>2. Written(s) \in RowType /\ Written(s).status = "active"
    BY <1>3, WrittenIsRow DEF UpsertVolume
  <2>3. TableTyped' /\ Unused' \subseteq Unused
    BY <1>3, <2>1, <2>2, RowWrite DEF UpsertVolume
  <2>4. RestTyped'
    BY <1>3, <2>1 DEF UpsertVolume, RefreshWrites, RestTyped, upstreamVars, editorVars
  <2> QED
    BY <1>3, <2>3, <2>4, NextPageType DEF UpsertVolume
<1>4. CASE SkipVolume(s)
  <2>1. RestTyped'
    BY <1>4 DEF SkipVolume, RestTyped, upstreamVars, editorVars, observerVars
  <2> QED
    BY <1>4, <2>1, SameTable, NextPageType DEF SkipVolume
<1>5. CASE UpsertConflict(s) \/ DropRefresh(s)
  <2>1. RestTyped' /\ UNCHANGED rows /\ EndRefresh(s)
    BY <1>5 DEF UpsertConflict, DropRefresh, RestTyped, upstreamVars, editorVars, observerVars
  <2> QED
    BY <2>1, SameTable, EndRefreshType
<1>6. CASE Reconcile(s)
  <2>1. \A r \in Rows : \/ rows'[r] = rows[r]
                        \/ r \in Active /\ rows'[r] = [rows[r] EXCEPT !.status = "deleted"]
    BY <1>6 DEF Reconcile
  <2>2. \A r \in Rows : [rows[r] EXCEPT !.status = "deleted"] \in RowType
    BY DEF TableTyped, RowType
  <2>3. rows' \in [Rows -> RowType]
    BY <1>6, <2>2 DEF Reconcile, TableTyped
  <2>4. \A r \in Rows : rows'[r].status = "unused" => rows'[r] = rows[r]
    BY <2>1 DEF TableTyped, RowType
  <2>5. TableTyped' /\ Unused' \subseteq Unused
    BY <2>3, <2>4 DEF TableTyped, UnusedIsBlank, Unused
  <2>6. RestTyped'
    BY <1>6 DEF Reconcile, RefreshWrites, RestTyped, upstreamVars, editorVars
  <2> QED
    BY <1>6, <2>5, <2>6, EndRefreshType DEF Reconcile
<1> QED
  BY <1>1, <1>2, <1>3, <1>4, <1>5, <1>6 DEF RefreshStep

LEMMA EditType ==
    ASSUME TypeInv, NEW e \in Editors,
           \/ \E k \in AnyKey : BeginCreate(e, k)
           \/ \E r \in Rows, k \in AnyKey : UpdateVolume(e, r, k)
           \/ \E r \in Rows : DeleteVolume(e, r)
           \/ EditStep(e) \/ DropEdit(e)
    PROVE  TypeInv'
<1> USE TypeParts
<1>1. Running \subseteq Readers
  BY DEF Running
<1>2. \A n \in 0..MaxEdits : n < MaxEdits => n + 1 \in 0..MaxEdits
  BY Constants
<1>3. \A v \in EditorType : [v EXCEPT !.at = "invalidating"] \in EditorType
  BY DEF EditorType
<1>4. \A k \in AnyKey : /\ [at |-> "inserting", key |-> k] \in EditorType
  BY DEF EditorType
<1>5. ASSUME NEW k \in AnyKey, BeginCreate(e, k) PROVE TypeInv'
  <2>1. RestTyped'
    BY <1>2, <1>4, <1>5 DEF BeginCreate, RestTyped, upstreamVars, observerVars
  <2> QED
    BY <1>5, <2>1, SameTable, SameReaders DEF BeginCreate
<1>6. ASSUME NEW r \in Rows, NEW k \in AnyKey, UpdateVolume(e, r, k) PROVE TypeInv'
  <2>1. RestTyped'
    BY <1>1, <1>2, <1>3, <1>6 DEF UpdateVolume, EditCommits, RestTyped, upstreamVars
  <2> DEFINE w == [rows[r] EXCEPT !.key = k]
  <2>2. w \in RowType /\ w.status = "active" /\ rows' = [rows EXCEPT ![r] = w]
    BY <1>6 DEF UpdateVolume, Active, TableTyped, RowType
  <2> HIDE DEF w
  <2>3. TableTyped' /\ Unused' \subseteq Unused
    BY <2>2, RowWrite
  <2> QED
    BY <1>6, <2>1, <2>3, SameReaders DEF UpdateVolume
<1>7. ASSUME NEW r \in Rows, DeleteVolume(e, r) PROVE TypeInv'
  <2>1. RestTyped'
    BY <1>1, <1>2, <1>3, <1>7 DEF DeleteVolume, EditCommits, RestTyped, upstreamVars
  <2> DEFINE w == [rows[r] EXCEPT !.status = "deleted"]
  <2>2. w \in RowType /\ w.status = "deleted" /\ rows' = [rows EXCEPT ![r] = w]
    BY <1>7 DEF DeleteVolume, Active, TableTyped, RowType
  <2> HIDE DEF w
  <2>3. TableTyped' /\ Unused' \subseteq Unused
    BY <2>2, RowWrite
  <2> QED
    BY <1>7, <2>1, <2>3, SameReaders DEF DeleteVolume
<1>8. CASE InsertVolume(e)
  <2>1. RestTyped'
    BY <1>1, <1>3, <1>8 DEF InsertVolume, EditCommits, RestTyped, upstreamVars
  <2> DEFINE w == [status |-> "active", key |-> editor[e].key, cover |-> None, at |-> None]
  <2>2. w \in RowType
    BY Constants DEF RowType, RestTyped, EditorType
  <2>3. NextRow \in Rows
    BY <1>8, NextRowIsUnused DEF InsertVolume, Unused
  <2>4. w.status = "active" /\ rows' = [rows EXCEPT ![NextRow] = w]
    BY <1>8 DEF InsertVolume
  <2> HIDE DEF w
  <2>5. TableTyped' /\ Unused' \subseteq Unused
    BY <2>2, <2>3, <2>4, RowWrite
  <2> QED
    BY <1>8, <2>1, <2>5, SameReaders DEF InsertVolume
<1>9. CASE InsertConflict(e) \/ Invalidate(e) \/ DropEdit(e)
  <2>1. RestTyped'
    BY <1>9, NoLocals DEF InsertConflict, Invalidate, DropEdit, RestTyped, upstreamVars, observerVars
  <2> QED
    BY <1>9, <2>1, SameTable, SameReaders DEF InsertConflict, Invalidate, DropEdit
<1> QED
  BY <1>5, <1>6, <1>7, <1>8, <1>9 DEF EditStep

LEMMA WorldType ==
    ASSUME TypeInv, Expire \/ \E c \in Covers, u \in CoverType : ChangeUpstream(c, u)
    PROVE  TypeInv'
<1> USE TypeParts
<1>1. UNCHANGED <<rows, reader>>
  BY DEF Expire, ChangeUpstream
<1>2. RestTyped'
  <2>1. CASE Expire
    BY <2>1 DEF Expire, RestTyped, upstreamVars, editorVars
  <2>2. ASSUME NEW c \in Covers, NEW u \in CoverType, ChangeUpstream(c, u)
        PROVE  RestTyped'
    <3>1. changes' \in 0..MaxUpstream
      BY <2>2, Constants DEF ChangeUpstream, RestTyped
    <3> QED
      BY <2>2, <3>1 DEF ChangeUpstream, RestTyped, editorVars
  <2> QED
    BY <2>1, <2>2
<1> QED
  BY <1>1, <1>2, SameTable, SameReaders

LEMMA TypeStep == TypeInv /\ [Next]_vars => TypeInv'
<1> SUFFICES ASSUME TypeInv, [Next]_vars PROVE TypeInv'
  OBVIOUS
<1>1. CASE UNCHANGED vars
  <2>1. RestTyped' /\ UNCHANGED <<rows, reader>>
    BY <1>1, TypeParts DEF vars, upstreamVars, editorVars, observerVars, RestTyped
  <2> QED
    BY <2>1, TypeParts, SameTable, SameReaders
<1>2. CASE Next
  BY <1>2, BeginRefreshType, RefreshStepType, EditType, WorldType DEF Next
<1> QED
  BY <1>1, <1>2

(* Every handler works with what it should, and a refresh never pages      *)
(* beyond the covers there are: the offset of a page that is being written *)
(* is the place of a listed cover.                                         *)
THEOREM TypesHold == Spec => []TypeOK
<1>1. TypeInv => TypeOK
  BY DEF TypeInv
<1> QED
  BY <1>1, TypeInit, TypeStep, PTL DEF Spec

(***************************************************************************)
(* The unique indexes.                                                     *)
(***************************************************************************)

DedupInv == TypeInv /\ Deduplicated

(* A row is written after the indexes have been asked about it.            *)
LEMMA IndexedWrite ==
    ASSUME DedupInv, NEW t \in Rows, NEW w \in RowType, w.status = "active",
           ~KeyTaken(w.key, t), w.cover = None \/ ~CoverTaken(w.cover, t),
           rows' = [rows EXCEPT ![t] = w]
    PROVE  Deduplicated'
<1>1. \A r \in Rows : rows'[r] = IF r = t THEN w ELSE rows[r]
  BY DEF DedupInv, TypeInv, TypeOK
<1>2. \A r \in Rows : rows[r].status = "unused" => rows[r].cover = None
  BY DEF DedupInv, TypeInv, UnusedIsBlank, Unused
<1>3. ASSUME NEW r \in Active' PROVE ~KeyTaken(rows[r].key, r)'
  <2> SUFFICES ASSUME NEW q \in Active' \ {r}, rows'[r].key # Special,
                      rows'[q].key = rows'[r].key
               PROVE  FALSE
    BY DEF KeyTaken
  <2>1. r \in Rows /\ q \in Rows
    BY DEF Active
  <2>2. CASE r = t
    BY <1>1, <2>1, <2>2 DEF KeyTaken, Active
  <2>3. CASE q = t
    BY <1>1, <2>1, <2>3 DEF KeyTaken, Active
  <2>4. CASE r # t /\ q # t
    BY <1>1, <2>1, <2>4 DEF KeyTaken, Active, DedupInv, Deduplicated
  <2> QED
    BY <2>2, <2>3, <2>4
<1>4. ASSUME NEW r \in Rows, rows'[r].cover # None PROVE ~CoverTaken(rows[r].cover, r)'
  <2> SUFFICES ASSUME NEW q \in Rows \ {r}, rows'[q].status # "unused",
                      rows'[q].cover = rows'[r].cover
               PROVE  FALSE
    BY DEF CoverTaken
  <2>1. CASE r = t
    BY <1>1, <1>4, <2>1 DEF CoverTaken
  <2>2. CASE q = t
    BY <1>1, <1>2, <1>4, <2>2 DEF CoverTaken
  <2>3. CASE r # t /\ q # t
    BY <1>1, <1>4, <2>3 DEF CoverTaken, DedupInv, Deduplicated
  <2> QED
    BY <2>1, <2>2, <2>3
<1> QED
  BY <1>3, <1>4 DEF Deduplicated

(* Deleting rows takes them off the index of the numbered volumes only.    *)
LEMMA DeletionKeepsUnique ==
    ASSUME DedupInv,
           \A r \in Rows : \/ rows'[r] = rows[r]
                           \/ /\ r \in Active /\ rows'[r].status = "deleted"
                              /\ rows'[r].key = rows[r].key
                              /\ rows'[r].cover = rows[r].cover
    PROVE  Deduplicated'
<1>1. \A r \in Rows : rows'[r].key = rows[r].key /\ rows'[r].cover = rows[r].cover
  OBVIOUS
<1>2. Active' \subseteq Active
  BY DEF Active
<1>3. \A r \in Rows : rows'[r].status # "unused" => rows[r].status # "unused"
  BY DEF Active
<1>4. \A r \in Active' : ~KeyTaken(rows[r].key, r)'
  BY <1>1, <1>2 DEF KeyTaken, Active, DedupInv, Deduplicated
<1>5. \A r \in Rows : rows'[r].cover # None => ~CoverTaken(rows[r].cover, r)'
  BY <1>1, <1>3 DEF CoverTaken, DedupInv, Deduplicated
<1> QED
  BY <1>4, <1>5 DEF Deduplicated

LEMMA DedupStep == DedupInv /\ [Next]_vars => DedupInv'
<1> SUFFICES ASSUME DedupInv, [Next]_vars PROVE Deduplicated'
  BY TypeStep DEF DedupInv
<1>1. TypeInv
  BY DEF DedupInv
<1>2. CASE UNCHANGED rows
  BY <1>2, DeletionKeepsUnique
<1>3. ASSUME NEW s \in Readers, UpsertVolume(s) PROVE Deduplicated'
  <2>1. Target(s) \in Rows /\ Written(s) \in RowType /\ Written(s).status = "active"
    BY <1>1, <1>3, TargetIsRow, WrittenIsRow DEF UpsertVolume
  <2>2. ~CoverTaken(Written(s).cover, Target(s)) /\ ~KeyTaken(Written(s).key, Target(s))
    BY <1>3 DEF UpsertVolume, Conflicts, Written
  <2> QED
    BY <1>3, <2>1, <2>2, IndexedWrite DEF UpsertVolume
<1>4. ASSUME NEW s \in Readers, Reconcile(s) PROVE Deduplicated'
  <2>1. \A r \in Rows : \/ rows'[r] = rows[r]
                        \/ r \in Active /\ rows'[r] = [rows[r] EXCEPT !.status = "deleted"]
    BY <1>4 DEF Reconcile
  <2>2. \A r \in Rows : rows[r] \in RowType
    BY <1>1 DEF TypeInv, TypeOK
  <2>3. \A r \in Rows : \/ rows'[r] = rows[r]
                        \/ /\ r \in Active /\ rows'[r].status = "deleted"
                           /\ rows'[r].key = rows[r].key
                           /\ rows'[r].cover = rows[r].cover
    BY <2>1, <2>2 DEF RowType
  <2> QED
    BY <2>3, DeletionKeepsUnique
<1>5. ASSUME NEW e \in Editors, InsertVolume(e) PROVE Deduplicated'
  <2> DEFINE w == [status |-> "active", key |-> editor[e].key, cover |-> None, at |-> None]
  <2>1. w \in RowType
    BY <1>1, Constants DEF RowType, TypeInv, TypeOK, EditorType
  <2>2. NextRow \in Rows
    BY <1>5, NextRowIsUnused DEF InsertVolume, Unused
  <2>3. ~KeyTaken(w.key, NextRow)
    BY <1>5, <2>2, Constants DEF InsertVolume, KeyTaken, Active
  <2>4. w.status = "active" /\ w.cover = None /\ rows' = [rows EXCEPT ![NextRow] = w]
    BY <1>5 DEF InsertVolume
  <2> HIDE DEF w
  <2> QED
    BY <2>1, <2>2, <2>3, <2>4, IndexedWrite
<1>6. ASSUME NEW e \in Editors, NEW r \in Rows, NEW k \in AnyKey, UpdateVolume(e, r, k)
      PROVE  Deduplicated'
  <2> DEFINE w == [rows[r] EXCEPT !.key = k]
  <2>1. /\ w \in RowType /\ w.status = "active" /\ w.key = k /\ w.cover = rows[r].cover
        /\ rows' = [rows EXCEPT ![r] = w]
    BY <1>1, <1>6 DEF UpdateVolume, Active, TypeInv, TypeOK, RowType
  <2>2. ~KeyTaken(w.key, r)
    BY <1>6, <2>1 DEF UpdateVolume
  <2>3. w.cover = None \/ ~CoverTaken(w.cover, r)
    BY <2>1 DEF DedupInv, Deduplicated
  <2> HIDE DEF w
  <2> QED
    BY <2>1, <2>2, <2>3, IndexedWrite
<1>7. ASSUME NEW e \in Editors, NEW r \in Rows, DeleteVolume(e, r) PROVE Deduplicated'
  <2>1. rows[r] \in RowType /\ \A q \in Rows :
           rows'[q] = IF q = r THEN [rows[r] EXCEPT !.status = "deleted"] ELSE rows[q]
    BY <1>1, <1>7 DEF DeleteVolume, TypeInv, TypeOK
  <2> QED
    BY <1>7, <2>1, DeletionKeepsUnique DEF DeleteVolume, RowType
<1> QED
  BY <1>2, <1>3, <1>4, <1>5, <1>6, <1>7
     DEF Next, RefreshStep, EditStep, BeginRefresh, FetchCover, FetchEnd, SkipVolume,
         UpsertConflict, DropRefresh, BeginCreate, InsertConflict, Invalidate, DropEdit,
         Expire, ChangeUpstream, vars

(* No two active rows of a numbered key, and no two rows of a cover:       *)
(* whatever a refresh or an editor looked up before, and however long ago, *)
(* the indexes are asked by the statement that writes.                     *)
THEOREM IndexesDeduplicate == Spec => []Deduplicated
<1>1. Init => DedupInv
  <2> SUFFICES ASSUME Init PROVE Deduplicated
    BY TypeInit DEF DedupInv
  <2> QED
    BY DEF Init, Deduplicated, Active
<1>2. DedupInv => Deduplicated
  BY DEF DedupInv
<1> QED
  BY <1>1, <1>2, DedupStep, PTL DEF Spec

(***************************************************************************)
(* Rows made by hand.                                                      *)
(***************************************************************************)

(* A volume that no refresh has adopted is only deleted by hand: what      *)
(* reconciling deletes has a cover, and an upsert leaves its row active.   *)
THEOREM HandmadeVolumesStay == Spec => HandmadeStays
<1> DEFINE StaysActive == \A r \in Active :
                             rows[r].cover = None /\ r \notin Active' => r \in withdrawn'
<1>1. TypeInv /\ [Next]_vars => StaysActive
  <2> SUFFICES ASSUME TypeInv, [Next]_vars, NEW r \in Active,
                      rows[r].cover = None, r \notin Active'
               PROVE  r \in withdrawn'
    OBVIOUS
  <2>1. r \in Rows /\ rows[r].status = "active" /\ rows'[r].status # "active"
    BY DEF Active
  <2>2. ASSUME NEW s \in Readers PROVE ~UpsertVolume(s) /\ ~Reconcile(s)
    <3>1. ~UpsertVolume(s)
      <4> SUFFICES ASSUME UpsertVolume(s) PROVE FALSE
        OBVIOUS
      <4>1. Target(s) \in Rows /\ Written(s).status = "active"
        BY TargetIsRow, WrittenIsRow DEF UpsertVolume
      <4>2. \A q \in Rows : rows'[q] = IF q = Target(s) THEN Written(s) ELSE rows[q]
        BY <4>1 DEF UpsertVolume, TypeInv, TypeOK
      <4> QED
        BY <2>1, <4>1, <4>2
    <3>2. ~Reconcile(s)
      BY <2>1 DEF Reconcile
    <3> QED
      BY <3>1, <3>2
  <2>3. ASSUME NEW e \in Editors, InsertVolume(e) PROVE FALSE
    <3>1. NextRow \in Rows
      BY <2>3, NextRowIsUnused DEF InsertVolume, Unused
    <3> QED
      BY <2>1, <2>3, <3>1 DEF InsertVolume, TypeInv, TypeOK
  <2>4. ASSUME NEW e \in Editors, NEW q \in Rows, NEW k \in AnyKey, UpdateVolume(e, q, k)
        PROVE  FALSE
    <3>1. rows'[r] \in {rows[r], [rows[r] EXCEPT !.key = k]} /\ rows[r] \in RowType
      BY <2>1, <2>4 DEF UpdateVolume, TypeInv, TypeOK
    <3> QED
      BY <2>1, <3>1 DEF RowType
  <2>5. ASSUME NEW e \in Editors, NEW q \in Rows, DeleteVolume(e, q) PROVE r \in withdrawn'
    BY <2>1, <2>5 DEF DeleteVolume, TypeInv, TypeOK
  <2> QED
    BY <2>1, <2>2, <2>3, <2>4, <2>5
       DEF Next, RefreshStep, EditStep, BeginRefresh, FetchCover, FetchEnd, SkipVolume,
           UpsertConflict, DropRefresh, BeginCreate, InsertConflict, Invalidate, DropEdit,
           Expire, ChangeUpstream, vars
<1>2. TypeInv /\ TypeInv' /\ [Next]_vars => [StaysActive]_vars
  BY <1>1
<1> QED
  BY <1>2, TypeInit, TypeStep, PTL DEF Spec, HandmadeStays

(***************************************************************************)
(* An undisturbed refresh mirrors the listing.                             *)
(***************************************************************************)

(* Nobody edits, and MangaDex lists one cover of a numbered key at a time  *)
(* and moves none to another key.                                          *)
SettledKeys == Editors = {} /\ ~Renumbers /\ ~Duplicates

(* A stored row has the key of its cover and is not ahead of it.           *)
RowsFollowCovers ==
    \A r \in Rows \ Unused :
        /\ rows[r].cover \in Covers
        /\ rows[r].key = upstream[rows[r].cover].key
        /\ rows[r].at <= upstream[rows[r].cover].at

(* So does a page in hand, and the row it found by key has that key still. *)
PagesFollowCovers ==
    \A s \in Readers : reader[s].at = "writing" =>
        /\ reader[s].key = upstream[reader[s].cover].key
        /\ reader[s].stamp <= upstream[reader[s].cover].at
        /\ reader[s].existing # None =>
              reader[s].key # Special /\ rows[reader[s].existing].key = reader[s].key

(* Whatever is known of a cover that lost its key is older than the cover  *)
(* that is listed under it.                                                *)
Replaces(c, d) ==
    /\ c \in Listed /\ d \in Covers \ {c}
    /\ upstream[c].key # Special /\ upstream[c].key = upstream[d].key
ReplacementsAreNewer ==
    \A c, d \in Covers : Replaces(c, d) =>
        /\ \A r \in Rows \ Unused : rows[r].cover = d => rows[r].at < upstream[c].at
        /\ \A s \in Readers : reader[s].at = "writing" /\ reader[s].cover = d =>
              reader[s].stamp < upstream[c].at

(* The listing is one MangaDex may give, and no cover is ahead of time.    *)
ListingHolds == Listable(upstream) /\ \A c \in Covers : upstream[c].at <= changes + 1

Stored(c) == \E r \in Active : rows[r].cover = c

(* An undisturbed refresh has seen the listing up to its offset, and what  *)
(* it has seen and written is stored.                                      *)
Fetches(s) ==
    reader[s].at = "fetching" =>
        /\ reader[s].seen = {c \in Listed : Position(c) < reader[s].offset}
        /\ \A c \in reader[s].seen : Stored(c)
Writes(s) ==
    reader[s].at = "writing" =>
        /\ reader[s].cover \in Listed
        /\ reader[s].stamp = upstream[reader[s].cover].at
        /\ reader[s].seen = {c \in Listed : Position(c) < reader[s].offset + 1}
        /\ \A c \in reader[s].seen \ {reader[s].cover} : Stored(c)
Reconciles(s) ==
    reader[s].at = "reconciling" =>
        /\ reader[s].seen = Listed
        /\ \A c \in Listed : Stored(c)
CalmProgress == \A s \in calm : Fetches(s) /\ Writes(s) /\ Reconciles(s)

FollowInv == TypeInv /\ ListingHolds /\ RowsFollowCovers /\ PagesFollowCovers
MirrorInv == FollowInv /\ ReplacementsAreNewer /\ CalmProgress

(* No two listed covers have the same place.                               *)
LEMMA PositionsDiffer ==
    ASSUME TypeOK, NEW c \in Listed, NEW d \in Listed, c # d
    PROVE  Position(c) # Position(d)
<1> DEFINE earlier(x) == {y \in Listed : Before(y, x)}
           rank(x) == IF upstream[x].key = Special THEN 1000 ELSE upstream[x].key
<1>1. \A x \in Listed : rank(x) \in Nat /\ x \in Nat
  <2> SUFFICES ASSUME NEW x \in Listed PROVE rank(x) \in Nat /\ x \in Nat
    OBVIOUS
  <2>1. upstream[x] \in CoverType /\ x \in Nat
    BY CoversAssumption DEF TypeOK, Listed
  <2>2. upstream[x].key \in AnyKey
    BY <2>1 DEF CoverType
  <2>3. upstream[x].key \in Nat
    BY <2>2, Constants
  <2> QED
    BY <2>1, <2>3
<1>2. \A x, y \in Listed :
        Before(x, y) <=> rank(x) < rank(y) \/ (rank(x) = rank(y) /\ x < y)
  BY DEF Before
<1> HIDE DEF rank
<1>3. ASSUME NEW x \in Listed, NEW y \in Listed, Before(x, y)
      PROVE  Position(x) # Position(y)
  <2>1. x \in earlier(y) /\ x \notin earlier(x)
    BY <1>1, <1>2, <1>3
  <2>2. \A z \in Listed : Before(z, x) => Before(z, y)
    BY <1>1, <1>2, <1>3
  <2>3. earlier(x) \in SUBSET earlier(y) /\ earlier(x) # earlier(y)
    BY <2>1, <2>2
  <2>4. IsFiniteSet(earlier(y))
    BY ListingIsFinite, FS_Subset
  <2> HIDE DEF earlier
  <2>5. Cardinality(earlier(x)) # Cardinality(earlier(y))
    BY <2>3, <2>4, FS_Subset
  <2> QED
    BY <2>5 DEF Position, earlier
<1>4. Before(c, d) \/ Before(d, c)
  BY <1>1, <1>2
<1> QED
  BY <1>3, <1>4

(* The row an upsert writes is not in use, or has its cover, or its key.   *)
LEMMA TargetOf ==
    ASSUME FollowInv, NEW s \in Readers, reader[s].at = "writing", HasRoom(s)
    PROVE  /\ Target(s) \in Rows
           /\ Target(s) \notin Unused =>
                /\ rows[Target(s)].key = reader[s].key
                /\ \/ rows[Target(s)].cover = reader[s].cover
                   \/ reader[s].key # Special
           /\ Written(s) \in RowType
           /\ Written(s).status = "active" /\ Written(s).key = reader[s].key
           /\ Written(s).cover = reader[s].cover /\ Written(s).at = reader[s].stamp
<1>1. Target(s) \in Rows /\ Written(s) \in RowType
  BY TargetIsRow, WrittenIsRow DEF FollowInv
<1>2. reader[s].existing # None =>
        reader[s].key # Special /\ rows[reader[s].existing].key = reader[s].key
  BY DEF FollowInv, PagesFollowCovers
<1>3. /\ Written(s).status = "active" /\ Written(s).key = reader[s].key
      /\ Written(s).cover = reader[s].cover /\ Written(s).at = reader[s].stamp
  BY <1>2 DEF Written
<1>4. ASSUME Target(s) \notin Unused
      PROVE  /\ rows[Target(s)].key = reader[s].key
             /\ rows[Target(s)].cover = reader[s].cover \/ reader[s].key # Special
  <2>1. CASE reader[s].existing # None
    BY <1>2, <2>1 DEF Target
  <2>2. CASE reader[s].existing = None /\ RowOfCover(reader[s].cover) # {}
    <3>1. Target(s) \in RowOfCover(reader[s].cover)
      BY <2>2 DEF Target
    <3>2. rows[Target(s)].cover = reader[s].cover
      BY <3>1 DEF RowOfCover
    <3>3. rows[Target(s)].key = upstream[reader[s].cover].key
      BY <1>1, <1>4, <3>2 DEF FollowInv, RowsFollowCovers
    <3> QED
      BY <3>2, <3>3 DEF FollowInv, PagesFollowCovers
  <2>3. CASE reader[s].existing = None /\ RowOfCover(reader[s].cover) = {}
    <3>1. Target(s) = NextRow /\ Unused # {}
      BY <2>3 DEF Target, HasRoom
    <3> QED
      BY <1>4, <3>1, NextRowIsUnused
  <2> QED
    BY <2>1, <2>2, <2>3
<1> QED
  BY <1>1, <1>3, <1>4

(* A row in use keeps its key.                                             *)
LEMMA KeysStay ==
    ASSUME FollowInv, SettledKeys, [Next]_vars, NEW r \in Rows \ Unused
    PROVE  rows'[r].key = rows[r].key /\ r \notin Unused'
<1>1. rows[r] \in RowType /\ rows[r].status # "unused" /\ r \in Rows
  BY DEF FollowInv, TypeInv, TypeOK, Unused
<1>2. ASSUME NEW s \in Readers, UpsertVolume(s)
      PROVE  rows'[r].key = rows[r].key /\ rows'[r].status # "unused"
  <2>1. \A q \in Rows : rows'[q] = IF q = Target(s) THEN Written(s) ELSE rows[q]
    BY <1>2 DEF UpsertVolume, FollowInv, TypeInv, TypeOK
  <2>2. r = Target(s) => Written(s).key = rows[r].key /\ Written(s).status = "active"
    BY <1>2, TargetOf DEF UpsertVolume
  <2> QED
    BY <1>1, <2>1, <2>2
<1>3. ASSUME NEW s \in Readers, Reconcile(s)
      PROVE  rows'[r].key = rows[r].key /\ rows'[r].status # "unused"
  <2>1. rows'[r] \in {rows[r], [rows[r] EXCEPT !.status = "deleted"]}
    BY <1>1, <1>3 DEF Reconcile
  <2> QED
    BY <1>1, <2>1 DEF RowType
<1>4. rows'[r].key = rows[r].key /\ rows'[r].status # "unused"
  BY <1>1, <1>2, <1>3
     DEF SettledKeys, Next, RefreshStep, BeginRefresh, FetchCover, FetchEnd, SkipVolume,
         UpsertConflict, DropRefresh, Expire, ChangeUpstream, vars
<1> QED
  BY <1>1, <1>4 DEF Unused

(* A row in use is written by an upsert only; deleting it changes its      *)
(* status alone.                                                           *)
LEMMA RowsChange ==
    ASSUME TypeInv, SettledKeys, [Next]_vars, NEW r \in Rows,
           \A s \in Readers : ~(UpsertVolume(s) /\ r = Target(s))
    PROVE  /\ r \in Unused' <=> r \in Unused
           /\ rows'[r].cover = rows[r].cover /\ rows'[r].at = rows[r].at
<1>1. rows[r] \in RowType
  BY DEF TypeInv, TypeOK
<1>2. rows'[r] = rows[r] \/ (r \in Active /\ rows'[r] = [rows[r] EXCEPT !.status = "deleted"])
  <2>1. ASSUME NEW s \in Readers, UpsertVolume(s) PROVE rows'[r] = rows[r]
    BY <2>1 DEF UpsertVolume, TypeInv, TypeOK
  <2>2. ASSUME NEW s \in Readers, Reconcile(s)
        PROVE  \/ rows'[r] = rows[r]
               \/ r \in Active /\ rows'[r] = [rows[r] EXCEPT !.status = "deleted"]
    BY <2>2 DEF Reconcile
  <2> QED
    BY <2>1, <2>2
       DEF SettledKeys, Next, RefreshStep, BeginRefresh, FetchCover, FetchEnd, SkipVolume,
           UpsertConflict, DropRefresh, Expire, ChangeUpstream, vars
<1> QED
  BY <1>1, <1>2 DEF RowType, Unused, Active

(* Time goes on at MangaDex: a change keeps keys and is the newest.        *)
LEMMA ListingStep ==
    ASSUME FollowInv, SettledKeys, [Next]_vars
    PROVE  /\ ListingHolds'
           /\ \A c \in Covers : /\ upstream'[c].key = upstream[c].key
                                /\ upstream[c].at <= upstream'[c].at
                                /\ \/ upstream'[c] = upstream[c]
                                   \/ /\ upstream'[c].at = changes + 2
                                      /\ upstream' = [upstream EXCEPT ![c] = upstream'[c]]
<1>1. /\ \A c \in Covers : upstream[c] \in CoverType /\ upstream[c].at \in Nat
      /\ changes \in Nat
  <2>1. \A c \in Covers : upstream[c] \in CoverType
    BY DEF FollowInv, TypeInv, TypeOK
  <2>2. \A c \in Covers : upstream[c].at \in Stamps
    BY <2>1 DEF CoverType
  <2> QED
    BY <2>1, <2>2, Constants DEF Stamps, FollowInv, TypeInv, TypeOK
<1>2. CASE UNCHANGED <<upstream, changes>>
  BY <1>1, <1>2 DEF FollowInv, ListingHolds, Listable
<1>3. ASSUME NEW c \in Covers, NEW u \in CoverType, ChangeUpstream(c, u)
      PROVE  /\ ListingHolds'
             /\ \A d \in Covers : /\ upstream'[d].key = upstream[d].key
                                  /\ upstream[d].at <= upstream'[d].at
                                  /\ \/ upstream'[d] = upstream[d]
                                     \/ /\ upstream'[d].at = changes + 2
                                        /\ upstream' = [upstream EXCEPT ![d] = upstream'[d]]
  <2>1. /\ u.at = changes + 2 /\ u.key = upstream[c].key
        /\ upstream' = [upstream EXCEPT ![c] = u] /\ Listable(upstream')
        /\ changes' = changes + 1
    BY <1>3 DEF ChangeUpstream, SettledKeys
  <2>2. \A d \in Covers : upstream'[d] = IF d = c THEN u ELSE upstream[d]
    BY <2>1 DEF FollowInv, TypeInv, TypeOK
  <2>3. \A d \in Covers : upstream[d].at <= changes + 1
    BY DEF FollowInv, ListingHolds
  <2>4. ListingHolds'
    BY <1>1, <2>1, <2>2, <2>3 DEF ListingHolds, Listable
  <2>5. \A d \in Covers : upstream[d].at \in Int /\ changes \in Int
    BY <1>1
  <2>6. \A d \in Covers : /\ upstream'[d].key = upstream[d].key
                          /\ upstream[d].at <= upstream'[d].at
    BY <2>1, <2>2, <2>3, <2>5
  <2>7. \A d \in Covers : \/ upstream'[d] = upstream[d]
                          \/ /\ upstream'[d].at = changes + 2
                             /\ upstream' = [upstream EXCEPT ![d] = upstream'[d]]
    BY <2>1, <2>2
  <2> QED
    BY <2>4, <2>6, <2>7
<1>4. CASE ~\E c \in Covers, u \in CoverType : ChangeUpstream(c, u)
  <2>1. UNCHANGED <<upstream, changes>>
    BY <1>4 DEF SettledKeys, Next, RefreshStep, BeginRefresh, FetchCover, FetchEnd,
       UpsertVolume, SkipVolume, UpsertConflict, Reconcile, DropRefresh, Expire, vars,
       upstreamVars
  <2> QED
    BY <1>2, <2>1
<1> QED
  BY <1>3, <1>4

(* What the other refreshes do leaves a refresh's locals alone.            *)
LEMMA ReaderStep ==
    ASSUME TypeInv, SettledKeys, [Next]_vars, NEW s \in Readers
    PROVE  \/ reader'[s] = reader[s]
           \/ (\E forced \in BOOLEAN : BeginRefresh(s, forced))
           \/ RefreshStep(s) \/ DropRefresh(s)
<1>1. ASSUME NEW q \in Readers, q # s,
             (\E forced \in BOOLEAN : BeginRefresh(q, forced))
             \/ RefreshStep(q) \/ DropRefresh(q)
      PROVE  reader'[s] = reader[s]
  <2>1. \E v : reader' = [reader EXCEPT ![q] = v]
    BY <1>1 DEF BeginRefresh, RefreshStep, FetchCover, FetchEnd, UpsertVolume, SkipVolume,
       UpsertConflict, Reconcile, DropRefresh, NextPage, EndRefresh
  <2> QED
    BY <1>1, <2>1 DEF TypeInv, TypeOK
<1>2. CASE Expire \/ (\E c \in Covers, u \in CoverType : ChangeUpstream(c, u)) \/ UNCHANGED vars
  BY <1>2 DEF Expire, ChangeUpstream, vars
<1> QED
  BY <1>1, <1>2 DEF SettledKeys, Next

(* Who begins, ends or turns the page has none in hand.                    *)
LEMMA PageInHand ==
    ASSUME TypeInv, SettledKeys, [Next]_vars, NEW s \in Readers, reader'[s].at = "writing"
    PROVE  reader'[s] = reader[s] \/ \E c \in Covers : FetchCover(s, c)
<1>1. \A v : reader' = [reader EXCEPT ![s] = v] => reader'[s] = v
  BY DEF TypeInv, TypeOK
<1>2. ASSUME NEW forced \in BOOLEAN, BeginRefresh(s, forced) PROVE FALSE
  BY <1>1, <1>2 DEF BeginRefresh, NoReader
<1>3. CASE UpsertVolume(s) \/ SkipVolume(s)
  BY <1>1, <1>3 DEF UpsertVolume, SkipVolume, NextPage, NoReader
<1>4. CASE UpsertConflict(s) \/ Reconcile(s) \/ DropRefresh(s)
  BY <1>1, <1>4 DEF UpsertConflict, Reconcile, DropRefresh, EndRefresh, NoReader
<1>5. CASE FetchEnd(s)
  <2>1. reader'[s] = [reader[s] EXCEPT !.at = "reconciling"] /\ reader[s] \in ReaderType
    BY <1>5 DEF FetchEnd, TypeInv, TypeOK
  <2> QED
    BY <2>1 DEF ReaderType
<1> QED
  BY <1>2, <1>3, <1>4, <1>5, ReaderStep DEF RefreshStep

(* The page that has just been fetched.                                    *)
LEMMA FetchedPage ==
    ASSUME TypeInv, NEW s \in Readers, NEW c \in Covers, FetchCover(s, c)
    PROVE  /\ reader'[s].at = "writing" /\ reader'[s].cover = c
           /\ reader'[s].key = upstream[c].key /\ reader'[s].stamp = upstream[c].at
           /\ reader'[s].offset = reader[s].offset
           /\ reader'[s].seen = reader[s].seen \cup {c}
           /\ reader'[s].existing # None =>
                 /\ reader'[s].key # Special
                 /\ reader'[s].existing \in Active
                 /\ rows[reader'[s].existing].key = reader'[s].key
           /\ reader[s].at = "fetching" /\ Position(c) = reader[s].offset /\ c \in Listed
           /\ UNCHANGED <<rows, upstream, calm>>
<1>1. PICK found \in Rows \cup {None} :
        /\ found # None => /\ found \in Active /\ upstream[c].key # Special
                           /\ rows[found].key = upstream[c].key
        /\ reader' = [reader EXCEPT ![s] =
                [at |-> "writing", offset |-> reader[s].offset,
                 seen |-> reader[s].seen \cup {c}, cover |-> c,
                 key |-> upstream[c].key, stamp |-> upstream[c].at,
                 existing |-> found]]
  BY DEF FetchCover, TypeInv, TypeOK
<1>2. reader'[s] = [at |-> "writing", offset |-> reader[s].offset,
                    seen |-> reader[s].seen \cup {c}, cover |-> c,
                    key |-> upstream[c].key, stamp |-> upstream[c].at,
                    existing |-> found]
  BY <1>1 DEF TypeInv, TypeOK
<1>3. /\ reader[s].at = "fetching" /\ Position(c) = reader[s].offset /\ c \in Listed
      /\ UNCHANGED <<rows, upstream, calm>>
  BY DEF FetchCover, upstreamVars, observerVars
<1> QED
  BY <1>1, <1>2, <1>3

LEMMA FollowStep ==
    ASSUME FollowInv, SettledKeys, [Next]_vars
    PROVE  FollowInv'
<1>1. TypeInv /\ TypeInv'
  BY TypeStep DEF FollowInv
<1>2. /\ \A c \in Covers : upstream[c].at \in Int /\ upstream'[c].at \in Int
      /\ \A r \in Rows : rows[r].at \in Int
      /\ \A s \in Readers : reader[s].stamp \in Int
  BY <1>1, Constants DEF TypeInv, TypeOK, RowType, CoverType, ReaderType, Stamps
<1>3. /\ ListingHolds'
      /\ \A c \in Covers : /\ upstream'[c].key = upstream[c].key
                           /\ upstream[c].at <= upstream'[c].at
  BY ListingStep
<1>4. RowsFollowCovers'
  <2> SUFFICES ASSUME NEW r \in Rows \ Unused'
               PROVE  /\ rows'[r].cover \in Covers
                      /\ rows'[r].key = upstream'[rows'[r].cover].key
                      /\ rows'[r].at <= upstream'[rows'[r].cover].at
    BY DEF RowsFollowCovers
  <2>1. ASSUME NEW s \in Readers, UpsertVolume(s), r = Target(s)
        PROVE  /\ rows'[r].cover \in Covers
               /\ rows'[r].key = upstream'[rows'[r].cover].key
               /\ rows'[r].at <= upstream'[rows'[r].cover].at
    <3>1. /\ rows'[r].cover = reader[s].cover /\ rows'[r].key = reader[s].key
          /\ rows'[r].at = reader[s].stamp
      BY <1>1, <2>1, TargetOf DEF UpsertVolume, TypeInv, TypeOK
    <3>2. /\ reader[s].cover \in Covers /\ reader[s].key = upstream[reader[s].cover].key
          /\ reader[s].stamp <= upstream[reader[s].cover].at
      BY <1>1, <2>1 DEF UpsertVolume, TypeInv, WritesWhatItFetched, FollowInv, PagesFollowCovers
    <3>3. upstream' = upstream
      BY <2>1 DEF UpsertVolume, upstreamVars
    <3> QED
      BY <3>1, <3>2, <3>3
  <2>2. CASE \A s \in Readers : ~(UpsertVolume(s) /\ r = Target(s))
    <3>1. r \notin Unused /\ rows'[r].cover = rows[r].cover /\ rows'[r].at = rows[r].at
      BY <1>1, <2>2, RowsChange
    <3>2. rows'[r].key = rows[r].key
      BY <3>1, KeysStay
    <3>3. /\ rows[r].cover \in Covers /\ rows[r].key = upstream[rows[r].cover].key
          /\ rows[r].at <= upstream[rows[r].cover].at
      BY <3>1 DEF FollowInv, RowsFollowCovers
    <3> QED
      BY <1>2, <1>3, <3>1, <3>2, <3>3
  <2> QED
    BY <2>1, <2>2
<1>5. PagesFollowCovers'
  <2> SUFFICES ASSUME NEW s \in Readers, reader'[s].at = "writing"
               PROVE  /\ reader'[s].key = upstream'[reader'[s].cover].key
                      /\ reader'[s].stamp <= upstream'[reader'[s].cover].at
                      /\ reader'[s].existing # None =>
                            /\ reader'[s].key # Special
                            /\ rows'[reader'[s].existing].key = reader'[s].key
    BY DEF PagesFollowCovers
  <2>1. ASSUME NEW c \in Covers, FetchCover(s, c)
        PROVE  /\ reader'[s].key = upstream'[reader'[s].cover].key
               /\ reader'[s].stamp <= upstream'[reader'[s].cover].at
               /\ reader'[s].existing # None =>
                     /\ reader'[s].key # Special
                     /\ rows'[reader'[s].existing].key = reader'[s].key
    BY <1>1, <1>2, <2>1, FetchedPage
  <2>2. CASE reader'[s] = reader[s]
    <3>1. /\ reader[s].cover \in Covers
          /\ reader[s].existing # None => reader[s].existing \in Rows \ Unused
      BY <1>1, <2>2 DEF TypeInv, WritesWhatItFetched, TypeOK, ReaderType
    <3>2. reader[s].existing # None =>
             rows'[reader[s].existing].key = rows[reader[s].existing].key
      BY <3>1, KeysStay
    <3>3. /\ reader[s].key = upstream[reader[s].cover].key
          /\ reader[s].stamp <= upstream[reader[s].cover].at
          /\ reader[s].existing # None =>
                reader[s].key # Special /\ rows[reader[s].existing].key = reader[s].key
      BY <2>2 DEF FollowInv, PagesFollowCovers
    <3> QED
      BY <1>2, <1>3, <2>2, <3>1, <3>2, <3>3
  <2> QED
    BY <1>1, <2>1, <2>2, PageInHand
<1> QED
  BY <1>1, <1>3, <1>4, <1>5 DEF FollowInv

(* Two listed covers do not share a numbered key.                          *)
LEMMA OneCoverListed ==
    ASSUME FollowInv, SettledKeys, NEW c \in Listed, NEW d \in Listed, c # d
    PROVE  ~Replaces(c, d)
  BY DEF FollowInv, ListingHolds, Listable, SettledKeys, Replaces, Listed

LEMMA ReplacementsStep ==
    ASSUME FollowInv, ReplacementsAreNewer, SettledKeys, [Next]_vars
    PROVE  ReplacementsAreNewer'
<1>1. TypeInv /\ TypeInv' /\ FollowInv'
  BY FollowStep DEF FollowInv
<1>2. /\ changes \in Int
      /\ \A c \in Covers : upstream[c].at \in Int /\ upstream'[c].at \in Int
      /\ \A r \in Rows : rows'[r].at \in Int
      /\ \A s \in Readers : reader'[s].stamp \in Int
  BY <1>1, Constants DEF TypeInv, TypeOK, RowType, CoverType, ReaderType, Stamps
<1> SUFFICES ASSUME NEW c \in Covers, NEW d \in Covers, Replaces(c, d)'
             PROVE  /\ \A r \in Rows \ Unused' :
                          rows'[r].cover = d => rows'[r].at < upstream'[c].at
                    /\ \A s \in Readers :
                          reader'[s].at = "writing" /\ reader'[s].cover = d =>
                             reader'[s].stamp < upstream'[c].at
  BY DEF ReplacementsAreNewer
<1>3. c # d
  BY DEF Replaces
<1>4. CASE upstream'[c] # upstream[c]
  <2>1. upstream'[c].at = changes + 2 /\ upstream' = [upstream EXCEPT ![c] = upstream'[c]]
    BY <1>4, ListingStep
  <2>2. upstream'[d].at <= changes + 1
    BY <1>1, <1>3, <2>1 DEF FollowInv, ListingHolds, TypeInv, TypeOK
  <2>3. /\ \A r \in Rows \ Unused' : rows'[r].at <= upstream'[rows'[r].cover].at
        /\ \A s \in Readers : reader'[s].at = "writing" =>
              reader'[s].stamp <= upstream'[reader'[s].cover].at
    BY <1>1 DEF FollowInv, RowsFollowCovers, PagesFollowCovers
  <2> QED
    BY <1>2, <2>1, <2>2, <2>3
<1>5. CASE upstream'[c] = upstream[c]
  <2>1. Replaces(c, d)
    BY <1>5, ListingStep DEF Replaces, Listed
  <2>2. /\ \A r \in Rows \ Unused : rows[r].cover = d => rows[r].at < upstream[c].at
        /\ \A s \in Readers : reader[s].at = "writing" /\ reader[s].cover = d =>
              reader[s].stamp < upstream[c].at
    BY <2>1 DEF ReplacementsAreNewer
  <2>3. ASSUME NEW r \in Rows \ Unused', rows'[r].cover = d
        PROVE  rows'[r].at < upstream'[c].at
    <3>1. ASSUME NEW s \in Readers, UpsertVolume(s), r = Target(s)
          PROVE  rows'[r].at < upstream'[c].at
      <4>1. rows'[r].cover = reader[s].cover /\ rows'[r].at = reader[s].stamp
        BY <1>1, <3>1, TargetOf DEF UpsertVolume, TypeInv, TypeOK
      <4> QED
        BY <1>5, <2>2, <2>3, <3>1, <4>1 DEF UpsertVolume
    <3>2. CASE \A s \in Readers : ~(UpsertVolume(s) /\ r = Target(s))
      <4>1. r \notin Unused /\ rows'[r].cover = rows[r].cover /\ rows'[r].at = rows[r].at
        BY <1>1, <3>2, RowsChange
      <4> QED
        BY <1>5, <2>2, <2>3, <4>1
    <3> QED
      BY <3>1, <3>2
  <2>4. ASSUME NEW s \in Readers, reader'[s].at = "writing", reader'[s].cover = d
        PROVE  reader'[s].stamp < upstream'[c].at
    <3>1. ASSUME NEW e \in Covers, FetchCover(s, e) PROVE FALSE
      <4>1. e = d /\ d \in Listed
        BY <1>1, <2>4, <3>1, FetchedPage
      <4> QED
        BY <1>3, <2>1, <4>1, OneCoverListed DEF Replaces
    <3>2. reader'[s] = reader[s]
      BY <1>1, <2>4, <3>1, PageInHand
    <3> QED
      BY <1>5, <2>2, <2>4, <3>2
  <2> QED
    BY <2>3, <2>4
<1> QED
  BY <1>4, <1>5

(* What an undisturbed refresh has in hand is not older than what is       *)
(* stored: it is not skipped.                                              *)
LEMMA CalmNeverSkips ==
    ASSUME MirrorInv, SettledKeys, NEW s \in calm, reader[s].at = "writing"
    PROVE  ~KeepsNewer(s)
<1> DEFINE c == reader[s].cover
           r == reader[s].existing
<1>1. /\ s \in Readers /\ c \in Listed /\ c \in Covers /\ reader[s].stamp = upstream[c].at
      /\ reader[s].key = upstream[c].key
  BY DEF MirrorInv, CalmProgress, Writes, FollowInv, PagesFollowCovers, TypeInv, TypeOK, Listed
<1>2. SUFFICES ASSUME r # None, rows[r].at > upstream[c].at PROVE FALSE
  BY <1>1 DEF KeepsNewer
<1>3. r \in Rows \ Unused
  BY <1>1, <1>2 DEF MirrorInv, FollowInv, TypeInv, TypeOK, WritesWhatItFetched, ReaderType
<1>4. /\ rows[r].cover \in Covers /\ rows[r].key = upstream[rows[r].cover].key
      /\ rows[r].at <= upstream[rows[r].cover].at
      /\ upstream[c].key # Special /\ rows[r].key = upstream[c].key
  BY <1>1, <1>2, <1>3 DEF MirrorInv, FollowInv, RowsFollowCovers, PagesFollowCovers
<1>5. rows[r].at \in Int /\ upstream[c].at \in Int
  BY <1>1, <1>3, Constants DEF MirrorInv, FollowInv, TypeInv, TypeOK, RowType, CoverType, Stamps
<1>6. CASE rows[r].cover = c
  BY <1>2, <1>4, <1>5, <1>6
<1>7. CASE rows[r].cover # c
  <2>1. Replaces(c, rows[r].cover)
    BY <1>1, <1>4, <1>7 DEF Replaces
  <2>2. rows[r].at < upstream[c].at
    BY <1>1, <1>3, <1>4, <2>1 DEF MirrorInv, ReplacementsAreNewer
  <2> QED
    BY <1>2, <1>5, <2>2
<1> QED
  BY <1>6, <1>7

(* An undisturbed refresh leaves what is stored and listed: it overwrites  *)
(* a row with its own cover, or the row of a cover that lost its key.      *)
LEMMA CalmUpsertKeepsStored ==
    ASSUME MirrorInv, SettledKeys, NEW s \in calm, UpsertVolume(s), NEW c \in Listed
    PROVE  /\ Stored(c) => Stored(c)'
           /\ c = reader[s].cover => Stored(c)'
<1> DEFINE t == Target(s)
           d == reader[s].cover
<1>1. FollowInv /\ TypeInv /\ s \in Readers /\ reader[s].at = "writing" /\ HasRoom(s)
  BY DEF MirrorInv, FollowInv, TypeInv, TypeOK, UpsertVolume
<1>2. /\ t \in Rows
      /\ t \notin Unused => /\ rows[t].key = reader[s].key
                            /\ rows[t].cover = d \/ reader[s].key # Special
      /\ Written(s).status = "active" /\ Written(s).cover = d
  BY <1>1, TargetOf
<1>3. \A r \in Rows : rows'[r] = IF r = t THEN Written(s) ELSE rows[r]
  BY <1>1, <1>2 DEF UpsertVolume, TypeInv, TypeOK
<1>4. t \in Active' /\ rows'[t].cover = d
  BY <1>2, <1>3 DEF Active
<1> HIDE DEF t
<1>5. ASSUME Stored(c) PROVE Stored(c)'
  <2>1. PICK r \in Active : rows[r].cover = c
    BY <1>5 DEF Stored
  <2>2. r \in Rows /\ r \notin Unused
    BY <2>1 DEF Active, Unused
  <2>3. CASE r # t
    <3>1. r \in Active' /\ rows'[r].cover = c
      BY <1>3, <2>1, <2>2, <2>3 DEF Active
    <3> QED
      BY <3>1 DEF Stored
  <2>4. CASE r = t
    <3>1. c = d
      <4> SUFFICES ASSUME c # d PROVE FALSE
        OBVIOUS
      <4>1. d \in Listed /\ c \in Covers /\ d \in Covers
        BY <1>1 DEF MirrorInv, CalmProgress, Writes, Listed
      <4>2. upstream[c].key = upstream[d].key /\ upstream[c].key # Special
        BY <1>1, <1>2, <2>1, <2>2, <2>4 DEF FollowInv, RowsFollowCovers, PagesFollowCovers
      <4> QED
        BY <1>1, <4>1, <4>2, OneCoverListed DEF Replaces
    <3> QED
      BY <1>4, <3>1 DEF Stored
  <2> QED
    BY <2>3, <2>4
<1>6. c = d => Stored(c)'
  BY <1>4 DEF Stored
<1> QED
  BY <1>5, <1>6

(* As long as some refresh is undisturbed the listing does not move, and   *)
(* what is listed and stored stays stored.                                 *)
LEMMA CalmWorld ==
    ASSUME MirrorInv, SettledKeys, [Next]_vars, calm' # {}
    PROVE  /\ Listed' = Listed /\ upstream' = upstream
           /\ \A c \in Listed : Position(c)' = Position(c)
           /\ \A c \in Listed : Stored(c) => Stored(c)'
<1>1. TypeInv
  BY DEF MirrorInv, FollowInv
<1>2. \A c \in Covers, u \in CoverType : ~ChangeUpstream(c, u)
  BY DEF ChangeUpstream
<1>3. upstream' = upstream
  BY <1>2 DEF SettledKeys, Next, RefreshStep, BeginRefresh, FetchCover, FetchEnd,
     UpsertVolume, SkipVolume, UpsertConflict, Reconcile, DropRefresh, Expire, vars,
     upstreamVars
<1>4. Listed' = Listed /\ \A c \in Listed : Position(c)' = Position(c)
  BY <1>3 DEF Listed, Position, Before
<1>5. ASSUME NEW c \in Listed, Stored(c) PROVE Stored(c)'
  <2>1. ASSUME NEW q \in Readers, UpsertVolume(q) PROVE Stored(c)'
    <3>1. q \in calm
      BY <2>1 DEF UpsertVolume, RefreshWrites
    <3> QED
      BY <1>5, <2>1, <3>1, CalmUpsertKeepsStored
  <2>2. ASSUME NEW q \in Readers, Reconcile(q) PROVE Stored(c)'
    <3>1. q \in calm /\ reader[q].at = "reconciling"
      BY <2>2 DEF Reconcile, RefreshWrites
    <3>2. reader[q].seen = Listed
      BY <3>1 DEF MirrorInv, CalmProgress, Reconciles
    <3>3. PICK r \in Active : rows[r].cover = c
      BY <1>5 DEF Stored
    <3>4. r \in Rows /\ rows'[r] = rows[r]
      BY <2>2, <3>2, <3>3 DEF Reconcile, Active
    <3> QED
      BY <3>3, <3>4 DEF Stored, Active
  <2>3. CASE UNCHANGED rows
    BY <1>5, <2>3 DEF Stored, Active
  <2> QED
    BY <1>2, <2>1, <2>2, <2>3
       DEF SettledKeys, Next, RefreshStep, BeginRefresh, FetchCover, FetchEnd,
           SkipVolume, UpsertConflict, DropRefresh, Expire, vars
<1> QED
  BY <1>3, <1>4, <1>5

LEMMA WhoIsCalm ==
    ASSUME SettledKeys, [Next]_vars, NEW s \in calm', calm \in SUBSET Readers
    PROVE  s \in calm \/ \E forced \in BOOLEAN : s \in Readers /\ BeginRefresh(s, forced)
  BY DEF SettledKeys, Next, RefreshStep, BeginRefresh, FetchCover, FetchEnd, UpsertVolume,
     SkipVolume, UpsertConflict, Reconcile, RefreshWrites, DropRefresh, Expire,
     ChangeUpstream, vars, observerVars

LEMMA ProgressStep ==
    ASSUME MirrorInv, SettledKeys, [Next]_vars
    PROVE  CalmProgress'
<1> SUFFICES ASSUME NEW s \in calm' PROVE Fetches(s)' /\ Writes(s)' /\ Reconciles(s)'
  BY DEF CalmProgress
<1>1. TypeInv /\ TypeOK /\ TypeInv' /\ s \in Readers
  BY TypeStep DEF MirrorInv, FollowInv, TypeInv, TypeOK
<1>2. /\ Listed' = Listed /\ upstream' = upstream
      /\ \A c \in Listed : Position(c)' = Position(c)
      /\ \A c \in Listed : Stored(c) => Stored(c)'
  BY CalmWorld
<1>3. /\ \A c \in Listed : Position(c) \in Nat /\ Position(c) < Cardinality(Listed)
      /\ Cardinality(Listed) \in Nat
      /\ reader[s].offset \in Nat
  BY <1>1, PositionIsBelow, ListingIsFinite, Constants DEF TypeOK, ReaderType
<1>4. \A v : reader' = [reader EXCEPT ![s] = v] => reader'[s] = v
  BY <1>1 DEF TypeOK
<1>5. ASSUME NEW forced \in BOOLEAN, BeginRefresh(s, forced)
      PROVE  Fetches(s)' /\ Writes(s)' /\ Reconciles(s)'
  <2>1. reader'[s].at = "fetching" /\ reader'[s].offset = 0 /\ reader'[s].seen = {}
    <3>1. reader'[s] = [NoReader EXCEPT !.at = "fetching"]
      BY <1>4, <1>5 DEF BeginRefresh
    <3> QED
      BY <3>1 DEF NoReader
  <2>2. {c \in Listed : Position(c) < 0} = {}
    BY <1>3
  <2>3. {c \in Listed' : Position(c)' < 0} = {}
    BY <1>2, <2>2
  <2> QED
    BY <2>1, <2>3 DEF Fetches, Writes, Reconciles
<1> USE DEF Fetches, Writes, Reconciles
<1>6. s \in calm => Fetches(s) /\ Writes(s) /\ Reconciles(s)
  BY DEF MirrorInv, CalmProgress
<1>7. CASE reader'[s] = reader[s]
  <2>1. s \in calm
    BY <1>1, <1>5, <1>7, WhoIsCalm DEF TypeOK, BeginRefresh, NoReader
  <2>2. Fetches(s) /\ Writes(s) /\ Reconciles(s)
    BY <1>6, <2>1
  <2>3. \A n \in Nat : {c \in Listed' : Position(c)' < n} = {c \in Listed : Position(c) < n}
    BY <1>2
  <2>4. Fetches(s)'
    BY <1>2, <1>3, <1>7, <2>2, <2>3
  <2>5. Writes(s)'
    BY <1>2, <1>3, <1>7, <2>2, <2>3
  <2>6. Reconciles(s)'
    BY <1>2, <1>7, <2>2
  <2> QED
    BY <2>4, <2>5, <2>6
<1>8. ASSUME NEW c \in Covers, FetchCover(s, c)
      PROVE  Fetches(s)' /\ Writes(s)' /\ Reconciles(s)'
  <2>1. /\ reader'[s].at = "writing" /\ reader'[s].cover = c
        /\ reader'[s].stamp = upstream[c].at /\ reader'[s].offset = reader[s].offset
        /\ reader'[s].seen = reader[s].seen \cup {c}
        /\ reader[s].at = "fetching" /\ Position(c) = reader[s].offset /\ c \in Listed
        /\ s \in calm
    BY <1>1, <1>8, FetchedPage
  <2>2. /\ reader[s].seen = {d \in Listed : Position(d) < reader[s].offset}
        /\ \A d \in reader[s].seen : Stored(d)
    BY <1>6, <2>1
  <2>3. \A d \in Listed : Position(d) < reader[s].offset + 1 <=>
                             Position(d) < reader[s].offset \/ d = c
    BY <1>1, <1>3, <2>1, PositionsDiffer
  <2>4. reader'[s].seen = {d \in Listed' : Position(d)' < reader'[s].offset + 1}
    BY <1>2, <2>1, <2>2, <2>3
  <2> QED
    BY <1>2, <2>1, <2>2, <2>4
<1>9. CASE FetchEnd(s)
  <2>1. reader'[s] = [reader[s] EXCEPT !.at = "reconciling"] /\ reader[s] \in ReaderType
    BY <1>1, <1>4, <1>9 DEF FetchEnd, TypeOK
  <2>2. /\ reader'[s].at = "reconciling" /\ reader'[s].seen = reader[s].seen
        /\ reader[s].at = "fetching" /\ reader[s].offset >= Cardinality(Listed)
        /\ s \in calm
    BY <1>9, <2>1 DEF FetchEnd, ReaderType, observerVars
  <2>3. reader[s].seen = Listed
    BY <1>3, <1>6, <2>2
  <2> QED
    BY <1>2, <1>6, <2>2, <2>3
<1>10. CASE UpsertVolume(s)
  <2>1. s \in calm /\ reader[s].at = "writing"
    BY <1>10 DEF UpsertVolume, RefreshWrites
  <2>2. /\ reader'[s].at = "fetching" /\ reader'[s].offset = reader[s].offset + 1
        /\ reader'[s].seen = reader[s].seen
    <3>1. /\ reader \in [Readers -> ReaderType] /\ s \in Readers
          /\ reader' = [reader EXCEPT ![s] =
                            [NoReader EXCEPT !.at = "fetching", !.offset = reader[s].offset + 1,
                                             !.seen = reader[s].seen]]
      BY <1>1, <1>10 DEF UpsertVolume, NextPage, TypeOK
    <3> QED
      BY <3>1 DEF NoReader
  <2>3. /\ reader[s].seen = {c \in Listed : Position(c) < reader[s].offset + 1}
        /\ \A c \in reader[s].seen \ {reader[s].cover} : Stored(c)
        /\ reader[s].cover \in Listed
    BY <1>6, <2>1
  <2>4. \A c \in Listed : c = reader[s].cover => Stored(c)'
    BY <1>10, <2>1, <2>3, CalmUpsertKeepsStored
  <2>5. \A c \in reader'[s].seen : Stored(c)'
    BY <1>2, <2>2, <2>3, <2>4
  <2>6. reader'[s].seen = {c \in Listed' : Position(c)' < reader'[s].offset}
    BY <1>2, <2>2, <2>3
  <2> QED
    BY <2>2, <2>5, <2>6
<1>11. ~SkipVolume(s)
  <2> SUFFICES ASSUME SkipVolume(s) PROVE FALSE
    OBVIOUS
  <2>1. s \in calm /\ reader[s].at = "writing" /\ KeepsNewer(s)
    BY DEF SkipVolume, observerVars
  <2> QED
    BY <2>1, CalmNeverSkips
<1>12. CASE UpsertConflict(s) \/ Reconcile(s) \/ DropRefresh(s)
  <2>1. reader'[s] = NoReader
    BY <1>4, <1>12 DEF UpsertConflict, Reconcile, DropRefresh, EndRefresh
  <2> QED
    BY <2>1 DEF NoReader
<1> QED
  BY <1>1, <1>5, <1>7, <1>8, <1>9, <1>10, <1>11, <1>12, ReaderStep DEF RefreshStep

(* A refresh that completes undisturbed leaves the catalog equal to the    *)
(* listing, whatever the earlier refreshes left behind and however it      *)
(* interleaves with other undisturbed ones, as long as nobody edits and    *)
(* MangaDex neither lists two covers of a key nor moves one to another.    *)
(* Without these conditions it does not hold (README.md).                  *)
THEOREM CompletedRefreshMirrors == SettledKeys /\ Spec => CalmRefreshMirrors
<1> SUFFICES ASSUME SettledKeys PROVE Spec => CalmRefreshMirrors
  OBVIOUS
<1> DEFINE Mirrors == \A s \in Readers : Reconcile(s) /\ s \in calm => Mirrored'
<1>1. Init => MirrorInv
  <2> SUFFICES ASSUME Init PROVE MirrorInv
    OBVIOUS
  <2>1. TypeInv /\ Rows \ Unused = {} /\ calm = {}
        /\ \A s \in Readers : reader[s].at # "writing"
    BY TypeInit DEF Init, Unused, NoReader
  <2>2. ListingHolds
    BY DEF Init, ListingHolds
  <2> QED
    BY <2>1, <2>2 DEF MirrorInv, FollowInv, RowsFollowCovers, PagesFollowCovers,
       ReplacementsAreNewer, CalmProgress
<1>2. MirrorInv /\ [Next]_vars => MirrorInv'
  BY FollowStep, ReplacementsStep, ProgressStep DEF MirrorInv
<1>3. MirrorInv /\ MirrorInv' /\ [Next]_vars => [Mirrors]_vars
  <2> SUFFICES ASSUME MirrorInv, MirrorInv', [Next]_vars,
                      NEW s \in Readers, Reconcile(s), s \in calm
               PROVE  Mirrored'
    OBVIOUS
  <2>1. reader[s].at = "reconciling" /\ calm' # {} /\ upstream' = upstream
    BY DEF Reconcile, RefreshWrites, upstreamVars
  <2>2. reader[s].seen = Listed /\ \A c \in Listed : Stored(c)
    BY <2>1 DEF MirrorInv, CalmProgress, Reconciles
  <2>3. Listed' = Listed /\ \A c \in Listed : Stored(c)'
    BY <2>1, <2>2, CalmWorld
  <2>4. ASSUME NEW r \in Active', rows'[r].cover # None
        PROVE  /\ rows'[r].cover \in Listed'
               /\ rows'[r].key = upstream'[rows'[r].cover].key
    <3>1. r \in Rows \ Unused' /\ r \in Rows /\ rows'[r].status = "active"
      BY DEF Active, Unused
    <3>2. rows'[r].key = upstream'[rows'[r].cover].key
      BY <3>1 DEF MirrorInv, FollowInv, RowsFollowCovers
    <3>3. rows'[r] = rows[r] /\ (r \in Active => rows[r].cover \in Listed)
      <4>1. rows'[r] = IF r \in Active /\ rows[r].cover \notin reader[s].seen \cup {None}
                       THEN [rows[r] EXCEPT !.status = "deleted"] ELSE rows[r]
        BY <3>1 DEF Reconcile
      <4>2. rows[r] \in RowType
        BY <3>1 DEF MirrorInv, FollowInv, TypeInv, TypeOK
      <4> QED
        BY <2>2, <2>4, <3>1, <4>1, <4>2 DEF RowType
    <3>4. r \in Active
      BY <3>1, <3>3 DEF Active
    <3> QED
      BY <2>3, <3>2, <3>3, <3>4
  <2>5. \A c \in Listed' : \E r \in Active' : rows'[r].cover = c
    BY <2>3 DEF Stored
  <2> QED
    BY <2>4, <2>5 DEF Mirrored
<1> QED
  BY <1>1, <1>2, <1>3, PTL DEF Spec, CalmRefreshMirrors

=============================================================================
