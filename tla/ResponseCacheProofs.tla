------------------------- MODULE ResponseCacheProofs -------------------------
(***************************************************************************)
(* Theorems about the response cache, for any number of requests, pages    *)
(* and edits.  The invariant follows an answered edit: nothing stored and  *)
(* no response under way is older than it, except what was made while the  *)
(* edit was being answered.                                                *)
(***************************************************************************)
EXTENDS ResponseCache, SumTheorems, TLAPS

(* The types the argument needs.                                           *)
Typed ==
    /\ edition \in Nat /\ answered \in Nat
    /\ at \in [Requests -> Places]
    /\ made \in [Requests -> Nat] /\ floor \in [Requests -> Nat]
    /\ overlaps \in [Requests -> BOOLEAN]
    /\ \A p \in DOMAIN entries :
          entries[p].made \in Nat /\ entries[p].overlaps \in BOOLEAN

(* An edit is committed before it is answered.                             *)
AnsweredWereCommitted ==
    /\ answered <= edition
    /\ \A r \in Requests : made[r] <= edition /\ floor[r] <= answered
    /\ \A p \in DOMAIN entries : entries[p].made <= edition

(* What is stored, or about to be, shows every answered edit.              *)
StoredShow == \A p \in DOMAIN entries : entries[p].made >= answered \/ entries[p].overlaps
MadeShow == \A r \in Requests : at[r] = "made" => made[r] >= answered \/ overlaps[r]

ShowInv == Typed /\ AnsweredWereCommitted /\ StoredShow /\ MadeShow /\ EditsShow

(* Dropping pages leaves the others as they were.                          *)
LEMMA RemoveKeeps ==
    ASSUME NEW ps, Remove(ps)
    PROVE  /\ DOMAIN entries' \subseteq DOMAIN entries
           /\ \A p \in DOMAIN entries' : entries'[p] = entries[p]
  BY DEF Remove, Restrict

(* Storing a page leaves the survivors as they were.                       *)
LEMMA InsertKeeps ==
    ASSUME NEW p, NEW entry, Insert(p, entry)
    PROVE  \A q \in DOMAIN entries' :
              entries'[q] = entry \/ (q \in DOMAIN entries /\ entries'[q] = entries[q])
<1> DEFINE others == Restrict(entries, DOMAIN entries \ {p})
<1>1. PICK ps \in SUBSET DOMAIN others :
        entries' = [q \in ps \cup {p} |-> IF q = p THEN entry ELSE others[q]]
  BY DEF Insert
<1>2. \A q \in DOMAIN others : q \in DOMAIN entries /\ others[q] = entries[q]
  BY DEF Restrict
<1> QED
  BY <1>1, <1>2

(* Growing older changes nothing else of an entry.                         *)
LEMMA TickKeeps ==
    ASSUME Tick
    PROVE  /\ DOMAIN entries' = DOMAIN entries
           /\ \A p \in DOMAIN entries' : /\ entries'[p].made = entries[p].made
                                         /\ entries'[p].overlaps = entries[p].overlaps
  BY DEF Tick, Older

(* The requests that read the cache, or drop pages from it, keep the       *)
(* invariant.                                                              *)
LEMMA BeginStep ==
    ASSUME ShowInv, NEW r \in Requests, NEW p \in Pages,
           Hit(r, p) \/ Miss(r, p) \/ Refresh(r, p)
    PROVE  ShowInv'
<1> USE DEF ShowInv, Typed, AnsweredWereCommitted, StoredShow, MadeShow, EditsShow,
        Begin, Place, Places, cacheVars
<1>1. CASE Hit(r, p)
  <2>1. /\ p \in DOMAIN entries /\ at[r] = "idle"
        /\ at' = [at EXCEPT ![r] = "done"]
        /\ floor' = [floor EXCEPT ![r] = answered]
        /\ made' = [made EXCEPT ![r] = entries[p].made]
        /\ overlaps' = [overlaps EXCEPT ![r] = entries[p].overlaps]
        /\ UNCHANGED <<entries, edition, answered>>
    BY <1>1 DEF Hit, Fresh
  <2>2. entries[p].overlaps \in BOOLEAN
    BY <2>1
  <2>3. Typed'
    BY <2>1, <2>2
  <2>4. AnsweredWereCommitted'
    BY <2>1
  <2>5. StoredShow' /\ MadeShow'
    BY <2>1
  <2>6. EditsShow'
    BY <2>1
  <2> QED
    BY <2>3, <2>4, <2>5, <2>6
<1>2. CASE Miss(r, p)
  <2>1. Remove({p})
    BY <1>2 DEF Miss
  <2>2. /\ DOMAIN entries' \subseteq DOMAIN entries
        /\ \A q \in DOMAIN entries' : entries'[q] = entries[q]
    BY <2>1, RemoveKeeps
  <2> QED
    BY <1>2, <2>2 DEF Miss
<1>3. CASE Refresh(r, p)
  <2>1. Remove({q \in Pages : PathOf[q] = PathOf[p]})
    BY <1>3 DEF Refresh
  <2>2. /\ DOMAIN entries' \subseteq DOMAIN entries
        /\ \A q \in DOMAIN entries' : entries'[q] = entries[q]
    BY <2>1, RemoveKeeps
  <2> QED
    BY <1>3, <2>2 DEF Refresh
<1> QED
  BY <1>1, <1>2, <1>3

(* Storing keeps it: what is stored is what was made.                      *)
LEMMA StoreStep ==
    ASSUME ShowInv, NEW r \in Requests, Store(r)
    PROVE  ShowInv'
<1> DEFINE entry == [age |-> 0, ttl |-> TtlOf(page[r]), length |-> length[r],
                     made |-> made[r], overlaps |-> overlaps[r]]
<1>1. Insert(page[r], entry)
  BY DEF Store
<1> HIDE DEF entry
<1>2. \A q \in DOMAIN entries' :
        entries'[q] = entry \/ (q \in DOMAIN entries /\ entries'[q] = entries[q])
  BY <1>1, InsertKeeps
<1>3. entry.made = made[r] /\ entry.overlaps = overlaps[r]
  BY DEF entry
<1> QED
  BY <1>2, <1>3 DEF Store, ShowInv, Typed, AnsweredWereCommitted, StoredShow, MadeShow,
     EditsShow, Place, Places, observerVars

(* So does whatever leaves the cache alone.                                *)
LEMMA OtherStep ==
    ASSUME ShowInv, NEW r \in Requests,
           \/ \E n \in Lengths : Respond(r, n)
           \/ Bypass(r) \/ Finish(r) \/ Fail(r)
           \/ BeginEdit(r) \/ CommitEdit(r)
    PROVE  ShowInv'
<1> USE DEF ShowInv, Typed, AnsweredWereCommitted, StoredShow, MadeShow, EditsShow,
        Place, Places, Forget, cacheVars, observerVars
<1>1. ASSUME NEW n \in Lengths, Respond(r, n) PROVE ShowInv'
  BY <1>1 DEF Respond
<1>2. CASE Bypass(r)
  BY <1>2 DEF Bypass
<1>3. CASE Finish(r) \/ Fail(r)
  <2>1. /\ at' = [at EXCEPT ![r] = "idle"] /\ made' = [made EXCEPT ![r] = 0]
        /\ floor' = [floor EXCEPT ![r] = 0] /\ overlaps' = [overlaps EXCEPT ![r] = FALSE]
        /\ UNCHANGED <<entries, edition, answered>>
    BY <1>3 DEF Finish, Fail
  <2> QED
    BY <2>1
<1>4. CASE BeginEdit(r)
  BY <1>4 DEF BeginEdit
<1>5. CASE CommitEdit(r)
  BY <1>5 DEF CommitEdit
<1> QED
  BY <1>1, <1>2, <1>3, <1>4, <1>5

(* An answered edit finds the cache empty and marks what was made before.  *)
LEMMA AnswerStep ==
    ASSUME ShowInv, NEW r \in Requests, AnswerEdit(r)
    PROVE  ShowInv'
<1>1. DOMAIN entries' = {}
  BY DEF AnswerEdit, Clear
<1>2. answered' \in {answered, made[r]} /\ answered' <= edition /\ answered <= answered'
  BY DEF AnswerEdit, Acknowledge, ShowInv, Typed, AnsweredWereCommitted
<1>3. \A q \in Requests :
        overlaps'[q] = (overlaps[q] \/ (at[q] = "made" /\ made[q] < made[r]))
  BY DEF AnswerEdit, Acknowledge
<1>4. MadeShow'
  <2> SUFFICES ASSUME NEW q \in Requests, at'[q] = "made", ~overlaps'[q]
               PROVE  made'[q] >= answered'
    BY DEF MadeShow
  <2>1. at[q] = "made" /\ made'[q] = made[q]
    BY DEF AnswerEdit, Acknowledge, ShowInv, Typed, Places
  <2>2. ~overlaps[q] /\ ~(made[q] < made[r])
    BY <1>3, <2>1
  <2>3. made[q] >= answered
    BY <2>1, <2>2 DEF ShowInv, MadeShow
  <2> QED
    BY <1>2, <2>1, <2>2, <2>3 DEF ShowInv, Typed
<1>5. EditsShow'
  BY <1>3 DEF AnswerEdit, Acknowledge, ShowInv, Typed, EditsShow, Places
<1>6. Typed'
  BY <1>1, <1>2 DEF AnswerEdit, Acknowledge, ShowInv, Typed, Places
<1>7. AnsweredWereCommitted'
  BY <1>1, <1>2 DEF AnswerEdit, Acknowledge, ShowInv, Typed, AnsweredWereCommitted
<1>8. StoredShow'
  BY <1>1 DEF StoredShow
<1> QED
  BY <1>4, <1>5, <1>6, <1>7, <1>8 DEF ShowInv

LEMMA TickStep == ShowInv /\ Tick => ShowInv'
<1> SUFFICES ASSUME ShowInv, Tick PROVE ShowInv'
  OBVIOUS
<1>1. /\ DOMAIN entries' = DOMAIN entries
      /\ \A p \in DOMAIN entries' : /\ entries'[p].made = entries[p].made
                                    /\ entries'[p].overlaps = entries[p].overlaps
  BY TickKeeps
<1> QED
  BY <1>1 DEF Tick, ShowInv, Typed, AnsweredWereCommitted, StoredShow, MadeShow,
     EditsShow, requestVars, observerVars

(* Whoever asks after an edit was answered is shown it, unless the page    *)
(* was made by a handler that had already read the catalog.                *)
THEOREM AnsweredEditsAreShown == Spec => []EditsShow
<1>1. Init => ShowInv
  BY DEF Init, ShowInv, Typed, AnsweredWereCommitted, StoredShow, MadeShow, EditsShow, Places
<1>2. ShowInv /\ [Next]_vars => ShowInv'
  <2> SUFFICES ASSUME ShowInv, [Next]_vars PROVE ShowInv'
    OBVIOUS
  <2>1. CASE UNCHANGED vars
    BY <2>1 DEF vars, cacheVars, requestVars, observerVars, ShowInv, Typed,
       AnsweredWereCommitted, StoredShow, MadeShow, EditsShow
  <2>2. CASE Next
    BY <2>2, BeginStep, StoreStep, OtherStep, AnswerStep, TickStep DEF Next
  <2> QED
    BY <2>1, <2>2
<1>3. ShowInv => EditsShow
  BY DEF ShowInv
<1> QED
  BY <1>1, <1>2, <1>3, PTL DEF Spec

(***************************************************************************)
(* Bytes are sums.                                                         *)
(***************************************************************************)

Weights(cached) == [p \in DOMAIN cached |-> cached[p].length]

LEMMA BytesAreSums ==
    ASSUME NEW cached, NEW ps \in SUBSET DOMAIN cached, IsFiniteSet(ps)
    PROVE  Bytes(cached, ps) = Sum(Weights(cached), ps)
<1> DEFINE w == Weights(cached)
           Body(f) == [s \in SUBSET ps |->
                          IF s = {} THEN 0 ELSE cached[Pick(s)].length + f[s \ {Pick(s)}]]
           iter == CHOOSE iter : iter = Body(iter)
<1>1. ASSUME NEW f PROVE IsFold(f, w, SUBSET ps) <=> f = Body(f)
  <2>1. \A s \in SUBSET ps : s # {} => w[Pick(s)] = cached[Pick(s)].length
    BY PickIsElement DEF Weights
  <2> HIDE DEF w
  <2>2. Body(f) = [s \in SUBSET ps |-> IF s = {} THEN 0 ELSE w[Pick(s)] + f[s \ {Pick(s)}]]
    BY <2>1
  <2> QED
    BY <2>2 DEF IsFold
<1> HIDE DEF w, Body
<1>2. \E f : f = Body(f)
  BY <1>1, FoldExists
<1>3. IsFold(iter, w, SUBSET ps)
  BY <1>1, <1>2
<1>4. Bytes(cached, ps) = iter[ps]
  BY DEF Bytes, MapThenSumSet, MapThenFoldSet, Body, Pick
<1> HIDE DEF iter
<1>5. Sum(w, ps) = iter[ps]
  BY <1>3, SumIsFold
<1> QED
  BY <1>4, <1>5 DEF w

(* A cache of whose entries the lengths are naturals.                      *)
IsCache(cached) ==
    IsFiniteSet(DOMAIN cached) /\ \A p \in DOMAIN cached : cached[p].length \in Nat

LEMMA BytesOfParts ==
    ASSUME NEW cached, IsCache(cached), NEW ps \in SUBSET DOMAIN cached,
           NEW qs \in SUBSET ps
    PROVE  /\ Bytes(cached, ps) \in Nat /\ Bytes(cached, qs) \in Nat
           /\ Bytes(cached, ps \ qs) \in Nat
           /\ Bytes(cached, ps) = Bytes(cached, qs) + Bytes(cached, ps \ qs)
           /\ Minus(Bytes(cached, ps), Bytes(cached, qs)) = Bytes(cached, ps \ qs)
<1> DEFINE w == Weights(cached)
<1>1. /\ IsFiniteSet(ps) /\ IsFiniteSet(qs) /\ IsFiniteSet(ps \ qs)
      /\ qs \in SUBSET DOMAIN cached /\ ps \ qs \in SUBSET DOMAIN cached
  BY FS_Subset DEF IsCache
<1>2. \A p \in ps : w[p] \in Nat
  BY DEF IsCache, Weights
<1> HIDE DEF w
<1>3. /\ Sum(w, ps) = Sum(w, qs) + Sum(w, ps \ qs)
      /\ Sum(w, qs) \in Nat /\ Sum(w, ps \ qs) \in Nat
  BY <1>1, <1>2, SumOfParts
<1>4. /\ Bytes(cached, ps) = Sum(w, ps) /\ Bytes(cached, qs) = Sum(w, qs)
      /\ Bytes(cached, ps \ qs) = Sum(w, ps \ qs)
  BY <1>1, BytesAreSums DEF w
<1>5. \A i, j \in Nat : Minus(i + j, i) = j
  BY DEF Minus
<1> QED
  BY <1>3, <1>4, <1>5

LEMMA BytesOfNone ==
    ASSUME NEW cached PROVE Bytes(cached, {}) = 0
<1>1. {} \in SUBSET DOMAIN cached /\ IsFiniteSet({})
  BY FS_EmptySet
<1> QED
  BY <1>1, BytesAreSums, SumOfNone

LEMMA BytesOfSame ==
    ASSUME NEW a, NEW b, NEW ps, IsFiniteSet(ps), ps \subseteq DOMAIN a, ps \subseteq DOMAIN b,
           \A p \in ps : a[p].length = b[p].length
    PROVE  Bytes(a, ps) = Bytes(b, ps)
<1>1. Bytes(a, ps) = Sum(Weights(a), ps) /\ Bytes(b, ps) = Sum(Weights(b), ps)
  BY BytesAreSums
<1>2. \A p \in ps : Weights(a)[p] = Weights(b)[p]
  BY DEF Weights
<1> QED
  BY <1>1, <1>2, SumCongruence

(***************************************************************************)
(* Eviction.                                                               *)
(***************************************************************************)

(* The recursion of Survivors: nothing more goes from a set in Stop, and   *)
(* from another one of its Old goes.                                       *)
Without(f, s, old) == UNION {f[s \ {p}] : p \in old}

IsEviction(f, Stop, Old, D) ==
    f = [s \in D |-> IF s \in Stop THEN {s} ELSE Without(f, s, Old[s])]

LEMMA WithoutElements ==
    ASSUME NEW f, NEW s, NEW old
    PROVE  \A x : x \in Without(f, s, old) <=> \E p \in old : x \in f[s \ {p}]
  BY DEF Without

LEMMA WithoutSame ==
    ASSUME NEW f, NEW g, NEW s, NEW old, \A p \in old : f[s \ {p}] = g[s \ {p}]
    PROVE  Without(f, s, old) = Without(g, s, old)
<1>1. {f[s \ {p}] : p \in old} = {g[s \ {p}] : p \in old}
  OBVIOUS
<1> QED
  BY <1>1 DEF Without

LEMMA EvictionExtends ==
    ASSUME NEW S, IsFiniteSet(S), NEW Stop, NEW Old, \A s \in SUBSET S : Old[s] \subseteq s,
           NEW n \in Nat, NEW g, IsEviction(g, Stop, Old, UpTo(S, n))
    PROVE  \E h : IsEviction(h, Stop, Old, UpTo(S, n + 1))
<1> DEFINE h == [s \in UpTo(S, n + 1) |->
                    IF s \in Stop THEN {s} ELSE Without(g, s, Old[s])]
<1>f. \A T \in SUBSET S : IsFiniteSet(T) /\ Cardinality(T) \in Nat
  BY FS_Subset, FS_CardinalityType
<1>1. \A s \in UpTo(S, n) : s \in UpTo(S, n + 1) /\ h[s] = g[s]
  <2>1. \A s \in UpTo(S, n) : s \in UpTo(S, n + 1)
    BY <1>f DEF UpTo
  <2>2. \A s \in UpTo(S, n) :
            g[s] = IF s \in Stop THEN {s} ELSE Without(g, s, Old[s])
    BY DEF IsEviction
  <2> QED
    BY <2>1, <2>2
<1>2. ASSUME NEW s \in UpTo(S, n + 1), NEW p \in Old[s]
      PROVE  s \ {p} \in UpTo(S, n)
  <2>1. s \in SUBSET S /\ p \in s
    BY DEF UpTo
  <2>2. IsFiniteSet(s) /\ Cardinality(s) \in Nat /\ Cardinality(s) <= n + 1
    BY <1>f DEF UpTo
  <2>3. Cardinality(s \ {p}) = Cardinality(s) - 1
    BY <2>1, <2>2, FS_RemoveElement
  <2> QED
    BY <2>1, <2>2, <2>3 DEF UpTo
<1>3. ASSUME NEW s \in UpTo(S, n + 1)
      PROVE  h[s] = IF s \in Stop THEN {s} ELSE Without(h, s, Old[s])
  <2>1. \A p \in Old[s] : h[s \ {p}] = g[s \ {p}]
    BY <1>1, <1>2
  <2>3. h[s] = IF s \in Stop THEN {s} ELSE Without(g, s, Old[s])
    OBVIOUS
  <2> HIDE DEF h
  <2>2. Without(h, s, Old[s]) = Without(g, s, Old[s])
    BY <2>1, WithoutSame
  <2> QED
    BY <2>2, <2>3
<1>4. h = [s \in UpTo(S, n + 1) |-> h[s]]
  OBVIOUS
<1> HIDE DEF h
<1>5. h = [s \in UpTo(S, n + 1) |->
              IF s \in Stop THEN {s} ELSE Without(h, s, Old[s])]
  BY <1>3, <1>4
<1> QED
  BY <1>5 DEF IsEviction

LEMMA EvictionExists ==
    ASSUME NEW S, IsFiniteSet(S), NEW Stop, {} \in Stop,
           NEW Old, \A s \in SUBSET S : Old[s] \subseteq s
    PROVE  \E f : IsEviction(f, Stop, Old, SUBSET S)
<1> DEFINE G == {n \in Nat : \E g : IsEviction(g, Stop, Old, UpTo(S, n))}
<1>1. 0 \in G
  <2> DEFINE g == [s \in UpTo(S, 0) |-> {s}]
  <2>1. \A s \in UpTo(S, 0) : s = {}
    BY FS_Subset, FS_CardinalityType, FS_EmptySet DEF UpTo
  <2>2. IsEviction(g, Stop, Old, UpTo(S, 0))
    BY <2>1 DEF IsEviction
  <2> QED
    BY <2>2
<1>2. \A n \in Nat : n \in G => n + 1 \in G
  BY EvictionExtends
<1> HIDE DEF G
<1>3. Cardinality(S) \in G
  BY <1>1, <1>2, NatInductionOnSet, FS_CardinalityType
<1>4. UpTo(S, Cardinality(S)) = SUBSET S
  BY FS_Subset DEF UpTo
<1>5. \E g : IsEviction(g, Stop, Old, UpTo(S, Cardinality(S)))
  BY <1>3 DEF G
<1> QED
  BY <1>4, <1>5

LEMMA EvictionStops ==
    ASSUME NEW S, IsFiniteSet(S), NEW Stop, {} \in Stop,
           NEW Old, \A s \in SUBSET S : Old[s] \subseteq s,
           NEW f, IsEviction(f, Stop, Old, SUBSET S)
    PROVE  f[S] \subseteq Stop
<1> DEFINE G == {T \in SUBSET S : f[T] \subseteq Stop}
<1>1. \A T \in SUBSET S :
          f[T] = IF T \in Stop THEN {T} ELSE Without(f, T, Old[T])
  BY DEF IsEviction
<1>2. {} \in G
  <2>1. {} \in SUBSET S
    OBVIOUS
  <2>2. f[{}] = {{}}
    BY <1>1, <2>1
  <2> QED
    BY <2>1, <2>2
<1>3. ASSUME NEW T \in SUBSET S, T # {}, \A p \in T : T \ {p} \in G
      PROVE  T \in G
  <2>1. CASE T \in Stop
    <3>1. f[T] = {T}
      BY <1>1, <2>1
    <3>2. f[T] \subseteq Stop
      BY <3>1, <2>1
    <3> QED
      BY <3>2
  <2>2. CASE T \notin Stop
    <3>1. f[T] = Without(f, T, Old[T])
      BY <1>1, <2>2
    <3>2. \A p \in Old[T] : f[T \ {p}] \subseteq Stop
      BY <1>3
    <3>3. ASSUME NEW x \in f[T] PROVE x \in Stop
      <4>1. PICK p \in Old[T] : x \in f[T \ {p}]
        BY <3>1 DEF Without
      <4> QED
        BY <3>2, <4>1
    <3>4. f[T] \subseteq Stop
      BY <3>3
    <3> QED
      BY <3>4
  <2> QED
    BY <2>1, <2>2
<1> HIDE DEF G
<1>4. SUBSET S \subseteq G
  BY <1>2, <1>3, SubsetInduction
<1>5. S \in G
  BY <1>4
<1> QED
  BY <1>5 DEF G

(* The entries in ps leave room for n bytes more.                          *)
LeavesRoom(cached, bytes, n, ps) ==
    /\ ~(Cardinality(ps) >= MaxEntries)
    /\ ~(Minus(bytes, Bytes(cached, DOMAIN cached \ ps)) + n > MaxBytes)

LEMMA SurvivorsFit ==
    ASSUME NEW cached, IsFiniteSet(DOMAIN cached), NEW bytes, NEW n
    PROVE  \A ps \in Survivors(cached, bytes, n) :
              ps \subseteq DOMAIN cached /\ (ps = {} \/ LeavesRoom(cached, bytes, n, ps))
<1> DEFINE D == DOMAIN cached
           Over(ps) ==
              \/ Cardinality(ps) >= MaxEntries
              \/ Minus(bytes, Bytes(cached, DOMAIN cached \ ps)) + n > MaxBytes
           Oldest(ps) == {p \in ps : \A q \in ps : cached[q].age <= cached[p].age}
           Body(f) == [ps \in SUBSET D |->
                          IF ps = {} \/ ~Over(ps) THEN {ps}
                          ELSE UNION {f[ps \ {p}] : p \in Oldest(ps)}]
           left == CHOOSE left : left = Body(left)
           Stop == {ps \in SUBSET D : ps = {} \/ ~Over(ps)}
           Old == [ps \in SUBSET D |-> Oldest(ps)]
<1>1. Survivors(cached, bytes, n) = left[D]
  BY DEF Survivors
<1>2. \A ps \in SUBSET D : Old[ps] \subseteq ps
  OBVIOUS
<1>3. {} \in Stop
  OBVIOUS
<1>4. \A ps \in Stop : ps \subseteq D /\ (ps = {} \/ LeavesRoom(cached, bytes, n, ps))
  BY DEF LeavesRoom
<1>5. ASSUME NEW f PROVE IsEviction(f, Stop, Old, SUBSET D) <=> f = Body(f)
  <2>1. ASSUME NEW ps \in SUBSET D
        PROVE  /\ ps \in Stop <=> (ps = {} \/ ~Over(ps))
               /\ Without(f, ps, Old[ps]) = UNION {f[ps \ {p}] : p \in Oldest(ps)}
    BY DEF Without
  <2> HIDE DEF Over, Oldest, Stop, Old
  <2>2. Body(f) = [ps \in SUBSET D |->
                      IF ps \in Stop THEN {ps} ELSE Without(f, ps, Old[ps])]
    BY <2>1
  <2> QED
    BY <2>2 DEF IsEviction
<1> HIDE DEF Body, Stop, Old
<1>6. \E f : IsEviction(f, Stop, Old, SUBSET D)
  BY <1>2, <1>3, EvictionExists
<1>7. \E f : f = Body(f)
  BY <1>5, <1>6
<1>8. left = Body(left)
  BY <1>7
<1> HIDE DEF left
<1>9. IsEviction(left, Stop, Old, SUBSET D)
  BY <1>5, <1>8
<1>10. left[D] \subseteq Stop
  BY <1>2, <1>3, <1>9, EvictionStops
<1> QED
  BY <1>1, <1>4, <1>10

(***************************************************************************)
(* The budget.                                                             *)
(***************************************************************************)

(* What the requests find: typed entries, counted and within the limits.   *)
CacheOK ==
    /\ \E ps \in SUBSET Pages : entries \in [ps -> EntryType]
    /\ WithinBudget

(* The locals of a request are those of its place.                         *)
LocalsOfPlace ==
    \A r \in Requests :
      /\ at[r] \in {"idle", "editing", "edited"} =>
            page[r] = NoPage /\ length[r] = 0 /\ ~overlaps[r]
      /\ at[r] \in {"handling", "made"} => page[r] \in Pages
      /\ at[r] = "made" => length[r] \in Lengths

BudgetInv == TypeOK /\ LocalsOfPlace /\ WithinBudget

LEMMA LongestTtlType == LongestTtl \in Nat
<1>1. Ttl \in Nat /\ PopularTtl \in Nat
  BY TtlAssumption
<1>2. \E x \in {Ttl, PopularTtl} : \A y \in {Ttl, PopularTtl} : x >= y
  BY <1>1
<1>3. Max({Ttl, PopularTtl}) \in {Ttl, PopularTtl}
  BY <1>2 DEF Max
<1> QED
  BY <1>1, <1>3 DEF LongestTtl

LEMMA BytesOfOne ==
    ASSUME NEW cached, NEW p \in DOMAIN cached, cached[p].length \in Nat
    PROVE  Bytes(cached, {p}) = cached[p].length
<1>1. IsFiniteSet({p}) /\ {p} \in SUBSET DOMAIN cached /\ {p} # {} /\ Pick({p}) = p
  BY FS_Singleton, PickIsElement
<1>2. Bytes(cached, {p}) = Sum(Weights(cached), {p})
  BY <1>1, BytesAreSums
<1>3. Sum(Weights(cached), {p}) = Weights(cached)[p] + Sum(Weights(cached), {p} \ {p})
  BY <1>1, SumOfPicked
<1>4. Sum(Weights(cached), {p} \ {p}) = 0 /\ Weights(cached)[p] = cached[p].length
  BY SumOfNone DEF Weights
<1> QED
  BY <1>2, <1>3, <1>4

LEMMA CacheFacts ==
    ASSUME CacheOK
    PROVE  /\ DOMAIN entries \in SUBSET Pages /\ IsFiniteSet(DOMAIN entries)
           /\ \A p \in DOMAIN entries :
                 entries[p] \in EntryType /\ entries[p].length \in Nat
           /\ IsCache(entries)
           /\ totalBytes \in 0..MaxBytes
<1>1. PICK ps \in SUBSET Pages : entries \in [ps -> EntryType]
  BY DEF CacheOK
<1>2. DOMAIN entries = ps /\ IsFiniteSet(ps)
  BY <1>1, PagesAssumption, FS_Subset
<1>3. \A p \in ps : entries[p] \in EntryType
  BY <1>1
<1>4. \A p \in ps : entries[p].length \in Nat
  BY <1>3, LengthsAssumption DEF EntryType
<1>5. IsCache(entries)
  BY <1>2, <1>4 DEF IsCache
<1>6. Bytes(entries, DOMAIN entries) \in Nat
  BY <1>5, BytesOfParts
<1>7. totalBytes \in Nat /\ totalBytes <= MaxBytes /\ MaxBytes \in Nat
  BY <1>6, LimitsAssumption DEF CacheOK, WithinBudget
<1> QED
  BY <1>2, <1>3, <1>4, <1>5, <1>7

(* Dropping pages takes exactly their bytes off the total.                 *)
LEMMA RemoveFits ==
    ASSUME CacheOK, NEW ps, Remove(ps)
    PROVE  CacheOK'
<1> DEFINE D == DOMAIN entries
           out == ps \cap D
<1>1. /\ D \in SUBSET Pages /\ IsFiniteSet(D) /\ IsCache(entries)
      /\ \A p \in D : entries[p] \in EntryType
      /\ totalBytes = Bytes(entries, D) /\ totalBytes <= MaxBytes
      /\ Cardinality(D) <= MaxEntries
  BY CacheFacts DEF CacheOK, WithinBudget
<1>2. /\ entries' = [p \in D \ ps |-> entries[p]]
      /\ totalBytes' = Minus(Bytes(entries, D), Bytes(entries, out))
  BY <1>1 DEF Remove, Restrict
<1>3. DOMAIN entries' = D \ ps /\ D \ ps = D \ out /\ out \in SUBSET D
  BY <1>2
<1>4. IsFiniteSet(D \ ps) /\ Cardinality(D \ ps) <= Cardinality(D)
      /\ Cardinality(D \ ps) \in Nat /\ Cardinality(D) \in Nat
  BY <1>1, FS_Subset, FS_CardinalityType
<1>5. Bytes(entries', D \ ps) = Bytes(entries, D \ ps)
  <2>1. \A p \in D \ ps : entries'[p].length = entries[p].length
    BY <1>2
  <2> QED
    BY <1>3, <1>4, <2>1, BytesOfSame
<1> HIDE DEF D, out
<1>6. /\ Minus(Bytes(entries, D), Bytes(entries, out)) = Bytes(entries, D \ out)
      /\ Bytes(entries, D) = Bytes(entries, out) + Bytes(entries, D \ out)
      /\ Bytes(entries, out) \in Nat /\ Bytes(entries, D \ out) \in Nat
  BY <1>1, <1>3, BytesOfParts DEF D
<1>7. totalBytes' = Bytes(entries', D \ ps) /\ totalBytes' <= MaxBytes
  BY <1>1, <1>2, <1>3, <1>5, <1>6, LimitsAssumption
<1>8. Cardinality(D \ ps) <= MaxEntries
  BY <1>1, <1>4, LimitsAssumption
<1>9. entries' \in [D \ ps -> EntryType] /\ D \ ps \in SUBSET Pages
  BY <1>1, <1>2
<1> QED
  BY <1>3, <1>7, <1>8, <1>9 DEF CacheOK, WithinBudget

(* An entry that fits by itself, stored among survivors, keeps the limits. *)
LEMMA InsertFits ==
    ASSUME CacheOK, NEW p \in Pages, NEW entry \in EntryType, Fits(entry.length),
           Insert(p, entry)
    PROVE  CacheOK'
<1> DEFINE D == DOMAIN entries
           rest == D \ {p}
           others == Restrict(entries, rest)
           bytes == BytesWithout(p)
           n == entry.length
<1>1. /\ D \in SUBSET Pages /\ IsFiniteSet(D) /\ IsCache(entries)
      /\ \A q \in D : entries[q] \in EntryType /\ entries[q].length \in Nat
      /\ totalBytes = Bytes(entries, D)
  BY CacheFacts DEF CacheOK, WithinBudget
<1>2. n \in Nat /\ n <= MaxBytes
  BY LengthsAssumption DEF EntryType, Fits
<1>3. /\ DOMAIN others = rest /\ IsFiniteSet(rest)
      /\ \A q \in rest : others[q] = entries[q]
      /\ IsCache(others)
  BY <1>1, FS_Subset DEF Restrict, IsCache
<1>4. PICK ps \in Survivors(others, bytes, n) \cap SUBSET rest :
         /\ entries' = [q \in ps \cup {p} |-> IF q = p THEN entry ELSE others[q]]
         /\ totalBytes' = Minus(bytes, Bytes(others, rest \ ps)) + n
  BY <1>3 DEF Insert
<1> HIDE DEF n
<1>5. bytes = Bytes(others, rest)
  <2>1. {p} \cap D \in SUBSET D /\ D \ ({p} \cap D) = rest
    OBVIOUS
  <2>2. bytes = Minus(Bytes(entries, D), Bytes(entries, {p} \cap D))
    BY <1>1 DEF BytesWithout
  <2>3. \A q \in rest : entries[q].length = others[q].length
    BY <1>3
  <2> HIDE DEF others, bytes, D
  <2>4. Minus(Bytes(entries, D), Bytes(entries, {p} \cap D)) = Bytes(entries, rest)
    BY <1>1, <2>1, BytesOfParts DEF D
  <2>5. rest \subseteq DOMAIN entries
    BY DEF D
  <2> HIDE DEF rest
  <2>6. Bytes(entries, rest) = Bytes(others, rest)
    BY <1>3, <2>3, <2>5, BytesOfSame
  <2> QED
    BY <2>2, <2>4, <2>6
<1> HIDE DEF others, bytes
<1>6. ps \in SUBSET rest /\ rest \ ps \in SUBSET rest /\ rest \ (rest \ ps) = ps
      /\ IsFiniteSet(ps)
  BY <1>3, <1>4, FS_Subset
<1>7. /\ Minus(bytes, Bytes(others, rest \ ps)) = Bytes(others, ps)
      /\ Bytes(others, ps) \in Nat
  BY <1>3, <1>5, <1>6, BytesOfParts
<1>8. /\ DOMAIN entries' = ps \cup {p} /\ p \notin ps
      /\ \A q \in ps : entries'[q] = others[q]
      /\ entries'[p] = entry
  BY <1>4, <1>6
<1>9. Bytes(entries', ps \cup {p}) = Bytes(others, ps) + n
  <2>1. IsCache(entries')
    <3>1. IsFiniteSet(ps \cup {p})
      BY <1>6, FS_AddElement
    <3>2. \A q \in ps \cup {p} : entries'[q].length \in Nat
      BY <1>1, <1>2, <1>3, <1>6, <1>8 DEF n
    <3> QED
      BY <1>8, <3>1, <3>2 DEF IsCache
  <2>2. ps \cup {p} \in SUBSET DOMAIN entries' /\ ps \in SUBSET (ps \cup {p})
        /\ (ps \cup {p}) \ ps = {p}
    BY <1>8
  <2>3. Bytes(entries', ps \cup {p}) = Bytes(entries', ps) + Bytes(entries', {p})
    BY <2>1, <2>2, BytesOfParts
  <2>4. Bytes(entries', {p}) = n
    BY <1>2, <1>8, BytesOfOne DEF n
  <2>5. ps \subseteq DOMAIN entries' /\ ps \subseteq DOMAIN others
        /\ \A q \in ps : entries'[q].length = others[q].length
    BY <1>3, <1>6, <1>8
  <2>6. Bytes(entries', ps) = Bytes(others, ps)
    BY <1>6, <2>5, BytesOfSame
  <2> QED
    BY <2>3, <2>4, <2>6
<1>10. totalBytes' = Bytes(entries', DOMAIN entries')
  BY <1>4, <1>7, <1>8, <1>9
<1>11. ps = {} \/ LeavesRoom(others, bytes, n, ps)
  BY <1>3, <1>4, SurvivorsFit
<1>12. totalBytes' <= MaxBytes
  <2>1. CASE ps = {}
    <3>1. Bytes(others, ps) = 0
      BY <2>1, BytesOfNone
    <3> QED
      BY <1>2, <1>4, <1>7, <3>1
  <2>2. CASE LeavesRoom(others, bytes, n, ps)
    <3>1. ~(totalBytes' > MaxBytes)
      BY <1>3, <1>4, <2>2 DEF LeavesRoom
    <3> QED
      BY <1>2, <1>4, <1>7, <3>1, LimitsAssumption
  <2> QED
    BY <1>11, <2>1, <2>2
<1>13. Cardinality(ps \cup {p}) <= MaxEntries
  <2>1. Cardinality(ps \cup {p}) = Cardinality(ps) + 1 /\ Cardinality(ps) \in Nat
    BY <1>6, <1>8, FS_AddElement, FS_CardinalityType
  <2>2. CASE ps = {}
    BY <2>1, <2>2, FS_EmptySet, LimitsAssumption
  <2>3. CASE LeavesRoom(others, bytes, n, ps)
    BY <2>1, <2>3, LimitsAssumption DEF LeavesRoom
  <2> QED
    BY <1>11, <2>2, <2>3
<1>14. entries' \in [ps \cup {p} -> EntryType] /\ ps \cup {p} \in SUBSET Pages
  BY <1>1, <1>3, <1>4, <1>6, <1>8
<1> QED
  BY <1>8, <1>10, <1>12, <1>13, <1>14 DEF CacheOK, WithinBudget

(* What the requests keep.                                                 *)
RequestsOK ==
    /\ edition \in Editions /\ answered \in Editions
    /\ at \in [Requests -> Places]
    /\ page \in [Requests -> Pages \cup {NoPage}]
    /\ made \in [Requests -> Editions]
    /\ length \in [Requests -> Lengths \cup {0}]
    /\ floor \in [Requests -> Editions]
    /\ overlaps \in [Requests -> BOOLEAN]
    /\ \A r \in Requests : at[r] = "idle" => made[r] = 0
    /\ LocalsOfPlace

LEMMA BudgetInvParts == BudgetInv <=> CacheOK /\ RequestsOK
<1>1. CacheOK => totalBytes \in 0..MaxBytes
  BY CacheFacts
<1>2. ASSUME LocalsOfPlace
      PROVE  (\A r \in Requests : at[r] = "idle" =>
                 page[r] = NoPage /\ made[r] = 0 /\ length[r] = 0 /\ ~overlaps[r])
             <=> (\A r \in Requests : at[r] = "idle" => made[r] = 0)
  BY <1>2 DEF LocalsOfPlace
<1> QED
  BY <1>1, <1>2 DEF BudgetInv, CacheOK, RequestsOK, TypeOK

(* Only Hit, Miss and Refresh begin a request for a page.                  *)
LEMMA BeginLocals ==
    ASSUME CacheOK, RequestsOK, NEW r \in Requests, NEW p \in Pages,
           Hit(r, p) \/ Miss(r, p) \/ Refresh(r, p)
    PROVE  RequestsOK'
<1>1. /\ page' = [page EXCEPT ![r] = p]
      /\ floor' = [floor EXCEPT ![r] = answered]
      /\ at[r] = "idle"
      /\ at' \in {[at EXCEPT ![r] = w] : w \in {"done", "handling", "refreshing"}}
  BY DEF Hit, Miss, Refresh, Begin, Place
<1>2. UNCHANGED <<edition, length, answered>>
  BY DEF Hit, Miss, Refresh
<1>3. /\ made' \in [Requests -> Editions]
      /\ overlaps' \in [Requests -> BOOLEAN]
      /\ \A q \in Requests \ {r} : made'[q] = made[q] /\ overlaps'[q] = overlaps[q]
  <2>1. CASE Hit(r, p)
    <3>1. entries[p] \in EntryType
      BY <2>1, CacheFacts DEF Hit, Fresh
    <3>2. entries[p].made \in Editions /\ entries[p].overlaps \in BOOLEAN
      BY <3>1 DEF EntryType
    <3> QED
      BY <2>1, <3>2 DEF Hit, RequestsOK
  <2>2. CASE Miss(r, p) \/ Refresh(r, p)
    BY <2>2 DEF Miss, Refresh, RequestsOK
  <2> QED
    BY <2>1, <2>2
<1>4. at' \in [Requests -> Places] /\ at'[r] \in {"done", "handling", "refreshing"}
      /\ \A q \in Requests \ {r} : at'[q] = at[q]
  BY <1>1 DEF RequestsOK, Places
<1>5. page' \in [Requests -> Pages \cup {NoPage}] /\ floor' \in [Requests -> Editions]
      /\ page'[r] = p /\ \A q \in Requests \ {r} : page'[q] = page[q]
  BY <1>1 DEF RequestsOK
<1>6. LocalsOfPlace'
  BY <1>2, <1>3, <1>4, <1>5 DEF RequestsOK, LocalsOfPlace
<1> QED
  BY <1>2, <1>3, <1>4, <1>5, <1>6 DEF RequestsOK

LEMMA BeginFits == BudgetInv /\ (\E r \in Requests, p \in Pages :
                       Hit(r, p) \/ Miss(r, p) \/ Refresh(r, p)) => BudgetInv'
<1> SUFFICES ASSUME CacheOK, RequestsOK, NEW r \in Requests, NEW p \in Pages,
                    Hit(r, p) \/ Miss(r, p) \/ Refresh(r, p)
             PROVE  CacheOK' /\ RequestsOK'
  <2>1. (CacheOK /\ RequestsOK)' => BudgetInv'
    BY BudgetInvParts, PTL
  <2> QED
    BY <2>1, BudgetInvParts
<1>1. CASE Hit(r, p)
  BY <1>1, BeginLocals DEF Hit, cacheVars, CacheOK, WithinBudget
<1>2. CASE Miss(r, p)
  BY <1>2, BeginLocals, RemoveFits DEF Miss
<1>3. CASE Refresh(r, p)
  BY <1>3, BeginLocals, RemoveFits DEF Refresh
<1> QED
  BY <1>1, <1>2, <1>3

LEMMA StoreFits == BudgetInv /\ (\E r \in Requests : Store(r)) => BudgetInv'
<1> SUFFICES ASSUME CacheOK, RequestsOK, NEW r \in Requests, Store(r)
             PROVE  CacheOK' /\ RequestsOK'
  <2>1. (CacheOK /\ RequestsOK)' => BudgetInv'
    BY BudgetInvParts, PTL
  <2> QED
    BY <2>1, BudgetInvParts
<1> DEFINE entry == [age |-> 0, ttl |-> TtlOf(page[r]), length |-> length[r],
                     made |-> made[r], overlaps |-> overlaps[r]]
<1>1. page[r] \in Pages /\ length[r] \in Lengths
  BY DEF Store, RequestsOK, LocalsOfPlace
<1>2. entry \in EntryType
  BY <1>1, LongestTtlType DEF EntryType, TtlOf, RequestsOK
<1>3. entry.length = length[r] /\ Fits(length[r]) /\ Insert(page[r], entry)
  BY DEF Store
<1> HIDE DEF entry
<1>4. CacheOK'
  BY <1>1, <1>2, <1>3, InsertFits
<1>5. RequestsOK'
  BY DEF Store, Place, RequestsOK, LocalsOfPlace, Places, observerVars
<1> QED
  BY <1>4, <1>5

LEMMA OtherFits ==
    BudgetInv /\ (\E r \in Requests : \/ \E n \in Lengths : Respond(r, n)
                                      \/ Bypass(r) \/ Finish(r) \/ Fail(r)
                                      \/ BeginEdit(r) \/ CommitEdit(r))
    => BudgetInv'
<1> SUFFICES ASSUME CacheOK, RequestsOK, NEW r \in Requests,
                    \/ \E n \in Lengths : Respond(r, n)
                    \/ Bypass(r) \/ Finish(r) \/ Fail(r)
                    \/ BeginEdit(r) \/ CommitEdit(r)
             PROVE  CacheOK' /\ RequestsOK'
  <2>1. (CacheOK /\ RequestsOK)' => BudgetInv'
    BY BudgetInvParts, PTL
  <2> QED
    BY <2>1, BudgetInvParts
<1>1. UNCHANGED cacheVars
  BY DEF Respond, Bypass, Finish, Fail, BeginEdit, CommitEdit
<1>2. CacheOK'
  BY <1>1 DEF cacheVars, CacheOK, WithinBudget
<1>3. CASE \E n \in Lengths : Respond(r, n)
  BY <1>3, <1>2 DEF Respond, Place, RequestsOK, LocalsOfPlace, Places, observerVars
<1>4. CASE Bypass(r)
  BY <1>4, <1>2 DEF Bypass, Place, RequestsOK, LocalsOfPlace, Places, observerVars
<1>5. CASE Finish(r) \/ Fail(r)
  <2>1. 0 \in Editions
    BY EditsAssumption DEF Editions
  <2>2. Forget(r) /\ UNCHANGED <<edition, answered>>
    BY <1>5 DEF Finish, Fail
  <2> QED
    BY <2>1, <2>2, <1>2 DEF Forget, Place, RequestsOK, LocalsOfPlace, Places
<1>6. CASE BeginEdit(r)
  BY <1>6, <1>2 DEF BeginEdit, Place, RequestsOK, LocalsOfPlace, Places, observerVars
<1>7. CASE CommitEdit(r)
  <2>1. edition + 1 \in Editions
    BY <1>7, EditsAssumption DEF CommitEdit, Editions, RequestsOK
  <2> QED
    BY <2>1, <1>7, <1>2 DEF CommitEdit, Place, RequestsOK, LocalsOfPlace, Places, observerVars
<1> QED
  BY <1>3, <1>4, <1>5, <1>6, <1>7

LEMMA AnswerFits == BudgetInv /\ (\E r \in Requests : AnswerEdit(r)) => BudgetInv'
<1> SUFFICES ASSUME CacheOK, RequestsOK, NEW r \in Requests, AnswerEdit(r)
             PROVE  CacheOK' /\ RequestsOK'
  <2>1. (CacheOK /\ RequestsOK)' => BudgetInv'
    BY BudgetInvParts, PTL
  <2> QED
    BY <2>1, BudgetInvParts
<1>1. CacheOK'
  <2>1. entries' = << >> /\ totalBytes' = 0 /\ DOMAIN entries' = {}
    BY DEF AnswerEdit, Clear
  <2>2. entries' \in [{} -> EntryType]
    BY <2>1
  <2>3. Bytes(entries', {}) = 0 /\ Cardinality({}) = 0
    BY BytesOfNone, FS_EmptySet
  <2> QED
    BY <2>1, <2>2, <2>3, LimitsAssumption DEF CacheOK, WithinBudget
<1>2. 0 \in Editions
  BY EditsAssumption DEF Editions
<1>3. answered' \in Editions
  BY DEF AnswerEdit, Acknowledge, RequestsOK
<1>4. overlaps' \in [Requests -> BOOLEAN]
      /\ \A q \in Requests : at[q] # "made" => overlaps'[q] = overlaps[q]
  BY DEF AnswerEdit, Acknowledge, RequestsOK
<1>5. RequestsOK'
  BY <1>2, <1>3, <1>4 DEF AnswerEdit, Acknowledge, RequestsOK, LocalsOfPlace, Places
<1> QED
  BY <1>1, <1>5

LEMMA TickFits == BudgetInv /\ Tick => BudgetInv'
<1> SUFFICES ASSUME CacheOK, RequestsOK, Tick PROVE CacheOK' /\ RequestsOK'
  <2>1. (CacheOK /\ RequestsOK)' => BudgetInv'
    BY BudgetInvParts, PTL
  <2> QED
    BY <2>1, BudgetInvParts
<1> DEFINE D == DOMAIN entries
<1>1. /\ D \in SUBSET Pages /\ IsFiniteSet(D)
      /\ \A p \in D : entries[p] \in EntryType
  BY CacheFacts
<1>2. entries' = [p \in D |-> Older(entries[p])] /\ totalBytes' = totalBytes
  BY DEF Tick
<1>3. \A e \in EntryType : Older(e) \in EntryType /\ Older(e).length = e.length
  BY LongestTtlType DEF Older, EntryType
<1>4. entries' \in [D -> EntryType] /\ DOMAIN entries' = D
      /\ \A p \in D : entries'[p].length = entries[p].length
  BY <1>1, <1>2, <1>3
<1>5. Bytes(entries', D) = Bytes(entries, D)
  BY <1>1, <1>4, BytesOfSame
<1>6. CacheOK'
  BY <1>1, <1>2, <1>4, <1>5 DEF CacheOK, WithinBudget
<1>7. RequestsOK'
  BY DEF Tick, RequestsOK, LocalsOfPlace, requestVars, observerVars
<1> QED
  BY <1>6, <1>7

LEMMA BudgetHolds == Spec => []BudgetInv
<1>1. Init => BudgetInv
  <2> SUFFICES ASSUME Init PROVE CacheOK /\ RequestsOK
    BY BudgetInvParts
  <2>1. entries = << >> /\ totalBytes = 0 /\ DOMAIN entries = {}
    BY DEF Init
  <2>2. entries \in [{} -> EntryType]
    BY <2>1
  <2>3. Bytes(entries, {}) = 0 /\ Cardinality({}) = 0
    BY BytesOfNone, FS_EmptySet
  <2>4. CacheOK
    <3>1. WithinBudget
      BY <2>1, <2>3, LimitsAssumption DEF WithinBudget
    <3>2. \E ps \in SUBSET Pages : entries \in [ps -> EntryType]
      BY <2>2
    <3> QED
      BY <3>1, <3>2 DEF CacheOK
  <2>5. 0 \in Editions
    BY EditsAssumption DEF Editions
  <2>6. RequestsOK
    BY <2>5 DEF Init, RequestsOK, LocalsOfPlace, Places
  <2> QED
    BY <2>4, <2>6
<1>2. BudgetInv /\ [Next]_vars => BudgetInv'
  <2> SUFFICES ASSUME BudgetInv, [Next]_vars PROVE BudgetInv'
    OBVIOUS
  <2>1. CASE UNCHANGED vars
    BY <2>1 DEF vars, cacheVars, requestVars, observerVars, BudgetInv, TypeOK,
       LocalsOfPlace, WithinBudget
  <2>2. CASE Next
    <3>1. \/ \E r \in Requests, p \in Pages : Hit(r, p) \/ Miss(r, p) \/ Refresh(r, p)
          \/ \E r \in Requests : Store(r)
          \/ \E r \in Requests : \/ \E n \in Lengths : Respond(r, n)
                                \/ Bypass(r) \/ Finish(r) \/ Fail(r)
                                \/ BeginEdit(r) \/ CommitEdit(r)
          \/ \E r \in Requests : AnswerEdit(r)
          \/ Tick
      BY <2>2 DEF Next
    <3> QED
      BY <3>1, BeginFits, StoreFits, OtherFits, AnswerFits, TickFits
  <2> QED
    BY <2>1, <2>2
<1> QED
  BY <1>1, <1>2, PTL DEF Spec

(* Every variable of the cache and of its requests has its type.           *)
THEOREM TypesHold == Spec => []TypeOK
<1>1. BudgetInv => TypeOK
  BY DEF BudgetInv
<1> QED
  BY <1>1, BudgetHolds, PTL

(* total_bytes is the sum of the bodies and both limits hold, whatever is  *)
(* stored, dropped, replaced or evicted in between (cache_insert,          *)
(* ApiCache::remove).                                                      *)
THEOREM BudgetIsKept == Spec => []WithinBudget
<1>1. BudgetInv => WithinBudget
  BY DEF BudgetInv
<1> QED
  BY <1>1, BudgetHolds, PTL

=============================================================================
