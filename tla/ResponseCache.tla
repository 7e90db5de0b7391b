---------------------------- MODULE ResponseCache ----------------------------
(***************************************************************************)
(* The response cache of one API process (src/src/operations.rs) and the   *)
(* requests that pass through it: cache_get_response around the handlers   *)
(* of the catalog.  The cache's mutex is never held across an await, so a  *)
(* handler reads or edits the catalog between two of its critical          *)
(* sections, and other requests come in between.                           *)
(*                                                                         *)
(* The catalog is the number of edits committed to it.  A page is a URI; a *)
(* response is the edition of the catalog it was made from and the length  *)
(* of its body.                                                            *)
(***************************************************************************)
EXTENDS Integers, Functions, FiniteSetsExt

CONSTANTS
    Requests,   \* the concurrent requests
    Pages,      \* the URIs that are asked for
    PathOf,     \* the path of each, without its query
    Search,     \* the path /mangas, on which refresh means nothing
    MaxEntries, \* CACHE_MAX_ENTRIES
    MaxBytes,   \* CACHE_MAX_BYTES
    EntryLimit, \* MAX_CACHE_ENTRY_BYTES
    Lengths,    \* bound: the lengths of bodies
    Ttl,        \* CACHE_TTL_SECONDS, in ticks
    PopularTtl, \* POPULAR_CACHE_TTL, in ticks
    Popular,    \* the pages of searches without a title
    MaxEdits    \* bound on the edits committed

ASSUME PagesAssumption ==
    IsFiniteSet(Pages) /\ DOMAIN PathOf = Pages /\ Popular \subseteq Pages
ASSUME LimitsAssumption ==
    MaxEntries \in Nat \ {0} /\ MaxBytes \in Nat \ {0} /\ EntryLimit \in Nat
ASSUME LengthsAssumption == Lengths \subseteq Nat
ASSUME TtlAssumption == Ttl \in Nat \ {0} /\ PopularTtl \in Nat \ {0}
ASSUME EditsAssumption == MaxEdits \in Nat

VARIABLES
    entries,    \* the cached responses, by page
    totalBytes, \* total_bytes
    edition,    \* the edits committed to the catalog
    at,         \* where each request is
    page,       \* the page it asks for
    made,       \* the edition its response was made from, or that it committed
    length,     \* the length of its body
    answered,   \* observer: the last edition whose editor was told so
    floor,      \* observer: answered when each request began
    overlaps    \* observer: the response of the request is older than an
                \* edit that was answered while it was being made

cacheVars == <<entries, totalBytes>>
requestVars == <<at, page, made, length>>
observerVars == <<answered, floor, overlaps>>
vars == <<cacheVars, edition, requestVars, observerVars>>

Editions == 0..MaxEdits
NoPage == "no page"

ASSUME NoPageAssumption == NoPage \notin Pages

(* An entry's age stops to matter at the longest TTL.                      *)
LongestTtl == Max({Ttl, PopularTtl})

EntryType == [age : 0..LongestTtl, ttl : {Ttl, PopularTtl}, length : Lengths,
              made : Editions, overlaps : BOOLEAN]

Places == {"idle", "handling", "made", "refreshing", "editing", "edited", "done"}

Init ==
    /\ entries = << >>
    /\ totalBytes = 0
    /\ edition = 0
    /\ at = [r \in Requests |-> "idle"]
    /\ page = [r \in Requests |-> NoPage]
    /\ made = [r \in Requests |-> 0]
    /\ length = [r \in Requests |-> 0]
    /\ answered = 0
    /\ floor = [r \in Requests |-> 0]
    /\ overlaps = [r \in Requests |-> FALSE]

(***************************************************************************)
(* The cache.                                                              *)
(***************************************************************************)

(* saturating_sub                                                          *)
Minus(a, b) == IF a > b THEN a - b ELSE 0

Bytes(cached, ps) == MapThenSumSet(LAMBDA p : cached[p].length, ps)

Fresh(p) == p \in DOMAIN entries /\ entries[p].age < entries[p].ttl

(* Pages are removed and their bytes taken off the total.                  *)
Remove(ps) ==
    /\ entries' = Restrict(entries, DOMAIN entries \ ps)
    /\ totalBytes' = Minus(totalBytes, Bytes(entries, ps \cap DOMAIN entries))

Clear == entries' = << >> /\ totalBytes' = 0

(* The pages that may survive when n bytes are to fit in: as long as there *)
(* are too many entries or bytes, one of the oldest goes.                  *)
Survivors(cached, bytes, n) ==
    LET Over(ps) ==
            \/ Cardinality(ps) >= MaxEntries
            \/ Minus(bytes, Bytes(cached, DOMAIN cached \ ps)) + n > MaxBytes
        Oldest(ps) == {p \in ps : \A q \in ps : cached[q].age <= cached[p].age}
        left[ps \in SUBSET DOMAIN cached] ==
            IF ps = {} \/ ~Over(ps) THEN {ps}
            ELSE UNION {left[ps \ {p}] : p \in Oldest(ps)}
    IN  left[DOMAIN cached]

(* Faulty variant for the mutation runs: the bytes of the entry that is    *)
(* replaced stay in the total.                                             *)
BytesReplacing(p) == totalBytes

(* The total once the entry of a page has gone.                            *)
BytesWithout(p) == Minus(totalBytes, Bytes(entries, {p} \cap DOMAIN entries))

(* The entry of a page is replaced and others make room.                   *)
Insert(p, entry) ==
    LET others == Restrict(entries, DOMAIN entries \ {p})
        bytes == BytesWithout(p)
    IN  \E ps \in Survivors(others, bytes, entry.length) \cap SUBSET DOMAIN others :
          /\ entries' = [q \in ps \cup {p} |-> IF q = p THEN entry ELSE others[q]]
          /\ totalBytes' =
                Minus(bytes, Bytes(others, DOMAIN others \ ps)) + entry.length

(***************************************************************************)
(* GET requests.                                                           *)
(***************************************************************************)

Place(r, where) == at' = [at EXCEPT ![r] = where]

(* A request for a page begins.                                            *)
Begin(r, p) ==
    /\ at[r] = "idle"
    /\ page' = [page EXCEPT ![r] = p]
    /\ floor' = [floor EXCEPT ![r] = answered]

(* The cached response is served.                                          *)
Hit(r, p) ==
    /\ Begin(r, p)
    /\ Fresh(p)
    /\ Place(r, "done")
    /\ made' = [made EXCEPT ![r] = entries[p].made]
    /\ overlaps' = [overlaps EXCEPT ![r] = entries[p].overlaps]
    /\ UNCHANGED <<cacheVars, edition, length, answered>>

(* There is none, or it has expired and goes: the handler is called.       *)
Miss(r, p) ==
    /\ Begin(r, p)
    /\ ~Fresh(p)
    /\ Remove({p})
    /\ Place(r, "handling")
    /\ UNCHANGED <<edition, made, length, answered, overlaps>>

(* refresh=true drops the pages of the path first and does not store the   *)
(* response; /mangas has no refresh.                                       *)
Refresh(r, p) ==
    /\ Begin(r, p)
    /\ PathOf[p] # Search
    /\ Remove({q \in Pages : PathOf[q] = PathOf[p]})
    /\ Place(r, "refreshing")
    /\ UNCHANGED <<edition, made, length, answered, overlaps>>

(* The handler has read the catalog.                                       *)
Respond(r, n) ==
    /\ \/ at[r] = "handling" /\ Place(r, "made")
       \/ at[r] = "refreshing" /\ Place(r, "done")
    /\ made' = [made EXCEPT ![r] = edition]
    /\ length' = [length EXCEPT ![r] = n]
    /\ UNCHANGED <<cacheVars, edition, page, observerVars>>

Fits(n) == n <= MaxBytes /\ n <= EntryLimit

TtlOf(p) == IF p \in Popular THEN PopularTtl ELSE Ttl

(* A 200 of a known length that fits is stored.                            *)
Store(r) ==
    /\ at[r] = "made"
    /\ Fits(length[r])
    /\ Insert(page[r], [age |-> 0, ttl |-> TtlOf(page[r]), length |-> length[r],
                        made |-> made[r], overlaps |-> overlaps[r]])
    /\ Place(r, "done")
    /\ UNCHANGED <<edition, page, made, length, observerVars>>

(* It does not fit: BYPASS.                                                *)
Bypass(r) ==
    /\ at[r] = "made"
    /\ ~Fits(length[r])
    /\ Place(r, "done")
    /\ UNCHANGED <<cacheVars, edition, page, made, length, observerVars>>

(* Faulty variant for the mutation runs: locals outlive the request.       *)
ForgetNothing(r) == Place(r, "idle") /\ UNCHANGED <<page, made, length, floor, overlaps>>

(* The locals of a request are gone.                                       *)
Forget(r) ==
    /\ Place(r, "idle")
    /\ page' = [page EXCEPT ![r] = NoPage]
    /\ made' = [made EXCEPT ![r] = 0]
    /\ length' = [length EXCEPT ![r] = 0]
    /\ floor' = [floor EXCEPT ![r] = 0]
    /\ overlaps' = [overlaps EXCEPT ![r] = FALSE]

(* The response has been sent.                                             *)
Finish(r) ==
    /\ at[r] = "done"
    /\ Forget(r)
    /\ UNCHANGED <<cacheVars, edition, answered>>

(* The handler fails, before or after it committed, or the client          *)
(* disconnects: the cache is not touched.                                  *)
Fail(r) ==
    /\ at[r] \notin {"idle", "done"}
    /\ Forget(r)
    /\ UNCHANGED <<cacheVars, edition, answered>>

(***************************************************************************)
(* Other requests.                                                         *)
(***************************************************************************)

BeginEdit(r) ==
    /\ at[r] = "idle"
    /\ Place(r, "editing")
    /\ UNCHANGED <<cacheVars, edition, page, made, length, observerVars>>

(* The edit commits in the handler.                                        *)
CommitEdit(r) ==
    /\ at[r] = "editing"
    /\ edition < MaxEdits
    /\ edition' = edition + 1
    /\ made' = [made EXCEPT ![r] = edition + 1]
    /\ Place(r, "edited")
    /\ UNCHANGED <<cacheVars, page, length, observerVars>>

(* The editor gets its 2xx; responses under way are older from now on.     *)
Acknowledge(r) ==
    /\ at[r] = "edited"
    /\ answered' = IF made[r] > answered THEN made[r] ELSE answered
    /\ at' = [at EXCEPT ![r] = "idle"]
    /\ made' = [made EXCEPT ![r] = 0]
    /\ overlaps' = [q \in Requests |->
          overlaps[q] \/ (at[q] = "made" /\ made[q] < made[r])]
    /\ UNCHANGED <<edition, page, length, floor>>

(* Faulty variant for the mutation runs: an edit only drops the searches.  *)
AnswerEditSearches(r) == Acknowledge(r) /\ Remove({p \in Pages : PathOf[p] = Search})

(* A successful request that is not a GET clears the cache.                *)
AnswerEdit(r) == Acknowledge(r) /\ Clear

Older(entry) ==
    [age |-> IF entry.age < LongestTtl THEN entry.age + 1 ELSE entry.age,
     ttl |-> entry.ttl, length |-> entry.length, made |-> entry.made,
     overlaps |-> entry.overlaps]

(* Time passes.                                                            *)
Tick ==
    /\ \E p \in DOMAIN entries : entries[p].age < LongestTtl
    /\ entries' = [p \in DOMAIN entries |-> Older(entries[p])]
    /\ UNCHANGED <<totalBytes, edition, requestVars, observerVars>>

Next ==
    \/ \E r \in Requests, p \in Pages : Hit(r, p) \/ Miss(r, p) \/ Refresh(r, p)
    \/ \E r \in Requests, n \in Lengths : Respond(r, n)
    \/ \E r \in Requests : Store(r) \/ Bypass(r) \/ Finish(r) \/ Fail(r)
    \/ \E r \in Requests : BeginEdit(r) \/ CommitEdit(r) \/ AnswerEdit(r)
    \/ Tick

Spec == Init /\ [][Next]_vars

(***************************************************************************)
(* Properties.                                                             *)
(***************************************************************************)

(* Every variable has its type, and an idle request keeps no locals.       *)
TypeOK ==
    /\ \E ps \in SUBSET Pages : entries \in [ps -> EntryType]
    /\ totalBytes \in 0..MaxBytes
    /\ edition \in Editions /\ answered \in Editions
    /\ at \in [Requests -> Places]
    /\ page \in [Requests -> Pages \cup {NoPage}]
    /\ made \in [Requests -> Editions]
    /\ length \in [Requests -> Lengths \cup {0}]
    /\ floor \in [Requests -> Editions]
    /\ overlaps \in [Requests -> BOOLEAN]
    /\ \A r \in Requests : at[r] = "idle" =>
          page[r] = NoPage /\ made[r] = 0 /\ length[r] = 0 /\ ~overlaps[r]

(* The cache is limited by count and by bytes at once                      *)
(* (src/docs/arm64-deployment.md:83): total_bytes is the sum of the bodies *)
(* and both limits hold, although two requests may store the same page.    *)
WithinBudget ==
    /\ totalBytes = Bytes(entries, DOMAIN entries)
    /\ totalBytes <= MaxBytes
    /\ Cardinality(DOMAIN entries) <= MaxEntries

(* Whoever asks after an edit was answered is shown it, unless the page    *)
(* was stored by a request whose handler had already read the catalog when *)
(* the edit cleared the cache (cache_get_response).                        *)
EditsShow ==
    \A r \in Requests : at[r] = "done" => made[r] >= floor[r] \/ overlaps[r]
=============================================================================
