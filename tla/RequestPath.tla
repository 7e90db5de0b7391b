---------------------------- MODULE RequestPath ----------------------------
(***************************************************************************)
(* What every authorized request passes through on its way to a handler    *)
(* and back (src/src/operations.rs, composed in build_router of            *)
(* src/src/api.rs): the rate limiter of a minute per client address, the   *)
(* count of catalog requests and of those that fell back to local data,    *)
(* and the count of API requests by the hour in PostgreSQL.  The response  *)
(* cache, next inside, is ResponseCache.                                   *)
(*                                                                         *)
(* A request reads the clock before it gets the limiter's mutex, so that   *)
(* requests may get it in another order than they read the clock.  Time is *)
(* in ticks; what happens in one tick has the same time.                   *)
(***************************************************************************)
EXTENDS Integers, FiniteSets, Sequences, Functions

CONSTANTS
    Requests,    \* requests at work at the same time
    Clients,     \* addresses
    Nobody,      \* no address
    Limit,       \* requests_per_minute
    MaxClients,  \* max_clients
    Window,      \* the minute
    MaxDelay,    \* bound on the wait for the mutex, once the clock is read
    Hour,        \* length of a bucket of request_metrics_hourly
    Week,        \* what GET /stats/requests looks back
    MaxTime,     \* bound on the clock
    MaxCounted   \* bound on the requests counted

ASSUME SetsAssumption ==
    IsFiniteSet(Requests) /\ IsFiniteSet(Clients) /\ Nobody \notin Clients
ASSUME LimitsAssumption == Limit \in Nat \ {0} /\ MaxClients \in Nat \ {0}
ASSUME TimesAssumption ==
    /\ Window \in Nat /\ MaxDelay \in 0..Window /\ MaxTime \in Nat /\ MaxCounted \in Nat
    /\ Hour \in Nat \ {0} /\ Week \in Nat /\ Week % Hour = 0

Times == 0..MaxTime

(* The routers: the catalog's reads, its writes and the offers, and the    *)
(* statistics.  All are limited; track_api_request wraps the first two,    *)
(* track_catalog_request the reads.                                        *)
Kinds == {"read", "write", "stats"}
IsCounted(k) == k # "stats"
MayFallBack(k) == k = "read"

Phases == {"idle", "stamped", "admitted", "handling", "answered"}

VARIABLES
    clock,
    at, kind, client,
    stamp,     \* what a request read from the clock
    used,      \* whether a request has fallen back
    recent,    \* RateLimiter.clients: the times of an address, if any
    catalog,   \* catalog_requests
    fallback,  \* fallback_requests
    hourly,    \* request_metrics_hourly: request_count of an hour
    admitted,  \* observer: how many of a client this process let in, by stamp
    counted    \* observer: how many requests were counted at a time

locals == <<at, kind, client, stamp, used>>
limiter == <<recent, admitted>>
fallbacks == <<catalog, fallback>>
metrics == <<hourly, counted>>
vars == <<clock, locals, limiter, fallbacks, metrics>>

Init ==
    /\ clock = 0
    /\ at = [r \in Requests |-> "idle"]
    /\ kind = [r \in Requests |-> "read"]
    /\ client = [r \in Requests |-> Nobody]
    /\ stamp = [r \in Requests |-> 0]
    /\ used = [r \in Requests |-> FALSE]
    /\ recent = [c \in Clients |-> << >>]
    /\ catalog = 0
    /\ fallback = 0
    /\ hourly = [h \in Times |-> 0]
    /\ admitted = [c \in Clients |-> [t \in Times |-> 0]]
    /\ counted = [t \in Times |-> 0]

Place(r, phase) == at' = [at EXCEPT ![r] = phase]

(* The request is over.                                                    *)
End(r) ==
    /\ Place(r, "idle")
    /\ kind' = [kind EXCEPT ![r] = "read"]
    /\ client' = [client EXCEPT ![r] = Nobody]
    /\ stamp' = [stamp EXCEPT ![r] = 0]
    /\ used' = [used EXCEPT ![r] = FALSE]

(***************************************************************************)
(* The rate limiter.                                                       *)
(***************************************************************************)

(* Past the authorization: RateLimiter::allows begins.                     *)
Arrive(r, c, k) ==
    /\ at[r] = "idle"
    /\ Place(r, "stamped")
    /\ kind' = [kind EXCEPT ![r] = k]
    /\ client' = [client EXCEPT ![r] = c]
    /\ stamp' = [stamp EXCEPT ![r] = clock]
    /\ used' = [used EXCEPT ![r] = FALSE]
    /\ UNCHANGED <<clock, limiter, fallbacks, metrics>>

(* Faulty variant for the mutation runs: a window that begins anew.        *)
PrunedAnew(times, now) ==
    IF times # << >> /\ Head(times) > now - Window THEN times ELSE << >>

(* Faulty variant for the mutation runs: as long as the youngest counts,   *)
(* all do.                                                                 *)
PrunedWhole(times, now) ==
    IF \E i \in DOMAIN times : times[i] > now - Window THEN times ELSE << >>

(* The oldest times are dropped up to the first that is young enough.      *)
Pruned(times, now) ==
    LET old == {i \in DOMAIN times : \A j \in 1..i : times[j] <= now - Window}
    IN  SubSeq(times, Cardinality(old) + 1, Len(times))

PrunedAll(now) == [c \in Clients |-> Pruned(recent[c], now)]

(* Faulty variant for the mutation runs: one address more.                 *)
HasPlacePlusOne(table, c) ==
    /\ table[c] # << >> \/ Cardinality({d \in Clients : table[d] # << >>}) <= MaxClients
    /\ Len(table[c]) < Limit

(* Does the table have a place for the address, and the address one for a  *)
(* request?                                                                *)
HasPlace(table, c) ==
    /\ table[c] # << >> \/ Cardinality({d \in Clients : table[d] # << >>}) < MaxClients
    /\ Len(table[c]) < Limit

Admit(r) ==
    /\ at[r] = "stamped"
    /\ LET c == client[r]
           table == PrunedAll(stamp[r])
       IN  /\ HasPlace(table, c)
           /\ recent' = [table EXCEPT ![c] = Append(@, stamp[r])]
           /\ admitted' = [admitted EXCEPT ![c][stamp[r]] = @ + 1]
    /\ Place(r, "admitted")
    /\ UNCHANGED <<clock, kind, client, stamp, used, fallbacks, metrics>>

(* 429 Too Many Requests, which is not recorded.                           *)
Refuse(r) ==
    /\ at[r] = "stamped"
    /\ ~HasPlace(PrunedAll(stamp[r]), client[r])
    /\ recent' = PrunedAll(stamp[r])
    /\ End(r)
    /\ UNCHANGED <<clock, admitted, fallbacks, metrics>>

(***************************************************************************)
(* The statistics.                                                         *)
(***************************************************************************)

(* track_catalog_request, before the cache and the handler.                *)
Track(r) ==
    /\ at[r] = "admitted"
    /\ Place(r, "handling")
    /\ catalog' = IF MayFallBack(kind[r]) THEN catalog + 1 ELSE catalog
    /\ UNCHANGED <<clock, kind, client, stamp, used, fallback, limiter, metrics>>

(* Faulty variant for the mutation runs: FallbackRequest::record without   *)
(* its swap.                                                               *)
FallBackAgain(r) ==
    /\ at[r] = "handling" /\ MayFallBack(kind[r])
    /\ fallback' = fallback + 1
    /\ used' = [used EXCEPT ![r] = TRUE]
    /\ UNCHANGED <<clock, at, kind, client, stamp, catalog, limiter, metrics>>

(* MangaDex failed, and the handler goes on with local data: the manga's,  *)
(* the search's, and then the volumes', of which only the first counts.    *)
FallBack(r) ==
    /\ at[r] = "handling" /\ MayFallBack(kind[r])
    /\ used[r] = FALSE
    /\ fallback' = fallback + 1
    /\ used' = [used EXCEPT ![r] = TRUE]
    /\ UNCHANGED <<clock, at, kind, client, stamp, catalog, limiter, metrics>>

(* The handler or the cache has a response, be it an error.                *)
Answer(r) ==
    /\ at[r] = "handling"
    /\ IF IsCounted(kind[r])
       THEN Place(r, "answered") /\ UNCHANGED <<kind, client, stamp, used>>
       ELSE End(r)
    /\ UNCHANGED <<clock, limiter, fallbacks, metrics>>

(* track_api_request adds it to the hour's count.                          *)
Record(r) ==
    /\ at[r] = "answered"
    /\ SumFunctionOnSet(counted, Times) < MaxCounted
    /\ hourly' = [hourly EXCEPT ![clock \div Hour] = @ + 1]
    /\ counted' = [counted EXCEPT ![clock] = @ + 1]
    /\ End(r)
    /\ UNCHANGED <<clock, limiter, fallbacks>>

(* The client disconnects, or PostgreSQL cannot count it.                  *)
Leave(r) ==
    /\ at[r] \in {"handling", "answered"}
    /\ End(r)
    /\ UNCHANGED <<clock, limiter, fallbacks, metrics>>

(* Faulty variant for the mutation runs: WHERE bucket_start >= $1.         *)
TotalOfWholeHours(now) ==
    SumFunctionOnSet(hourly, {h \in Times : h * Hour >= now - Week})

(* snapshot_last_week: the buckets since the hour a week ago.              *)
Total(now) == SumFunctionOnSet(hourly, {h \in Times : h >= (now - Week) \div Hour})

(***************************************************************************)
(* Time and restarts.                                                      *)
(***************************************************************************)

Tick ==
    /\ clock < MaxTime
    /\ \A r \in Requests : at[r] = "stamped" => clock - stamp[r] < MaxDelay
    /\ clock' = clock + 1
    /\ UNCHANGED <<locals, limiter, fallbacks, metrics>>

(* All but the hours is in memory.                                         *)
Restart ==
    /\ at' = [r \in Requests |-> "idle"]
    /\ kind' = [r \in Requests |-> "read"]
    /\ client' = [r \in Requests |-> Nobody]
    /\ stamp' = [r \in Requests |-> 0]
    /\ used' = [r \in Requests |-> FALSE]
    /\ recent' = [c \in Clients |-> << >>]
    /\ catalog' = 0 /\ fallback' = 0
    /\ admitted' = [c \in Clients |-> [t \in Times |-> 0]]
    /\ UNCHANGED <<clock, metrics>>

Next ==
    \/ \E r \in Requests, c \in Clients, k \in Kinds : Arrive(r, c, k)
    \/ \E r \in Requests : \/ Admit(r) \/ Refuse(r) \/ Track(r) \/ FallBack(r)
                           \/ Answer(r) \/ Record(r) \/ Leave(r)
    \/ Tick \/ Restart

Spec == Init /\ [][Next]_vars

(***************************************************************************)
(* Properties.                                                             *)
(***************************************************************************)

(* Every variable has its type, and the table of addresses its bound.      *)
TypeOK ==
    /\ clock \in Times
    /\ at \in [Requests -> Phases]
    /\ kind \in [Requests -> Kinds]
    /\ client \in [Requests -> Clients \cup {Nobody}]
    /\ \A r \in Requests : at[r] # "idle" => client[r] \in Clients
    /\ stamp \in [Requests -> Times]
    /\ used \in [Requests -> BOOLEAN]
    /\ recent \in [Clients -> Seq(Times)]
    /\ catalog \in Nat /\ fallback \in Nat
    /\ hourly \in [Times -> Nat]
    /\ admitted \in [Clients -> [Times -> Nat]]
    /\ counted \in [Times -> Nat]
    /\ \A c \in Clients : Len(recent[c]) <= Limit
    /\ Cardinality({c \in Clients : recent[c] # << >>}) <= MaxClients

AdmittedIn(c, span) == SumFunctionOnSet(admitted[c], span \cap Times)

(* No client gets more than the limit within a minute, less the time that  *)
(* requests wait for the mutex: one with an older clock may find the       *)
(* table pruned by one with a younger (RateLimiter::allows).               *)
AdmissionsBounded ==
    \A c \in Clients, t \in Times :
        AdmittedIn(c, (t - (Window - MaxDelay) + 1)..t) <= Limit

(* A request is refused only if its client was let in as often as the      *)
(* limit allows, or as many other clients as the table holds were let in,  *)
(* within a minute and the time that requests wait for the mutex: who      *)
(* keeps on asking is let in once its minute is over, since a refusal is   *)
(* not recorded and what is behind a younger time is dropped with it.      *)
RefusedOnlyIfBusy ==
    [][\A r \in Requests : Refuse(r) =>
          LET span == (stamp[r] - Window - MaxDelay + 1)..clock
          IN  \/ AdmittedIn(client[r], span) >= Limit
              \/ Cardinality({c \in Clients \ {client[r]} : AdmittedIn(c, span) > 0})
                     >= MaxClients]_vars

(* A request counts as a fallback at most once (README): at no moment have *)
(* there been more fallbacks than catalog requests, nor can those that are *)
(* under way lead to more.                                                 *)
MayYetFallBack == {r \in Requests : at[r] = "handling" /\ MayFallBack(kind[r]) /\ ~used[r]}
FallbacksAreRequests == fallback + Cardinality(MayYetFallBack) <= catalog

(* The week's total holds each request that was counted within a week, and *)
(* none that was counted more than an hour before it, whatever restarts    *)
(* there have been since.                                                  *)
WeekIsCovered ==
    LET since(t) == SumFunctionOnSet(counted, {s \in Times : s >= t})
    IN  since(clock - Week) <= Total(clock) /\ Total(clock) <= since(clock - Week - Hour + 1)
=============================================================================
