----------------------------- MODULE OAuthTokens -----------------------------
(***************************************************************************)
(* The Mercado Livre token store (src/src/mercadolivre_oauth.rs) and the   *)
(* authorized GET that uses it (src/src/mercadolivre.rs).  One row of      *)
(* PostgreSQL holds the rotating tokens; every request of every API        *)
(* instance, and each instance's refresh loop, goes through token(), which *)
(* keeps the row locked while it exchanges the refresh token.  The lock    *)
(* belongs to a PostgreSQL session: when that ends, the row is free at     *)
(* once, while the caller goes on awaiting its POST and learns of it only  *)
(* from its next statement.                                                *)
(*                                                                         *)
(* Tokens are generations: an exchange of refresh token n makes Mercado    *)
(* Livre consume n and issue access and refresh token n + 1.  Clocks are   *)
(* the two facts the code reads from them: whether the access token is     *)
(* within a minute of its expiry, and whether retry_after is ahead.        *)
(***************************************************************************)
EXTENDS Integers, FiniteSets

CONSTANTS
    Callers,        \* requests and refresh loops, of all instances
    MaxGeneration,  \* bound on the generations ever issued
    Faults          \* TRUE: callers vanish and sessions end, at any await

ASSUME BoundsAssumption == MaxGeneration \in Nat \ {0}
ASSUME FaultsAssumption == Faults \in BOOLEAN

NoToken == 0    \* the empty access token; no rejected token; no row
NoOne == "no one"

ASSUME CallersAssumption == NoOne \notin Callers

Generations == 1..MaxGeneration
Tokens == 0..MaxGeneration

VARIABLES
    access,    \* access_token of the client's row
    refresh,   \* its refresh_token; NoToken: there is no row
    due,       \* its expires_at is less than a minute ahead
    cooling,   \* its retry_after is ahead
    reauth,    \* its reauthorization_required
    lock,      \* who holds the row lock
    at,        \* where each caller is
    token,     \* the refresh token each caller posts, then the access token
               \* it received or uses
    rejected,  \* the access token each caller saw rejected first
    broken,    \* the callers whose session ended while they await the POST
    live,      \* the one refresh token Mercado Livre will still exchange
    accepted,  \* the access tokens Mercado Livre accepts
    seed,      \* the refresh token in the environment
    straggler, \* an exchange of the live refresh token is under way for which
               \* nobody waits any more
    refused,   \* observer: access tokens a GET came back 401 with
    committed, \* observer: access tokens ever committed
    consumed,  \* observer: refresh tokens Mercado Livre has consumed
    lost,      \* observer: refresh tokens whose successor never arrived, or
               \* belongs to a caller that cannot commit it any more
    blamed     \* observer: the refresh token whose exchange failed, or whose
               \* access token was marked as rejected, until the cooldown ends

brakeVars == <<cooling, reauth>>
rowVars == <<access, refresh, due, brakeVars>>
callerVars == <<at, token, rejected, broken>>
upstreamVars == <<live, accepted, seed, straggler, consumed>>
observerVars == <<refused, committed, lost, blamed>>
vars == <<rowVars, lock, callerVars, upstreamVars, observerVars>>

Places == {"idle", "locking", "exchanging", "granted", "persisting",
           "calling", "marking"}

(* The callers between the exchange and its commit.                        *)
Exchanging == {c \in Callers : at[c] \in {"exchanging", "granted", "persisting"}}

(* The refresh token a caller between the two posted.                      *)
Posted(c) == IF at[c] = "exchanging" THEN token[c] ELSE token[c] - 1

Init ==
    /\ access = NoToken /\ refresh = NoToken
    /\ due = FALSE /\ cooling = FALSE /\ reauth = FALSE
    /\ lock = NoOne
    /\ at = [c \in Callers |-> "idle"]
    /\ token = [c \in Callers |-> NoToken]
    /\ rejected = [c \in Callers |-> NoToken]
    /\ live = 1
    /\ accepted = {1}
    /\ seed = 1
    /\ straggler = FALSE
    /\ broken = {}
    /\ refused = {} /\ committed = {} /\ consumed = {} /\ lost = {} /\ blamed = NoToken

(***************************************************************************)
(* Start of an instance.                                                   *)
(***************************************************************************)

(* The environment's tokens become the row; the access token and its       *)
(* expiry may be missing from it.                                          *)
WriteSeed ==
    /\ access' \in {NoToken, seed}
    /\ refresh' = seed
    /\ due' \in BOOLEAN
    /\ cooling' = FALSE /\ reauth' = FALSE
    /\ committed' = committed \cup {access'}
    /\ UNCHANGED <<lock, callerVars, upstreamVars, refused, lost, blamed>>

(* initialize: the environment seeds a client without a row, and nothing   *)
(* else.                                                                   *)
Initialize == refresh = NoToken /\ WriteSeed

(***************************************************************************)
(* token().                                                                *)
(***************************************************************************)

Place(c, where) == at' = [at EXCEPT ![c] = where]

(* Faulty variant for the mutation runs: a later call finds old locals.    *)
FinishDirty(c) == Place(c, "idle") /\ broken' = broken \ {c} /\ UNCHANGED <<token, rejected>>

(* The call is over and its locals are gone.                               *)
Finish(c) ==
    /\ Place(c, "idle")
    /\ token' = [token EXCEPT ![c] = NoToken]
    /\ rejected' = [rejected EXCEPT ![c] = NoToken]
    /\ broken' = broken \ {c}

(* The GET is sent with an access token.                                   *)
Use(c, t) ==
    /\ Place(c, "calling")
    /\ token' = [token EXCEPT ![c] = t]
    /\ UNCHANGED <<rejected, broken>>

(* access_token(): a request, or a tick of a refresh loop, begins.         *)
Ask(c) ==
    /\ at[c] = "idle"
    /\ Place(c, "locking")
    /\ UNCHANGED <<rowVars, lock, token, rejected, broken, upstreamVars, observerVars>>

(* Faulty variant for the mutation runs: SELECT without FOR UPDATE.        *)
ReadsUnlocked(c) == at[c] = "locking"

(* The row lock is free and SELECT ... FOR UPDATE returns, if there is a   *)
(* row.                                                                    *)
Locks(c) == at[c] = "locking" /\ lock = NoOne

Braked == refresh = NoToken \/ reauth \/ cooling

(* Faulty variant for the mutation runs: any rejected token forces an      *)
(* exchange, also one that was rotated away meanwhile.                     *)
UsableUnlessRejected(c) == access # NoToken /\ ~due /\ rejected[c] = NoToken

Usable(c) == access # NoToken /\ ~due /\ access # rejected[c]

(* No row, reauthorization required or a cooldown: 503, rolled back.       *)
TurnAway(c) ==
    /\ Locks(c)
    /\ Braked
    /\ Finish(c)
    /\ UNCHANGED <<rowVars, lock, upstreamVars, observerVars>>

(* The stored access token is good and is not the one rejected.            *)
Reuse(c) ==
    /\ Locks(c)
    /\ ~Braked
    /\ Usable(c)
    /\ Use(c, access)
    /\ UNCHANGED <<rowVars, lock, upstreamVars, observerVars>>

(* It is not: the refresh token is posted with the row locked.             *)
StartExchange(c) ==
    /\ Locks(c)
    /\ ~Braked
    /\ ~Usable(c)
    /\ lock' = c
    /\ Place(c, "exchanging")
    /\ token' = [token EXCEPT ![c] = refresh]
    /\ UNCHANGED <<rowVars, rejected, broken, upstreamVars, observerVars>>

(* An exchange failed; who still holds the lock stores that.               *)
Blames(c) == blamed' = IF c \in broken THEN blamed ELSE refresh

(* Faulty variant for the mutation runs: the error is returned as it is.   *)
FailedUnstored(c, permanent) ==
    /\ lock' = IF c \in broken THEN lock ELSE NoOne
    /\ Finish(c)
    /\ UNCHANGED rowVars

(* failed(): the cooldown, and whether an operator is needed, are stored   *)
(* and the lock goes with the commit; without its session neither UPDATE   *)
(* nor COMMIT is possible.                                                 *)
Failed(c, permanent) ==
    /\ IF c \in broken THEN UNCHANGED <<brakeVars, lock>>
       ELSE cooling' = TRUE /\ reauth' = permanent /\ lock' = NoOne
    /\ Finish(c)
    /\ UNCHANGED <<access, refresh, due>>

(* Mercado Livre exchanges a refresh token it has not consumed.  What it   *)
(* grants to a caller without a session is never stored.                   *)
Issue ==
    /\ live < MaxGeneration
    /\ consumed' = consumed \cup {live}
    /\ live' = live + 1
    /\ accepted' = accepted \cup {live + 1}
    /\ straggler' = FALSE
    /\ UNCHANGED seed

Grant(c) ==
    /\ at[c] = "exchanging"
    /\ token[c] = live
    /\ Issue
    /\ Place(c, "granted")
    /\ token' = [token EXCEPT ![c] = live + 1]
    /\ lost' = IF c \in broken THEN lost \cup {live} ELSE lost
    /\ UNCHANGED <<rowVars, lock, rejected, broken, refused, committed, blamed>>

(* It answers invalid_grant to any other, and invalid_client or            *)
(* unauthorized_client to whatever it does not like about the client.      *)
Refuse(c) ==
    /\ at[c] = "exchanging"
    /\ Failed(c, TRUE)
    /\ Blames(c)
    /\ UNCHANGED <<upstreamVars, refused, committed, lost>>

(* An exchange nobody waits for any more may still be made.                *)
MayStraggle(c) == straggler' \in {straggler, straggler \/ token[c] = live}

GrantLate ==
    /\ straggler
    /\ Issue
    /\ lost' = lost \cup {live}
    /\ UNCHANGED <<rowVars, lock, callerVars, refused, committed, blamed>>

(* The request fails or times out before Mercado Livre made the exchange,  *)
(* or a 5xx comes back.                                                    *)
Unreachable(c) ==
    /\ at[c] = "exchanging"
    /\ Failed(c, FALSE)
    /\ Blames(c)
    /\ MayStraggle(c)
    /\ UNCHANGED <<live, accepted, seed, consumed, refused, committed, lost>>

(* Faulty variant for the mutation runs: the access token is used first.   *)
ReceiveAndUse(c) ==
    /\ at[c] = "granted"
    /\ Use(c, token[c])
    /\ lock' = IF lock = c THEN NoOne ELSE lock
    /\ UNCHANGED <<rowVars, upstreamVars, observerVars>>

(* The new tokens arrive whole.                                            *)
Receive(c) ==
    /\ at[c] = "granted"
    /\ Place(c, "persisting")
    /\ UNCHANGED <<rowVars, lock, token, rejected, broken, upstreamVars, observerVars>>

(* The exchange timed out after Mercado Livre made it: a transport error   *)
(* like any other.                                                         *)
LoseAnswer(c) ==
    /\ at[c] = "granted"
    /\ Failed(c, FALSE)
    /\ Blames(c)
    /\ lost' = lost \cup {Posted(c)}
    /\ UNCHANGED <<upstreamVars, refused, committed>>

(* The body of a successful exchange is unusable.                          *)
Garble(c) ==
    /\ at[c] = "granted"
    /\ Failed(c, TRUE)
    /\ Blames(c)
    /\ lost' = lost \cup {Posted(c)}
    /\ UNCHANGED <<upstreamVars, refused, committed>>

(* Faulty variant for the mutation runs: the rotated refresh token is not  *)
(* stored.                                                                 *)
PersistAccessOnly(c) ==
    /\ at[c] = "persisting" /\ c \notin broken
    /\ access' = token[c]
    /\ due' = FALSE /\ cooling' = FALSE /\ reauth' = FALSE
    /\ committed' = committed \cup {token[c]}
    /\ Use(c, token[c])
    /\ lock' = NoOne
    /\ UNCHANGED <<refresh, upstreamVars, refused, lost, blamed>>

(* Tokens and expiry are committed, then the access token is used.         *)
Persist(c) ==
    /\ at[c] = "persisting" /\ c \notin broken
    /\ access' = token[c] /\ refresh' = token[c]
    /\ due' = FALSE /\ cooling' = FALSE /\ reauth' = FALSE
    /\ committed' = committed \cup {token[c]}
    /\ Use(c, token[c])
    /\ lock' = NoOne
    /\ UNCHANGED <<upstreamVars, refused, lost, blamed>>

(* Its UPDATE fails, as its session is gone: an error, and the tokens with *)
(* it.                                                                     *)
GiveUp(c) ==
    /\ at[c] = "persisting" /\ c \in broken
    /\ Finish(c)
    /\ UNCHANGED <<rowVars, lock, upstreamVars, observerVars>>

(***************************************************************************)
(* authorized_get.                                                         *)
(***************************************************************************)

(* The GET is answered other than by a 401, or fails; a refresh loop that  *)
(* has its token is done as well.                                          *)
Answered(c) ==
    /\ at[c] = "calling"
    /\ Finish(c)
    /\ UNCHANGED <<rowVars, lock, upstreamVars, observerVars>>

(* The GET comes back with a 401.                                          *)
Refusal(c) ==
    /\ at[c] = "calling"
    /\ token[c] \notin accepted
    /\ refused' = refused \cup {token[c]}
    /\ UNCHANGED <<rowVars, lock, token, broken, upstreamVars, committed, lost, blamed>>

(* Faulty variant for the mutation runs: every 401 is retried, and the     *)
(* rejected token is not named.                                            *)
UnauthorizedAgain(c) == Refusal(c) /\ Place(c, "locking") /\ UNCHANGED rejected

(* The first 401 asks token() again, the second is marked.                 *)
Unauthorized(c) ==
    /\ Refusal(c)
    /\ \/ /\ rejected[c] = NoToken
          /\ Place(c, "locking")
          /\ rejected' = [rejected EXCEPT ![c] = token[c]]
       \/ /\ rejected[c] # NoToken
          /\ Place(c, "marking")
          /\ UNCHANGED rejected

(* mark_rejected's UPDATE applies only if the rejected token is still the  *)
(* stored one.                                                             *)
StillStored(c) == refresh # NoToken /\ access = token[c]

Marks(c) == blamed' = IF StillStored(c) THEN refresh ELSE blamed

(* mark_rejected: the UPDATE waits for the row lock.                       *)
MarkRejected(c) ==
    /\ at[c] = "marking"
    /\ lock = NoOne
    /\ cooling' = (cooling \/ StillStored(c))
    /\ Marks(c)
    /\ Finish(c)
    /\ UNCHANGED <<access, refresh, due, reauth, lock, upstreamVars, refused, committed, lost>>

(* What a caller was granted and has not committed goes with it.           *)
Forfeits(c) ==
    lost' = IF at[c] \in {"granted", "persisting"} THEN lost \cup {Posted(c)} ELSE lost

(* The caller disconnects, its instance stops or a statement of its fails: *)
(* an open transaction rolls back and the lock is released.                *)
Leave(c) ==
    /\ Faults
    /\ at[c] # "idle"
    /\ lock' = IF lock = c THEN NoOne ELSE lock
    /\ Finish(c)
    /\ IF at[c] = "exchanging" THEN MayStraggle(c) ELSE UNCHANGED straggler
    /\ Forfeits(c)
    /\ UNCHANGED <<rowVars, live, accepted, seed, consumed, refused, committed, blamed>>

(* PostgreSQL ends the session that holds the lock.  The caller has no     *)
(* statement under way and does not notice.                                *)
LoseSession(c) ==
    /\ Faults
    /\ lock = c
    /\ lock' = NoOne
    /\ broken' = broken \cup {c}
    /\ Forfeits(c)
    /\ UNCHANGED <<rowVars, at, token, rejected, upstreamVars, refused, committed, blamed>>

(***************************************************************************)
(* The world.                                                              *)
(***************************************************************************)

(* The stored access token comes within a minute of its expiry.            *)
ComeDue ==
    /\ refresh # NoToken /\ ~due
    /\ due' = TRUE
    /\ UNCHANGED <<access, refresh, brakeVars, lock, callerVars, upstreamVars,
                   observerVars>>

(* Sixty seconds have passed since the statement or transaction that       *)
(* stored the failure began: its now() precedes the wait for the row lock  *)
(* and the POST, so this may be any time after it.                         *)
CoolDown ==
    /\ cooling
    /\ cooling' = FALSE
    /\ blamed' = NoToken
    /\ UNCHANGED <<access, refresh, due, reauth, lock, callerVars, upstreamVars,
                   refused, committed, lost>>

(* Mercado Livre stops accepting an access token.                          *)
Revoke(t) ==
    /\ t \in accepted
    /\ accepted' = accepted \ {t}
    /\ UNCHANGED <<rowVars, lock, callerVars, live, seed, straggler, consumed,
                   observerVars>>

(* The operator stops every instance, removes the row and seeds a new      *)
(* grant (src/README.md:144).                                              *)
Reseed ==
    /\ reauth
    /\ live < MaxGeneration
    /\ \A c \in Callers : at[c] = "idle"
    /\ access' = NoToken /\ refresh' = NoToken
    /\ due' = FALSE /\ cooling' = FALSE /\ reauth' = FALSE
    /\ live' = live + 1
    /\ seed' = live + 1
    /\ straggler' = FALSE
    /\ accepted' = accepted \cup {live + 1}
    /\ UNCHANGED <<lock, callerVars, consumed, observerVars>>

Advance(c) ==
    \/ TurnAway(c)
    \/ Reuse(c)
    \/ StartExchange(c)
    \/ MarkRejected(c)

Answer(c) ==
    \/ Grant(c)
    \/ Refuse(c)
    \/ Unreachable(c)
    \/ Receive(c)
    \/ LoseAnswer(c)
    \/ Garble(c)
    \/ Persist(c)
    \/ GiveUp(c)
    \/ Answered(c)
    \/ Unauthorized(c)

Next ==
    \/ Initialize
    \/ \E c \in Callers : Ask(c) \/ Advance(c) \/ Answer(c) \/ Leave(c) \/ LoseSession(c)
    \/ GrantLate
    \/ ComeDue
    \/ CoolDown
    \/ \E t \in Generations : Revoke(t)
    \/ Reseed

Spec == Init /\ [][Next]_vars

(* Every exchange and GET is answered or times out; PostgreSQL hands a     *)
(* released row lock to a waiter, none is passed over for ever.            *)
FairSpec ==
    Spec /\ \A c \in Callers : WF_vars(Answer(c)) /\ SF_vars(Advance(c))

(***************************************************************************)
(* Properties.                                                             *)
(***************************************************************************)

(* Every variable has its type, and an idle caller keeps nothing.          *)
TypeOK ==
    /\ access \in Tokens /\ refresh \in Tokens
    /\ {due, cooling, reauth, straggler} \subseteq BOOLEAN
    /\ lock \in Callers \cup {NoOne}
    /\ at \in [Callers -> Places]
    /\ token \in [Callers -> Tokens] /\ rejected \in [Callers -> Tokens]
    /\ broken \subseteq Exchanging
    /\ \A c \in Callers : at[c] = "idle" => token[c] = NoToken /\ rejected[c] = NoToken
    /\ live \in Generations /\ seed \in Generations
    /\ accepted \subseteq Generations /\ consumed \subseteq Generations
    /\ refused \subseteq Tokens /\ committed \subseteq Tokens
    /\ lost \subseteq Tokens /\ blamed \in Tokens

(* "Database row locking coordinates API instances and concurrent          *)
(* requests" (src/README.md:139): two callers are between an exchange and  *)
(* its commit at once only if PostgreSQL has ended the session of one.  An *)
(* exchange whose caller has left is beside them (straggler).              *)
OneExchange ==
    \A c, d \in Exchanging : c # d => {c, d} \cap broken # {}

(* "Committed together before use" (src/README.md:133): no GET is sent     *)
(* with an access token that was not committed first.                      *)
CommittedBeforeUse ==
    \A c \in Callers : at[c] = "calling" => token[c] \in committed

(* Once a caller that holds the lock has seen its exchange fail (failed),  *)
(* or a fresh token that came back with a 401 has been marked, no caller   *)
(* of any instance posts that refresh token before the cooldown is over,   *)
(* whichever sessions end, callers leave and exchanges without the lock    *)
(* are answered meanwhile.                                                 *)
BrakeHolds ==
    [][\A c \in Callers : StartExchange(c) => refresh # blamed]_vars

(* Whenever the row is not locked the stored grant is the live one, so     *)
(* that the account stays connected without an operator, unless the answer *)
(* of an exchange was lost, or its caller or the caller's session with it, *)
(* before the commit.                                                      *)
StoredGrantIsLive ==
    refresh # NoToken /\ lock = NoOne => refresh = live \/ refresh \in lost

(* Nothing puts back a refresh token that has been rotated away while the  *)
(* row exists - no restart with an old environment, no late commit         *)
(* (src/README.md:134).                                                    *)
NoRollback ==
    [][refresh # NoToken /\ refresh' # NoToken => refresh' >= refresh]_vars

(* A token that works is not exchanged: an exchange starts only when the   *)
(* stored one is missing, about to expire, or itself came back with a 401, *)
(* even if many callers came back with an older one at once.               *)
NoNeedlessExchange ==
    [][\A c \in Callers : StartExchange(c) =>
          access = NoToken \/ due \/ access \in refused]_vars

(* A cooldown without a failed exchange is always about the stored token:  *)
(* it came back with a 401 (mark_rejected's WHERE access_token = $2).      *)
CooldownHitsItsToken ==
    [][\A c \in Callers :
          MarkRejected(c) /\ cooling' # cooling => access \in refused]_vars

(* "A fresh token rejected after the one allowed retry must not cause a    *)
(* refresh storm" (mercadolivre_oauth.rs:100): what a caller is about to   *)
(* mark is not exchanged before.  It does not hold: another caller's first *)
(* 401 may come before the mark, which then finds a new token (README.md). *)
NoRefreshStorm ==
    [][\A c, d \in Callers :
          StartExchange(c) /\ ~due /\ at[d] = "marking" => token[d] # access]_vars

(* "Do not blindly reuse it" (mercadolivre_oauth.rs:181): a refresh token  *)
(* that an exchange may have consumed is not sent again.  It does not      *)
(* hold: a lost answer counts as a transport error (README.md).            *)
NoBlindReuse ==
    [][\A c \in Callers : StartExchange(c) => refresh \notin consumed]_vars

(* "Retrying the GET at most once" (src/README.md:138): every caller comes *)
(* to an end, whatever Mercado Livre answers.                              *)
CallsEnd == \A c \in Callers : at[c] # "idle" ~> at[c] = "idle"
=============================================================================
