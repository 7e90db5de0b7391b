-------------------------- MODULE OAuthTokensProofs --------------------------
(***************************************************************************)
(* Theorems about the Mercado Livre token store, for any number of         *)
(* callers and instances, whichever sessions end.  The parts of the        *)
(* inductive invariant: the row lock is held by the one exchanging caller  *)
(* whose session lives (LockHeld), so a locked row has no brake            *)
(* (BrakeReleased); tokens in use were committed (Recorded); nobody else   *)
(* has an exchange under way behind a grant that can still be committed    *)
(* (NoStragglerBehindGrant, PostsAreOld), so that grant is one ahead of    *)
(* the row and the row is live unless an answer was lost (LiveOrLost), and *)
(* a blamed refresh token is braked or replaced (BlamedIsBraked); rejected *)
(* tokens were refused (RefusedOnes).                                      *)
(***************************************************************************)
EXTENDS OAuthTokens, TLAPS

USE DEF NoToken

(* TypeOK in two halves: no one prover does both the Boolean variables and *)
(* the arithmetic of the others.                                           *)
Granted(c) == at[c] \in {"granted", "persisting"}

FlagsTyped == {due, cooling, reauth, straggler} \subseteq BOOLEAN

RestTyped ==
    /\ access \in Tokens /\ refresh \in Tokens
    /\ lock \in Callers \cup {NoOne}
    /\ at \in [Callers -> Places]
    /\ token \in [Callers -> Tokens] /\ rejected \in [Callers -> Tokens]
    /\ \A c \in Callers : at[c] = "idle" => token[c] = NoToken /\ rejected[c] = NoToken
    /\ \A c \in Callers : Granted(c) => token[c] # NoToken
    /\ live \in Generations /\ seed \in Generations
    /\ accepted \subseteq Generations /\ consumed \subseteq Generations
    /\ refused \subseteq Tokens /\ committed \subseteq Tokens
    /\ lost \subseteq Tokens /\ blamed \in Tokens

(* The flags stay Boolean.                                                 *)
LEMMA FlagsStep == FlagsTyped /\ [Next]_vars => FlagsTyped'
  BY ZenonT(60) DEF FlagsTyped, Next, Advance, Answer, Initialize, WriteSeed, Ask, TurnAway,
     Reuse, StartExchange, MarkRejected, Grant, Issue, Refuse, Unreachable,
     Failed, MayStraggle, Receive, LoseAnswer, Garble, Persist, GiveUp, Answered,
     Unauthorized, Refusal, Leave, LoseSession, GrantLate, ComeDue, CoolDown, Revoke, Reseed,
     vars, rowVars, brakeVars, upstreamVars

(* A grant follows a refresh token.                                        *)
LEMMA PostedTyped ==
    ASSUME RestTyped, NEW c \in Callers, Granted(c)
    PROVE  Posted(c) \in Tokens
<1>1. token[c] \in 1..MaxGeneration /\ at[c] # "exchanging"
  BY BoundsAssumption DEF RestTyped, Granted, Tokens
<1> QED
  BY <1>1, BoundsAssumption DEF Posted, Tokens

(* Every action keeps the other types, and leaves an idle caller clean.    *)
LEMMA RestStep == RestTyped /\ [Next]_vars => RestTyped'
<1> SUFFICES ASSUME RestTyped, [Next]_vars PROVE RestTyped'
  OBVIOUS
<1> USE BoundsAssumption, CallersAssumption
    DEF RestTyped, Granted, Places, Tokens, Generations, Place, Finish, Use, brakeVars,
        rowVars, callerVars, upstreamVars, observerVars
<1>1. CASE UNCHANGED vars
  BY <1>1 DEF vars
<1>2. CASE Initialize
  BY <1>2 DEF Initialize, WriteSeed
<1>3. ASSUME NEW c \in Callers, Ask(c) \/ TurnAway(c) \/ Reuse(c) PROVE RestTyped'
  <2>1. CASE Ask(c)
    BY <2>1 DEF Ask
  <2>2. CASE TurnAway(c)
    BY <2>2 DEF TurnAway, Locks
  <2>3. CASE Reuse(c)
    BY <2>3 DEF Reuse, Locks
  <2> QED
    BY <1>3, <2>1, <2>2, <2>3
<1>4. ASSUME NEW c \in Callers, StartExchange(c) PROVE RestTyped'
  BY <1>4 DEF StartExchange, Locks
<1>5. ASSUME NEW c \in Callers, MarkRejected(c) PROVE RestTyped'
  BY <1>5 DEF MarkRejected, Marks
<1>6. ASSUME NEW c \in Callers, Grant(c) PROVE RestTyped'
  BY <1>6 DEF Grant, Issue
<1>7. ASSUME NEW c \in Callers, Refuse(c) \/ Unreachable(c) PROVE RestTyped'
  <2>1. CASE Refuse(c)
    BY <2>1 DEF Refuse, Failed, Blames
  <2>2. CASE Unreachable(c)
    BY <2>2 DEF Unreachable, Failed, Blames
  <2> QED
    BY <1>7, <2>1, <2>2
<1>8. ASSUME NEW c \in Callers, LoseAnswer(c) \/ Garble(c) PROVE RestTyped'
  <2>1. CASE LoseAnswer(c)
    <3>1. lost' \subseteq Tokens /\ blamed' \in Tokens /\ lock' \in Callers \cup {NoOne}
      BY <2>1, PostedTyped DEF LoseAnswer, Failed, Blames
    <3> QED
      BY <2>1, <3>1 DEF LoseAnswer, Failed
  <2>2. CASE Garble(c)
    <3>1. lost' \subseteq Tokens /\ blamed' \in Tokens /\ lock' \in Callers \cup {NoOne}
      BY <2>2, PostedTyped DEF Garble, Failed, Blames
    <3> QED
      BY <2>2, <3>1 DEF Garble, Failed
  <2> QED
    BY <1>8, <2>1, <2>2
<1>9. ASSUME NEW c \in Callers, Receive(c) PROVE RestTyped'
  BY <1>9 DEF Receive
<1>10. ASSUME NEW c \in Callers, Persist(c) PROVE RestTyped'
  <2>1. /\ access' \in Tokens /\ refresh' \in Tokens
        /\ committed' \subseteq Tokens
    <3>1. token[c] \in Tokens
      OBVIOUS
    <3>2. access' = token[c] /\ refresh' = token[c] /\ committed' = committed \cup {token[c]}
      BY <1>10 DEF Persist
    <3> QED
      BY <3>1, <3>2
  <2>2. /\ at' \in [Callers -> Places] /\ token' \in [Callers -> Tokens]
        /\ at'[c] # "idle" /\ rejected' = rejected
        /\ \A d \in Callers \ {c} : at'[d] = at[d] /\ token'[d] = token[d]
    <3>1. /\ at' = [at EXCEPT ![c] = "calling"]
          /\ token' = [token EXCEPT ![c] = token[c]]
          /\ rejected' = rejected
      BY <1>10, SMTT(20) DEF Persist
    <3> QED
      BY <3>1, SMTT(20)
  <2> QED
    BY <1>10, <2>1, <2>2 DEF Persist
<1>11. ASSUME NEW c \in Callers, Answered(c) \/ Unauthorized(c) PROVE RestTyped'
  <2>1. CASE Answered(c)
    BY <2>1 DEF Answered
  <2>2. CASE Unauthorized(c)
    <3>1. refused' \subseteq Tokens
      <4>1. refused' = refused \cup {token[c]} /\ token[c] \in Tokens
        BY <2>2 DEF Unauthorized, Refusal
      <4> QED
        BY <4>1
    <3>2. /\ at' \in [Callers -> Places]
          /\ token' = token
          /\ rejected' \in [Callers -> Tokens]
      BY <2>2 DEF Unauthorized, Refusal
    <3>3. \A d \in Callers :
             /\ at'[d] = "idle" => at[d] = "idle" /\ rejected'[d] = rejected[d]
             /\ at'[d] \in {"granted", "persisting"} => at[d] = at'[d]
      BY <2>2 DEF Unauthorized, Refusal
    <3>4. UNCHANGED <<access, refresh, lock, live, seed, accepted, consumed, committed,
                      lost, blamed>>
      BY <2>2 DEF Unauthorized, Refusal
    <3> QED
      BY <3>1, <3>2, <3>3, <3>4
  <2> QED
    BY <1>11, <2>1, <2>2
<1>12. ASSUME NEW c \in Callers, Leave(c) PROVE RestTyped'
  <2>1. lock' \in Callers \cup {NoOne}
    BY <1>12 DEF Leave
  <2>2. lost' \subseteq Tokens
    BY <1>12, PostedTyped DEF Leave, Forfeits
  <2>3. /\ Finish(c)
        /\ UNCHANGED <<access, refresh, live, accepted, seed, consumed, refused, committed,
                       blamed>>
    BY <1>12 DEF Leave
  <2> QED
    BY <2>1, <2>2, <2>3
<1>13. CASE GrantLate
  BY <1>13 DEF GrantLate, Issue
<1>14. CASE ComeDue \/ CoolDown
  <2>1. CASE ComeDue
    BY <2>1 DEF ComeDue
  <2>2. CASE CoolDown
    BY <2>2 DEF CoolDown
  <2> QED
    BY <1>14, <2>1, <2>2
<1>15. ASSUME NEW t \in Generations, Revoke(t) PROVE RestTyped'
  BY <1>15 DEF Revoke
<1>16. CASE Reseed
  BY <1>16 DEF Reseed
<1>17. ASSUME NEW c \in Callers, GiveUp(c) PROVE RestTyped'
  BY <1>17 DEF GiveUp
<1>18. ASSUME NEW c \in Callers, LoseSession(c) PROVE RestTyped'
  <2>1. lost' \subseteq Tokens
    BY <1>18, PostedTyped DEF LoseSession, Forfeits
  <2> QED
    BY <1>18, <2>1 DEF LoseSession
<1> QED
  BY <1>1, <1>2, <1>3, <1>4, <1>5, <1>6, <1>7, <1>8, <1>9, <1>10, <1>11,
     <1>12, <1>13, <1>14, <1>15, <1>16, <1>17, <1>18 DEF Next, Advance, Answer

(* Both halves hold throughout.                                            *)
LEMMA TypeInvariant == Spec => [](FlagsTyped /\ RestTyped)
<1>1. Init => FlagsTyped
  BY DEF Init, FlagsTyped
<1>2. Init => RestTyped
  BY BoundsAssumption DEF Init, RestTyped, Granted, Tokens, Generations, Places
<1> QED
  BY <1>1, <1>2, FlagsStep, RestStep, PTL DEF Spec

(***************************************************************************)
(* The row lock.                                                           *)
(***************************************************************************)

(* The row lock is held by the exchanging caller whose session lives.      *)
LockHeld ==
    /\ lock \in Callers \cup {NoOne}
    /\ at \in [Callers -> Places]
    /\ broken \subseteq Exchanging
    /\ \A c \in Callers : c \in Exchanging \ broken <=> lock = c

(* The lock is taken with the exchange and given up with its end, or with  *)
(* the session.                                                            *)
LEMMA LockStep == LockHeld /\ [Next]_vars => LockHeld'
<1> SUFFICES ASSUME LockHeld, [Next]_vars PROVE LockHeld'
  OBVIOUS
<1> USE CallersAssumption DEF LockHeld, Exchanging, Places, Place, Finish, Use, callerVars, vars
<1>1. CASE UNCHANGED vars
  BY <1>1
<1>2. CASE Initialize \/ GrantLate \/ ComeDue \/ CoolDown \/ Reseed
  BY <1>2 DEF Initialize, WriteSeed, GrantLate, ComeDue, CoolDown, Reseed
<1>3. ASSUME NEW t \in Generations, Revoke(t) PROVE LockHeld'
  BY <1>3 DEF Revoke
<1>4. ASSUME NEW c \in Callers, Ask(c) \/ Advance(c) PROVE LockHeld'
  BY <1>4 DEF Ask, Advance, TurnAway, Reuse, StartExchange, MarkRejected, Locks
<1>5. ASSUME NEW c \in Callers, Grant(c) \/ Receive(c) \/ Persist(c) PROVE LockHeld'
  BY <1>5 DEF Grant, Receive, Persist
<1>6. ASSUME NEW c \in Callers,
             Refuse(c) \/ Unreachable(c) \/ LoseAnswer(c) \/ Garble(c)
      PROVE  LockHeld'
  <2>1. c \in Exchanging /\ Finish(c) /\ lock' = (IF c \in broken THEN lock ELSE NoOne)
    BY <1>6 DEF Refuse, Unreachable, LoseAnswer, Garble, Failed
  <2> QED
    BY <2>1
<1>7. ASSUME NEW c \in Callers, Answered(c) \/ Unauthorized(c) \/ GiveUp(c) PROVE LockHeld'
  BY <1>7 DEF Answered, Unauthorized, Refusal, GiveUp
<1>8. ASSUME NEW c \in Callers, Leave(c) PROVE LockHeld'
  BY <1>8 DEF Leave
<1>9. ASSUME NEW c \in Callers, LoseSession(c) PROVE LockHeld'
  BY <1>9 DEF LoseSession
<1> QED
  BY <1>1, <1>2, <1>3, <1>4, <1>5, <1>6, <1>7, <1>8, <1>9 DEF Next, Answer

(* Lock and callers agree throughout.                                      *)
LEMMA LockInvariant == Spec => []LockHeld
<1>1. Init => LockHeld
  BY CallersAssumption DEF Init, LockHeld, Exchanging, Places
<1> QED
  BY <1>1, LockStep, PTL DEF Spec

(* Every reachable state is well typed, and an idle caller keeps nothing   *)
(* of the call before.                                                     *)
THEOREM TypeCorrect == Spec => []TypeOK
<1>1. FlagsTyped /\ RestTyped /\ LockHeld => TypeOK
  BY DEF FlagsTyped, RestTyped, LockHeld, TypeOK
<1> QED
  BY <1>1, TypeInvariant, LockInvariant, PTL

(* Two callers are between an exchange and its commit at once only if the  *)
(* session of one has ended: what the row lock guarantees, and no more.    *)
THEOREM ExchangesAreSerial == Spec => []OneExchange
<1>1. LockHeld => OneExchange
  BY CallersAssumption DEF LockHeld, OneExchange, Exchanging
<1> QED
  BY <1>1, LockInvariant, PTL

(* Whoever holds the lock found a row without a brake, and nobody else     *)
(* writes the row while it is held.                                        *)
BrakeReleased == lock # NoOne => refresh # NoToken /\ ~reauth /\ ~cooling

(* Every write of a brake releases the lock or needs it free.              *)
LEMMA BrakeStep == LockHeld /\ BrakeReleased /\ [Next]_vars => BrakeReleased'
<1> SUFFICES ASSUME LockHeld, BrakeReleased, [Next]_vars PROVE BrakeReleased'
  OBVIOUS
<1> USE CallersAssumption DEF BrakeReleased, rowVars, brakeVars, vars
<1>1. CASE UNCHANGED vars
  BY <1>1
<1>2. CASE Initialize \/ GrantLate \/ ComeDue \/ CoolDown
  BY <1>2 DEF Initialize, WriteSeed, GrantLate, ComeDue, CoolDown
<1>3. CASE Reseed
  BY <1>3 DEF Reseed, LockHeld, Exchanging
<1>4. ASSUME NEW t \in Generations, Revoke(t) PROVE BrakeReleased'
  BY <1>4 DEF Revoke
<1>5. ASSUME NEW c \in Callers, Ask(c) \/ Advance(c) PROVE BrakeReleased'
  BY <1>5 DEF Ask, Advance, TurnAway, Reuse, StartExchange, MarkRejected, Locks, Braked
<1>6. ASSUME NEW c \in Callers, Grant(c) \/ Receive(c) \/ Persist(c) PROVE BrakeReleased'
  BY <1>6 DEF Grant, Receive, Persist
<1>7. ASSUME NEW c \in Callers,
             Refuse(c) \/ Unreachable(c) \/ LoseAnswer(c) \/ Garble(c)
      PROVE  BrakeReleased'
  BY <1>7 DEF Refuse, Unreachable, LoseAnswer, Garble, Failed
<1>8. ASSUME NEW c \in Callers, Answered(c) \/ Unauthorized(c) PROVE BrakeReleased'
  BY <1>8 DEF Answered, Unauthorized, Refusal
<1>9. ASSUME NEW c \in Callers, Leave(c) \/ LoseSession(c) \/ GiveUp(c) PROVE BrakeReleased'
  BY <1>9 DEF Leave, LoseSession, GiveUp
<1> QED
  BY <1>1, <1>2, <1>3, <1>4, <1>5, <1>6, <1>7, <1>8, <1>9 DEF Next, Answer

(* So the row has no brake while it is locked.                             *)
LEMMA BrakeInvariant == Spec => [](LockHeld /\ BrakeReleased)
<1>1. Init => BrakeReleased
  BY DEF Init, BrakeReleased
<1> QED
  BY <1>1, LockInvariant, BrakeStep, PTL DEF Spec

(***************************************************************************)
(* Commit before use.                                                      *)
(***************************************************************************)

(* The row's access token has been committed, and so has any in use.       *)
Recorded ==
    /\ at \in [Callers -> Places] /\ token \in [Callers -> Tokens]
    /\ refresh # NoToken => access \in committed
    /\ \A c \in Callers : at[c] = "calling" => token[c] \in committed

(* Every write of the row's access token is its commit.                    *)
LEMMA RecordedStep == RestTyped /\ Recorded /\ [Next]_vars => Recorded'
<1> SUFFICES ASSUME RestTyped, Recorded, [Next]_vars PROVE Recorded'
  OBVIOUS
<1>a. RestTyped'
  BY RestStep
<1>0. /\ at' \in [Callers -> Places] /\ token' \in [Callers -> Tokens]
      /\ at \in [Callers -> Places] /\ token \in [Callers -> Tokens]
  BY <1>a DEF RestTyped
<1> USE <1>0 DEF Recorded, Place, Finish, Use, rowVars, callerVars, observerVars, vars
<1>1. CASE UNCHANGED vars
  BY <1>1
<1>2. CASE Initialize \/ GrantLate \/ ComeDue \/ CoolDown \/ Reseed
  BY <1>2 DEF Initialize, WriteSeed, GrantLate, ComeDue, CoolDown, Reseed
<1>3. ASSUME NEW t \in Generations, Revoke(t) PROVE Recorded'
  BY <1>3 DEF Revoke
<1>4. ASSUME NEW c \in Callers, Ask(c) \/ Advance(c) PROVE Recorded'
  BY <1>4 DEF Ask, Advance, TurnAway, Reuse, StartExchange, MarkRejected, Locks, Braked, Places
<1>5. ASSUME NEW c \in Callers, Grant(c) \/ Receive(c) \/ Persist(c) PROVE Recorded'
  BY <1>5 DEF Grant, Receive, Persist, Places
<1>6. ASSUME NEW c \in Callers,
             Refuse(c) \/ Unreachable(c) \/ LoseAnswer(c) \/ Garble(c)
      PROVE  Recorded'
  BY <1>6 DEF Refuse, Unreachable, LoseAnswer, Garble, Failed
<1>7. ASSUME NEW c \in Callers, Answered(c) \/ Unauthorized(c) PROVE Recorded'
  BY <1>7 DEF Answered, Unauthorized, Refusal
<1>8. ASSUME NEW c \in Callers, Leave(c) \/ LoseSession(c) \/ GiveUp(c) PROVE Recorded'
  BY <1>8 DEF Leave, LoseSession, GiveUp
<1> QED
  BY <1>1, <1>2, <1>3, <1>4, <1>5, <1>6, <1>7, <1>8 DEF Next, Answer

(* No access token is used before the commit that stores it.               *)
THEOREM TokensAreCommittedFirst == Spec => []CommittedBeforeUse
<1>1. Init => Recorded
  BY BoundsAssumption DEF Init, Recorded, Tokens, Places
<1>2. Recorded => CommittedBeforeUse
  BY DEF Recorded, CommittedBeforeUse
<1> QED
  BY <1>1, <1>2, TypeInvariant, RecordedStep, PTL DEF Spec

(***************************************************************************)
(* The stored grant.                                                       *)
(***************************************************************************)

(* An exchange nobody waits for is spent by the next one that is made.     *)
NoStragglerBehindGrant ==
    \A c \in Callers \ broken : Granted(c) => straggler = FALSE

(* An exchange is made of the row's refresh token, or, once the session is *)
(* lost, of one the row held before.                                       *)
PostsAreOld ==
    \A c \in Callers :
        /\ c \in Exchanging => refresh # NoToken
        /\ at[c] = "exchanging" => token[c] <= refresh
        /\ at[c] = "exchanging" /\ c \notin broken => token[c] = refresh

(* The refresh token Mercado Livre will exchange is the newest; a grant    *)
(* that can be committed is it, and one ahead of the row; otherwise the    *)
(* row holds it, unless its answer was lost; and a client without a row    *)
(* finds it in the environment, unless it was lost.                        *)
LiveOrLost ==
    /\ refresh <= live /\ seed <= live
    /\ \A c \in Callers \ broken : Granted(c) => token[c] = live /\ refresh = live - 1
    /\ refresh # NoToken /\ (\A c \in Callers \ broken : ~Granted(c)) =>
          refresh = live \/ refresh \in lost
    /\ refresh = NoToken => seed = live \/ seed \in lost

Grants == NoStragglerBehindGrant /\ PostsAreOld /\ LiveOrLost

(* The end of an exchange without a commit, seen by its caller.            *)
Failure(c) == Refuse(c) \/ Unreachable(c) \/ LoseAnswer(c) \/ Garble(c)

(* Such an end leaves the refresh token, and what Mercado Livre holds, as  *)
(* they were, and counts a grant as lost.                                  *)
LEMMA FailureEffect ==
    ASSUME RestTyped, NEW c \in Callers, Failure(c)
    PROVE  /\ c \in Exchanging
           /\ UNCHANGED <<refresh, live, seed>>
           /\ at' = [at EXCEPT ![c] = "idle"] /\ token' = [token EXCEPT ![c] = NoToken]
           /\ broken' = broken \ {c}
           /\ lost' = IF Granted(c) THEN lost \cup {token[c] - 1} ELSE lost
<1> USE DEF Failed, Finish, Place, Exchanging, Granted, Posted, upstreamVars
<1>1. CASE Refuse(c)
  BY <1>1 DEF Refuse
<1>2. CASE Unreachable(c)
  BY <1>2 DEF Unreachable
<1>3. CASE LoseAnswer(c)
  BY <1>3 DEF LoseAnswer
<1>4. CASE Garble(c)
  BY <1>4 DEF Garble
<1> QED
  BY <1>1, <1>2, <1>3, <1>4 DEF Failure

(* The exchange at Mercado Livre, of the row's token at best: a caller     *)
(* that can still commit finds the row's own token to be the live one, and *)
(* nobody else has a grant to commit.                                      *)
LEMMA GrantEffect ==
    ASSUME RestTyped, LockHeld, Grants, NEW c \in Callers, Grant(c)
    PROVE  /\ refresh = live /\ live' = live + 1 /\ straggler' = FALSE
           /\ at' = [at EXCEPT ![c] = "granted"] /\ token' = [token EXCEPT ![c] = live + 1]
           /\ lost' = IF c \in broken THEN lost \cup {live} ELSE lost
           /\ UNCHANGED <<refresh, seed, broken>>
           /\ \A d \in Callers \ broken : ~Granted(d)
<1>1. /\ at[c] = "exchanging" /\ token[c] = live /\ live' = live + 1 /\ straggler' = FALSE
      /\ at' = [at EXCEPT ![c] = "granted"] /\ token' = [token EXCEPT ![c] = live + 1]
      /\ lost' = IF c \in broken THEN lost \cup {live} ELSE lost
      /\ UNCHANGED <<refresh, seed, broken>>
  BY DEF Grant, Issue, Place, rowVars
<1>2. refresh \in Nat /\ live \in Nat
  BY BoundsAssumption DEF RestTyped, Tokens, Generations
<1>3. refresh = live
  BY <1>1, <1>2 DEF Grants, PostsAreOld, LiveOrLost
<1>4. \A d \in Callers \ broken : ~Granted(d)
  BY <1>2, <1>3 DEF Grants, LiveOrLost
<1> QED
  BY <1>1, <1>3, <1>4

(* Mercado Livre makes one exchange of a refresh token.                    *)
LEMMA StragglerStep ==
    RestTyped /\ LockHeld /\ Grants /\ [Next]_vars => NoStragglerBehindGrant'
<1> SUFFICES ASSUME RestTyped, LockHeld, Grants, [Next]_vars
             PROVE  NoStragglerBehindGrant'
  OBVIOUS
<1>0. NoStragglerBehindGrant
  BY DEF Grants
<1> USE <1>0, CallersAssumption
    DEF NoStragglerBehindGrant, Granted, LockHeld, Exchanging, Place, Finish, Use,
        callerVars, upstreamVars, vars
<1>1. CASE UNCHANGED vars
  BY <1>1
<1>2. CASE Initialize \/ ComeDue \/ CoolDown
  BY <1>2 DEF Initialize, WriteSeed, ComeDue, CoolDown
<1>3. CASE GrantLate \/ Reseed
  BY <1>3 DEF GrantLate, Issue, Reseed
<1>4. ASSUME NEW t \in Generations, Revoke(t) PROVE NoStragglerBehindGrant'
  BY <1>4 DEF Revoke
<1>5. ASSUME NEW c \in Callers, Ask(c) \/ Advance(c) PROVE NoStragglerBehindGrant'
  BY <1>5 DEF Ask, Advance, TurnAway, Reuse, StartExchange, MarkRejected, Locks
<1>6. ASSUME NEW c \in Callers, Grant(c) \/ Receive(c) \/ Persist(c) \/ GiveUp(c)
      PROVE  NoStragglerBehindGrant'
  BY <1>6 DEF Grant, Issue, Receive, Persist, GiveUp
<1>7. ASSUME NEW c \in Callers, Refuse(c) \/ LoseAnswer(c) \/ Garble(c)
      PROVE  NoStragglerBehindGrant'
  BY <1>7 DEF Refuse, LoseAnswer, Garble, Failed
<1>8. ASSUME NEW c \in Callers, c \in Exchanging, Finish(c), MayStraggle(c),
             at[c] = "exchanging"
      PROVE  NoStragglerBehindGrant'
  <2> SUFFICES ASSUME NEW d \in Callers \ broken', Granted(d)' PROVE straggler' = FALSE
    OBVIOUS
  <2>1. d # c /\ Granted(d) /\ d \notin broken
    BY <1>8
  <2>2. straggler = FALSE
    BY <2>1
  <2>3. token[c] # live
    <3>1. refresh = live - 1
      BY <2>1 DEF Grants, LiveOrLost
    <3>2. token[c] <= refresh
      BY <1>8 DEF Grants, PostsAreOld
    <3> QED
      BY <3>1, <3>2, BoundsAssumption DEF RestTyped, Tokens, Generations
  <2> QED
    BY <1>8, <2>2, <2>3 DEF MayStraggle
<1>9. ASSUME NEW c \in Callers, Unreachable(c) PROVE NoStragglerBehindGrant'
  BY <1>8, <1>9 DEF Unreachable, Failed
<1>10. ASSUME NEW c \in Callers, Answered(c) \/ Unauthorized(c)
      PROVE  NoStragglerBehindGrant'
  BY <1>10 DEF Answered, Unauthorized, Refusal
<1>11. ASSUME NEW c \in Callers, Leave(c) PROVE NoStragglerBehindGrant'
  <2>1. CASE at[c] = "exchanging"
    BY <1>8, <1>11, <2>1 DEF Leave
  <2>2. CASE at[c] # "exchanging"
    BY <1>11, <2>2 DEF Leave
  <2> QED
    BY <2>1, <2>2
<1>12. ASSUME NEW c \in Callers, LoseSession(c) PROVE NoStragglerBehindGrant'
  BY <1>12 DEF LoseSession
<1> QED
  BY <1>1, <1>2, <1>3, <1>4, <1>5, <1>6, <1>7, <1>9, <1>10, <1>11, <1>12 DEF Next, Answer

(* The row's refresh token is only ever replaced by a newer one.           *)
LEMMA PostsStep ==
    RestTyped /\ LockHeld /\ BrakeReleased /\ Grants /\ [Next]_vars => PostsAreOld'
<1> SUFFICES ASSUME RestTyped, LockHeld, BrakeReleased, Grants, [Next]_vars
             PROVE  PostsAreOld'
  OBVIOUS
<1>0. /\ at \in [Callers -> Places] /\ token \in [Callers -> Tokens]
      /\ refresh \in Nat /\ live \in Nat /\ \A d \in Callers : token[d] \in Nat
      /\ PostsAreOld
  BY BoundsAssumption DEF RestTyped, Tokens, Generations, Grants
<1> USE <1>0, CallersAssumption
    DEF PostsAreOld, Exchanging, Places, Place, Finish, Use, rowVars, callerVars, vars
<1>1. CASE UNCHANGED vars
  BY <1>1
<1>2. CASE Initialize
  BY <1>2 DEF Initialize, WriteSeed
<1>3. CASE GrantLate \/ ComeDue \/ CoolDown
  BY <1>3 DEF GrantLate, ComeDue, CoolDown
<1>4. CASE Reseed
  BY <1>4 DEF Reseed
<1>5. ASSUME NEW t \in Generations, Revoke(t) PROVE PostsAreOld'
  BY <1>5 DEF Revoke
<1>6. ASSUME NEW c \in Callers, Ask(c) \/ TurnAway(c) \/ Reuse(c) \/ MarkRejected(c)
      PROVE  PostsAreOld'
  BY <1>6 DEF Ask, TurnAway, Reuse, MarkRejected, Locks
<1>7. ASSUME NEW c \in Callers, StartExchange(c) PROVE PostsAreOld'
  BY <1>7 DEF StartExchange, Locks, Braked
<1>8. ASSUME NEW c \in Callers, Grant(c) \/ Receive(c) \/ GiveUp(c) PROVE PostsAreOld'
  BY <1>8 DEF Grant, Receive, GiveUp
<1>9. ASSUME NEW c \in Callers, Persist(c) PROVE PostsAreOld'
  <2>1. /\ c \notin broken /\ at[c] = "persisting"
        /\ at' = [at EXCEPT ![c] = "calling"] /\ token' = [token EXCEPT ![c] = token[c]]
        /\ refresh' = token[c] /\ UNCHANGED broken
    BY <1>9 DEF Persist
  <2>2. token[c] = live /\ refresh = live - 1
    BY <2>1 DEF Grants, LiveOrLost, Granted
  <2>3. \A d \in Exchanging \ broken : d = c
    BY <2>1 DEF LockHeld
  <2> QED
    BY <2>1, <2>2, <2>3
<1>10. ASSUME NEW c \in Callers, Failure(c) PROVE PostsAreOld'
  BY <1>10, FailureEffect
<1>11. ASSUME NEW c \in Callers, Answered(c) \/ Unauthorized(c) PROVE PostsAreOld'
  BY <1>11 DEF Answered, Unauthorized, Refusal
<1>12. ASSUME NEW c \in Callers, Leave(c) PROVE PostsAreOld'
  BY <1>12 DEF Leave
<1>13. ASSUME NEW c \in Callers, LoseSession(c) PROVE PostsAreOld'
  BY <1>13 DEF LoseSession
<1> QED
  BY <1>1, <1>2, <1>3, <1>4, <1>5, <1>6, <1>7, <1>8, <1>9, <1>10, <1>11, <1>12, <1>13
     DEF Next, Advance, Answer, Failure

(* An exchange ends in a commit of what it got, or in a lost answer.       *)
LEMMA LiveStep ==
    RestTyped /\ LockHeld /\ BrakeReleased /\ Grants /\ [Next]_vars => LiveOrLost'
<1> SUFFICES ASSUME RestTyped, LockHeld, BrakeReleased, Grants, [Next]_vars
             PROVE  LiveOrLost'
  OBVIOUS
<1>0. /\ at \in [Callers -> Places] /\ token \in [Callers -> Tokens]
      /\ refresh \in Nat /\ live \in Nat /\ seed \in Nat
      /\ LiveOrLost
  BY BoundsAssumption DEF RestTyped, Tokens, Generations, Grants
<1> USE <1>0, CallersAssumption
    DEF LiveOrLost, Granted, Place, Finish, Use, rowVars, callerVars, upstreamVars,
        observerVars, vars
<1>1. CASE UNCHANGED vars
  BY <1>1
<1>2. CASE Initialize
  <2>1. \A c \in Callers : ~Granted(c)
    BY <1>2 DEF Initialize, Grants, PostsAreOld, Exchanging
  <2>2. refresh = NoToken /\ refresh' = seed /\ UNCHANGED <<at, token, broken, live, seed, lost>>
    BY <1>2 DEF Initialize, WriteSeed
  <2> QED
    BY <2>1, <2>2
<1>3. CASE GrantLate
  <2>1. \A c \in Callers \ broken : ~Granted(c)
    BY <1>3 DEF GrantLate, Grants, NoStragglerBehindGrant
  <2>2. /\ UNCHANGED <<refresh, at, token, broken, seed>>
        /\ live' = live + 1 /\ lost' = lost \cup {live}
    BY <1>3 DEF GrantLate, Issue
  <2> QED
    BY <2>1, <2>2
<1>4. CASE ComeDue \/ CoolDown
  BY <1>4 DEF ComeDue, CoolDown
<1>5. CASE Reseed
  BY <1>5 DEF Reseed
<1>6. ASSUME NEW t \in Generations, Revoke(t) PROVE LiveOrLost'
  BY <1>6 DEF Revoke
<1>7. ASSUME NEW c \in Callers, Ask(c) \/ Advance(c) PROVE LiveOrLost'
  <2>1. CASE Ask(c)
    BY <2>1 DEF Ask
  <2>2. CASE TurnAway(c)
    BY <2>2 DEF TurnAway, Locks
  <2>3. CASE Reuse(c)
    BY <2>3 DEF Reuse, Locks
  <2>4. CASE StartExchange(c)
    BY <2>4 DEF StartExchange, Locks
  <2>5. CASE MarkRejected(c)
    BY <2>5 DEF MarkRejected
  <2> QED
    BY <1>7, <2>1, <2>2, <2>3, <2>4, <2>5 DEF Advance
<1>8. ASSUME NEW c \in Callers, Grant(c) PROVE LiveOrLost'
  <2>1. /\ refresh = live /\ live' = live + 1
        /\ at' = [at EXCEPT ![c] = "granted"] /\ token' = [token EXCEPT ![c] = live + 1]
        /\ lost' = IF c \in broken THEN lost \cup {live} ELSE lost
        /\ UNCHANGED <<refresh, seed, broken>>
        /\ \A d \in Callers \ broken : ~Granted(d)
    BY <1>8, GrantEffect
  <2>2. refresh # NoToken
    BY <1>8 DEF Grant, Grants, PostsAreOld, Exchanging
  <2> QED
    BY <2>1, <2>2
<1>9. ASSUME NEW c \in Callers, Receive(c) PROVE LiveOrLost'
  BY <1>9 DEF Receive
<1>10. ASSUME NEW c \in Callers, Persist(c) PROVE LiveOrLost'
  <2>1. \A d \in Callers \ broken : Granted(d) => d = c
    BY <1>10 DEF Persist, LockHeld, Exchanging
  <2>2. /\ c \notin broken /\ refresh' = token[c] /\ token[c] = live
        /\ at' = [at EXCEPT ![c] = "calling"] /\ token' = [token EXCEPT ![c] = token[c]]
        /\ UNCHANGED <<broken, live, seed, lost>>
    BY <1>10 DEF Persist
  <2> QED
    BY <2>1, <2>2
<1>11. ASSUME NEW c \in Callers, Failure(c) PROVE LiveOrLost'
  BY <1>11, FailureEffect
<1>12. ASSUME NEW c \in Callers, Answered(c) \/ Unauthorized(c) PROVE LiveOrLost'
  <2>1. CASE Answered(c)
    BY <2>1 DEF Answered
  <2>2. CASE Unauthorized(c)
    BY <2>2 DEF Unauthorized, Refusal
  <2> QED
    BY <1>12, <2>1, <2>2
<1>13. ASSUME NEW c \in Callers, GiveUp(c) PROVE LiveOrLost'
  BY <1>13 DEF GiveUp
<1>14. ASSUME NEW c \in Callers, Leave(c) PROVE LiveOrLost'
  <2>1. /\ UNCHANGED <<refresh, live, seed>>
        /\ at' = [at EXCEPT ![c] = "idle"] /\ token' = [token EXCEPT ![c] = NoToken]
        /\ broken' = broken \ {c}
        /\ lost' = IF Granted(c) THEN lost \cup {token[c] - 1} ELSE lost
    BY <1>14 DEF Leave, Forfeits, Posted
  <2> QED
    BY <2>1
<1>15. ASSUME NEW c \in Callers, LoseSession(c) PROVE LiveOrLost'
  <2>1. /\ UNCHANGED <<refresh, live, seed, at, token>>
        /\ broken' = broken \cup {c}
        /\ lost' = IF Granted(c) THEN lost \cup {token[c] - 1} ELSE lost
    BY <1>15 DEF LoseSession, Forfeits, Posted
  <2>2. c \notin broken /\ \A d \in Callers \ broken : Granted(d) => d = c
    BY <1>15 DEF LoseSession, LockHeld, Exchanging
  <2> QED
    BY <2>1, <2>2
<1> QED
  BY <1>1, <1>2, <1>3, <1>4, <1>5, <1>6, <1>7, <1>8, <1>9, <1>10, <1>11,
     <1>12, <1>13, <1>14, <1>15 DEF Next, Answer, Failure

(* The grant, the row and the environment agree throughout.                *)
LEMMA LiveInvariant == Spec => [](RestTyped /\ LockHeld /\ BrakeReleased /\ Grants)
<1>1. Init => Grants
  BY DEF Init, Grants, LiveOrLost, NoStragglerBehindGrant, PostsAreOld, Granted, Exchanging
<1>2. RestTyped /\ LockHeld /\ BrakeReleased /\ Grants /\ [Next]_vars => Grants'
  BY StragglerStep, PostsStep, LiveStep DEF Grants
<1> QED
  BY <1>1, <1>2, TypeInvariant, BrakeInvariant, PTL DEF Spec

(* While the row is not locked the stored grant is the live one, unless    *)
(* the answer of an exchange never reached a commit.                       *)
THEOREM StoredGrantStaysLive == Spec => []StoredGrantIsLive
<1>1. LockHeld /\ Grants => StoredGrantIsLive
  BY CallersAssumption DEF LockHeld, Grants, LiveOrLost, StoredGrantIsLive, Granted, Exchanging
<1> QED
  BY <1>1, LiveInvariant, PTL

(***************************************************************************)
(* The brake.                                                              *)
(***************************************************************************)

(* The refresh token to blame is braked, or it has been replaced.          *)
BlamedIsBraked ==
    IF refresh = NoToken THEN blamed < seed
    ELSE blamed <= refresh /\ (blamed = refresh => cooling \/ reauth)

(* Only a commit of a newer token releases the brake before that.          *)
LEMMA BlamedStep ==
    RestTyped /\ LockHeld /\ Grants /\ BlamedIsBraked /\ [Next]_vars => BlamedIsBraked'
<1> SUFFICES ASSUME RestTyped, LockHeld, Grants, BlamedIsBraked, [Next]_vars
             PROVE  BlamedIsBraked'
  OBVIOUS
<1>0. /\ refresh \in Nat /\ live \in Nat /\ seed \in Nat /\ seed > 0 /\ blamed \in Nat
      /\ refresh <= live /\ seed <= live
  BY BoundsAssumption DEF RestTyped, Tokens, Generations, Grants, LiveOrLost
<1> USE <1>0 DEF BlamedIsBraked, rowVars, brakeVars, upstreamVars, observerVars, vars
<1>1. CASE UNCHANGED vars
  BY <1>1
<1>2. CASE Initialize
  BY <1>2 DEF Initialize, WriteSeed
<1>3. CASE GrantLate \/ ComeDue \/ CoolDown
  BY <1>3 DEF GrantLate, Issue, ComeDue, CoolDown
<1>4. CASE Reseed
  BY <1>4 DEF Reseed
<1>5. ASSUME NEW t \in Generations, Revoke(t) PROVE BlamedIsBraked'
  BY <1>5 DEF Revoke
<1>6. ASSUME NEW c \in Callers, Ask(c) \/ TurnAway(c) \/ Reuse(c) \/ StartExchange(c)
      PROVE  BlamedIsBraked'
  BY <1>6 DEF Ask, TurnAway, Reuse, StartExchange
<1>7. ASSUME NEW c \in Callers, MarkRejected(c) PROVE BlamedIsBraked'
  <2>1. /\ UNCHANGED <<refresh, seed, reauth>>
        /\ IF StillStored(c) THEN refresh # NoToken /\ blamed' = refresh /\ cooling'
                             ELSE blamed' = blamed /\ (cooling => cooling')
    BY <1>7, Zenon DEF MarkRejected, Marks, StillStored
  <2>2. CASE StillStored(c)
    BY <2>1, <2>2
  <2>3. CASE ~StillStored(c)
    BY <2>1, <2>3
  <2> QED
    BY <2>2, <2>3
<1>8. ASSUME NEW c \in Callers, Grant(c) \/ Receive(c) \/ GiveUp(c) \/ Answered(c)
      PROVE  BlamedIsBraked'
  BY <1>8 DEF Grant, Issue, Receive, GiveUp, Answered
<1>9. ASSUME NEW c \in Callers, Unauthorized(c) PROVE BlamedIsBraked'
  BY <1>9 DEF Unauthorized, Refusal
<1>10. ASSUME NEW c \in Callers, Persist(c) PROVE BlamedIsBraked'
  <2>1. /\ refresh' = token[c] /\ token[c] = live /\ refresh = live - 1
        /\ UNCHANGED <<blamed, seed>>
    BY <1>10 DEF Persist, Grants, LiveOrLost, Granted
  <2>2. refresh # NoToken
    BY <1>10 DEF Persist, Grants, PostsAreOld, Exchanging
  <2> QED
    BY <2>1, <2>2
<1>11. ASSUME NEW c \in Callers, Failure(c) PROVE BlamedIsBraked'
  <2>1. UNCHANGED <<refresh, seed>>
    BY <1>11, FailureEffect
  <2>2. refresh # NoToken
    BY <1>11, FailureEffect DEF Grants, PostsAreOld
  <2>3. IF c \in broken THEN UNCHANGED <<blamed, cooling, reauth>>
        ELSE blamed' = refresh /\ cooling' = TRUE
    BY <1>11 DEF Failure, Refuse, Unreachable, LoseAnswer, Garble, Failed, Blames
  <2> QED
    BY <2>1, <2>2, <2>3
<1>12. ASSUME NEW c \in Callers, Leave(c) \/ LoseSession(c) PROVE BlamedIsBraked'
  BY <1>12 DEF Leave, LoseSession
<1> QED
  BY <1>1, <1>2, <1>3, <1>4, <1>5, <1>6, <1>7, <1>8, <1>9, <1>10, <1>11, <1>12
     DEF Next, Advance, Answer, Failure

(* A refresh token whose exchange failed, or whose access token was marked *)
(* as rejected, is not posted again before the cooldown ends, whichever    *)
(* sessions end and whatever exchanges without the lock come to.           *)
THEOREM BrakesHold == Spec => BrakeHolds
<1>1. Init => BlamedIsBraked
  BY DEF Init, BlamedIsBraked
<1>2. BlamedIsBraked /\ [Next]_vars =>
        [\A c \in Callers : StartExchange(c) => refresh # blamed]_vars
  BY DEF BlamedIsBraked, StartExchange, Braked
<1> QED
  BY <1>1, <1>2, LiveInvariant, BlamedStep, PTL DEF Spec, BrakeHolds

(* A rotated refresh token never returns to the row.                       *)
THEOREM RotationIsOneWay == Spec => NoRollback
<1>1. RestTyped /\ Grants /\ [Next]_vars =>
        [refresh # NoToken /\ refresh' # NoToken => refresh' >= refresh]_vars
  <2> SUFFICES ASSUME RestTyped, Grants, [Next]_vars, refresh # NoToken,
                      refresh' # NoToken
               PROVE  refresh' >= refresh
    OBVIOUS
  <2>0. refresh \in Nat /\ refresh >= refresh
    BY BoundsAssumption DEF RestTyped, Tokens
  <2>1. ASSUME NEW c \in Callers, Persist(c) PROVE refresh' >= refresh
    BY <2>0, <2>1, BoundsAssumption
       DEF Persist, Grants, LiveOrLost, Granted, RestTyped, Tokens, Generations
  <2>2. CASE \A c \in Callers : ~Persist(c)
    <3>1. refresh' = refresh
      BY <2>2 DEF Next, Advance, Answer, Initialize, Ask, TurnAway, Reuse,
         StartExchange, MarkRejected, Grant, Refuse, Unreachable, Failed, Receive,
         LoseAnswer, Garble, Answered, Unauthorized, Refusal, GiveUp, Leave, LoseSession, GrantLate,
         ComeDue, CoolDown, Revoke, Reseed, vars, rowVars
    <3> QED
      BY <2>0, <3>1
  <2> QED
    BY <2>1, <2>2
<1> QED
  BY <1>1, LiveInvariant, PTL DEF Spec, NoRollback

(***************************************************************************)
(* Rejected tokens.                                                        *)
(***************************************************************************)

(* What a caller takes for rejected did come back with a 401.              *)
RefusedOnes ==
    /\ at \in [Callers -> Places]
    /\ token \in [Callers -> Tokens] /\ rejected \in [Callers -> Tokens]
    /\ \A c \in Callers : rejected[c] # NoToken => rejected[c] \in refused
    /\ \A c \in Callers : at[c] = "marking" => token[c] \in refused

(* A caller only takes a token for rejected in Refusal.                    *)
LEMMA RefusedStep == RestTyped /\ RefusedOnes /\ [Next]_vars => RefusedOnes'
<1> SUFFICES ASSUME RestTyped, RefusedOnes, [Next]_vars PROVE RefusedOnes'
  OBVIOUS
<1>a. RestTyped'
  BY RestStep
<1>0. /\ at' \in [Callers -> Places]
      /\ token' \in [Callers -> Tokens] /\ rejected' \in [Callers -> Tokens]
  BY <1>a DEF RestTyped
<1> USE <1>0 DEF RefusedOnes, Places, Place, Finish, Use, callerVars, observerVars, vars
<1>1. CASE UNCHANGED vars
  BY <1>1
<1>2. CASE Initialize \/ GrantLate \/ ComeDue \/ CoolDown \/ Reseed
  BY <1>2 DEF Initialize, WriteSeed, GrantLate, ComeDue, CoolDown, Reseed
<1>3. ASSUME NEW t \in Generations, Revoke(t) PROVE RefusedOnes'
  BY <1>3 DEF Revoke
<1>4. ASSUME NEW c \in Callers, Ask(c) \/ Advance(c) PROVE RefusedOnes'
  BY <1>4 DEF Ask, Advance, TurnAway, Reuse, StartExchange, MarkRejected, Locks
<1>5. ASSUME NEW c \in Callers, Grant(c) \/ Receive(c) \/ Persist(c) PROVE RefusedOnes'
  BY <1>5 DEF Grant, Receive, Persist
<1>6. ASSUME NEW c \in Callers,
             Refuse(c) \/ Unreachable(c) \/ LoseAnswer(c) \/ Garble(c)
      PROVE  RefusedOnes'
  BY <1>6 DEF Refuse, Unreachable, LoseAnswer, Garble, Failed
<1>7. ASSUME NEW c \in Callers, Answered(c) \/ Unauthorized(c) PROVE RefusedOnes'
  <2>1. CASE Answered(c)
    BY <2>1 DEF Answered
  <2>2. CASE Unauthorized(c)
    BY <2>2 DEF Unauthorized, Refusal
  <2> QED
    BY <1>7, <2>1, <2>2
<1>8. ASSUME NEW c \in Callers, Leave(c) \/ LoseSession(c) \/ GiveUp(c) PROVE RefusedOnes'
  BY <1>8 DEF Leave, LoseSession, GiveUp
<1> QED
  BY <1>1, <1>2, <1>3, <1>4, <1>5, <1>6, <1>7, <1>8 DEF Next, Answer

(* Rejected tokens were refused, throughout.                               *)
LEMMA RefusedInvariant == Spec => []RefusedOnes
<1>1. Init => RefusedOnes
  BY BoundsAssumption DEF Init, RefusedOnes, Tokens, Places
<1> QED
  BY <1>1, TypeInvariant, RefusedStep, PTL DEF Spec

(* However many callers come back with an old token, none exchanges one    *)
(* that works.                                                             *)
THEOREM NoStormOfExchanges == Spec => NoNeedlessExchange
<1>1. RefusedOnes =>
        \A c \in Callers : StartExchange(c) => access = NoToken \/ due \/ access \in refused
  BY DEF RefusedOnes, StartExchange, Usable
<1> QED
  BY <1>1, RefusedInvariant, PTL DEF NoNeedlessExchange

(* mark_rejected only brakes a token that came back with a 401.            *)
THEOREM MarksHitTheirToken == Spec => CooldownHitsItsToken
<1>1. FlagsTyped /\ RefusedOnes =>
        \A c \in Callers : MarkRejected(c) /\ cooling' # cooling => access \in refused
  <2> SUFFICES ASSUME FlagsTyped, RefusedOnes, NEW c \in Callers, MarkRejected(c),
                      cooling' # cooling, access \notin refused
               PROVE  FALSE
    OBVIOUS
  <2>1. ~StillStored(c)
    BY DEF RefusedOnes, MarkRejected, StillStored
  <2> QED
    BY <2>1 DEF MarkRejected, FlagsTyped
<1> QED
  BY <1>1, TypeInvariant, RefusedInvariant, PTL DEF CooldownHitsItsToken

=============================================================================
