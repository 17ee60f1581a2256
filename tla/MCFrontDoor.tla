---------------------------- MODULE MCFrontDoor -----------------------------
(* Small instances of what a stranger meets on the way in: the rate        *)
(* limiters, the login lockout and the registration with an invitation.    *)
(* They share no state, so that one of them moves in a behaviour and the   *)
(* others rest: their state spaces add up instead of multiplying.          *)
EXTENDS RateLimiter, LoginLockout, Invitations, TLC

CONSTANTS e1, e2, h1, h2, h3, i1, k1, k2

VARIABLE moving    \* the component that does

doorVars == <<moving, limiterVars, lockoutVars, vars>>

FrontDoorInit ==
  /\ moving \in {"limiter", "lockout", "invitations"}
  /\ LimiterInit /\ LockoutInit /\ Init

FrontDoorNext ==
  \/ moving = "limiter" /\ LimiterNext /\ UNCHANGED <<moving, lockoutVars, vars>>
  \/ moving = "lockout" /\ LockoutNext /\ UNCHANGED <<moving, limiterVars, vars>>
  \/ moving = "invitations" /\ Next /\ UNCHANGED <<moving, limiterVars, lockoutVars>>

FrontDoorSpec == FrontDoorInit /\ [][FrontDoorNext]_doorVars

(* Type invariant of the three.                                            *)
FrontDoorTypeOK == LimiterTypeOK /\ LockoutTypeOK /\ InvitationsTypeOK

FrontDoorSymmetry ==
  Permutations(Handlers) \cup Permutations(Emails) \cup Permutations(Ids)
=============================================================================
