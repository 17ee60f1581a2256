---------------------------- MODULE RateLimiter -----------------------------
(* The token buckets in front of login and registration, one per address,  *)
(* created on first use and evicted when idle. A refused request returns   *)
(* its token in a second call, after other requests may have taken theirs. *)
(*                                                                         *)
(* A bucket holds Burst tokens and gains Rate of them per tick; below zero *)
(* are the tokens reserved in advance.                                     *)
EXTENDS Backend

CONSTANTS Burst, Rate,   \* of the limiter
          Idle,          \* ticks without use after which a bucket is evicted
          MaxDebt,       \* bound: no request at a bucket with a greater debt
          Horizon        \* history: the longest stretch of time that is counted

(* last: the debt up to the time that the latest reservation acts at.      *)
Bucket == [tokens: Int, last: Nat, idle: Nat]

(* The time at which a reservation acts is past; it returns nothing.       *)
Passed == -1

(* debt: up to the time that the reservation acts at.                      *)
Reservation == [ip: Addresses, debt: Nat \cup {Passed}]

(* A bucket is full again before it may be evicted. With the default       *)
(* settings it is, by far.                                                 *)
ASSUME LimiterAssumption ==
  /\ Burst \in Nat \ {0} /\ Rate \in Nat \ {0} /\ Idle \in Nat \ {0} /\ Horizon \in Nat
  /\ MaxDebt \in Nat
  /\ Rate * Idle >= Burst
  /\ None \notin Bucket /\ None \notin Reservation

VARIABLES limiters,   \* address -> bucket or None
          cancelling, \* per handler: the reservation that it is about to
                      \* cancel, or None
          admitted    \* history: how many requests of an address were admitted
                      \* in the last ticks, the current one being the first

limiterVars == <<limiters, cancelling, admitted>>

Spans == 1..Horizon

Debt(tokens) == Larger(0, 0 - tokens)

FullBucket == [tokens |-> Burst, last |-> 0, idle |-> 0]

GetLimiter(i) == IF limiters[i] = None THEN FullBucket ELSE limiters[i]

(* Reserve: the token is taken even when it is not there yet.              *)
Reserve(b) == [tokens |-> b.tokens - 1, last |-> Debt(b.tokens - 1), idle |-> 0]

(* Cancel gives back the token unless later reservations build on it.      *)
Cancel(b, debt) ==
  LET restored == Larger(0, 1 - (b.last - debt))
  IN  [b EXCEPT !.tokens = Smaller(Burst, @ + restored),
                !.last = IF debt = b.last THEN Larger(0, @ - 1) ELSE @]

(* rateLimitMiddleware: admitted when the token is there already. Reserve  *)
(* and Delay read the clock in one instant.                                *)
RateLimit(t, i) ==
  /\ cancelling[t] = None /\ Debt(GetLimiter(i).tokens) <= MaxDebt
  /\ LET b == Reserve(GetLimiter(i))
     IN  /\ limiters' = [limiters EXCEPT ![i] = b]
         /\ \/ /\ b.tokens >= 0
               /\ admitted' = [admitted EXCEPT ![i] = [span \in Spans |-> @[span] + 1]]
               /\ UNCHANGED cancelling
            \/ /\ b.tokens < 0
               /\ cancelling' = [cancelling EXCEPT ![t] = [ip |-> i, debt |-> Debt(b.tokens)]]
               /\ UNCHANGED admitted

(* CancelAt: nothing for a reservation that has acted.                     *)
RefuseRequest(t) ==
  /\ cancelling[t] # None
  /\ limiters' = IF cancelling[t].debt = Passed THEN limiters
                 ELSE [limiters EXCEPT ![cancelling[t].ip] = Cancel(@, cancelling[t].debt)]
  /\ cancelling' = [cancelling EXCEPT ![t] = None]
  /\ UNCHANGED admitted

(* Time passes, also between the Reserve of a request and its Cancel.      *)
LimiterTick ==
  /\ limiters' = [i \in Addresses |->
                    IF limiters[i] = None THEN None
                    ELSE [tokens |-> Smaller(Burst, limiters[i].tokens + Rate),
                          last |-> Larger(0, limiters[i].last - Rate),
                          idle |-> Smaller(Idle, limiters[i].idle + 1)]]
  /\ cancelling' = [t \in Handlers |->
                      IF cancelling[t] = None THEN None
                      ELSE [cancelling[t] EXCEPT !.debt = Larger(Passed, @ - Rate)]]
  /\ admitted' = [i \in Addresses |->
                    [span \in Spans |-> IF span = 1 THEN 0 ELSE admitted[i][span - 1]]]

(* A reservation of the bucket that goes is returned to nobody.            *)
Remove(i) ==
  /\ limiters' = [limiters EXCEPT ![i] = None]
  /\ cancelling' = [t \in Handlers |->
                      IF cancelling[t] # None /\ cancelling[t].ip = i
                      THEN [cancelling[t] EXCEPT !.debt = Passed] ELSE cancelling[t]]
  /\ UNCHANGED admitted

(* Every bucket is evicted (mutant).                                       *)
EvictAll(i) == limiters[i] # None /\ Remove(i)

(* runCleanup.                                                             *)
Evict(i) == limiters[i] # None /\ limiters[i].idle >= Idle /\ Remove(i)

LimiterInit ==
  /\ limiters = [i \in Addresses |-> None] /\ cancelling = [t \in Handlers |-> None]
  /\ admitted = [i \in Addresses |-> [span \in Spans |-> 0]]

LimiterNext ==
  \/ \E t \in Handlers : RefuseRequest(t) \/ \E i \in Addresses : RateLimit(t, i)
  \/ LimiterTick \/ \E i \in Addresses : Evict(i)

LimiterSpec == LimiterInit /\ [][LimiterNext]_limiterVars
-----------------------------------------------------------------------------
LimiterTypeOK ==
  /\ limiters \in [Addresses -> Bucket \cup {None}]
  /\ cancelling \in [Handlers -> Reservation \cup {None}]
  /\ admitted \in [Addresses -> [Spans -> Nat]]

(* router.go:655: the volumetric defence. Whatever is refused, cancelled   *)
(* and evicted meanwhile, the requests admitted from one address in any    *)
(* stretch of time are the burst and what the rate allows.                 *)
BurstBound ==
  \A i \in Addresses, span \in Spans : admitted[i][span] <= Burst + Rate * (span - 1)
=============================================================================
