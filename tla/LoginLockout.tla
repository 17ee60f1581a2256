---------------------------- MODULE LoginLockout ----------------------------
(* The lockout in front of the password check: one row of login_attempts   *)
(* per attempt, counted per email and per address inside a rolling window. *)
(* Counting, verifying and recording are statements of their own, without  *)
(* a transaction around them.                                              *)
(*                                                                         *)
(* A row carries its age in ticks of the clock instead of a timestamp.     *)
EXTENDS Backend, FiniteSetsExt, Functions

CONSTANTS Patient,         \* the emails whose owners wait for a Retry-After
          EmailMax, IPMax,         \* thresholds
          EmailWindow, IPWindow,   \* windows, in ticks
          RetentionFloor,          \* the hour below which rows are kept anyway
          MaxRows                  \* bound: no request starts beyond as many

ASSUME LockoutAssumption ==
  /\ EmailMax \in Nat \ {0} /\ IPMax \in Nat \ {0}
  /\ EmailWindow \in Nat \ {0} /\ IPWindow \in Nat \ {0}
  /\ Patient \subseteq Emails /\ RetentionFloor \in Nat /\ MaxRows \in Nat
  /\ IsFiniteSet(Handlers)

VARIABLES attempts,   \* the table: id -> row
          at, login,    \* per handler: its next statement, its request
          told        \* history: ticks until the Retry-After last given for a
                      \* patient email and address has passed, None when it
                      \* was not waited for

lockoutVars == <<attempts, at, login, told>>

(* success is FALSE for "wrong" (verified and rejected), for "blocked"     *)
(* (refused by Check) and for "unchecked" (Check itself failed), which the *)
(* table does not tell apart.                                              *)
Outcomes == {"ok", "wrong", "blocked", "unchecked"}

Attempt == [email: Emails, ip: Addresses, kind: Outcomes, age: Nat]

(* good: the password is the one of an active account. waited: the request *)
(* follows a Retry-After that has passed (history).                        *)
LoginRequest == [email: Emails, ip: Addresses, good: BOOLEAN, waited: BOOLEAN,
            kind: Outcomes]

Retention == Larger(2 * Larger(EmailWindow, IPWindow), RetentionFloor)
-----------------------------------------------------------------------------
(* Counting.                                                               *)

Rows == DOMAIN attempts

FailuresSince(ids, window) ==
  {id \in ids : attempts[id].kind # "ok" /\ attempts[id].age <= window}

OfEmail(e) == FailuresSince({id \in Rows : attempts[id].email = e}, EmailWindow)
OfIP(i)    == FailuresSince({id \in Rows : attempts[id].ip = i}, IPWindow)

(* count > max (mutant).                                                   *)
EmailLockedLate(e) == Cardinality(OfEmail(e)) > EmailMax

EmailLocked(e) == Cardinality(OfEmail(e)) >= EmailMax
IPLocked(i)    == Cardinality(OfIP(i)) >= IPMax

(* RetryAfter: until the oldest counted failure has left the window, which *)
(* still counts it on the last tick.                                       *)
RetryAfter(failures, window) == window + 1 - Max({attempts[id].age : id \in failures})
-----------------------------------------------------------------------------
(* Requests.                                                               *)

Proceed(t, step) == at' = [at EXCEPT ![t] = step]

(* The handler keeps the request it has answered (mutant).                 *)
LoginDoneKeeping(t) == at' = [at EXCEPT ![t] = "idle"] /\ UNCHANGED login

LoginDone(t) == at' = [at EXCEPT ![t] = "idle"] /\ login' = [login EXCEPT ![t] = None]

(* Another request about the same email or address before the Retry-After  *)
(* has passed is not the patience it asked for.                            *)
Login(t, e, i) ==
  /\ at[t] = "idle" /\ Cardinality(Rows) < MaxRows
  /\ \E good \in BOOLEAN :
       login' = [login EXCEPT ![t] = [email |-> e, ip |-> i, good |-> good,
                                  waited |-> e \in Patient /\ told[<<e, i>>] = 0, kind |-> "wrong"]]
  /\ Proceed(t, "email")
  /\ told' = [p \in DOMAIN told |->
                IF p = <<e, i>> \/ ((p[1] = e \/ p[2] = i) /\ told[p] # 0)
                THEN None ELSE told[p]]
  /\ UNCHANGED attempts

(* Check refuses; the attempt is recorded like a failure.                  *)
RefuseLogin(t, after) ==
  /\ Proceed(t, "record")
  /\ login' = [login EXCEPT ![t].kind = "blocked"]
  /\ told' = [p \in DOMAIN told |->
                IF p = <<login[t].email, login[t].ip>> THEN after ELSE told[p]]

(* The database fails under Check: an error and no verdict, but recorded   *)
(* like a failure all the same.                                            *)
FailCheck(t) ==
  /\ Proceed(t, "record")
  /\ login' = [login EXCEPT ![t].kind = "unchecked"]
  /\ UNCHANGED told

CheckEmail(t) ==
  /\ at[t] = "email"
  /\ \/ /\ EmailLocked(login[t].email)
        /\ RefuseLogin(t, RetryAfter(OfEmail(login[t].email), EmailWindow))
     \/ ~EmailLocked(login[t].email) /\ Proceed(t, "ip") /\ UNCHANGED <<login, told>>
     \/ FailCheck(t)
  /\ UNCHANGED attempts

CheckIP(t) ==
  /\ at[t] = "ip"
  /\ \/ IPLocked(login[t].ip) /\ RefuseLogin(t, RetryAfter(OfIP(login[t].ip), IPWindow))
     \/ ~IPLocked(login[t].ip) /\ Proceed(t, "verify") /\ UNCHANGED <<login, told>>
     \/ FailCheck(t)
  /\ UNCHANGED attempts

(* GetByEmail, Verify and CanLogin: the password is right, or it is not,   *)
(* or there is no such account.                                            *)
Verify(t) ==
  /\ at[t] = "verify"
  /\ Proceed(t, "record")
  /\ login' = [login EXCEPT ![t].kind = IF login[t].good THEN "ok" ELSE "wrong"]
  /\ UNCHANGED <<attempts, told>>

(* An id that no row has. The order of the ids means nothing.              *)
NewId == CHOOSE id \in 1..(Cardinality(Rows) + 1) : id \notin Rows

(* Record, whose error is ignored: the row may be missing. A success goes  *)
(* on to the reset.                                                        *)
Record(t) ==
  /\ at[t] = "record"
  /\ \/ attempts' = [id \in Rows \cup {NewId} |->
                       IF id \in Rows THEN attempts[id]
                       ELSE [email |-> login[t].email, ip |-> login[t].ip,
                             kind |-> login[t].kind, age |-> 0]]
     \/ UNCHANGED attempts
  /\ IF login[t].kind = "ok" THEN Proceed(t, "reset") /\ UNCHANGED login ELSE LoginDone(t)
  /\ UNCHANGED told

Keep(ids) == Restrict(attempts, ids)

(* The failures of the email go, whatever address they came from; an error *)
(* is ignored here too.                                                    *)
ResetByEmail(t) ==
  /\ at[t] = "reset"
  /\ \/ attempts' = Keep({id \in Rows : \/ attempts[id].email # login[t].email
                                         \/ attempts[id].kind = "ok"})
     \/ UNCHANGED attempts
  /\ LoginDone(t) /\ UNCHANGED told

(* The request is cancelled, or the process restarted.                     *)
AbortLogin(t) ==
  /\ at[t] # "idle" /\ LoginDone(t)
  /\ UNCHANGED <<attempts, told>>
-----------------------------------------------------------------------------
(* The clock and the clean-up goroutine.                                   *)

LockoutTick ==
  /\ attempts' = [id \in Rows |->
                    [attempts[id] EXCEPT !.age = IF @ > Retention THEN @ ELSE @ + 1]]
  /\ told' = [p \in DOMAIN told |->
                IF told[p] \in {None, 0} THEN told[p] ELSE told[p] - 1]
  /\ UNCHANGED <<at, login>>

(* The cutoff is the window of one axis (mutant).                          *)
DeleteOlderThanEmailWindow ==
  /\ attempts' = Keep({id \in Rows : attempts[id].age <= EmailWindow})
  /\ attempts' # attempts
  /\ UNCHANGED <<at, login, told>>

DeleteOlderThan ==
  /\ attempts' = Keep({id \in Rows : attempts[id].age <= Retention})
  /\ attempts' # attempts
  /\ UNCHANGED <<at, login, told>>

LockoutInit ==
  /\ attempts = [id \in {} |-> None]
  /\ at = [t \in Handlers |-> "idle"] /\ login = [t \in Handlers |-> None]
  /\ told = [p \in Patient \X Addresses |-> None]

ServesLogin(t) ==
  CheckEmail(t) \/ CheckIP(t) \/ Verify(t) \/ Record(t) \/ ResetByEmail(t)

LockoutNext ==
  \/ \E t \in Handlers : ServesLogin(t) \/ AbortLogin(t)
  \/ \E t \in Handlers, e \in Emails, i \in Addresses : Login(t, e, i)
  \/ LockoutTick \/ DeleteOlderThan

LockoutSpec == LockoutInit /\ [][LockoutNext]_lockoutVars
-----------------------------------------------------------------------------
(* What the lockout of LoginLockout promises.                              *)

LockoutTypeOK ==
  /\ Rows \subseteq Nat \ {0} /\ attempts \in [Rows -> Attempt]
  /\ \A id \in Rows : attempts[id].age <= Retention + 1
  /\ at \in [Handlers -> {"idle", "email", "ip", "verify", "record", "reset"}]
  /\ login \in [Handlers -> LoginRequest \cup {None}]
  /\ \A t \in Handlers :
       IF at[t] = "idle" THEN login[t] = None ELSE login[t] \in LoginRequest
  /\ told \in [Patient \X Addresses -> 0..(Larger(EmailWindow, IPWindow) + 1) \cup {None}]

(* Wrong passwords tried on an email inside its window: those recorded and *)
(* those about to be.                                                      *)
Trying(e) ==
  {t \in Handlers : /\ at[t] \in {"ip", "verify", "record"}
                    /\ login[t].email = e /\ login[t].kind = "wrong"}

Rejected(e) == {id \in OfEmail(e) : attempts[id].kind = "wrong"}

Tried(e) == Cardinality(Rejected(e)) + Cardinality(Trying(e))

(* login_attempt_repository.go:21: Check and Record are not atomic, so     *)
(* requests that are checked together pass the threshold together, by no   *)
(* more than the handlers there are.                                       *)
ThresholdHolds ==
  \A e \in Emails : Tried(e) <= EmailMax + Cardinality(Handlers) - 1

(* login_attempt_repository.go:26: "we accept the small window of one      *)
(* extra attempt above threshold". (With three requests in flight there    *)
(* are two.)                                                               *)
OneExtraAttempt == \A e \in Emails : Tried(e) <= EmailMax + 1

(* router.go:495: rows past the retention cannot be seen by any Check, so  *)
(* the clean-up never lets anybody in, nor does it shorten a Retry-After.  *)
CleanupChangesNoVerdict ==
  [][DeleteOlderThan =>
       /\ \A e \in Emails : OfEmail(e)' = OfEmail(e)
       /\ \A i \in Addresses : OfIP(i)' = OfIP(i)]_lockoutVars

(* login_attempt_repository.go:153: the address history is preserved: a    *)
(* login does not exonerate the address. (The code deletes rows that both  *)
(* counts read.)                                                           *)
AddressHistoryKept ==
  [][\A t \in Handlers : at[t] = "reset" /\ at'[t] = "idle" =>
       \A i \in Addresses : OfIP(i)' = OfIP(i)]_lockoutVars

(* auth_handler.go:175: Retry-After tells the time until unlock. Whoever   *)
(* waits for it, while nobody else tries the email or the address, is not  *)
(* refused again. (The refused attempt was itself recorded as a failure.)  *)
RetryAfterUnlocks ==
  \A t \in Handlers : at[t] = "record" /\ login[t].waited => login[t].kind # "blocked"
=============================================================================
