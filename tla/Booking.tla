------------------------------ MODULE Booking -------------------------------
(***************************************************************************)
(* The booking use cases of internal/usecase/reservation and the pass      *)
(* edits of internal/usecase/pass, statement by statement:                 *)
(*                                                                         *)
(*   register   lockActivity, listHolders, readDogs, lockPass, writePass,  *)
(*              insert, commit                                             *)
(*   cancel     lockReservation, readActivity, lockPass, [writePass],      *)
(*              writeReservation, commit                                   *)
(*   forgive, reject                                                       *)
(*              lockReservation, lockPass, [writePass], writeReservation,  *)
(*              commit                                                     *)
(*   confirm    lockReservation, writeReservation, commit                  *)
(*   complete, noShow                                                      *)
(*              lockReservation, readActivity, writeReservation, commit    *)
(*   editPass   readPass, updatePass          (no surrounding transaction) *)
(*                                                                         *)
(* Every early return of the code is a rollback of the transaction.        *)
(***************************************************************************)
EXTENDS Database

CONSTANTS
  Ops,             \* the operations a run exercises
  Times,           \* instants, 0 .. the end of the run
  Lag,             \* ticks a request may last (its `now' is frozen at its start)
  LateWindow,      \* cancellationLateWindow
  Duration,        \* activities.duration_in_hours
  OpenActivity,    \* the activity rows of the initial state
  FirstExpiry,     \* passes.expires_at of the initial state
  MaxVersion,      \* bound: no pass edit starts on a row written this often
  Blocks,          \* pairs of dogs that may not meet (two intact males, ABSOLUTA)
  Reviews,         \* pairs an admin has to approve (other males, MEDIA, BAJA)
  Special,         \* dogs with has_special_condition
  SizeFits         \* pairs (dog, activity) that pass IsTargetedAtSize

ActivityRow == [date : Int, cap : Nat \ {0}, closed : BOOLEAN,
                only : Dogs \cup {NoRow}]     \* dog_id of an INDIVIDUAL_CLASS

ASSUME BookingAssumption ==
  /\ 0 \in Times /\ Times \subseteq Nat
  /\ Lag \in Nat
  /\ LateWindow \in Nat
  /\ Duration \in Nat
  /\ MaxVersion \in Nat
  /\ NoRow \notin Dogs \cup ResRow \cup PassWrite      \* NULL is not a row
  /\ OpenActivity \in [Activities -> ActivityRow]
  /\ FirstExpiry \in [Passes -> Nat]
  /\ Blocks \subseteq Dogs \X Dogs
  /\ Reviews \subseteq Dogs \X Dogs
  /\ \A pair \in Blocks \cup Reviews :
        /\ pair[1] # pair[2]
        /\ pair \in Blocks => <<pair[2], pair[1]>> \in Blocks
        /\ pair \in Reviews => <<pair[2], pair[1]>> \in Reviews

-----------------------------------------------------------------------------
(* domain/activity.go, domain/pass.go                                      *)

(* Mutants: the end of an activity without its duration; < for <=.         *)
IsFinishedAtStart(row, now) == row.date < now
IsExhaustedBelowZero(prow)  == prow.remaining < 0

IsInThePast(row, now) == row.date < now
IsFinished(row, now)  == row.date + Duration < now
IsLate(row, now)      == now > row.date - LateWindow
IsFull(row, bookings) == bookings >= row.cap

IsExhausted(prow)    == prow.remaining <= 0
IsExpired(prow, now) == now > prow.expires
CanRefund(p, prow)   == prow.remaining < NumSessions[p]

(* Compatibility of a dog with the dogs holding a slot: step 3b of Register *)
Blocked(d, holders) == \E e \in holders : <<d, e>> \in Blocks
NeedsReview(d, holders) ==
  d \in Special \/ \E e \in holders : <<d, e>> \in Reviews

-----------------------------------------------------------------------------
(* Requests.  `now' is frozen when the input is built.                     *)

RegisterRequests ==
  [op : {"register"}, act : Activities, dog : Dogs, pass : Passes,
   user : Users, admin : BOOLEAN, now : Times]

CancelRequests ==
  [op : {"cancel"}, res : ResIds, user : Users, admin : BOOLEAN, now : Times]

AttendanceRequests ==
  [op : {"complete", "noShow"}, res : ResIds, user : Users, now : Times]

ReviewRequests ==
  [op : {"forgive", "confirm", "reject"}, res : ResIds, now : Times]

ReservationRequests == CancelRequests \cup AttendanceRequests \cup ReviewRequests

(* PATCH /passes/:id and PATCH /passes/:id/paid; NoRow is a nil field.     *)
EditPassRequests ==
  {q \in [op : {"editPass"}, pass : Passes, paid : BOOLEAN \cup {NoRow},
          expires : Times \cup {NoRow}, now : Times] :
     q.paid # NoRow \/ q.expires # NoRow}

FirstStep(op) ==
  CASE op = "register" -> "lockActivity"
    [] op = "editPass" -> "readPass"
    [] OTHER           -> "lockReservation"

Registering == {t \in Txs : pc[t] # "idle" /\ req[t].op = "register"}

(* Only reservations that have been inserted can be named by a request.    *)
Begin(t) ==
  \/ \E q \in RegisterRequests :
       /\ q.op \in Ops /\ q.now = clock
       /\ Cardinality(Registering) < Cardinality({r \in ResIds : res[r] = NoRow})
       /\ Accept(t, q, FirstStep(q.op))
  \/ \E q \in ReservationRequests :
       /\ q.op \in Ops /\ q.now = clock
       /\ res[q.res] # NoRow
       /\ Accept(t, q, FirstStep(q.op))
  \/ \E q \in EditPassRequests :
       /\ q.op \in Ops /\ q.now = clock
       /\ pass[q.pass].ver < MaxVersion
       /\ Accept(t, q, FirstStep(q.op))

-----------------------------------------------------------------------------
(* RegisterReservationUseCase.runInTx                                      *)

(* Step 1: GetByIDForUpdate on the activity, past and closed checks.       *)
Bookable(a, now) ==
  /\ activity[a] # NoRow
  /\ ~IsInThePast(activity[a], now)
  /\ ~activity[a].closed

(* The activity is read without FOR UPDATE (mutant).                       *)
ReadActivityUnlocked(t) ==
  LET a == req[t].act IN
  /\ pc[t] = "lockActivity"
  /\ IF Bookable(a, req[t].now)
       THEN Goto(t, "listHolders") /\ UNCHANGED <<committed, req, mem, wres, wpass, lock>>
       ELSE Rollback(t)

LockActivity(t) ==
  LET a == req[t].act IN
  /\ pc[t] = "lockActivity"
  /\ Free(a)
  /\ \/ /\ Bookable(a, req[t].now)
        /\ LockRow(t, a)
        /\ Goto(t, "listHolders")
        /\ UNCHANGED <<committed, req, mem, wres, wpass>>
     \/ /\ ~Bookable(a, req[t].now)
        /\ Rollback(t)

(* Compatibility looks at confirmed dogs only (mutant).                    *)
ListConfirmed(t) ==
  LET a == req[t].act
      holders == SlotHolders(a) IN
  /\ pc[t] = "listHolders"
  /\ IF ~IsFull(activity[a], Cardinality(holders))
       THEN /\ Remember(t, [mem[t] EXCEPT !.holders =
                  {res[r].dog : r \in {h \in holders : res[h].status = "CONFIRMED"}}])
            /\ Goto(t, "readDogs")
            /\ UNCHANGED <<committed, req, wres, wpass, lock>>
       ELSE Rollback(t)

(* Step 2: ListByActivity, capacity over HoldsSlot.                        *)
ListHolders(t) ==
  LET a == req[t].act
      holders == SlotHolders(a) IN
  /\ pc[t] = "listHolders"
  /\ \/ /\ ~IsFull(activity[a], Cardinality(holders))
        /\ Remember(t, [mem[t] EXCEPT !.holders = {res[r].dog : r \in holders}])
        /\ Goto(t, "readDogs")
        /\ UNCHANGED <<committed, req, wres, wpass, lock>>
     \/ /\ IsFull(activity[a], Cardinality(holders))
        /\ Rollback(t)

(* Steps 3 and 3b: the dog, its owner, class and size, the dogs it meets.  *)
(* The dog rows are read without a lock.                                   *)
Admissible(t) ==
  LET q == req[t]
      others == {e \in mem[t].holders : dog[e] # "deleted"} IN
  /\ dog[q.dog] = "active"
  /\ activity[q.act].only \in {NoRow, q.dog}
  /\ q.admin \/ /\ DogOwner[q.dog] = q.user
                /\ <<q.dog, q.act>> \in SizeFits
                /\ ~Blocked(q.dog, others)

AdmittedAs(t) ==
  LET q == req[t]
      others == {e \in mem[t].holders : dog[e] # "deleted"} IN
  IF ~q.admin /\ NeedsReview(q.dog, others) THEN "PENDING_TO_CONFIRM"
                                            ELSE "CONFIRMED"

(* Steps 1 to 3 run in a transaction of their own: the activity is free    *)
(* again before the booking is written (mutant).                           *)
ReadDogsAndRelease(t) ==
  /\ pc[t] = "readDogs" /\ Admissible(t)
  /\ Remember(t, [mem[t] EXCEPT !.next = AdmittedAs(t)])
  /\ Goto(t, "lockPass")
  /\ lock' = [lock EXCEPT ![req[t].act] = NoTx]
  /\ UNCHANGED <<committed, req, wres, wpass>>

ReadDogs(t) ==
  /\ pc[t] = "readDogs"
  /\ \/ /\ Admissible(t)
        /\ Remember(t, [mem[t] EXCEPT !.next = AdmittedAs(t)])
        /\ Goto(t, "lockPass")
        /\ UNCHANGED <<committed, req, wres, wpass, lock>>
     \/ /\ ~Admissible(t)
        /\ Rollback(t)

(* An admin may combine any dog with any pass (mutant).                    *)
PayableByAnyone(t, p) ==
  LET q == req[t] IN
  /\ q.admin \/ PassOwner[p] = q.user
  /\ ~IsExhausted(pass[p])
  /\ ~IsExpired(pass[p], q.now)

(* Steps 4 and 5: GetByIDForUpdate on the pass, ConsumeSession in memory.  *)
Payable(t, p) ==
  LET q == req[t] IN
  /\ IF q.admin THEN DogOwner[q.dog] = PassOwner[p] ELSE PassOwner[p] = q.user
  /\ ~IsExhausted(pass[p])
  /\ ~IsExpired(pass[p], q.now)

LockPassToConsume(t) ==
  LET p == req[t].pass IN
  /\ pc[t] = "lockPass" /\ req[t].op = "register"
  /\ Free(p)
  /\ \/ /\ Payable(t, p)
        /\ LockRow(t, p)
        /\ Remember(t, [mem[t] EXCEPT
              !.prow = [pass[p] EXCEPT !.remaining = pass[p].remaining - 1],
              !.amount = -1])
        /\ Goto(t, "writePass")
        /\ UNCHANGED <<committed, req, wres, wpass>>
     \/ /\ ~Payable(t, p)
        /\ Rollback(t)

(* passRepo.Update: the row is written only while its updated_at is the    *)
(* one that was read.  An UPDATE takes the row lock if it is not held yet. *)
WritePass(t, p, then) ==
  /\ lock[p] \in {NoTx, t}
  /\ IF pass[p].ver = mem[t].prow.ver
       THEN /\ wpass' = [wpass EXCEPT ![t] =
                  [pass |-> p, amount |-> mem[t].amount,
                   row |-> [mem[t].prow EXCEPT !.ver = mem[t].prow.ver + 1]]]
            /\ LockRow(t, p)
            /\ Goto(t, then)
            /\ UNCHANGED <<committed, req, mem, wres>>
       ELSE Rollback(t)

WriteConsumedPass(t) ==
  /\ pc[t] = "writePass" /\ req[t].op = "register"
  /\ WritePass(t, req[t].pass, "insert")

(* The unique index is missing (mutant).                                   *)
NoUniqueIndex(a, d) == {}

(* Step 7: INSERT.  The identity column gives the next id; the foreign key *)
(* to the dog waits for a transaction deleting it; the partial unique      *)
(* index waits for a transaction that is moving the active booking of the  *)
(* same dog away, then rejects a duplicate.                                *)
ActiveBooking(a, d) == {r \in SlotHolders(a) : res[r].dog = d}

(* There is no foreign key on dog_id (mutant).                             *)
InsertWaitsForIndex(t) ==
  {u \in Txs \ {t} :
     \E r \in ActiveBooking(req[t].act, req[t].dog) : wres[u][r] # NoRow}

InsertWaits(t) ==
  {u \in Txs \ {t} :
     \/ lock[req[t].dog] = u
     \/ \E r \in ActiveBooking(req[t].act, req[t].dog) : wres[u][r] # NoRow}

Unused(r) == res[r] = NoRow /\ \A u \in Txs : wres[u][r] = NoRow

NextId(r) == Unused(r) /\ \A s \in ResIds : Unused(s) => r <= s

InsertReservation(t) ==
  LET q == req[t]
      accepted == dog[q.dog] # "deleted" /\ ActiveBooking(q.act, q.dog) = {} IN
  /\ pc[t] = "insert"
  /\ InsertWaits(t) = {}
  /\ \/ /\ accepted
        /\ \E r \in ResIds :
             /\ NextId(r)
             /\ wres' = [wres EXCEPT ![t][r] =
                   [act |-> q.act, dog |-> q.dog, pass |-> q.pass,
                    status |-> mem[t].next]]
        /\ Goto(t, "commit")
        /\ UNCHANGED <<committed, req, mem, wpass, lock>>
     \/ /\ ~accepted
        /\ Rollback(t)

-----------------------------------------------------------------------------
(* The transitions of an existing reservation.                             *)

(* Mutants: confirm does not check the status; forgive is not idempotent.  *)
MayStartConfirmAny(op, status) ==
  CASE op = "cancel"  -> status = "CONFIRMED"
    [] op = "forgive" -> status = "CANCELLED_LATE"
    [] op = "reject"  -> status = "PENDING_TO_CONFIRM"
    [] OTHER          -> TRUE
MayStartForgiveAgain(op, status) ==
  CASE op = "cancel"                -> status = "CONFIRMED"
    [] op = "forgive"               -> status \in {"CANCELLED_LATE", "FORGIVEN"}
    [] op \in {"confirm", "reject"} -> status = "PENDING_TO_CONFIRM"
    [] OTHER                        -> TRUE

(* reservationRepo.GetByIDForUpdate and the check that follows it.         *)
MayStart(op, status) ==
  CASE op = "cancel"              -> status = "CONFIRMED"
    [] op = "forgive"             -> status = "CANCELLED_LATE"
    [] op \in {"confirm", "reject"} -> status = "PENDING_TO_CONFIRM"
    [] OTHER                      -> TRUE

(* Forgive, ConfirmPending and RejectPending fix the next status at once.  *)
Decided(op) ==
  CASE op = "forgive" -> "FORGIVEN"
    [] op = "confirm" -> "CONFIRMED"
    [] op = "reject"  -> "CANCELLED_IN_TIME"
    [] OTHER          -> NoRow

AfterLock(op) ==
  CASE op \in {"forgive", "reject"} -> "lockPass"
    [] op = "confirm"               -> "writeReservation"
    [] OTHER                        -> "readActivity"

(* The row is locked by writing it back, not by FOR UPDATE (mutant).       *)
LockReservationByWriting(t) ==
  LET r == req[t].res
      op == req[t].op IN
  /\ pc[t] = "lockReservation"
  /\ Free(r)
  /\ IF Exists(r) /\ MayStart(op, res[r].status)
       THEN /\ LockRow(t, r)
            /\ wres' = [wres EXCEPT ![t][r] = res[r]]
            /\ Remember(t, [mem[t] EXCEPT !.row = res[r], !.next = Decided(op)])
            /\ Goto(t, AfterLock(op))
            /\ UNCHANGED <<committed, req, wpass>>
       ELSE Rollback(t)

LockReservation(t) ==
  LET r == req[t].res
      op == req[t].op
      found == Exists(r) /\ MayStart(op, res[r].status) IN
  /\ pc[t] = "lockReservation"
  /\ Free(r)
  /\ \/ /\ found
        /\ LockRow(t, r)
        /\ Remember(t, [mem[t] EXCEPT !.row = res[r], !.next = Decided(op)])
        /\ Goto(t, AfterLock(op))
        /\ UNCHANGED <<committed, req, wres, wpass>>
     \/ /\ ~found
        /\ Rollback(t)

(* An activity can be completed once it has started (mutant).              *)
InTimeOnceStarted(op, row, arow, now) ==
  IF op = "cancel" THEN ~IsInThePast(arow, now)
                   ELSE IsInThePast(arow, now) /\ row.status = "CONFIRMED"

(* Cancel, Complete and MarkNoShow read the activity and the dog without a *)
(* lock, check the clock and the owner, and apply the domain transition.   *)
InTimeForIt(op, row, arow, now) ==
  CASE op = "cancel"   -> ~IsInThePast(arow, now)
    [] op = "complete" -> IsFinished(arow, now) /\ row.status = "CONFIRMED"
    [] op = "noShow"   -> IsInThePast(arow, now) /\ row.status = "CONFIRMED"

Outcome(op, arow, now) ==
  CASE op = "complete" -> "COMPLETED"
    [] op = "noShow"   -> "NO_SHOW"
    [] OTHER -> IF IsLate(arow, now) THEN "CANCELLED_LATE" ELSE "CANCELLED_IN_TIME"

OwnsDog(t, d) ==
  \/ req[t].op = "cancel" /\ req[t].admin
  \/ DogOwner[d] = req[t].user

ReadActivity(t) ==
  LET q == req[t]
      row == mem[t].row
      arow == activity[row.act]
      fine == /\ arow # NoRow
              /\ InTimeForIt(q.op, row, arow, q.now)
              /\ dog[row.dog] # "deleted"
              /\ OwnsDog(t, row.dog) IN
  /\ pc[t] = "readActivity"
  /\ \/ /\ fine
        /\ Remember(t, [mem[t] EXCEPT !.next = Outcome(q.op, arow, q.now)])
        /\ Goto(t, IF q.op = "cancel" THEN "lockPass" ELSE "writeReservation")
        /\ UNCHANGED <<committed, req, wres, wpass, lock>>
     \/ /\ ~fine
        /\ Rollback(t)

(* Late cancellations are refunded too (mutant).                           *)
RefundsAlways(t, p) == CanRefund(p, pass[p])

(* Lock the pass; refund in memory if the outcome calls for it and the     *)
(* pass has something to refund.                                           *)
Refunds(t, p) ==
  mem[t].next \in {"CANCELLED_IN_TIME", "FORGIVEN"} /\ CanRefund(p, pass[p])

LockPassToRefund(t) ==
  LET p == mem[t].row.pass
      owned == req[t].op = "cancel" =>
                 req[t].admin \/ PassOwner[p] = req[t].user IN
  /\ pc[t] = "lockPass" /\ req[t].op # "register"
  /\ Free(p)
  /\ \/ /\ owned /\ Refunds(t, p)
        /\ LockRow(t, p)
        /\ Remember(t, [mem[t] EXCEPT
              !.prow = [pass[p] EXCEPT !.remaining = pass[p].remaining + 1],
              !.amount = 1])
        /\ Goto(t, "writePass")
        /\ UNCHANGED <<committed, req, wres, wpass>>
     \/ /\ owned /\ ~Refunds(t, p)
        /\ LockRow(t, p)
        /\ Goto(t, "writeReservation")
        /\ UNCHANGED <<committed, req, mem, wres, wpass>>
     \/ /\ ~owned
        /\ Rollback(t)

WriteRefundedPass(t) ==
  /\ pc[t] = "writePass" /\ req[t].op # "register"
  /\ WritePass(t, mem[t].row.pass, "writeReservation")

(* reservationRepo.Update: UPDATE ... WHERE id = $2 AND status = $3.       *)
WriteReservation(t) ==
  LET r == req[t].res IN
  /\ pc[t] = "writeReservation"
  /\ lock[r] \in {NoTx, t}
  /\ IF Exists(r) /\ res[r].status = mem[t].row.status
       THEN /\ wres' = [wres EXCEPT ![t][r] = [res[r] EXCEPT !.status = mem[t].next]]
            /\ LockRow(t, r)
            /\ Goto(t, "commit")
            /\ UNCHANGED <<committed, req, mem, wpass>>
       ELSE Rollback(t)

Commit(t) ==
  /\ pc[t] = "commit"
  /\ Publish(t)
  /\ forced' = IF req[t].op = "register" /\ req[t].admin
                 THEN forced \cup Written(t) ELSE forced
  /\ reviewed' = IF req[t].op = "confirm"
                   THEN reviewed \cup Written(t) ELSE reviewed
  /\ Release(t)
  /\ UNCHANGED <<clock, activity, dog, gone>>

-----------------------------------------------------------------------------
(* ModifyPassUseCase and SetPassPaidUseCase: a read, a patch in memory and *)
(* a guarded UPDATE of the whole row, without a lock in between.           *)

Patched(prow, q) ==
  [prow EXCEPT !.paid    = IF q.paid = NoRow THEN prow.paid ELSE q.paid,
               !.expires = IF q.expires = NoRow THEN prow.expires ELSE q.expires]

ReadPass(t) ==
  /\ pc[t] = "readPass"
  /\ Remember(t, [mem[t] EXCEPT !.prow = Patched(pass[req[t].pass], req[t])])
  /\ Goto(t, "updatePass")
  /\ UNCHANGED <<committed, req, wres, wpass, lock>>

(* The UPDATE does not compare updated_at (mutant).                        *)
UpdatePassUnguarded(t) ==
  LET p == req[t].pass IN
  /\ pc[t] = "updatePass"
  /\ Free(p)
  /\ pass' = [pass EXCEPT ![p] = [mem[t].prow EXCEPT !.ver = pass[p].ver + 1]]
  /\ Release(t)
  /\ UNCHANGED <<clock, activity, dog, res, gone, audit, forced, reviewed>>

UpdatePass(t) ==
  LET p == req[t].pass
      row == mem[t].prow IN
  /\ pc[t] = "updatePass"
  /\ Free(p)
  /\ \/ /\ pass[p].ver = row.ver
        /\ pass' = [pass EXCEPT ![p] = [row EXCEPT !.ver = row.ver + 1]]
        /\ Release(t)
        /\ UNCHANGED <<clock, activity, dog, res, gone, audit, forced, reviewed>>
     \/ /\ pass[p].ver # row.ver
        /\ Rollback(t)

-----------------------------------------------------------------------------
(* Time passes while requests are served; a request lasts at most Lag      *)
(* ticks, so its frozen `now' is at most Lag old when it commits.          *)
Tick ==
  /\ clock + 1 \in Times
  /\ \A t \in InFlight : clock - req[t].now < Lag
  /\ clock' = clock + 1
  /\ UNCHANGED <<activity, dog, res, gone, pass, audit, forced, reviewed, handler>>

Init ==
  /\ clock = 0
  /\ activity = OpenActivity
  /\ dog = [d \in Dogs |-> "active"]
  /\ res = [r \in ResIds |-> NoRow]
  /\ gone = {}
  /\ pass = [p \in Passes |-> [remaining |-> NumSessions[p], paid |-> FALSE,
                               expires |-> FirstExpiry[p], ver |-> 0]]
  /\ audit = [p \in Passes |-> [consumed |-> 0, refunded |-> 0]]
  /\ forced = {}
  /\ reviewed = {}
  /\ lock = [x \in Rows |-> NoTx]
  /\ pc = [t \in Txs |-> "idle"]
  /\ req = [t \in Txs |-> NoRow]
  /\ mem = [t \in Txs |-> NoMem]
  /\ wres = [t \in Txs |-> NoWrites]
  /\ wpass = [t \in Txs |-> NoRow]

(* The statements of a handler that has taken up a request.                *)
Step(t) ==
  \/ LockActivity(t) \/ ListHolders(t) \/ ReadDogs(t)
  \/ LockPassToConsume(t) \/ WriteConsumedPass(t) \/ InsertReservation(t)
  \/ LockReservation(t) \/ ReadActivity(t)
  \/ LockPassToRefund(t) \/ WriteRefundedPass(t) \/ WriteReservation(t)
  \/ ReadPass(t) \/ UpdatePass(t)
  \/ Commit(t)

Next == Tick \/ \E t \in Txs : Begin(t) \/ Step(t) \/ Abort(t)

Spec == Init /\ [][Next]_vars
=============================================================================
