-------------------------- MODULE ActivityLifecycle --------------------------
(***************************************************************************)
(* The life of an activity and of a dog next to the bookings that refer to *)
(* them: internal/usecase/activity (close, bulk complete, modify, delete)  *)
(* and internal/usecase/dog (delete, activate, deactivate), composed with  *)
(* the booking engine on the same tables and row locks.                    *)
(*                                                                         *)
(*   close, bulk      readActivityToClose, listToClose, settle ...,        *)
(*                    updateActivity                      (a transaction)  *)
(*   modifyActivity   readActivityToModify, writeModified (no transaction) *)
(*   deleteActivity   countActive, deleteActivity, cascadeActivity         *)
(*                                    (two statements, no transaction)     *)
(*   deleteDog        deleteDog, cascadeDog               (one statement)  *)
(*   editDog          editDog                             (a transaction)  *)
(***************************************************************************)
EXTENDS Booking

CONSTANTS Caps, Dates      \* the capacities and dates an admin may set

ASSUME LifecycleAssumption ==
  /\ NoRow \notin ActivityRow          \* NULL is not a row
  /\ Caps \subseteq Nat \ {0} /\ Dates \subseteq Int

CloseRequests ==
  [op : {"close"}, act : Activities, noShows : SUBSET ResIds, now : Times]

BulkRequests ==
  [op : {"bulk"}, act : Activities, noShows : {{}}, now : Times]

(* PATCH /activities/:id; NoRow is a nil field.  A patch in which both are *)
(* nil edits a field the bookings do not depend on (name, location).       *)
ModifyRequests ==
  [op : {"modifyActivity"}, act : Activities, cap : Caps \cup {NoRow},
   date : Dates \cup {NoRow}, now : Times]

DeleteActivityRequests == [op : {"deleteActivity"}, act : Activities, now : Times]

DeleteDogRequests == [op : {"deleteDog"}, dog : Dogs, now : Times]

EditDogRequests ==
  [op : {"editDog"}, dog : Dogs, to : {"active", "inactive"}, now : Times]

FirstLifecycleStep(op) ==
  CASE op \in {"close", "bulk"}  -> "readActivityToClose"
    [] op = "modifyActivity"     -> "readActivityToModify"
    [] op = "deleteActivity"     -> "countActive"
    [] op = "deleteDog"          -> "deleteDog"
    [] op = "editDog"            -> "editDog"

BeginLifecycle(t) ==
  \E q \in CloseRequests \cup BulkRequests \cup ModifyRequests
             \cup DeleteActivityRequests \cup DeleteDogRequests \cup EditDogRequests :
    /\ q.op \in Ops /\ q.now = clock
    /\ Accept(t, q, FirstLifecycleStep(q.op))

-----------------------------------------------------------------------------
(* CloseActivityUseCase and BulkCompleteReservationsUseCase                *)

RowsOfActivity(a) == {r \in ResIds : Exists(r) /\ res[r].act = a}

Confirmed(a) == {r \in RowsOfActivity(a) : res[r].status = "CONFIRMED"}
Pending(a)   == {r \in RowsOfActivity(a) : res[r].status = "PENDING_TO_CONFIRM"}

(* Steps 1 to 3.  The activity is read without a lock.  Bulk completion    *)
(* accepts an activity that is already closed.                             *)
ReadActivityToClose(t) ==
  LET q == req[t]
      arow == activity[q.act]
      fine == /\ arow # NoRow
              /\ IsFinished(arow, q.now)
              /\ q.op = "bulk" \/ ~arow.closed IN
  /\ pc[t] = "readActivityToClose"
  /\ \/ /\ fine
        /\ Remember(t, [mem[t] EXCEPT !.arow = arow])
        /\ Goto(t, "listToClose")
        /\ UNCHANGED <<committed, req, wres, wpass, lock>>
     \/ /\ ~fine
        /\ Rollback(t)

(* Steps 4 and 5: ListByActivity; the no-show list must name CONFIRMED     *)
(* rows; bulk completion refuses while a booking is pending.               *)
ListToClose(t) ==
  LET q == req[t]
      fine == /\ q.noShows \subseteq Confirmed(q.act)
              /\ q.op = "bulk" => Pending(q.act) = {} IN
  /\ pc[t] = "listToClose"
  /\ \/ /\ fine
        /\ Remember(t, [mem[t] EXCEPT !.todo = Confirmed(q.act)])
        /\ Goto(t, "settle")
        /\ UNCHANGED <<committed, req, wres, wpass, lock>>
     \/ /\ ~fine
        /\ Rollback(t)

(* Step 6, processConfirmedReservations: in id order, Complete or          *)
(* MarkNoShow joins the transaction, locks the row and checks it again.    *)
NextToSettle(t) ==
  CHOOSE r \in mem[t].todo : \A s \in mem[t].todo : r <= s

Settled(t, r) == IF r \in req[t].noShows THEN "NO_SHOW" ELSE "COMPLETED"

(* The status read before the lock is trusted (mutant).                    *)
SettlesUnchecked(t, r) ==
  LET arow == activity[req[t].act] IN
  /\ Exists(r)
  /\ arow # NoRow
  /\ IF r \in req[t].noShows THEN IsInThePast(arow, req[t].now)
                             ELSE IsFinished(arow, req[t].now)

StillSettles(t, r) ==
  LET arow == activity[req[t].act] IN
  /\ Exists(r)
  /\ res[r].status = "CONFIRMED"
  /\ dog[res[r].dog] # "deleted"
  /\ arow # NoRow
  /\ IF r \in req[t].noShows THEN IsInThePast(arow, req[t].now)
                             ELSE IsFinished(arow, req[t].now)

(* The bookings are visited in map order (mutant).                         *)
SettleInAnyOrder(t) ==
  /\ pc[t] = "settle"
  /\ \E r \in mem[t].todo :
       /\ Free(r)
       /\ IF StillSettles(t, r)
            THEN /\ LockRow(t, r)
                 /\ wres' = [wres EXCEPT ![t][r] = [res[r] EXCEPT !.status = Settled(t, r)]]
                 /\ Remember(t, [mem[t] EXCEPT !.todo = mem[t].todo \ {r}])
                 /\ UNCHANGED <<committed, pc, req, wpass>>
            ELSE Rollback(t)

Settle(t) ==
  LET r == NextToSettle(t) IN
  /\ pc[t] = "settle" /\ mem[t].todo # {}
  /\ Free(r)
  /\ \/ /\ StillSettles(t, r)
        /\ LockRow(t, r)
        /\ wres' = [wres EXCEPT ![t][r] = [res[r] EXCEPT !.status = Settled(t, r)]]
        /\ Remember(t, [mem[t] EXCEPT !.todo = mem[t].todo \ {r}])
        /\ UNCHANGED <<committed, pc, req, wpass>>
     \/ /\ ~StillSettles(t, r)
        /\ Rollback(t)

(* Steps 7 and 8 and COMMIT: Close() on the row read in step 1, written    *)
(* back whole.  Nothing follows the UPDATE, so it commits at once.         *)
UpdateActivity(t) ==
  LET a == req[t].act IN
  /\ pc[t] = "settle" /\ mem[t].todo = {} /\ ~mem[t].arow.closed
  /\ Free(a)
  /\ \/ /\ activity[a] # NoRow
        /\ activity' = [activity EXCEPT ![a] = [mem[t].arow EXCEPT !.closed = TRUE]]
        /\ Publish(t)
        /\ Release(t)
        /\ UNCHANGED <<clock, dog, gone, forced, reviewed>>
     \/ /\ activity[a] = NoRow
        /\ Rollback(t)

(* Bulk completion of an activity that was closed already skips both.      *)
CommitRepair(t) ==
  /\ pc[t] = "settle" /\ mem[t].todo = {} /\ mem[t].arow.closed
  /\ Publish(t)
  /\ Release(t)
  /\ UNCHANGED <<clock, activity, dog, gone, forced, reviewed>>

-----------------------------------------------------------------------------
(* ModifyActivityUseCase: read, patch in memory, write the whole row back. *)

(* A field the request leaves out is written as NULL (mutant).             *)
PatchedWithNulls(arow, q) == [arow EXCEPT !.cap = q.cap, !.date = q.date]

PatchedActivity(arow, q) ==
  [arow EXCEPT !.cap  = IF q.cap = NoRow THEN arow.cap ELSE q.cap,
               !.date = IF q.date = NoRow THEN arow.date ELSE q.date]

ReadActivityToModify(t) ==
  LET q == req[t]
      arow == activity[q.act] IN
  /\ pc[t] = "readActivityToModify"
  /\ \/ /\ arow # NoRow
        /\ Remember(t, [mem[t] EXCEPT !.arow = PatchedActivity(arow, q)])
        /\ Goto(t, "writeModified")
        /\ UNCHANGED <<committed, req, wres, wpass, lock>>
     \/ /\ arow = NoRow
        /\ Rollback(t)

WriteModified(t) ==
  LET a == req[t].act IN
  /\ pc[t] = "writeModified"
  /\ Free(a)
  /\ \/ /\ activity[a] # NoRow
        /\ activity' = [activity EXCEPT ![a] = mem[t].arow]
        /\ Release(t)
        /\ UNCHANGED <<clock, dog, res, gone, pass, audit, forced, reviewed>>
     \/ /\ activity[a] = NoRow
        /\ Rollback(t)

-----------------------------------------------------------------------------
(* ActivityRepository.Delete: a SELECT of the count, then DELETE.  The DELETE    *)
(* takes the activity row, then the rows its cascade removes.              *)

CountActive(t) ==
  /\ pc[t] = "countActive"
  /\ \/ /\ SlotHolders(req[t].act) = {}
        /\ Goto(t, "deleteActivity")
        /\ UNCHANGED <<committed, req, mem, wres, wpass, lock>>
     \/ /\ SlotHolders(req[t].act) # {}
        /\ Rollback(t)

DeleteActivity(t) ==
  LET a == req[t].act IN
  /\ pc[t] = "deleteActivity"
  /\ Free(a)
  /\ \/ /\ activity[a] # NoRow
        /\ LockRow(t, a)
        /\ Goto(t, "cascadeActivity")
        /\ UNCHANGED <<committed, req, mem, wres, wpass>>
     \/ /\ activity[a] = NoRow
        /\ Rollback(t)

CascadeActivity(t) ==
  LET a == req[t].act IN
  /\ pc[t] = "cascadeActivity"
  /\ \A r \in RowsOfActivity(a) : Free(r)
  /\ activity' = [activity EXCEPT ![a] = NoRow]
  /\ gone' = gone \cup RowsOfActivity(a)
  /\ Release(t)
  /\ UNCHANGED <<clock, dog, res, pass, audit, forced, reviewed>>

-----------------------------------------------------------------------------
(* DeleteDogUseCase and ModifyDogUseCase.is_active.  Both need the dog row *)
(* exclusively, so they wait for inserts that hold its foreign key.        *)

Inserting(d) ==
  {u \in Txs : \E r \in ResIds :
     res[r] = NoRow /\ wres[u][r] # NoRow /\ wres[u][r].dog = d}

RowsOfDog(d) == {r \in ResIds : Exists(r) /\ res[r].dog = d}

ClassesOf(d) == {a \in Activities : activity[a] # NoRow /\ activity[a].only = d}

DeleteDog(t) ==
  LET d == req[t].dog IN
  /\ pc[t] = "deleteDog"
  /\ Free(d) /\ Inserting(d) = {}
  /\ \/ /\ dog[d] # "deleted"
        /\ LockRow(t, d)
        /\ Goto(t, "cascadeDog")
        /\ UNCHANGED <<committed, req, mem, wres, wpass>>
     \/ /\ dog[d] = "deleted"
        /\ Rollback(t)

(* ON DELETE SET NULL on activities.dog_id meets the CHECK that an         *)
(* individual class has a dog: such a dog cannot be deleted.               *)
CascadeDog(t) ==
  LET d == req[t].dog IN
  /\ pc[t] = "cascadeDog"
  /\ \A x \in RowsOfDog(d) \cup ClassesOf(d) : Free(x)
  /\ \/ /\ ClassesOf(d) = {}
        /\ dog' = [dog EXCEPT ![d] = "deleted"]
        /\ gone' = gone \cup RowsOfDog(d)
        /\ Release(t)
        /\ UNCHANGED <<clock, activity, res, pass, audit, forced, reviewed>>
     \/ /\ ClassesOf(d) # {}
        /\ Rollback(t)

EditDog(t) ==
  LET d == req[t].dog IN
  /\ pc[t] = "editDog"
  /\ Free(d) /\ Inserting(d) = {}
  /\ \/ /\ dog[d] # "deleted"
        /\ dog' = [dog EXCEPT ![d] = req[t].to]
        /\ Release(t)
        /\ UNCHANGED <<clock, activity, res, gone, pass, audit, forced, reviewed>>
     \/ /\ dog[d] = "deleted"
        /\ Rollback(t)

-----------------------------------------------------------------------------
LifecycleStep(t) ==
  \/ ReadActivityToClose(t) \/ ListToClose(t) \/ Settle(t)
  \/ UpdateActivity(t) \/ CommitRepair(t)
  \/ ReadActivityToModify(t) \/ WriteModified(t)
  \/ CountActive(t) \/ DeleteActivity(t) \/ CascadeActivity(t)
  \/ DeleteDog(t) \/ CascadeDog(t) \/ EditDog(t)

LifecycleNext ==
  \/ Next
  \/ \E t \in Txs : BeginLifecycle(t) \/ LifecycleStep(t)

LifecycleSpec == Init /\ [][LifecycleNext]_vars
=============================================================================
