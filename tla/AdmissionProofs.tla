-------------------------- MODULE AdmissionProofs ---------------------------
(***************************************************************************)
(* Proof that the slots of an activity go to whom they may, for every set  *)
(* of handlers, dogs, passes, activities and bookings: AdmissionInv is     *)
(* inductive on top of BookingInv.  The argument is the lock on the        *)
(* activity row: while a registration holds it, the bookings of that       *)
(* activity only ever leave their slots.                                   *)
(***************************************************************************)
EXTENDS BookingProofs

-----------------------------------------------------------------------------
(* No step of a handler touches the variables or the locks of another.     *)
LEMMA HandlersApart ==
  ASSUME NEW t \in Txs, TypeOK, UNCHANGED req, \E step : Goto(t, step),
         mem' = mem \/ \E m : Remember(t, m),
         wres' = wres \/ \E w : wres' = [wres EXCEPT ![t] = w],
         wpass' = wpass \/ \E w : wpass' = [wpass EXCEPT ![t] = w],
         lock' = lock \/ \E x : lock[x] \in {NoTx, t} /\ LockRow(t, x)
  PROVE  OthersKeep(t)
<1> USE DEF TypeOK, HandlersTyped
<1>1. \A u \in Txs \ {t} : pc'[u] = pc[u] /\ req'[u] = req[u] /\ mem'[u] = mem[u]
  BY DEF Goto, Remember
<1>2. \A u \in Txs \ {t} : wres'[u] = wres[u] /\ wpass'[u] = wpass[u]
  OBVIOUS
<1>3. \A u \in Txs \ {t} : \A y \in Rows : (lock'[y] = u) <=> (lock[y] = u)
  BY KeysAssumption DEF LockRow
<1> QED
  BY <1>1, <1>2, <1>3 DEF OthersKeep

LEMMA OthersKept ==
  ASSUME NEW t \in Txs, TypeOK, Begin(t) \/ Step(t) \/ Abort(t)
  PROVE  OthersKeep(t)
<1>1. CASE Begin(t)
  BY <1>1 DEF Begin, Accept, Goto, OthersKeep, TypeOK, HandlersTyped
<1>2. CASE Release(t)
  BY <1>2, Released
<1>3. CASE LockActivity(t) /\ ~Rollback(t)
  BY <1>3, HandlersApart DEF LockActivity, Free
<1>4. CASE (ListHolders(t) \/ ReadDogs(t) \/ ReadPass(t)) /\ ~Rollback(t)
  BY <1>4, HandlersApart DEF ListHolders, ReadDogs, ReadPass
<1>5. CASE LockPassToConsume(t) /\ ~Rollback(t)
  BY <1>5, HandlersApart DEF LockPassToConsume, Free
<1>6. CASE (WriteConsumedPass(t) \/ WriteRefundedPass(t)) /\ ~Rollback(t)
  BY <1>6, HandlersApart DEF WriteConsumedPass, WriteRefundedPass, WritePass
<1>7. CASE InsertReservation(t) /\ ~Rollback(t)
  <2>1. \E w : wres' = [wres EXCEPT ![t] = w]
    BY <1>7 DEF InsertReservation
  <2> QED
    BY <1>7, <2>1, HandlersApart DEF InsertReservation
<1>8. CASE LockReservation(t) /\ ~Rollback(t)
  BY <1>8, HandlersApart DEF LockReservation, Free
<1>9. CASE ReadActivity(t) /\ ~Rollback(t)
  BY <1>9, HandlersApart DEF ReadActivity
<1>10. CASE LockPassToRefund(t) /\ ~Rollback(t)
  BY <1>10, HandlersApart DEF LockPassToRefund, Free
<1>11. CASE WriteReservation(t) /\ ~Rollback(t)
  <2>1. Goto(t, "commit") /\ UNCHANGED <<req, mem, wpass>>
    BY <1>11 DEF WriteReservation
  <2>2. \E w : wres' = [wres EXCEPT ![t] = w]
    BY <1>11 DEF WriteReservation
  <2>3. \E x : lock[x] \in {NoTx, t} /\ LockRow(t, x)
    BY <1>11 DEF WriteReservation
  <2>4. \E step : Goto(t, step)
    BY <2>1
  <2> QED
    BY <2>1, <2>2, <2>3, <2>4, HandlersApart
<1> QED
  BY <1>1, <1>2, <1>3, <1>4, <1>5, <1>6, <1>7, <1>8, <1>9, <1>10, <1>11
  DEF Step, Abort, Rollback, UpdatePass, Commit

-----------------------------------------------------------------------------
LEMMA SlotsFinite ==
  \A a : IsFiniteSet(SlotHolders(a)) /\ Cardinality(SlotHolders(a)) \in Nat
BY KeysAssumption, FS_Subset, FS_CardinalityType DEF SlotHolders

(* Of an activity that u has locked, slots are only ever left.             *)
SlotsKeep(u) ==
  \A a \in Activities : lock[a] = u =>
    /\ SlotHolders(a)' \subseteq SlotHolders(a)
    /\ \A r \in SlotHolders(a)' : res'[r].dog = res[r].dog

LEMMA OthersStayCareful ==
  ASSUME NEW t \in Txs, NEW u \in Txs \ {t}, BookingInv, NothingElseMoves,
         Careful(u), OthersKeep(t), SlotsKeep(u), UNCHANGED <<activity, clock>>
  PROVE  Careful(u)'
<1> DEFINE a == req[u].act
<1>0. /\ pc'[u] = pc[u] /\ req'[u] = req[u] /\ mem'[u] = mem[u] /\ wres'[u] = wres[u]
      /\ \A x \in Rows : (lock'[x] = u) <=> (lock[x] = u)
  BY DEF OthersKeep
<1>1. (Registers(u)' <=> Registers(u)) /\ (Moves(u)' <=> Moves(u))
  BY <1>0 DEF Registers, Moves
<1>2. DecidedInTime(u)' /\ PaysForItself(u)'
  BY <1>0, <1>1 DEF Careful, DecidedInTime, PaysForItself
<1>3. CASE ~(Registers(u) /\ pc[u] \in Admitting)
  <2>1. ~(Registers(u)' /\ pc'[u] \in Admitting)
    BY <1>0, <1>1, <1>3
  <2> QED
    BY <1>2, <2>1 DEF Careful, HoldsItsActivity, FoundRoom, SawAll, OwnerVetted,
                      WroteItsRequest, Admitting, Admitted
<1>4. CASE Registers(u) /\ pc[u] \in Admitting
  <2>1. a \in Activities /\ lock[a] = u
    BY <1>4, RequestFacts DEF BookingInv, Careful, HoldsItsActivity
  <2>2. lock'[a] = u
    BY <1>0, <2>1, RowsTyped
  <2>3. PICK b \in Activities : b = a
    BY <2>1
  <2>4. SlotHolders(req[u].act)' = SlotHolders(b)'
    BY <1>0, <2>3 DEF SlotHolders
  <2>5. SlotHolders(b)' \subseteq SlotHolders(b) /\ \A r \in SlotHolders(b)' : res'[r].dog = res[r].dog
    BY <2>1, <2>3 DEF SlotsKeep
  <2>6. HoldsItsActivity(u)'
    BY <1>0, <2>2 DEF HoldsItsActivity
  <2>7. FoundRoom(u)'
    <3>1. Cardinality(SlotHolders(b))' <= Cardinality(SlotHolders(b))
      BY <2>5, SlotsFinite, FS_Subset
    <3>2. activity[b].cap \in Nat /\ activity'[b] = activity[b]
      BY BookingAssumption DEF NothingElseMoves, ActivityRow
    <3>3. SlotHolders(b)' \subseteq ResIds
      BY DEF SlotHolders
    <3>4. Cardinality(SlotHolders(b))' \in Nat
      BY <2>5, <3>3, SlotsFinite, FS_Subset, FS_CardinalityType
    <3> QED
      BY <1>0, <1>1, <2>3, <2>4, <3>1, <3>2, <3>4, SlotsFinite DEF Careful, FoundRoom
  <2>8. SawAll(u)'
    BY <1>0, <1>1, <2>3, <2>4, <2>5 DEF Careful, SawAll
  <2>9. OwnerVetted(u)'
    BY <1>0, <1>1, <2>3, <2>4, <2>5 DEF Careful, OwnerVetted
  <2>10. WroteItsRequest(u)'
    <3>1. ASSUME NEW r \in SlotHolders(req[u].act)', res'[r].dog = req[u].dog
          PROVE  r \in ActiveBooking(req[u].act, req[u].dog)
      BY <2>3, <2>4, <2>5, <3>1 DEF ActiveBooking
    <3>2. ActiveBooking(req[u].act, req[u].dog) = {} => ActiveBooking(req[u].act, req[u].dog)' = {}
      BY <1>0, <3>1 DEF ActiveBooking
    <3>3. Written(u)' = Written(u)
      BY <1>0 DEF Written
    <3> QED
      BY <1>0, <1>1, <3>2, <3>3 DEF Careful, WroteItsRequest
  <2> QED
    BY <1>2, <2>6, <2>7, <2>8, <2>9, <2>10 DEF Careful
<1> QED
  BY <1>3, <1>4
(* A step of t that publishes no booking keeps the invariant if it keeps t *)
(* careful.                                                                *)
LEMMA UnpublishedKeepsAdmissions ==
  ASSUME NEW t \in Txs, BookingInv, AdmissionInv, OthersKeep(t), Careful(t)',
         UNCHANGED <<clock, activity, dog, res, gone, forced, reviewed>>
  PROVE  AdmissionInv'
<1>1. \A a : SlotHolders(a)' = SlotHolders(a)
  BY DEF SlotHolders, HoldsSlot, Exists
<1>2. ASSUME NEW u \in Txs \ {t} PROVE Careful(u)'
  BY <1>1, OthersStayCareful DEF SlotsKeep, AdmissionInv
<1>3. (NothingElseMoves /\ NoOverbooking /\ OneActiveBooking /\ MeetingsAreVetted)'
  BY <1>1 DEF AdmissionInv, NothingElseMoves, NoOverbooking, OneActiveBooking, MeetingsAreVetted
<1>4. (OwnPassPays /\ AttendanceAfterTheFact)'
  BY DEF AdmissionInv, OwnPassPays, AttendanceAfterTheFact
<1> QED
  BY <1>2, <1>3, <1>4 DEF AdmissionInv

(* A handler that has answered is careful.                                 *)
LEMMA ReleasedIsCareful ==
  ASSUME NEW t \in Txs, TypeOK, Release(t) PROVE Careful(t)'
<1>1. pc'[t] = "idle"
  BY DEF Release, Goto, TypeOK, HandlersTyped
<1> QED
  BY <1>1 DEF Careful, HoldsItsActivity, FoundRoom, SawAll, OwnerVetted, PaysForItself,
              WroteItsRequest, DecidedInTime, Admitting, Admitted

LEMMA RollbackKeepsAdmissions ==
  ASSUME NEW t \in Txs, BookingInv, AdmissionInv, Rollback(t) PROVE AdmissionInv'
BY Released, ReleasedIsCareful, UnpublishedKeepsAdmissions DEF Rollback, committed, BookingInv

LEMMA BeginKeepsAdmissions ==
  ASSUME NEW t \in Txs, BookingInv, AdmissionInv, Begin(t) PROVE AdmissionInv'
<1>1. PICK q \in Requests : Accept(t, q, FirstStep(q.op)) /\ q.now = clock
  BY DEF Begin, Requests
<1>2. FirstStep(q.op) \in {"lockActivity", "readPass", "lockReservation"}
  BY DEF FirstStep
<1>3. pc'[t] = FirstStep(q.op) /\ req'[t] = q /\ UNCHANGED committed
  BY <1>1 DEF Accept, Goto, BookingInv, TypeOK, HandlersTyped
<1>4. clock \in Int /\ clock' = clock
  BY <1>3, BookingAssumption DEF committed, BookingInv, TypeOK, TablesTyped
<1>5. Careful(t)'
  BY <1>1, <1>2, <1>3, <1>4
  DEF Careful, HoldsItsActivity, FoundRoom, SawAll, OwnerVetted, PaysForItself,
      WroteItsRequest, DecidedInTime, Admitting, Admitted
<1> QED
  BY <1>3, <1>5, OthersKept, UnpublishedKeepsAdmissions DEF BookingInv, committed

-----------------------------------------------------------------------------
(* The statements of register                                              *)

(* What every statement of a registration keeps: its request, its lock on  *)
(* the activity, the time.                                                 *)
LEMMA StillAdmitting ==
  ASSUME NEW t \in Txs, BookingInv, AdmissionInv, Registers(t),
         pc[t] # "idle", UNCHANGED <<req, clock>>,
         \/ lock[req[t].act] = t /\ (lock' = lock \/ \E x : LockRow(t, x))
         \/ LockRow(t, req[t].act)
  PROVE  Registers(t)' /\ HoldsItsActivity(t)' /\ DecidedInTime(t)'
<1>1. req[t].act \in Activities /\ req[t].act \in Rows
  BY RequestFacts, RowsTyped DEF BookingInv
<1>2. lock'[req[t].act] = t
  BY <1>1 DEF LockRow, BookingInv, TypeOK, HandlersTyped
<1>3. Registers(t)' /\ ~Moves(t)'
  BY RequestFacts DEF Registers, Moves, BookingInv
<1>4. req[t].now <= clock
  BY DEF AdmissionInv, Careful, DecidedInTime
<1> QED
  BY <1>2, <1>3, <1>4 DEF HoldsItsActivity, DecidedInTime

LEMMA LockActivityKeepsAdmissions ==
  ASSUME NEW t \in Txs, BookingInv, AdmissionInv, LockActivity(t) PROVE AdmissionInv'
<1>1. CASE Rollback(t)
  BY <1>1, RollbackKeepsAdmissions
<1>2. CASE ~Rollback(t)
  <2>1. /\ pc[t] = "lockActivity" /\ LockRow(t, req[t].act) /\ Goto(t, "listHolders")
        /\ UNCHANGED <<committed, req, mem, wres, wpass>>
    BY <1>2 DEF LockActivity
  <2>2. Registers(t) /\ pc'[t] = "listHolders"
    BY <2>1 DEF BookingInv, Sound, RequestFits, Goto, TypeOK, HandlersTyped
  <2>3. HoldsItsActivity(t)' /\ DecidedInTime(t)'
    BY <2>1, <2>2, StillAdmitting DEF committed
  <2>4. Careful(t)'
    BY <2>2, <2>3 DEF Careful, FoundRoom, SawAll, OwnerVetted, PaysForItself,
                      WroteItsRequest, Admitted
  <2>5. OthersKeep(t)
    BY OthersKept DEF BookingInv, Step
  <2> QED
    BY <2>1, <2>4, <2>5, UnpublishedKeepsAdmissions DEF committed
<1> QED
  BY <1>1, <1>2

LEMMA ListHoldersKeepsAdmissions ==
  ASSUME NEW t \in Txs, BookingInv, AdmissionInv, ListHolders(t) PROVE AdmissionInv'
<1> DEFINE a == req[t].act
<1>1. CASE Rollback(t)
  BY <1>1, RollbackKeepsAdmissions
<1>2. CASE ~Rollback(t)
  <2>1. /\ pc[t] = "listHolders" /\ Goto(t, "readDogs")
        /\ ~IsFull(activity[a], Cardinality(SlotHolders(a)))
        /\ Remember(t, [mem[t] EXCEPT !.holders = {res[r].dog : r \in SlotHolders(a)}])
        /\ UNCHANGED <<committed, req, wres, wpass, lock>>
    BY <1>2 DEF ListHolders
  <2>2. Registers(t) /\ pc'[t] = "readDogs" /\ a \in Activities
    BY <2>1, RequestFacts DEF BookingInv, Sound, RequestFits, Goto, TypeOK, HandlersTyped
  <2>3. mem'[t].holders = {res[r].dog : r \in SlotHolders(a)}
    BY <2>1 DEF Remember, BookingInv, TypeOK, HandlersTyped, Memory
  <2>4. Cardinality(SlotHolders(a)) < activity[a].cap
    <3>1. activity[a].cap \in Nat
      BY <2>2, BookingAssumption DEF AdmissionInv, NothingElseMoves, ActivityRow
    <3> QED
      BY <2>1, <3>1, SlotsFinite DEF IsFull
  <2>5. HoldsItsActivity(t)' /\ DecidedInTime(t)'
    <3>1. lock[a] = t
      BY <2>1, <2>2 DEF AdmissionInv, Careful, HoldsItsActivity, Admitting
    <3> QED
      BY <2>1, <2>2, <3>1, StillAdmitting DEF committed
  <2>6. SlotHolders(a)' = SlotHolders(a)
    BY <2>1 DEF SlotHolders, HoldsSlot, Exists, committed
  <2>7. FoundRoom(t)' /\ SawAll(t)'
    BY <2>1, <2>3, <2>4, <2>6 DEF FoundRoom, SawAll, committed
  <2>8. Careful(t)'
    BY <2>2, <2>5, <2>7 DEF Careful, OwnerVetted, PaysForItself, WroteItsRequest, Admitted
  <2>9. OthersKeep(t)
    BY OthersKept DEF BookingInv, Step
  <2> QED
    BY <2>1, <2>8, <2>9, UnpublishedKeepsAdmissions DEF committed
<1> QED
  BY <1>1, <1>2
LEMMA ReadDogsKeepsAdmissions ==
  ASSUME NEW t \in Txs, BookingInv, AdmissionInv, ReadDogs(t) PROVE AdmissionInv'
<1> DEFINE q == req[t]
           a == q.act
           others == {e \in mem[t].holders : dog[e] # "deleted"}
<1>1. CASE Rollback(t)
  BY <1>1, RollbackKeepsAdmissions
<1>2. CASE ~Rollback(t)
  <2>1. /\ pc[t] = "readDogs" /\ Goto(t, "lockPass") /\ Admissible(t)
        /\ Remember(t, [mem[t] EXCEPT !.next = AdmittedAs(t)])
        /\ UNCHANGED <<committed, req, wres, wpass, lock>>
    BY <1>2 DEF ReadDogs
  <2>2. Registers(t) /\ pc'[t] = "lockPass" /\ a \in Activities /\ q.dog \in Dogs
    BY <2>1, RequestFacts DEF BookingInv, Sound, RequestFits, Goto, TypeOK, HandlersTyped
  <2>3. mem'[t].next = AdmittedAs(t)
    BY <2>1 DEF Remember, BookingInv, TypeOK, HandlersTyped, Memory
  <2>4. HoldsItsActivity(t)' /\ DecidedInTime(t)'
    <3>1. lock[a] = t
      BY <2>1, <2>2 DEF AdmissionInv, Careful, HoldsItsActivity, Admitting
    <3> QED
      BY <2>1, <2>2, <3>1, StillAdmitting DEF committed
  <2>5. SlotHolders(a)' = SlotHolders(a)
    BY <2>1 DEF SlotHolders, HoldsSlot, Exists, committed
  <2>6. FoundRoom(t)'
    BY <2>1, <2>2, <2>5 DEF AdmissionInv, Careful, FoundRoom, committed
  <2>7. \A r \in SlotHolders(a) : res[r].dog \in others
    <3>1. \A r \in SlotHolders(a) : res[r].dog \in mem[t].holders /\ res[r].dog \in Dogs
      BY <2>1, <2>2 DEF AdmissionInv, Careful, SawAll, SlotHolders, HoldsSlot, Exists,
                        BookingInv, TypeOK, TablesTyped, ResRow
    <3>2. \A d \in Dogs : dog[d] # "deleted"
      BY DEF AdmissionInv, NothingElseMoves
    <3> QED
      BY <3>1, <3>2
  <2>8. ASSUME ~q.admin
        PROVE  /\ DogOwner[q.dog] = q.user
               /\ \A r \in SlotHolders(a) :
                    /\ <<q.dog, res[r].dog>> \notin Blocks
                    /\ AdmittedAs(t) = "CONFIRMED" => <<q.dog, res[r].dog>> \notin Reviews
    <3>1. DogOwner[q.dog] = q.user /\ ~Blocked(q.dog, others)
      BY <2>1, <2>8 DEF Admissible
    <3>2. AdmittedAs(t) = "CONFIRMED" => ~NeedsReview(q.dog, others)
      BY <2>8 DEF AdmittedAs
    <3> QED
      BY <2>7, <3>1, <3>2 DEF Blocked, NeedsReview
  <2>9. OwnerVetted(t)'
    BY <2>1, <2>3, <2>5, <2>8 DEF OwnerVetted, committed
  <2>10. Careful(t)'
    BY <2>2, <2>4, <2>6, <2>9 DEF Careful, SawAll, PaysForItself, WroteItsRequest
  <2>11. OthersKeep(t)
    BY OthersKept DEF BookingInv, Step
  <2> QED
    BY <2>1, <2>10, <2>11, UnpublishedKeepsAdmissions DEF committed
<1> QED
  BY <1>1, <1>2

(* From here on the verdict stands while the pass is paid from.            *)
LEMMA StillAdmitted ==
  ASSUME NEW t \in Txs, BookingInv, AdmissionInv, Registers(t), pc[t] \in Admitted,
         UNCHANGED <<committed, req>>, mem'[t].next = mem[t].next,
         lock' = lock \/ \E x : LockRow(t, x), pc'[t] \in Admitted
  PROVE  /\ Registers(t)' /\ FoundRoom(t)' /\ SawAll(t)' /\ OwnerVetted(t)'
         /\ HoldsItsActivity(t)' /\ DecidedInTime(t)'
         /\ SlotHolders(req[t].act)' = SlotHolders(req[t].act)
<1> DEFINE a == req[t].act
<1>1. lock[a] = t
  BY DEF AdmissionInv, Careful, HoldsItsActivity, Admitting, Admitted
<1>2. Registers(t)' /\ HoldsItsActivity(t)' /\ DecidedInTime(t)'
  BY <1>1, StillAdmitting DEF Admitted, committed
<1>3. SlotHolders(a)' = SlotHolders(a)
  BY DEF SlotHolders, HoldsSlot, Exists, committed
<1>4. FoundRoom(t)' /\ OwnerVetted(t)'
  BY <1>3 DEF AdmissionInv, Careful, FoundRoom, OwnerVetted, committed
<1>5. SawAll(t)'
  BY DEF SawAll, Admitted
<1> QED
  BY <1>2, <1>3, <1>4, <1>5

LEMMA LockPassToConsumeKeepsAdmissions ==
  ASSUME NEW t \in Txs, BookingInv, AdmissionInv, LockPassToConsume(t) PROVE AdmissionInv'
<1> DEFINE q == req[t]
<1>1. CASE Rollback(t)
  BY <1>1, RollbackKeepsAdmissions
<1>2. CASE ~Rollback(t)
  <2>1. /\ pc[t] = "lockPass" /\ q.op = "register" /\ Payable(t, q.pass)
        /\ LockRow(t, q.pass) /\ Goto(t, "writePass")
        /\ Remember(t, [mem[t] EXCEPT
              !.prow = [pass[q.pass] EXCEPT !.remaining = pass[q.pass].remaining - 1],
              !.amount = -1])
        /\ UNCHANGED <<committed, req, wres, wpass>>
    BY <1>2 DEF LockPassToConsume
  <2>2. Registers(t) /\ pc'[t] = "writePass"
    BY <2>1, RequestFacts DEF BookingInv, Sound, RequestFits, Goto, TypeOK, HandlersTyped
  <2>3. mem'[t].next = mem[t].next
    BY <2>1 DEF Remember, BookingInv, TypeOK, HandlersTyped, Memory
  <2>4. /\ Registers(t)' /\ FoundRoom(t)' /\ SawAll(t)' /\ OwnerVetted(t)'
        /\ HoldsItsActivity(t)' /\ DecidedInTime(t)'
    BY <2>1, <2>2, <2>3, StillAdmitted DEF Admitted
  <2>5. DogOwner[q.dog] = PassOwner[q.pass]
    BY <2>1, <2>2 DEF Payable, AdmissionInv, Careful, OwnerVetted, Admitted
  <2>6. Careful(t)'
    BY <2>1, <2>2, <2>4, <2>5 DEF Careful, PaysForItself, WroteItsRequest
  <2>7. OthersKeep(t)
    BY OthersKept DEF BookingInv, Step
  <2> QED
    BY <2>1, <2>6, <2>7, UnpublishedKeepsAdmissions DEF committed
<1> QED
  BY <1>1, <1>2

LEMMA WriteConsumedPassKeepsAdmissions ==
  ASSUME NEW t \in Txs, BookingInv, AdmissionInv, WriteConsumedPass(t) PROVE AdmissionInv'
<1>1. CASE Rollback(t)
  BY <1>1, RollbackKeepsAdmissions
<1>2. CASE ~Rollback(t)
  <2>1. /\ pc[t] = "writePass" /\ req[t].op = "register" /\ Goto(t, "insert")
        /\ LockRow(t, req[t].pass) /\ UNCHANGED <<committed, req, mem, wres>>
    BY <1>2 DEF WriteConsumedPass, WritePass
  <2>2. Registers(t) /\ pc'[t] = "insert"
    BY <2>1, RequestFacts DEF BookingInv, Sound, RequestFits, Goto, TypeOK, HandlersTyped
  <2>3. /\ Registers(t)' /\ FoundRoom(t)' /\ SawAll(t)' /\ OwnerVetted(t)'
        /\ HoldsItsActivity(t)' /\ DecidedInTime(t)'
    BY <2>1, <2>2, StillAdmitted DEF Admitted
  <2>4. Careful(t)'
    BY <2>1, <2>2, <2>3 DEF Careful, PaysForItself, WroteItsRequest, AdmissionInv
  <2>5. OthersKeep(t)
    BY OthersKept DEF BookingInv, Step
  <2> QED
    BY <2>1, <2>4, <2>5, UnpublishedKeepsAdmissions DEF committed
<1> QED
  BY <1>1, <1>2

LEMMA InsertReservationKeepsAdmissions ==
  ASSUME NEW t \in Txs, BookingInv, AdmissionInv, InsertReservation(t) PROVE AdmissionInv'
<1> DEFINE q == req[t]
           row == [act |-> q.act, dog |-> q.dog, pass |-> q.pass, status |-> mem[t].next]
<1>1. CASE Rollback(t)
  BY <1>1, RollbackKeepsAdmissions
<1>2. CASE ~Rollback(t)
  <2>1. /\ pc[t] = "insert" /\ Goto(t, "commit")
        /\ ActiveBooking(q.act, q.dog) = {}
        /\ UNCHANGED <<committed, req, mem, wpass, lock>>
    BY <1>2 DEF InsertReservation
  <2>2. PICK r \in ResIds : wres' = [wres EXCEPT ![t][r] = row]
    BY <1>2 DEF InsertReservation
  <2>3. Registers(t) /\ pc'[t] = "commit"
    BY <2>1 DEF BookingInv, Sound, RequestFits, Goto, TypeOK, HandlersTyped
  <2>4. /\ Registers(t)' /\ FoundRoom(t)' /\ SawAll(t)' /\ OwnerVetted(t)'
        /\ HoldsItsActivity(t)' /\ DecidedInTime(t)'
    BY <2>1, <2>3, StillAdmitted DEF Admitted
  <2>5. wres[t] = NoWrites
    BY <2>1 DEF BookingInv, Sound, NothingEarly
  <2>6. \A s \in ResIds : wres'[t][s] # NoRow => wres'[t][s] = row
    <3> HIDE DEF row
    <3> QED
      BY <2>2, <2>5 DEF NoWrites, BookingInv, TypeOK, HandlersTyped
  <2>7. ActiveBooking(q.act, q.dog)' = {}
    BY <2>1 DEF ActiveBooking, SlotHolders, HoldsSlot, Exists, committed
  <2>8. WroteItsRequest(t)'
    BY <2>1, <2>6, <2>7 DEF WroteItsRequest, Written
  <2>9. Careful(t)'
    BY <2>1, <2>3, <2>4, <2>8 DEF Careful, PaysForItself, AdmissionInv
  <2>10. OthersKeep(t)
    BY OthersKept DEF BookingInv, Step
  <2> QED
    BY <2>1, <2>9, <2>10, UnpublishedKeepsAdmissions DEF committed
<1> QED
  BY <1>1, <1>2
-----------------------------------------------------------------------------
(* The statements of the other requests                                    *)

LEMMA OnlyRegistrationsAdmit ==
  ASSUME NEW t \in Txs, ~Registers(t)', DecidedInTime(t)' PROVE Careful(t)'
BY DEF Careful, HoldsItsActivity, FoundRoom, SawAll, OwnerVetted, PaysForItself, WroteItsRequest

(* A request that is no registration goes on with its decision unchanged.  *)
LEMMA DecisionStands ==
  ASSUME NEW t \in Txs, BookingInv, AdmissionInv, pc[t] # "idle",
         UNCHANGED <<req, clock, activity>>, ~Registers(t),
         \/ pc'[t] \notin {"lockPass", "writePass", "writeReservation", "commit"}
         \/ /\ pc[t] \in {"lockPass", "writePass", "writeReservation", "commit"}
            /\ mem'[t].next = mem[t].next /\ mem'[t].row = mem[t].row
  PROVE  Careful(t)'
<1>1. ~Registers(t)'
  BY DEF Registers
<1>2. DecidedInTime(t)'
  BY DEF AdmissionInv, Careful, DecidedInTime, Registers, Moves
<1> QED
  BY <1>1, <1>2, OnlyRegistrationsAdmit

LEMMA LockReservationKeepsAdmissions ==
  ASSUME NEW t \in Txs, BookingInv, AdmissionInv, LockReservation(t) PROVE AdmissionInv'
<1> DEFINE op == req[t].op
           m == [mem[t] EXCEPT !.row = res[req[t].res], !.next = Decided(op)]
<1>1. CASE Rollback(t)
  BY <1>1, RollbackKeepsAdmissions
<1>2. CASE ~Rollback(t)
  <2>1. /\ pc[t] = "lockReservation" /\ Goto(t, AfterLock(op)) /\ Remember(t, m)
        /\ UNCHANGED <<committed, req, wres, wpass>>
    BY <1>2 DEF LockReservation
  <2>2. /\ Moves(t) /\ pc'[t] = AfterLock(op) /\ mem'[t] = m
        /\ op # "register" /\ mem[t] \in Memory
    BY <2>1, RequestFacts
    DEF BookingInv, Sound, RequestFits, Goto, Remember, TypeOK, HandlersTyped
  <2>3. mem'[t].next = Decided(op)
    BY <2>2 DEF Memory
  <2>4. ~Registers(t) /\ ~Registers(t)'
    BY <2>1, <2>2, RequestFacts DEF Registers, BookingInv
  <2>5. req[t].now <= clock
    BY <2>1, <2>2 DEF AdmissionInv, Careful, DecidedInTime
  <2>6. AfterLock(op) \in {"lockPass", "writeReservation"} => op \in {"forgive", "reject", "confirm"}
    BY DEF AfterLock
  <2>7. AfterLock(op) \in {"readActivity", "lockPass", "writeReservation"}
    BY DEF AfterLock
  <2>8. op \in {"forgive", "reject", "confirm"} =>
          /\ Decided(op) \notin {"COMPLETED", "NO_SHOW"}
          /\ Decided(op) = "CONFIRMED" => op = "confirm"
    BY DEF Decided
  <2> HIDE DEF m, op
  <2>9. DecidedInTime(t)'
    <3>1. UNCHANGED <<clock, activity, req>>
      BY <2>1 DEF committed
    <3>2. pc'[t] # "idle" /\ (Registers(t)' \/ Moves(t)' => req'[t].now <= clock')
      BY <2>2, <2>5, <2>7, <3>1
    <3>3. pc'[t] \in {"lockPass", "writePass", "writeReservation", "commit"} =>
            op \in {"forgive", "reject", "confirm"}
      BY <2>2, <2>6, <2>7
    <3> QED
      BY <2>3, <2>8, <3>1, <3>2, <3>3 DEF DecidedInTime, op
  <2>10. OthersKeep(t)
    BY OthersKept DEF BookingInv, Step
  <2> QED
    BY <2>1, <2>4, <2>9, <2>10, OnlyRegistrationsAdmit, UnpublishedKeepsAdmissions DEF committed
<1> QED
  BY <1>1, <1>2

LEMMA ReadActivityKeepsAdmissions ==
  ASSUME NEW t \in Txs, BookingInv, AdmissionInv, ReadActivity(t) PROVE AdmissionInv'
<1> DEFINE q == req[t]
           arow == activity[mem[t].row.act]
           outcome == Outcome(q.op, arow, q.now)
           m == [mem[t] EXCEPT !.next = outcome]
<1>1. CASE Rollback(t)
  BY <1>1, RollbackKeepsAdmissions
<1>2. CASE ~Rollback(t)
  <2>1. /\ pc[t] = "readActivity" /\ InTimeForIt(q.op, mem[t].row, arow, q.now)
        /\ Goto(t, IF q.op = "cancel" THEN "lockPass" ELSE "writeReservation")
        /\ Remember(t, m) /\ UNCHANGED <<committed, req, wres, wpass, lock>>
    BY <1>2 DEF ReadActivity
  <2>2. /\ Moves(t) /\ pc'[t] \in {"lockPass", "writeReservation"} /\ mem'[t] = m
        /\ mem[t] \in Memory /\ q.op \in {"cancel", "complete", "noShow"}
    BY <2>1 DEF BookingInv, Sound, RequestFits, HoldsItsBooking, Goto, Remember, TypeOK, HandlersTyped
  <2>3. m.next = outcome /\ m.row = mem[t].row
    <3> HIDE DEF outcome
    <3> QED
      BY <2>2 DEF Memory
  <2>4. ~Registers(t) /\ ~Registers(t)'
    BY <2>1, <2>2, RequestFacts DEF Registers, BookingInv
  <2>5. q.now <= clock
    BY <2>1, <2>2 DEF AdmissionInv, Careful, DecidedInTime
  <2>6. /\ outcome # "CONFIRMED"
        /\ outcome = "COMPLETED" => IsFinished(arow, q.now)
        /\ outcome = "NO_SHOW" => IsInThePast(arow, q.now)
    BY <2>1, <2>2 DEF Outcome, InTimeForIt
  <2>7. DecidedInTime(t)'
    <3>1. UNCHANGED <<clock, activity, req>> /\ mem'[t].next = outcome /\ mem'[t].row = mem[t].row
      BY <2>1, <2>2, <2>3 DEF committed
    <3> HIDE DEF m, outcome
    <3> QED
      BY <2>5, <2>6, <3>1 DEF DecidedInTime, IsFinished, IsInThePast
  <2>8. OthersKeep(t)
    BY OthersKept DEF BookingInv, Step
  <2> QED
    BY <2>1, <2>4, <2>7, <2>8, OnlyRegistrationsAdmit, UnpublishedKeepsAdmissions DEF committed
<1> QED
  BY <1>1, <1>2

LEMMA LockPassToRefundKeepsAdmissions ==
  ASSUME NEW t \in Txs, BookingInv, AdmissionInv, LockPassToRefund(t) PROVE AdmissionInv'
<1>1. CASE Rollback(t)
  BY <1>1, RollbackKeepsAdmissions
<1>2. CASE ~Rollback(t)
  <2>1. pc[t] = "lockPass" /\ req[t].op # "register" /\ UNCHANGED <<committed, req>>
    BY <1>2 DEF LockPassToRefund
  <2>2. mem' = mem \/ \E a, b : Remember(t, [mem[t] EXCEPT !.prow = a, !.amount = b])
    BY <1>2 DEF LockPassToRefund
  <2>3. mem'[t].next = mem[t].next /\ mem'[t].row = mem[t].row
    BY <2>2 DEF Remember, BookingInv, TypeOK, HandlersTyped, Memory
  <2>4. ~Registers(t)
    BY <2>1, RequestFacts DEF BookingInv
  <2>5. Careful(t)'
    BY <2>1, <2>3, <2>4, DecisionStands DEF committed
  <2>6. OthersKeep(t)
    BY OthersKept DEF BookingInv, Step
  <2> QED
    BY <2>1, <2>5, <2>6, UnpublishedKeepsAdmissions DEF committed
<1> QED
  BY <1>1, <1>2

LEMMA WritesKeepAdmissions ==
  ASSUME NEW t \in Txs, BookingInv, AdmissionInv,
         WriteRefundedPass(t) \/ WriteReservation(t)
  PROVE  AdmissionInv'
<1>1. CASE Rollback(t)
  BY <1>1, RollbackKeepsAdmissions
<1>2. CASE ~Rollback(t)
  <2>1. pc[t] \in {"writePass", "writeReservation"} /\ UNCHANGED <<committed, req, mem>>
    BY <1>2 DEF WriteRefundedPass, WriteReservation, WritePass
  <2>2. ~Registers(t)
    BY RequestFacts DEF BookingInv, Sound, RequestFits, WriteRefundedPass, WriteReservation
  <2>3. Careful(t)'
    BY <2>1, <2>2, DecisionStands DEF committed
  <2>4. OthersKeep(t)
    BY OthersKept DEF BookingInv, Step
  <2> QED
    BY <2>1, <2>3, <2>4, UnpublishedKeepsAdmissions DEF committed
<1> QED
  BY <1>1, <1>2

LEMMA PassEditsKeepAdmissions ==
  ASSUME NEW t \in Txs, BookingInv, AdmissionInv, ReadPass(t) \/ UpdatePass(t)
  PROVE  AdmissionInv'
<1>1. OthersKeep(t)
  BY OthersKept DEF BookingInv, Step
<1>2. CASE Release(t)
  BY <1>1, <1>2, ReleasedIsCareful, UnpublishedKeepsAdmissions
  DEF UpdatePass, ReadPass, Rollback, committed, BookingInv
<1>3. CASE ReadPass(t)
  <2>1. pc[t] = "readPass" /\ Goto(t, "updatePass") /\ UNCHANGED <<committed, req>>
    BY <1>3 DEF ReadPass
  <2>2. pc'[t] = "updatePass" /\ req[t] \in EditPassRequests
    BY <2>1 DEF BookingInv, Sound, RequestFits, Goto, TypeOK, HandlersTyped
  <2>3. ~Registers(t)
    BY <2>2 DEF Registers, RegisterRequests, EditPassRequests
  <2>4. Careful(t)'
    BY <2>1, <2>2, <2>3, DecisionStands DEF committed
  <2> QED
    BY <1>1, <2>1, <2>4, UnpublishedKeepsAdmissions DEF committed
<1> QED
  BY <1>2, <1>3 DEF UpdatePass, Rollback
-----------------------------------------------------------------------------
(* COMMIT                                                                  *)

(* The booking a COMMIT publishes: the one asked for, or a moved one.      *)
NewBooking(t, r) ==
  /\ Registers(t) /\ res[r] = NoRow /\ res'[r] \in ResRow
  /\ res'[r].act = req[t].act /\ res'[r].dog = req[t].dog
  /\ res'[r].pass = req[t].pass /\ res'[r].status = mem[t].next
  /\ res'[r].status \in SlotStatus

MovedBooking(t, r) ==
  /\ Moves(t) /\ ~Registers(t) /\ res[r] \in ResRow /\ res'[r] \in ResRow
  /\ res[r] = mem[t].row
  /\ res'[r].act = res[r].act /\ res'[r].dog = res[r].dog /\ res'[r].pass = res[r].pass
  /\ res'[r].status = mem[t].next
  /\ <<res[r].status, mem[t].next>> \in Transitions

LEMMA OneBookingPublished ==
  ASSUME NEW t \in Txs, BookingInv, AdmissionInv, Commit(t)
  PROVE  \E r \in ResIds :
           /\ \A s \in ResIds \ {r} : res'[s] = res[s]
           /\ NewBooking(t, r) \/ MovedBooking(t, r)
           /\ Written(t) = {r}
<1>1. PICK r \in ResIds :
         /\ \A s \in ResIds \ {r} : res'[s] = res[s] /\ wres[t][s] = NoRow
         /\ res'[r] \in ResRow
         /\ \/ /\ Registers(t) /\ res[r] = NoRow
               /\ res'[r].pass = PassOf(t) /\ res'[r].status \in SlotStatus
            \/ /\ Moves(t) /\ ~Registers(t) /\ res[r] \in ResRow
               /\ res[r] = mem[t].row
               /\ res'[r] = [res[r] EXCEPT !.status = mem[t].next]
               /\ res'[r].status = mem[t].next
               /\ <<res[r].status, mem[t].next>> \in Transitions
  BY BookingPublished
<1>2. res'[r] = IF wres[t][r] # NoRow THEN wres[t][r] ELSE res[r]
  BY DEF Commit, Publish, Written
<1>3. res'[r] # res[r]
  <2>1. \A a : <<a, a>> \notin Transitions
    BY DEF Transitions
  <2> QED
    BY <1>1, <2>1, BookingAssumption
<1>4. wres[t][r] # NoRow /\ res'[r] = wres[t][r]
  BY <1>2, <1>3
<1>5. Written(t) = {r}
  BY <1>1, <1>4 DEF Written
<1>6. CASE Registers(t) /\ res[r] = NoRow
  <2>1. /\ wres[t][r].act = req[t].act /\ wres[t][r].dog = req[t].dog
        /\ wres[t][r].status = mem[t].next
    BY <1>5, <1>6 DEF Commit, AdmissionInv, Careful, WroteItsRequest
  <2>2. NewBooking(t, r)
    BY <1>1, <1>4, <1>6, <2>1 DEF NewBooking, PassOf
  <2> QED
    BY <1>1, <1>5, <2>2
<1>7. CASE Moves(t) /\ ~Registers(t)
  <2>1. /\ res'[r].act = res[r].act /\ res'[r].dog = res[r].dog /\ res'[r].pass = res[r].pass
    BY <1>1, <1>7 DEF ResRow
  <2> QED
    BY <1>1, <1>5, <1>7, <2>1 DEF MovedBooking
<1> QED
  BY <1>1, <1>6, <1>7

(* A move never enters a slot; a new booking enters one of its activity.   *)
LEMMA SlotsAfterCommit ==
  ASSUME NEW t \in Txs, BookingInv, AdmissionInv, NEW r \in ResIds, UNCHANGED gone,
         \A s \in ResIds \ {r} : res'[s] = res[s], NEW a \in Activities
  PROVE  /\ MovedBooking(t, r) => SlotHolders(a)' \subseteq SlotHolders(a)
         /\ NewBooking(t, r) => /\ r \notin SlotHolders(a)
                                /\ a # req[t].act => SlotHolders(a)' = SlotHolders(a)
                                /\ a = req[t].act => SlotHolders(a)' = SlotHolders(a) \cup {r}
<1>1. NoRow \notin ResRow /\ gone = {}
  BY BookingAssumption DEF AdmissionInv, NothingElseMoves
<1>2. CASE MovedBooking(t, r)
  <2>1. res'[r].status \in SlotStatus => res[r].status \in SlotStatus
    BY <1>2 DEF MovedBooking, Transitions, SlotStatus
  <2> QED
    BY <1>1, <1>2, <2>1 DEF MovedBooking, NewBooking, SlotHolders, HoldsSlot, Exists
<1>3. CASE NewBooking(t, r)
  BY <1>1, <1>3 DEF MovedBooking, NewBooking, SlotHolders, HoldsSlot, Exists
<1> QED
  BY <1>2, <1>3
(* What COMMIT adds to the history.                                        *)
LEMMA HistoryAfterCommit ==
  ASSUME NEW t \in Txs, Commit(t)
  PROVE  /\ forced \subseteq forced' /\ reviewed \subseteq reviewed'
         /\ req[t].op = "register" /\ req[t].admin => Written(t) \subseteq forced'
         /\ req[t].op = "confirm" => Written(t) \subseteq reviewed'
         /\ UNCHANGED <<clock, activity, dog, gone>> /\ pc[t] = "commit" /\ Release(t)
BY DEF Commit

LEMMA CommitKeepsCareful ==
  ASSUME NEW t \in Txs, BookingInv, AdmissionInv, Commit(t), NEW u \in Txs
  PROVE  Careful(u)'
<1>1. CASE u = t
  BY <1>1, HistoryAfterCommit, ReleasedIsCareful DEF BookingInv
<1>2. CASE u # t
  <2>1. PICK r \in ResIds :
           /\ \A s \in ResIds \ {r} : res'[s] = res[s]
           /\ NewBooking(t, r) \/ MovedBooking(t, r)
    BY OneBookingPublished
  <2>2. UNCHANGED <<clock, activity, gone>> /\ pc[t] = "commit"
    BY HistoryAfterCommit
  <2>3. SlotsKeep(u)
    <3> SUFFICES ASSUME NEW a \in Activities, lock[a] = u
                 PROVE  /\ SlotHolders(a)' \subseteq SlotHolders(a)
                        /\ \A s \in SlotHolders(a)' : res'[s].dog = res[s].dog
      BY DEF SlotsKeep
    <3>1. CASE MovedBooking(t, r)
      BY <2>1, <2>2, <3>1, SlotsAfterCommit DEF MovedBooking, SlotHolders
    <3>2. CASE NewBooking(t, r)
      <4>1. lock[req[t].act] = t
        BY <2>2, <3>2 DEF NewBooking, AdmissionInv, Careful, HoldsItsActivity, Admitting
      <4>2. a # req[t].act
        BY <1>2, <4>1
      <4> QED
        BY <2>1, <2>2, <3>2, <4>2, SlotsAfterCommit DEF SlotHolders
    <3> QED
      BY <2>1, <3>1, <3>2
  <2>4. OthersKeep(t)
    BY OthersKept DEF BookingInv, Step
  <2> QED
    BY <1>2, <2>2, <2>3, <2>4, OthersStayCareful DEF AdmissionInv
<1> QED
  BY <1>1, <1>2

LEMMA CommitKeepsRoom ==
  ASSUME NEW t \in Txs, BookingInv, AdmissionInv, Commit(t) PROVE NoOverbooking'
<1>1. PICK r \in ResIds :
         /\ \A s \in ResIds \ {r} : res'[s] = res[s]
         /\ NewBooking(t, r) \/ MovedBooking(t, r)
  BY OneBookingPublished
<1>2. UNCHANGED <<clock, activity, gone>> /\ pc[t] = "commit"
  BY HistoryAfterCommit
<1> SUFFICES ASSUME NEW a \in Activities, activity[a] # NoRow
             PROVE  Cardinality(SlotHolders(a))' <= activity[a].cap
  BY <1>2 DEF NoOverbooking
<1>3. activity[a].cap \in Nat /\ Cardinality(SlotHolders(a)) <= activity[a].cap
  BY BookingAssumption DEF AdmissionInv, NothingElseMoves, ActivityRow, NoOverbooking
<1>4. CASE SlotHolders(a)' \subseteq SlotHolders(a)
  <2>1. /\ Cardinality(SlotHolders(a))' <= Cardinality(SlotHolders(a))
        /\ Cardinality(SlotHolders(a))' \in Nat
    BY <1>4, SlotsFinite, FS_Subset, FS_CardinalityType
  <2> QED
    BY <1>3, <2>1, SlotsFinite
<1>5. CASE NewBooking(t, r) /\ a = req[t].act
  <2>1. r \notin SlotHolders(a) /\ SlotHolders(a)' = SlotHolders(a) \cup {r}
    BY <1>1, <1>2, <1>5, SlotsAfterCommit
  <2>2. Cardinality(SlotHolders(a))' = Cardinality(SlotHolders(a)) + 1
    BY <2>1, SlotsFinite, FS_AddElement
  <2>3. Cardinality(SlotHolders(a)) < activity[a].cap
    BY <1>2, <1>5 DEF NewBooking, AdmissionInv, Careful, FoundRoom, Admitted
  <2> QED
    BY <1>3, <2>2, <2>3, SlotsFinite
<1> QED
  BY <1>1, <1>2, <1>4, <1>5, SlotsAfterCommit

(* Who is in a slot after a COMMIT was there before, or is the new booking.*)
LEMMA SlotHoldersAfterCommit ==
  ASSUME NEW t \in Txs, BookingInv, AdmissionInv, Commit(t), NEW a \in Activities,
         NEW r \in ResIds, \A s \in ResIds \ {r} : res'[s] = res[s],
         NewBooking(t, r) \/ MovedBooking(t, r)
  PROVE  /\ \A s \in SlotHolders(a)' \ {r} : s \in SlotHolders(a) /\ res'[s] = res[s]
         /\ r \in SlotHolders(a)' =>
              \/ NewBooking(t, r) /\ a = req[t].act /\ r \notin SlotHolders(a)
              \/ MovedBooking(t, r) /\ r \in SlotHolders(a)
<1>1. UNCHANGED gone
  BY HistoryAfterCommit
<1>2. SlotHolders(a)' \subseteq ResIds
  BY DEF SlotHolders
<1>3. CASE MovedBooking(t, r)
  BY <1>1, <1>2, <1>3, SlotsAfterCommit
<1>4. CASE NewBooking(t, r)
  BY <1>1, <1>2, <1>4, SlotsAfterCommit
<1> QED
  BY <1>3, <1>4

LEMMA CommitKeepsOneBooking ==
  ASSUME NEW t \in Txs, BookingInv, AdmissionInv, Commit(t) PROVE OneActiveBooking'
<1>1. PICK r \in ResIds :
         /\ \A s \in ResIds \ {r} : res'[s] = res[s]
         /\ NewBooking(t, r) \/ MovedBooking(t, r)
  BY OneBookingPublished
<1>2. pc[t] = "commit"
  BY HistoryAfterCommit
<1> SUFFICES ASSUME NEW a \in Activities, NEW x \in SlotHolders(a)',
                    NEW y \in SlotHolders(a)', res'[x].dog = res'[y].dog
             PROVE  x = y
  BY DEF OneActiveBooking
<1>3. /\ \A s \in SlotHolders(a)' \ {r} : s \in SlotHolders(a) /\ res'[s] = res[s]
      /\ r \in SlotHolders(a)' =>
           \/ NewBooking(t, r) /\ a = req[t].act /\ r \notin SlotHolders(a)
           \/ MovedBooking(t, r) /\ r \in SlotHolders(a)
  BY <1>1, SlotHoldersAfterCommit
<1>4. CASE MovedBooking(t, r)
  <2>1. x \in SlotHolders(a) /\ y \in SlotHolders(a)
        /\ res'[x].dog = res[x].dog /\ res'[y].dog = res[y].dog
    BY <1>3, <1>4 DEF MovedBooking, NewBooking
  <2> QED
    BY <2>1 DEF AdmissionInv, OneActiveBooking
<1>5. CASE NewBooking(t, r)
  <2>1. ActiveBooking(req[t].act, req[t].dog) = {} /\ res'[r].dog = req[t].dog
    BY <1>2, <1>5 DEF NewBooking, AdmissionInv, Careful, WroteItsRequest
  <2>2. ~MovedBooking(t, r)
    BY <1>5 DEF NewBooking, MovedBooking
  <2>3. ASSUME NEW s \in SlotHolders(a)' \ {r}, r \in SlotHolders(a)'
        PROVE  res'[s].dog # res'[r].dog
    BY <1>3, <2>1, <2>2, <2>3 DEF ActiveBooking
  <2>4. CASE x # r /\ y # r
    BY <1>3, <2>4 DEF AdmissionInv, OneActiveBooking
  <2> QED
    BY <2>3, <2>4
<1> QED
  BY <1>1, <1>4, <1>5
LEMMA CommitKeepsMeetings ==
  ASSUME NEW t \in Txs, BookingInv, AdmissionInv, Commit(t) PROVE MeetingsAreVetted'
<1>1. PICK r \in ResIds :
         /\ \A s \in ResIds \ {r} : res'[s] = res[s]
         /\ NewBooking(t, r) \/ MovedBooking(t, r)
         /\ Written(t) = {r}
  BY OneBookingPublished
<1>2. /\ pc[t] = "commit" /\ forced \subseteq forced' /\ reviewed \subseteq reviewed'
      /\ req[t].op = "register" /\ req[t].admin => r \in forced'
      /\ req[t].op = "confirm" => r \in reviewed'
  BY <1>1, HistoryAfterCommit
<1> DEFINE Vetted(x, y) ==
             LET pair == <<res'[x].dog, res'[y].dog>> IN
             /\ pair \in Blocks => {x, y} \cap forced' # {}
             /\ pair \in Reviews /\ res'[x].status = "CONFIRMED" /\ res'[y].status = "CONFIRMED"
                  => {x, y} \cap (forced' \cup reviewed') # {}
<1> SUFFICES ASSUME NEW a \in Activities, NEW x \in SlotHolders(a)', NEW y \in SlotHolders(a)'
             PROVE  Vetted(x, y)
  BY DEF MeetingsAreVetted
<1>3. /\ \A s \in SlotHolders(a)' \ {r} : s \in SlotHolders(a) /\ res'[s] = res[s]
      /\ r \in SlotHolders(a)' =>
           \/ NewBooking(t, r) /\ a = req[t].act /\ r \notin SlotHolders(a)
           \/ MovedBooking(t, r) /\ r \in SlotHolders(a)
  BY <1>1, SlotHoldersAfterCommit
<1>4. \A v, w \in SlotHolders(a) :
        LET pair == <<res[v].dog, res[w].dog>> IN
        /\ pair \in Blocks => {v, w} \cap forced # {}
        /\ pair \in Reviews /\ res[v].status = "CONFIRMED" /\ res[w].status = "CONFIRMED"
             => {v, w} \cap (forced \cup reviewed) # {}
  BY DEF AdmissionInv, MeetingsAreVetted
<1>5. CASE MovedBooking(t, r)
  <2>1. /\ x \in SlotHolders(a) /\ y \in SlotHolders(a)
        /\ res'[x].dog = res[x].dog /\ res'[y].dog = res[y].dog
        /\ x # r => res'[x] = res[x]
        /\ y # r => res'[y] = res[y]
    BY <1>3, <1>5 DEF MovedBooking, NewBooking
  <2>2. res'[r].status = "CONFIRMED" => r \in reviewed'
    BY <1>2, <1>5 DEF MovedBooking, AdmissionInv, Careful, DecidedInTime
  <2> QED
    BY <1>2, <1>4, <2>1, <2>2
<1>6. CASE NewBooking(t, r)
  <2>1. ~MovedBooking(t, r) /\ res'[r].dog = req[t].dog /\ res'[r].status = mem[t].next
        /\ req[t].op = "register"
    BY <1>6, RequestFacts DEF NewBooking, MovedBooking, BookingInv
  <2>2. CASE x # r /\ y # r
    BY <1>2, <1>3, <1>4, <2>2
  <2>3. CASE req[t].admin /\ (x = r \/ y = r)
    BY <1>2, <2>1, <2>3
  <2>4. ASSUME ~req[t].admin, NEW s \in SlotHolders(a)' \ {r}, r \in SlotHolders(a)'
        PROVE  /\ <<res'[r].dog, res'[s].dog>> \notin Blocks
               /\ res'[r].status = "CONFIRMED" => <<res'[r].dog, res'[s].dog>> \notin Reviews
    <3>1. s \in SlotHolders(req[t].act) /\ res'[s] = res[s]
      BY <1>3, <2>1, <2>4
    <3> QED
      BY <1>2, <1>6, <2>1, <2>4, <3>1
      DEF NewBooking, AdmissionInv, Careful, OwnerVetted, Admitted
  <2>5. \A d, e : /\ <<d, e>> \in Blocks => d # e /\ <<e, d>> \in Blocks
                  /\ <<d, e>> \in Reviews => d # e /\ <<e, d>> \in Reviews
    BY BookingAssumption
  <2>6. CASE ~req[t].admin /\ x = r /\ y # r
    BY <2>4, <2>6
  <2>7. CASE ~req[t].admin /\ x # r /\ y = r
    BY <2>4, <2>5, <2>7
  <2>8. CASE x = r /\ y = r
    BY <2>5, <2>8
  <2> HIDE DEF Vetted
  <2> QED
    BY <2>2, <2>3, <2>6, <2>7, <2>8
<1> QED
  BY <1>1, <1>5, <1>6

LEMMA CommitKeepsPayers ==
  ASSUME NEW t \in Txs, BookingInv, AdmissionInv, Commit(t) PROVE OwnPassPays'
<1>1. PICK r \in ResIds :
         /\ \A s \in ResIds \ {r} : res'[s] = res[s]
         /\ NewBooking(t, r) \/ MovedBooking(t, r)
  BY OneBookingPublished
<1>2. CASE NewBooking(t, r)
  <2>1. DogOwner[res'[r].dog] = PassOwner[res'[r].pass]
    BY <1>2, HistoryAfterCommit DEF NewBooking, AdmissionInv, Careful, PaysForItself
  <2> QED
    BY <1>1, <2>1 DEF OwnPassPays, AdmissionInv
<1>3. CASE MovedBooking(t, r)
  BY <1>1, <1>3, BookingAssumption DEF MovedBooking, OwnPassPays, AdmissionInv
<1> QED
  BY <1>1, <1>2, <1>3

LEMMA CommitKeepsAttendance ==
  ASSUME NEW t \in Txs, BookingInv, AdmissionInv, Commit(t) PROVE AttendanceAfterTheFact'
<1>1. PICK r \in ResIds :
         /\ \A s \in ResIds \ {r} : res'[s] = res[s]
         /\ NewBooking(t, r) \/ MovedBooking(t, r)
  BY OneBookingPublished
<1>2. UNCHANGED <<clock, activity>> /\ pc[t] = "commit"
  BY HistoryAfterCommit
<1> DEFINE Attended(s) ==
      res'[s] # NoRow /\ activity[res'[s].act] # NoRow =>
        /\ res'[s].status = "COMPLETED" => IsFinished(activity[res'[s].act], clock)
        /\ res'[s].status = "NO_SHOW"   => IsInThePast(activity[res'[s].act], clock)
<1>3. ASSUME NEW s \in ResIds \ {r} PROVE Attended(s)
  BY <1>1, <1>3 DEF AdmissionInv, AttendanceAfterTheFact
<1>4. ASSUME NewBooking(t, r) PROVE Attended(r)
  BY <1>4 DEF NewBooking, SlotStatus
<1>5. ASSUME MovedBooking(t, r) PROVE Attended(r)
  <2> DEFINE arow == activity[res'[r].act]
  <2>1. arow.date \in Int /\ Duration \in Int /\ clock \in Int /\ req[t].now \in Int
    <3>1. arow \in ActivityRow
      BY <1>5, BookingAssumption DEF MovedBooking, AdmissionInv, NothingElseMoves, ResRow
    <3>2. req[t].now \in Times
      BY <1>5 DEF MovedBooking, Moves, ReservationRequests, CancelRequests, AttendanceRequests,
                  ReviewRequests
    <3>3. clock \in Times
      BY DEF BookingInv, TypeOK, TablesTyped
    <3>4. \A n \in Times : n \in Int
      BY BookingAssumption
    <3>5. arow.date \in Int
      BY <3>1 DEF ActivityRow
    <3>6. Duration \in Int
      BY BookingAssumption
    <3> QED
      BY <3>2, <3>3, <3>4, <3>5, <3>6
  <2>2. /\ req[t].now <= clock
        /\ res'[r].status = "COMPLETED" => IsFinished(arow, req[t].now)
        /\ res'[r].status = "NO_SHOW" => IsInThePast(arow, req[t].now)
    BY <1>2, <1>5 DEF MovedBooking, AdmissionInv, Careful, DecidedInTime
  <2> QED
    BY <2>1, <2>2 DEF IsFinished, IsInThePast
<1> HIDE DEF Attended
<1>6. \A s \in ResIds : Attended(s)
  BY <1>1, <1>3, <1>4, <1>5
<1> QED
  BY <1>2, <1>6 DEF AttendanceAfterTheFact, Attended, IsFinished, IsInThePast

LEMMA CommitKeepsAdmissions ==
  ASSUME NEW t \in Txs, BookingInv, AdmissionInv, Commit(t) PROVE AdmissionInv'
<1>1. NothingElseMoves'
  BY HistoryAfterCommit DEF AdmissionInv, NothingElseMoves
<1> QED
  BY <1>1, CommitKeepsCareful, CommitKeepsRoom, CommitKeepsOneBooking, CommitKeepsMeetings,
     CommitKeepsPayers, CommitKeepsAttendance DEF AdmissionInv
-----------------------------------------------------------------------------
LEMMA TickKeepsAdmissions ==
  ASSUME BookingInv, AdmissionInv, Tick PROVE AdmissionInv'
<1>1. /\ clock' = clock + 1 /\ clock \in Int
      /\ UNCHANGED <<activity, dog, res, gone, forced, reviewed, pc, req, mem, wres, lock>>
  BY BookingAssumption DEF Tick, handler, BookingInv, TypeOK, TablesTyped
<1>2. \A a : SlotHolders(a)' = SlotHolders(a)
  BY <1>1 DEF SlotHolders, HoldsSlot, Exists
<1>3. ASSUME NEW t \in Txs PROVE Careful(t)'
  <2>1. (Registers(t)' <=> Registers(t)) /\ (Moves(t)' <=> Moves(t)) /\ Written(t)' = Written(t)
        /\ \A a, d : ActiveBooking(a, d)' = ActiveBooking(a, d)
    BY <1>1, <1>2 DEF Registers, Moves, Written, ActiveBooking
  <2>2. Careful(t)
    BY DEF AdmissionInv
  <2>3. (HoldsItsActivity(t) /\ FoundRoom(t) /\ SawAll(t) /\ OwnerVetted(t) /\ PaysForItself(t))'
    BY <1>1, <1>2, <2>1, <2>2
    DEF Careful, HoldsItsActivity, FoundRoom, SawAll, OwnerVetted, PaysForItself
  <2>4. ActiveBooking(req[t].act, req[t].dog)' = ActiveBooking(req[t].act, req[t].dog)
    BY <1>1 DEF ActiveBooking, SlotHolders, HoldsSlot, Exists
  <2>5. WroteItsRequest(t)'
    BY <1>1, <2>1, <2>2, <2>4 DEF Careful, WroteItsRequest
  <2>6. DecidedInTime(t)'
    <3>1. Registers(t) \/ Moves(t) => req[t].now \in Times
      BY DEF Registers, Moves, RegisterRequests, ReservationRequests,
             CancelRequests, AttendanceRequests, ReviewRequests
    <3>2. \A n \in Times : n \in Int
      BY BookingAssumption
    <3> QED
      BY <1>1, <2>1, <2>2, <3>1, <3>2 DEF Careful, DecidedInTime, IsFinished, IsInThePast
  <2> QED
    BY <2>3, <2>5, <2>6 DEF Careful
<1>4. (NothingElseMoves /\ NoOverbooking /\ OneActiveBooking /\ MeetingsAreVetted /\ OwnPassPays)'
  BY <1>1, <1>2 DEF AdmissionInv, NothingElseMoves, NoOverbooking, OneActiveBooking,
                    MeetingsAreVetted, OwnPassPays
<1>5. AttendanceAfterTheFact'
  <2> SUFFICES ASSUME NEW r \in ResIds, res[r] # NoRow, activity[res[r].act] # NoRow
               PROVE  /\ res[r].status = "COMPLETED" => IsFinished(activity[res[r].act], clock')
                      /\ res[r].status = "NO_SHOW" => IsInThePast(activity[res[r].act], clock')
    BY <1>1 DEF AttendanceAfterTheFact, IsFinished, IsInThePast
  <2>1. activity[res[r].act].date \in Int /\ Duration \in Int
    <3>1. res[r].act \in Activities
      BY DEF BookingInv, TypeOK, TablesTyped, ResRow
    <3> QED
      BY <3>1, BookingAssumption DEF AdmissionInv, NothingElseMoves, ActivityRow
  <2> QED
    BY <1>1, <2>1 DEF AdmissionInv, AttendanceAfterTheFact, IsFinished, IsInThePast
<1> QED
  BY <1>3, <1>4, <1>5 DEF AdmissionInv

LEMMA StutterKeepsAdmissions ==
  ASSUME AdmissionInv, UNCHANGED vars PROVE AdmissionInv'
<1>1. UNCHANGED <<clock, activity, dog, res, gone, pass, audit, forced, reviewed>>
      /\ UNCHANGED <<pc, req, mem, wres, wpass, lock>>
  BY DEF vars, committed, handler
<1>2. \A a : SlotHolders(a)' = SlotHolders(a)
  BY <1>1 DEF SlotHolders, HoldsSlot, Exists
<1>3. ASSUME NEW t \in Txs PROVE Careful(t)'
  <2>1. (Registers(t)' <=> Registers(t)) /\ (Moves(t)' <=> Moves(t)) /\ Written(t)' = Written(t)
        /\ Careful(t)
    BY <1>1 DEF Registers, Moves, Written, AdmissionInv
  <2>2. ActiveBooking(req[t].act, req[t].dog)' = ActiveBooking(req[t].act, req[t].dog)
    BY <1>1 DEF ActiveBooking, SlotHolders, HoldsSlot, Exists
  <2> QED
    BY <1>1, <1>2, <2>1, <2>2
    DEF Careful, HoldsItsActivity, FoundRoom, SawAll, OwnerVetted, PaysForItself,
        WroteItsRequest, DecidedInTime, IsFinished, IsInThePast
<1> QED
  BY <1>1, <1>2, <1>3 DEF AdmissionInv, NothingElseMoves, NoOverbooking, OneActiveBooking,
     MeetingsAreVetted, OwnPassPays, AttendanceAfterTheFact, IsFinished, IsInThePast

LEMMA InitialAdmissions == Init => AdmissionInv
<1> SUFFICES ASSUME Init PROVE AdmissionInv
  OBVIOUS
<1>1. \A a : SlotHolders(a) = {}
  BY DEF Init, SlotHolders, HoldsSlot, Exists
<1>2. NoOverbooking
  <2>1. \A a \in Activities : activity[a].cap \in Nat
    BY BookingAssumption DEF Init, ActivityRow
  <2>2. \A a : Cardinality(SlotHolders(a)) = 0
    BY <1>1, FS_EmptySet
  <2> QED
    BY <2>1, <2>2 DEF NoOverbooking
<1>3. \A t \in Txs : Careful(t)
  BY DEF Init, Careful, HoldsItsActivity, FoundRoom, SawAll, OwnerVetted, PaysForItself,
         WroteItsRequest, DecidedInTime, Admitting, Admitted
<1> QED
  BY <1>1, <1>2, <1>3 DEF Init, AdmissionInv, NothingElseMoves, OneActiveBooking,
     MeetingsAreVetted, OwnPassPays, AttendanceAfterTheFact

LEMMA NextKeepsAdmissions ==
  ASSUME BookingInv, AdmissionInv, [Next]_vars PROVE AdmissionInv'
<1>1. ASSUME NEW t \in Txs, Step(t) PROVE AdmissionInv'
  BY <1>1, LockActivityKeepsAdmissions, ListHoldersKeepsAdmissions, ReadDogsKeepsAdmissions,
     LockPassToConsumeKeepsAdmissions, WriteConsumedPassKeepsAdmissions,
     InsertReservationKeepsAdmissions, LockReservationKeepsAdmissions,
     ReadActivityKeepsAdmissions, LockPassToRefundKeepsAdmissions, WritesKeepAdmissions,
     PassEditsKeepAdmissions, CommitKeepsAdmissions
  DEF Step
<1>2. ASSUME NEW t \in Txs, Abort(t) PROVE AdmissionInv'
  BY <1>2, RollbackKeepsAdmissions DEF Abort
<1> QED
  BY <1>1, <1>2, BeginKeepsAdmissions, TickKeepsAdmissions, StutterKeepsAdmissions DEF Next

(* AdmissionInv is invariant: what a registration found out about its      *)
(* activity under the lock stays true until it commits (register.go:157).  *)
THEOREM AdmissionsHold == Spec => []AdmissionInv
<1>1. BookingInv /\ AdmissionInv /\ [Next]_vars => AdmissionInv'
  BY NextKeepsAdmissions
<1> QED
  BY <1>1, InitialAdmissions, InvariantHolds, PTL DEF Spec
-----------------------------------------------------------------------------
(* register.go:157-159, "two concurrent registrations serialize on the     *)
(* capacity check": for any number of them, of places and of dogs, an      *)
(* activity never holds more bookings than its capacity.                   *)
THEOREM CapacityHolds == Spec => []NoOverbooking
<1>1. AdmissionInv => NoOverbooking
  BY DEF AdmissionInv
<1> QED
  BY <1>1, AdmissionsHold, PTL

(* Migration 000014: a dog holds at most one slot of an activity, however  *)
(* often it is cancelled and registered again at the same time.            *)
THEOREM OneBookingPerDog == Spec => []OneActiveBooking
<1>1. AdmissionInv => OneActiveBooking
  BY DEF AdmissionInv
<1> QED
  BY <1>1, AdmissionsHold, PTL

(* register.go:249-316: two dogs that may not meet hold slots of the same  *)
(* activity only by an admin's decision, for every relation of blocks and  *)
(* reviews between the dogs and any number of registrations at once.       *)
THEOREM StrangersAreVetted == Spec => []MeetingsAreVetted
<1>1. AdmissionInv => MeetingsAreVetted
  BY DEF AdmissionInv
<1> QED
  BY <1>1, AdmissionsHold, PTL

(* register.go:343-352: a booking is paid for from a pass of the owner of  *)
(* its dog, also when an admin makes it for somebody else.                 *)
THEOREM OwnersPay == Spec => []OwnPassPays
<1>1. AdmissionInv => OwnPassPays
  BY DEF AdmissionInv
<1> QED
  BY <1>1, AdmissionsHold, PTL

(* complete.go:129-144, activity.go:192-213: nobody has attended, or missed*)
(* an activity that is not over, or has not begun, however long a request  *)
(* waits for its locks after it read the clock.                            *)
THEOREM AttendanceIsPast == Spec => []AttendanceAfterTheFact
<1>1. AdmissionInv => AttendanceAfterTheFact
  BY DEF AdmissionInv
<1> QED
  BY <1>1, AdmissionsHold, PTL
=============================================================================
