--------------------------- MODULE LifecycleProofs ---------------------------
(***************************************************************************)
(* What bookings can rely on while their activity and their dog are        *)
(* closed, edited or deleted next to them, for every number of handlers,   *)
(* activities, dogs, passes and bookings.                                  *)
(***************************************************************************)
EXTENDS LifecycleProperties, BookingProofs, WellFoundedInduction

-----------------------------------------------------------------------------
(* The request a statement of the lifecycle serves.                        *)
LifecycleFits(t) ==
  /\ pc[t] \in {"readActivityToClose", "listToClose", "settle"} =>
       req[t] \in CloseRequests \cup BulkRequests
  /\ pc[t] \in {"readActivityToModify", "writeModified"} => req[t] \in ModifyRequests
  /\ pc[t] \in {"countActive", "deleteActivity", "cascadeActivity"} =>
       req[t] \in DeleteActivityRequests
  /\ pc[t] \in {"deleteDog", "cascadeDog"} => req[t] \in DeleteDogRequests
  /\ pc[t] = "editDog" => req[t] \in EditDogRequests

(* What a statement finds in memory is what an earlier one has put there.  *)
Remembers(t) ==
  /\ pc[t] \in {"writePass", "updatePass"} => mem[t].prow \in PassRow
  /\ pc[t] = "writePass" => mem[t].amount # 0
  /\ pc[t] \in {"listToClose", "settle", "writeModified"} => mem[t].arow \in ActivityRow

(* A write waits for COMMIT: a new booking of a dog that nobody may delete *)
(* meanwhile, or a legal move of a booking that is locked.                 *)
WaitsForCommit(t, r) ==
  LET w == wres[t][r] IN
  IF res[r] = NoRow
    THEN /\ Registers(t) /\ pc[t] = "commit"
         /\ w.act = req[t].act /\ w.status \in SlotStatus
         /\ dog[w.dog] # "deleted" /\ lock[w.dog] = NoTx
    ELSE /\ lock[r] = t
         /\ w.act = res[r].act /\ w.dog = res[r].dog /\ w.pass = res[r].pass
         /\ <<res[r].status, w.status>> \in Transitions

WritesFit(t) ==
  /\ pc[t] \notin {"settle", "commit"} => wres[t] = NoWrites
  /\ \A r \in ResIds : wres[t][r] # NoRow => WaitsForCommit(t, r)
  /\ pc[t] = "commit" /\ Registers(t) =>
       \E r \in ResIds : \A s \in ResIds \ {r} : wres[t][s] = NoRow

(* A DELETE holds the row whose cascade it runs.                           *)
HoldsItsVictim(t) ==
  /\ pc[t] = "cascadeActivity" => lock[req[t].act] = t
  /\ pc[t] = "cascadeDog" => lock[req[t].dog] = t

(* The activity a registration has locked stays open and has room.         *)
StaysBookable(t) ==
  Registers(t) /\ pc[t] \in Admitting =>
    /\ lock[req[t].act] = t
    /\ activity[req[t].act] # NoRow /\ ~activity[req[t].act].closed
    /\ pc[t] # "listHolders" =>
         Cardinality(SlotHolders(req[t].act)) < activity[req[t].act].cap

Fit(t) ==
  /\ RequestFits(t) /\ LifecycleFits(t) /\ Remembers(t) /\ EntersSlot(t)
  /\ HoldsItsBooking(t) /\ WritesFit(t) /\ HoldsItsVictim(t) /\ StaysBookable(t)

(* The inductive invariant. A booking cannot outlive its activity because  *)
(* the activity is locked from before the INSERT to the COMMIT; nor its    *)
(* dog, because the INSERT waits for whoever is deleting the dog and a     *)
(* DELETE waits for whoever has inserted (register.go:157-397).            *)
LifecycleInv ==
  /\ LifecycleTypeOK
  /\ \A t \in Txs : Fit(t)
  /\ \A t \in Txs : \A d \in Dogs : lock[d] = t => pc[t] = "cascadeDog"
  /\ WritesApart
  /\ NoOrphanBookings

-----------------------------------------------------------------------------
(* The kinds of requests.                                                  *)

LEMMA KindsOfRequests ==
  \A q :
    /\ q \in RegisterRequests =>
         /\ q.op = "register" /\ q.act \in Activities /\ q.dog \in Dogs /\ q.pass \in Passes
    /\ q \in ReservationRequests =>
         /\ q.op \in {"cancel", "complete", "noShow", "forgive", "confirm", "reject"}
         /\ q.res \in ResIds
    /\ q \in EditPassRequests =>
         /\ q.op = "editPass" /\ q.pass \in Passes
         /\ q.paid \in BOOLEAN \cup {NoRow} /\ q.expires \in Times \cup {NoRow}
    /\ q \in CloseRequests \cup BulkRequests =>
         q.op \in {"close", "bulk"} /\ q.act \in Activities /\ q.noShows \subseteq ResIds
    /\ q \in ModifyRequests =>
         /\ q.op = "modifyActivity" /\ q.act \in Activities
         /\ q.cap \in Caps \cup {NoRow} /\ q.date \in Dates \cup {NoRow}
    /\ q \in DeleteActivityRequests => q.op = "deleteActivity" /\ q.act \in Activities
    /\ q \in DeleteDogRequests => q.op = "deleteDog" /\ q.dog \in Dogs
    /\ q \in EditDogRequests =>
         /\ q.op = "editDog" /\ q.dog \in Dogs /\ q.to \in {"active", "inactive"}
BY DEF RegisterRequests, ReservationRequests, CancelRequests, AttendanceRequests,
       ReviewRequests, EditPassRequests, CloseRequests, BulkRequests, ModifyRequests,
       DeleteActivityRequests, DeleteDogRequests, EditDogRequests

(* Only a registration registers, only a transition moves.                 *)
LEMMA KindOf ==
  ASSUME NEW t \in Txs, Fit(t)
  PROVE  /\ Registers(t) => /\ ~Moves(t) /\ req[t].op = "register"
                            /\ req[t].act \in Activities /\ req[t].dog \in Dogs
                            /\ req[t].pass \in Passes
         /\ Moves(t) => /\ ~Registers(t) /\ req[t].op # "register" /\ req[t].res \in ResIds
         /\ pc[t] \in {"lockActivity", "listHolders", "readDogs", "insert"} => Registers(t)
         /\ pc[t] \in {"lockReservation", "readActivity", "writeReservation"} => Moves(t)
         /\ pc[t] \in {"lockPass", "writePass", "commit"} => Registers(t) \/ Moves(t)
         /\ pc[t] \in {"readPass", "updatePass", "readActivityToClose", "listToClose",
                       "settle", "readActivityToModify", "writeModified", "countActive",
                       "deleteActivity", "cascadeActivity", "deleteDog", "cascadeDog",
                       "editDog"}
              => ~Registers(t) /\ ~Moves(t)
<1>1. RequestFits(t) /\ LifecycleFits(t)
  BY DEF Fit
<1> QED
  BY <1>1, KindsOfRequests DEF RequestFits, LifecycleFits, Registers, Moves

-----------------------------------------------------------------------------
(* The frame.                                                              *)

(* What u needs of the tables, and of the locks on dogs, to stay as it is. *)
TablesSpare(u) ==
  /\ \A r \in ResIds : lock[r] = u /\ res[r] # NoRow => res'[r] = res[r]
  /\ \A r \in ResIds : wres[u][r] # NoRow => res'[r] = res[r]
  /\ \A a \in Activities :
       lock[a] = u => activity'[a] = activity[a] /\ SlotHolders(a)' \subseteq SlotHolders(a)
  /\ \A d \in Dogs : u \in Inserting(d) /\ dog[d] # "deleted" /\ lock[d] = NoTx =>
                       dog'[d] # "deleted" /\ lock'[d] = NoTx

LEMMA HoldersFinite ==
  \A a : /\ IsFiniteSet(SlotHolders(a)) /\ Cardinality(SlotHolders(a)) \in Nat
         /\ \A S \in SUBSET SlotHolders(a) :
              /\ Cardinality(S) \in Nat /\ Cardinality(S) <= Cardinality(SlotHolders(a))
<1> TAKE a
<1>1. SlotHolders(a) \subseteq ResIds
  BY DEF SlotHolders
<1> QED
  BY <1>1, KeysAssumption, FS_Subset, FS_CardinalityType

LEMMA OthersStayFit ==
  ASSUME NEW t \in Txs, NEW u \in Txs \ {t}, LifecycleTypeOK, Fit(u),
         OthersKeep(t), TablesSpare(u)
  PROVE  Fit(u)'
<1> USE RowsTyped
<1>1. /\ pc'[u] = pc[u] /\ req'[u] = req[u] /\ mem'[u] = mem[u]
      /\ wres'[u] = wres[u] /\ wpass'[u] = wpass[u]
      /\ \A x \in Rows : (lock'[x] = u) <=> (lock[x] = u)
  BY DEF OthersKeep
<1>2. (Registers(u)' <=> Registers(u)) /\ (Moves(u)' <=> Moves(u))
  BY <1>1 DEF Registers, Moves
<1>3. /\ RequestFits(u) /\ LifecycleFits(u) /\ Remembers(u) /\ EntersSlot(u)
      /\ HoldsItsBooking(u) /\ WritesFit(u) /\ HoldsItsVictim(u) /\ StaysBookable(u)
  BY DEF Fit
<1>4. RequestFits(u)' /\ LifecycleFits(u)' /\ Remembers(u)' /\ EntersSlot(u)'
  BY <1>1, <1>2, <1>3 DEF RequestFits, LifecycleFits, Remembers, EntersSlot
<1>5. HoldsItsBooking(u)'
  <2>1. Moves(u) => req[u].res \in ResIds
    BY KindOf
  <2>2. Moves(u) /\ pc[u] \in {"readActivity", "lockPass", "writePass",
                               "writeReservation", "commit"}
          => res'[req[u].res] = res[req[u].res]
    BY <1>3, <2>1, BookingAssumption DEF HoldsItsBooking, TablesSpare
  <2> QED
    BY <1>1, <1>2, <1>3, <2>1, <2>2 DEF HoldsItsBooking
<1>6. WritesFit(u)'
  <2>1. ASSUME NEW r \in ResIds, wres[u][r] # NoRow PROVE WaitsForCommit(u, r)'
    <3>1. WaitsForCommit(u, r) /\ res'[r] = res[r]
      BY <1>3, <2>1 DEF WritesFit, TablesSpare
    <3>2. wres[u][r] \in ResRow /\ wres[u][r].dog \in Dogs
      BY <2>1 DEF LifecycleTypeOK, HandlersTyped, ResRow
    <3>3. CASE res[r] = NoRow
      <4>1. u \in Inserting(wres[u][r].dog)
        BY <2>1, <3>3 DEF Inserting
      <4>2. dog'[wres[u][r].dog] # "deleted" /\ lock'[wres[u][r].dog] = NoTx
        BY <3>1, <3>2, <3>3, <4>1 DEF WaitsForCommit, TablesSpare
      <4> QED
        BY <1>1, <1>2, <3>1, <3>3, <4>2 DEF WaitsForCommit
    <3>4. CASE res[r] # NoRow
      BY <1>1, <1>2, <3>1, <3>4 DEF WaitsForCommit
    <3> QED
      BY <3>3, <3>4
  <2> QED
    BY <1>1, <1>2, <1>3, <2>1 DEF WritesFit
<1>7. HoldsItsVictim(u)'
  <2>1. /\ pc[u] = "cascadeActivity" => req[u].act \in Rows
        /\ pc[u] = "cascadeDog" => req[u].dog \in Rows
    BY <1>3, KindsOfRequests DEF LifecycleFits
  <2> QED
    BY <1>1, <1>3, <2>1 DEF HoldsItsVictim
<1>8. StaysBookable(u)'
  <2> SUFFICES ASSUME Registers(u), pc[u] \in Admitting,
                      NEW a \in Activities, a = req[u].act
               PROVE  /\ lock'[a] = u /\ activity'[a] # NoRow /\ ~activity'[a].closed
                      /\ pc[u] # "listHolders" =>
                           Cardinality(SlotHolders(a)') < activity'[a].cap
    BY <1>1, <1>2, KindOf DEF StaysBookable
  <2>2. /\ lock[a] = u /\ activity[a] # NoRow /\ ~activity[a].closed
        /\ pc[u] # "listHolders" => Cardinality(SlotHolders(a)) < activity[a].cap
    BY <1>3 DEF StaysBookable
  <2>3. activity'[a] = activity[a] /\ SlotHolders(a)' \subseteq SlotHolders(a)
    BY <2>2 DEF TablesSpare
  <2>4. activity[a].cap \in Nat
    BY <2>2 DEF LifecycleTypeOK, TablesTyped, ActivityRow
  <2>5. /\ Cardinality(SlotHolders(a)') \in Nat /\ Cardinality(SlotHolders(a)) \in Nat
        /\ Cardinality(SlotHolders(a)') <= Cardinality(SlotHolders(a))
    BY <2>3, HoldersFinite
  <2> QED
    BY <1>1, <2>2, <2>3, <2>4, <2>5
<1> QED
  BY <1>4, <1>5, <1>6, <1>7, <1>8 DEF Fit

(* A dog that somebody has booked and not committed is not locked, and t   *)
(* locks a dog to delete it only.                                          *)
DogsStayFree(t) ==
  \A d \in Dogs : /\ lock[d] = NoTx /\ Inserting(d) # {} => lock'[d] = NoTx
                  /\ lock'[d] = t => pc'[t] = "cascadeDog"

(* A step of t that publishes nothing.                                     *)
LEMMA LocalKeeps ==
  ASSUME NEW t \in Txs, LifecycleInv, LocalStep(t), DogsStayFree(t),
         HandlersTyped(LifecycleSteps, LifecycleRequests)', Fit(t)',
         WritesApart' \/ wres'[t] \in {wres[t], NoWrites}
  PROVE  LifecycleInv'
<1>1. TablesTyped' /\ NoOrphanBookings'
  BY DEF LifecycleInv, LifecycleTypeOK, LocalStep, committed, TablesTyped,
         NoOrphanBookings, Exists
<1>2. ASSUME NEW u \in Txs \ {t} PROVE Fit(u)'
  <2>1. TablesSpare(u)
    BY DEF LocalStep, committed, TablesSpare, DogsStayFree, SlotHolders, HoldsSlot, Exists
  <2> QED
    BY <2>1, OthersStayFit DEF LifecycleInv, LocalStep
<1>3. WritesApart'
  <2> SUFFICES ASSUME wres'[t] \in {wres[t], NoWrites},
                      NEW u \in Txs, NEW v \in Txs, NEW r \in ResIds,
                      wres'[u][r] # NoRow, wres'[v][r] # NoRow
               PROVE  u = v
    BY DEF WritesApart
  <2>1. \A w \in Txs : wres'[w][r] # NoRow => wres[w][r] # NoRow
    BY DEF LocalStep, OthersKeep, NoWrites
  <2> QED
    BY <2>1 DEF LifecycleInv, WritesApart
<1>4. \A u \in Txs : \A d \in Dogs : lock'[d] = u => pc'[u] = "cascadeDog"
  BY RowsTyped DEF LifecycleInv, LocalStep, OthersKeep, DogsStayFree
<1> QED
  BY <1>1, <1>2, <1>3, <1>4 DEF LifecycleInv, LifecycleTypeOK

LEMMA LifecycleStarts == Init => LifecycleInv
<1> SUFFICES ASSUME Init PROVE LifecycleInv
  OBVIOUS
<1> USE KeysAssumption, BookingAssumption
<1>1. TablesTyped
  BY InitialInvariant DEF BookingInv, TypeOK
<1>2. HandlersTyped(LifecycleSteps, LifecycleRequests)
  <2>1. HandlersTyped(Steps, Requests)
    BY InitialInvariant DEF BookingInv, TypeOK
  <2> QED
    BY <2>1 DEF HandlersTyped, LifecycleSteps, LifecycleRequests
<1>3. ASSUME NEW t \in Txs PROVE Fit(t)
  <2>1. pc[t] = "idle" /\ wres[t] = NoWrites
    BY DEF Init
  <2> QED
    BY <2>1 DEF Fit, RequestFits, LifecycleFits, Remembers, EntersSlot, HoldsItsBooking,
                WritesFit, HoldsItsVictim, StaysBookable, Admitting, NoWrites
<1>4. /\ WritesApart /\ NoOrphanBookings
      /\ \A t \in Txs : \A d \in Dogs : lock[d] # t
  BY RowsTyped DEF Init, WritesApart, NoWrites, NoOrphanBookings, Exists
<1> QED
  BY <1>1, <1>2, <1>3, <1>4 DEF LifecycleInv, LifecycleTypeOK

(* Answering a request frees the locks and the memory of the handler.      *)
LEMMA AnsweredFits ==
  ASSUME NEW t \in Txs, LifecycleTypeOK, Release(t)
  PROVE  /\ HandlersTyped(LifecycleSteps, LifecycleRequests)'
         /\ OthersKeep(t) /\ DogsStayFree(t) /\ Fit(t)'
         /\ wres'[t] = NoWrites /\ \A u \in Txs \ {t} : wres'[u] = wres[u]
<1> USE DEF LifecycleTypeOK, HandlersTyped
<1>1. /\ pc'[t] = "idle" /\ wres'[t] = NoWrites /\ wpass'[t] = NoRow
      /\ \A x \in Rows : lock'[x] # t
  BY KeysAssumption DEF Release, Goto
<1>2. Fit(t)'
  BY <1>1 DEF Fit, RequestFits, LifecycleFits, Remembers, EntersSlot, HoldsItsBooking,
              WritesFit, HoldsItsVictim, StaysBookable, Admitting, NoWrites
<1>3. OthersKeep(t) /\ DogsStayFree(t)
  BY KeysAssumption, RowsTyped DEF Release, Goto, OthersKeep, DogsStayFree
<1>4. HandlersTyped(LifecycleSteps, LifecycleRequests)'
  <2>1. NoMem \in Memory /\ NoWrites \in [ResIds -> ResRow \cup {NoRow}]
    BY DEF NoMem, Memory, NoWrites
  <2>2. lock' \in [Rows -> Txs \cup {NoTx}] /\ pc' \in [Txs -> LifecycleSteps]
    BY DEF Release, Goto, Steps, LifecycleSteps
  <2>3. req' \in [Txs -> LifecycleRequests \cup {NoRow}] /\ mem' \in [Txs -> Memory]
    BY <2>1 DEF Release
  <2>4. /\ wres' \in [Txs -> [ResIds -> ResRow \cup {NoRow}]]
        /\ wpass' \in [Txs -> PassWrite \cup {NoRow}]
    BY <2>1 DEF Release
  <2> QED
    BY <2>2, <2>3, <2>4
<1> QED
  BY <1>1, <1>2, <1>3, <1>4 DEF OthersKeep

(* A rollback, for whatever reason.                                        *)
LEMMA RollbackKeeps ==
  ASSUME NEW t \in Txs, LifecycleInv, Rollback(t)
  PROVE  LifecycleInv'
BY AnsweredFits, LocalKeeps DEF LifecycleInv, Rollback, LocalStep

(* The handler goes on to its next statement, having changed its memory,   *)
(* its writes or the lock of one row that is not a dog.                    *)
LEMMA HandlerGoesOn ==
  ASSUME NEW t \in Txs, LifecycleInv, pc[t] # "cascadeDog",
         NEW step \in LifecycleSteps, Goto(t, step), UNCHANGED req, UNCHANGED committed,
         mem' = mem \/ \E m \in Memory : Remember(t, m),
         wres' = wres \/ \E w \in [ResIds -> ResRow \cup {NoRow}] :
                            wres' = [wres EXCEPT ![t] = w],
         wpass' = wpass \/ \E w \in PassWrite : wpass' = [wpass EXCEPT ![t] = w],
         lock' = lock \/ \E x \in Rows \ Dogs : lock[x] \in {NoTx, t} /\ LockRow(t, x)
  PROVE  /\ HandlersTyped(LifecycleSteps, LifecycleRequests)'
         /\ LocalStep(t) /\ DogsStayFree(t) /\ pc'[t] = step
<1>0. HandlersTyped(LifecycleSteps, LifecycleRequests)
  BY DEF LifecycleInv, LifecycleTypeOK
<1> USE <1>0 DEF HandlersTyped
<1>1. /\ pc' \in [Txs -> LifecycleSteps] /\ pc'[t] = step
      /\ \A u \in Txs \ {t} : pc'[u] = pc[u]
  BY DEF Goto
<1>2. mem' \in [Txs -> Memory] /\ \A u \in Txs \ {t} : mem'[u] = mem[u]
  BY DEF Remember
<1>3. /\ wres' \in [Txs -> [ResIds -> ResRow \cup {NoRow}]]
      /\ \A u \in Txs \ {t} : wres'[u] = wres[u]
  OBVIOUS
<1>4. /\ wpass' \in [Txs -> PassWrite \cup {NoRow}]
      /\ \A u \in Txs \ {t} : wpass'[u] = wpass[u]
  OBVIOUS
<1>5. /\ lock' \in [Rows -> Txs \cup {NoTx}]
      /\ \A u \in Txs \ {t} : \A x \in Rows : (lock'[x] = u) <=> (lock[x] = u)
  BY LockTaken
<1>6. \A d \in Dogs : lock'[d] = lock[d] /\ lock[d] # t
  BY RowsTyped DEF LockRow, LifecycleInv
<1> QED
  BY <1>1, <1>2, <1>3, <1>4, <1>5, <1>6 DEF OthersKeep, LocalStep, DogsStayFree

(* A request is taken up.                                                  *)
LEMMA BeginKeeps ==
  ASSUME NEW t \in Txs, LifecycleInv, Begin(t) \/ BeginLifecycle(t)
  PROVE  LifecycleInv'
<1>1. PICK q \in LifecycleRequests, step \in LifecycleSteps :
        /\ Accept(t, q, step)
        /\ \/ q \in RegisterRequests /\ step = "lockActivity"
           \/ q \in ReservationRequests /\ step = "lockReservation"
           \/ q \in EditPassRequests /\ step = "readPass"
           \/ q \in CloseRequests \cup BulkRequests /\ step = "readActivityToClose"
           \/ q \in ModifyRequests /\ step = "readActivityToModify"
           \/ q \in DeleteActivityRequests /\ step = "countActive"
           \/ q \in DeleteDogRequests /\ step = "deleteDog"
           \/ q \in EditDogRequests /\ step = "editDog"
  <2>1. ASSUME Begin(t)
        PROVE \E q \in LifecycleRequests :
                /\ Accept(t, q, FirstStep(q.op))
                /\ \/ q \in RegisterRequests /\ FirstStep(q.op) = "lockActivity"
                   \/ q \in ReservationRequests /\ FirstStep(q.op) = "lockReservation"
                   \/ q \in EditPassRequests /\ FirstStep(q.op) = "readPass"
    BY <2>1, KindsOfRequests DEF Begin, FirstStep, LifecycleRequests, Requests
  <2>2. ASSUME BeginLifecycle(t)
        PROVE \E q \in LifecycleRequests :
                /\ Accept(t, q, FirstLifecycleStep(q.op))
                /\ \/ /\ q \in CloseRequests \cup BulkRequests
                      /\ FirstLifecycleStep(q.op) = "readActivityToClose"
                   \/ q \in ModifyRequests /\ FirstLifecycleStep(q.op) = "readActivityToModify"
                   \/ q \in DeleteActivityRequests /\ FirstLifecycleStep(q.op) = "countActive"
                   \/ q \in DeleteDogRequests /\ FirstLifecycleStep(q.op) = "deleteDog"
                   \/ q \in EditDogRequests /\ FirstLifecycleStep(q.op) = "editDog"
    BY <2>2, KindsOfRequests DEF BeginLifecycle, FirstLifecycleStep, LifecycleRequests
  <2>3. {"lockActivity", "lockReservation", "readPass", "readActivityToClose",
         "readActivityToModify", "countActive", "deleteDog", "editDog"} \subseteq LifecycleSteps
    BY DEF LifecycleSteps, Steps
  <2> QED
    BY <2>1, <2>2, <2>3
<1>2. /\ pc[t] = "idle" /\ wres[t] = NoWrites
      /\ \A d \in Dogs : lock[d] # t
  BY <1>1 DEF Accept, LifecycleInv, Fit, WritesFit
<1>3. /\ HandlersTyped(LifecycleSteps, LifecycleRequests)' /\ LocalStep(t)
      /\ DogsStayFree(t) /\ pc'[t] = step /\ req'[t] = q /\ wres' = wres
  BY <1>1, <1>2 DEF Accept, Goto, LifecycleInv, LifecycleTypeOK, HandlersTyped, LocalStep,
                    OthersKeep, DogsStayFree
<1>4. Fit(t)'
  <2>1. RequestFits(t)' /\ LifecycleFits(t)'
    BY <1>1, <1>3 DEF RequestFits, LifecycleFits, Registers, Moves
  <2> QED
    BY <1>1, <1>2, <1>3, <2>1
    DEF Fit, Remembers, EntersSlot, HoldsItsBooking, WritesFit, HoldsItsVictim,
        StaysBookable, Admitting, NoWrites
<1> QED
  BY <1>3, <1>4, LocalKeeps

LEMMA TickKeeps == ASSUME LifecycleInv, Tick PROVE LifecycleInv'
<1>1. clock' \in Times
      /\ UNCHANGED <<activity, dog, res, gone, pass, audit, forced, reviewed>>
      /\ UNCHANGED <<pc, req, mem, wres, wpass, lock>>
  BY DEF Tick, handler
<1>2. LifecycleTypeOK' /\ WritesApart' /\ NoOrphanBookings'
  BY <1>1 DEF LifecycleInv, LifecycleTypeOK, TablesTyped, HandlersTyped, WritesApart,
              NoOrphanBookings, Exists
<1>3. ASSUME NEW t \in Txs PROVE Fit(t)'
  <2>1. Fit(t)
    BY DEF LifecycleInv
  <2> QED
    BY <1>1, <2>1
    DEF Fit, RequestFits, LifecycleFits, Remembers, EntersSlot, HoldsItsBooking, WritesFit,
        WaitsForCommit, HoldsItsVictim, StaysBookable, Registers, Moves, SlotHolders,
        HoldsSlot, Exists
<1>4. \A t \in Txs : \A d \in Dogs : lock'[d] = t => pc'[t] = "cascadeDog"
  BY <1>1 DEF LifecycleInv
<1> QED
  BY <1>2, <1>3, <1>4 DEF LifecycleInv

LEMMA StutterKeeps == ASSUME LifecycleInv, UNCHANGED vars PROVE LifecycleInv'
<1>1. UNCHANGED <<clock, activity, dog, res, gone, pass, audit, forced, reviewed>>
      /\ UNCHANGED <<pc, req, mem, wres, wpass, lock>>
  BY DEF vars, committed, handler
<1>2. LifecycleTypeOK' /\ WritesApart' /\ NoOrphanBookings'
  BY <1>1 DEF LifecycleInv, LifecycleTypeOK, TablesTyped, HandlersTyped, WritesApart,
              NoOrphanBookings, Exists
<1>3. ASSUME NEW t \in Txs PROVE Fit(t)'
  <2>1. Fit(t)
    BY DEF LifecycleInv
  <2> QED
    BY <1>1, <2>1
    DEF Fit, RequestFits, LifecycleFits, Remembers, EntersSlot, HoldsItsBooking, WritesFit,
        WaitsForCommit, HoldsItsVictim, StaysBookable, Registers, Moves, SlotHolders,
        HoldsSlot, Exists
<1>4. \A t \in Txs : \A d \in Dogs : lock'[d] = t => pc'[t] = "cascadeDog"
  BY <1>1 DEF LifecycleInv
<1> QED
  BY <1>2, <1>3, <1>4 DEF LifecycleInv

-----------------------------------------------------------------------------
(* The statements of register.                                             *)

(* Until the INSERT a registration has written nothing that others wait    *)
(* for.                                                                    *)
LEMMA RegisterFits ==
  ASSUME NEW t \in Txs, LifecycleInv, Registers(t), req'[t] = req[t], wres'[t] = NoWrites,
         pc'[t] \in {"listHolders", "readDogs", "lockPass", "writePass", "insert"},
         StaysBookable(t)', EntersSlot(t)', Remembers(t)'
  PROVE  Fit(t)'
<1>1. Registers(t)' /\ ~Moves(t)'
  BY KindOf DEF LifecycleInv, Registers, Moves
<1> QED
  BY <1>1
  DEF Fit, RequestFits, LifecycleFits, HoldsItsBooking, WritesFit, HoldsItsVictim, NoWrites

(* The activity it has locked stays as it is while nothing is published.   *)
LEMMA ActivityStaysBookable ==
  ASSUME NEW t \in Txs, LifecycleInv, UNCHANGED committed, req'[t] = req[t],
         pc[t] \in Admitting \ {"listHolders"},
         \A x \in Rows : lock[x] = t => lock'[x] = t
  PROVE  StaysBookable(t)'
<1>1. StaysBookable(t)
  BY DEF LifecycleInv, Fit
<1>2. Registers(t) => req[t].act \in Rows
  BY KindOf, RowsTyped DEF LifecycleInv
<1> QED
  BY <1>1, <1>2
  DEF StaysBookable, Registers, committed, SlotHolders, HoldsSlot, Exists

LEMMA LockActivityKeeps ==
  ASSUME NEW t \in Txs, LifecycleInv, LockActivity(t)
  PROVE  LifecycleInv'
<1>1. CASE Rollback(t)
  BY <1>1, RollbackKeeps
<1>2. ASSUME Bookable(req[t].act, req[t].now), Free(req[t].act), pc[t] = "lockActivity",
             LockRow(t, req[t].act), Goto(t, "listHolders"),
             UNCHANGED <<committed, req, mem, wres, wpass>>
      PROVE  LifecycleInv'
  <2>1. Registers(t) /\ req[t].act \in Rows \ Dogs /\ lock[req[t].act] \in {NoTx, t}
    BY <1>2, RowsTyped, KeysAssumption, KindOf DEF LifecycleInv, Free
  <2>2. /\ HandlersTyped(LifecycleSteps, LifecycleRequests)'
        /\ LocalStep(t) /\ DogsStayFree(t) /\ pc'[t] = "listHolders"
    BY <1>2, <2>1, HandlerGoesOn DEF Steps, LifecycleSteps
  <2>3. lock'[req[t].act] = t
    BY <1>2, <2>1, LockTaken DEF LifecycleInv, LifecycleTypeOK, HandlersTyped
  <2>4. StaysBookable(t)' /\ EntersSlot(t)' /\ Remembers(t)'
    BY <1>2, <2>1, <2>2, <2>3
    DEF StaysBookable, EntersSlot, Remembers, Bookable, committed
  <2>5. wres[t] = NoWrites
    BY <1>2 DEF LifecycleInv, Fit, WritesFit
  <2> QED
    BY <1>2, <2>1, <2>2, <2>4, <2>5, RegisterFits, LocalKeeps
<1> QED
  BY <1>1, <1>2 DEF LockActivity

LEMMA ListHoldersKeeps ==
  ASSUME NEW t \in Txs, LifecycleInv, ListHolders(t)
  PROVE  LifecycleInv'
<1> DEFINE a == req[t].act
           m == [mem[t] EXCEPT !.holders = {res[r].dog : r \in SlotHolders(a)}]
<1>1. CASE Rollback(t)
  BY <1>1, RollbackKeeps
<1>2. ASSUME ~IsFull(activity[a], Cardinality(SlotHolders(a))), pc[t] = "listHolders",
             Remember(t, m), Goto(t, "readDogs"),
             UNCHANGED <<committed, req, wres, wpass, lock>>
      PROVE  LifecycleInv'
  <2>1. Registers(t) /\ a \in Activities
    BY <1>2, KindOf DEF LifecycleInv
  <2>2. m \in Memory
    <3>1. {res[r].dog : r \in SlotHolders(a)} \subseteq Dogs
      BY DEF SlotHolders, HoldsSlot, Exists, LifecycleInv, LifecycleTypeOK, TablesTyped, ResRow
    <3>2. mem[t] \in Memory
      BY DEF LifecycleInv, LifecycleTypeOK, HandlersTyped
    <3>3. ASSUME NEW hs \in SUBSET Dogs PROVE [mem[t] EXCEPT !.holders = hs] \in Memory
      BY <3>2 DEF Memory
    <3> QED
      BY <3>1, <3>3
  <2>3. /\ HandlersTyped(LifecycleSteps, LifecycleRequests)'
        /\ LocalStep(t) /\ DogsStayFree(t) /\ pc'[t] = "readDogs"
    BY <1>2, <2>2, HandlerGoesOn DEF Steps, LifecycleSteps
  <2>4. StaysBookable(t)
    BY DEF LifecycleInv, Fit
  <2>5. Cardinality(SlotHolders(a)) < activity[a].cap
    <3>1. activity[a] \in ActivityRow
      BY <1>2, <2>1, <2>4
      DEF StaysBookable, Admitting, LifecycleInv, LifecycleTypeOK, TablesTyped
    <3> QED
      BY <1>2, <3>1, HoldersFinite DEF IsFull, ActivityRow
  <2>6. StaysBookable(t)' /\ EntersSlot(t)' /\ Remembers(t)'
    BY <1>2, <2>1, <2>3, <2>4, <2>5
    DEF StaysBookable, Admitting, EntersSlot, Remembers, Registers, committed,
        SlotHolders, HoldsSlot, Exists
  <2>7. wres[t] = NoWrites
    BY <1>2 DEF LifecycleInv, Fit, WritesFit
  <2> QED
    BY <1>2, <2>1, <2>3, <2>6, <2>7, RegisterFits, LocalKeeps
<1> QED
  BY <1>1, <1>2 DEF ListHolders

LEMMA ReadDogsKeeps ==
  ASSUME NEW t \in Txs, LifecycleInv, ReadDogs(t)
  PROVE  LifecycleInv'
<1> DEFINE m == [mem[t] EXCEPT !.next = AdmittedAs(t)]
<1>1. CASE Rollback(t)
  BY <1>1, RollbackKeeps
<1>2. ASSUME pc[t] = "readDogs", Remember(t, m), Goto(t, "lockPass"),
             UNCHANGED <<committed, req, wres, wpass, lock>>
      PROVE  LifecycleInv'
  <2>1. Registers(t)
    BY <1>2, KindOf DEF LifecycleInv
  <2>2. AdmittedAs(t) \in SlotStatus /\ AdmittedAs(t) \in Status
    BY DEF AdmittedAs, SlotStatus, Status
  <2>3. m \in Memory /\ mem'[t].next \in SlotStatus
    <3>1. mem[t] \in Memory /\ mem'[t] = m
      BY <1>2 DEF LifecycleInv, LifecycleTypeOK, HandlersTyped, Remember
    <3> QED
      BY <2>2, <3>1 DEF Memory
  <2>4. /\ HandlersTyped(LifecycleSteps, LifecycleRequests)'
        /\ LocalStep(t) /\ DogsStayFree(t) /\ pc'[t] = "lockPass"
    BY <1>2, <2>3, HandlerGoesOn DEF Steps, LifecycleSteps
  <2>5. StaysBookable(t)' /\ EntersSlot(t)' /\ Remembers(t)'
    BY <1>2, <2>3, <2>4, ActivityStaysBookable DEF Admitting, EntersSlot, Remembers
  <2>6. wres[t] = NoWrites
    BY <1>2 DEF LifecycleInv, Fit, WritesFit
  <2> QED
    BY <1>2, <2>1, <2>4, <2>5, <2>6, RegisterFits, LocalKeeps
<1> QED
  BY <1>1, <1>2 DEF ReadDogs

LEMMA LockPassToConsumeKeeps ==
  ASSUME NEW t \in Txs, LifecycleInv, LockPassToConsume(t)
  PROVE  LifecycleInv'
<1> DEFINE p == req[t].pass
           m == [mem[t] EXCEPT !.prow = [pass[p] EXCEPT !.remaining = pass[p].remaining - 1],
                               !.amount = -1]
<1>1. CASE Rollback(t)
  BY <1>1, RollbackKeeps
<1>2. ASSUME pc[t] = "lockPass", req[t].op = "register", Free(p),
             Payable(t, p), LockRow(t, p), Remember(t, m), Goto(t, "writePass"),
             UNCHANGED <<committed, req, wres, wpass>>
      PROVE  LifecycleInv'
  <2>1. Registers(t) /\ p \in Passes /\ p \in Rows \ Dogs /\ lock[p] \in {NoTx, t}
    BY <1>2, RowsTyped, KeysAssumption, KindOf DEF LifecycleInv, Free
  <2>2. pass[p] \in PassRow /\ pass[p].remaining > 0
    <3>1. pass[p] \in PassRow
      BY <2>1 DEF LifecycleInv, LifecycleTypeOK, TablesTyped
    <3> QED
      BY <1>2, <3>1 DEF Payable, IsExhausted, PassRow
  <2>3. [pass[p] EXCEPT !.remaining = pass[p].remaining - 1] \in PassRow
    BY <2>2 DEF PassRow
  <2>4. m \in Memory /\ mem'[t] = m /\ m.prow \in PassRow /\ m.amount = -1 /\ m.next = mem[t].next
    <3>1. mem[t] \in Memory
      BY DEF LifecycleInv, LifecycleTypeOK, HandlersTyped
    <3>2. mem'[t] = m
      BY <1>2 DEF LifecycleInv, LifecycleTypeOK, HandlersTyped, Remember
    <3> QED
      BY <2>3, <3>1, <3>2 DEF Memory
  <2> HIDE DEF m
  <2>5. /\ HandlersTyped(LifecycleSteps, LifecycleRequests)'
        /\ LocalStep(t) /\ DogsStayFree(t) /\ pc'[t] = "writePass"
    BY <1>2, <2>1, <2>4, HandlerGoesOn DEF Steps, LifecycleSteps
  <2>6. \A x \in Rows : lock[x] = t => lock'[x] = t
    BY <1>2, <2>1, LockTaken DEF LifecycleInv, LifecycleTypeOK, HandlersTyped
  <2>7. EntersSlot(t) /\ wres[t] = NoWrites
    BY <1>2 DEF LifecycleInv, Fit, WritesFit
  <2>8. StaysBookable(t)'
    BY <1>2, <2>6, ActivityStaysBookable DEF Admitting
  <2>9. EntersSlot(t)' /\ Remembers(t)'
    BY <1>2, <2>1, <2>4, <2>5, <2>7 DEF EntersSlot, Remembers
  <2> QED
    BY <1>2, <2>1, <2>5, <2>7, <2>8, <2>9, RegisterFits, LocalKeeps
<1> QED
  BY <1>1, <1>2 DEF LockPassToConsume

(* A pass UPDATE: what both of its callers rely on.                        *)
LEMMA PassIsWritten ==
  ASSUME NEW t \in Txs, LifecycleInv, pc[t] = "writePass", NEW p \in Passes,
         NEW then \in LifecycleSteps, WritePass(t, p, then), ~Rollback(t)
  PROVE  /\ HandlersTyped(LifecycleSteps, LifecycleRequests)'
         /\ LocalStep(t) /\ DogsStayFree(t) /\ pc'[t] = then
         /\ UNCHANGED <<req, mem, wres, committed>>
         /\ \A x \in Rows : lock[x] = t => lock'[x] = t
<1> DEFINE w == [pass |-> p, amount |-> mem[t].amount,
                 row |-> [mem[t].prow EXCEPT !.ver = mem[t].prow.ver + 1]]
<1>1. /\ wpass' = [wpass EXCEPT ![t] = w]
      /\ LockRow(t, p) /\ lock[p] \in {NoTx, t} /\ Goto(t, then)
      /\ UNCHANGED <<committed, req, mem, wres>>
  BY DEF WritePass
<1>2. p \in Rows \ Dogs
  BY RowsTyped, KeysAssumption
<1>3. w \in PassWrite
  <2>1. mem[t].prow \in PassRow /\ mem[t].amount \in {-1, 1}
    BY DEF LifecycleInv, LifecycleTypeOK, HandlersTyped, Memory, Fit, Remembers
  <2>2. [mem[t].prow EXCEPT !.ver = mem[t].prow.ver + 1] \in PassRow
    BY <2>1 DEF PassRow
  <2> QED
    BY <2>1, <2>2 DEF PassWrite
<1>4. /\ HandlersTyped(LifecycleSteps, LifecycleRequests)'
      /\ LocalStep(t) /\ DogsStayFree(t) /\ pc'[t] = then
  <2> HIDE DEF w
  <2> QED
    BY <1>1, <1>2, <1>3, HandlerGoesOn
<1>5. \A x \in Rows : lock[x] = t => lock'[x] = t
  BY <1>1, <1>2, LockTaken DEF LifecycleInv, LifecycleTypeOK, HandlersTyped
<1> QED
  BY <1>1, <1>4, <1>5

LEMMA WriteConsumedPassKeeps ==
  ASSUME NEW t \in Txs, LifecycleInv, WriteConsumedPass(t)
  PROVE  LifecycleInv'
<1>1. CASE Rollback(t)
  BY <1>1, RollbackKeeps
<1>2. ASSUME ~Rollback(t) PROVE LifecycleInv'
  <2>1. Registers(t) /\ pc[t] = "writePass" /\ req[t].pass \in Passes
    BY KindOf DEF LifecycleInv, WriteConsumedPass
  <2>2. /\ HandlersTyped(LifecycleSteps, LifecycleRequests)'
        /\ LocalStep(t) /\ DogsStayFree(t) /\ pc'[t] = "insert"
        /\ UNCHANGED <<req, mem, wres, committed>>
        /\ \A x \in Rows : lock[x] = t => lock'[x] = t
    BY <1>2, <2>1, PassIsWritten DEF WriteConsumedPass, LifecycleSteps, Steps
  <2>3. EntersSlot(t) /\ wres[t] = NoWrites
    BY <2>1 DEF LifecycleInv, Fit, WritesFit
  <2>4. StaysBookable(t)'
    BY <2>1, <2>2, ActivityStaysBookable DEF Admitting
  <2>5. EntersSlot(t)' /\ Remembers(t)'
    BY <2>1, <2>2, <2>3 DEF EntersSlot, Remembers
  <2> QED
    BY <2>1, <2>2, <2>3, <2>4, <2>5, RegisterFits, LocalKeeps
<1> QED
  BY <1>1, <1>2

LEMMA InsertReservationKeeps ==
  ASSUME NEW t \in Txs, LifecycleInv, InsertReservation(t)
  PROVE  LifecycleInv'
<1>1. CASE Rollback(t)
  BY <1>1, RollbackKeeps
<1>2. ASSUME ~Rollback(t) PROVE LifecycleInv'
  <2> DEFINE q == req[t]
             row == [act |-> q.act, dog |-> q.dog, pass |-> q.pass, status |-> mem[t].next]
  <2>1. PICK r \in ResIds :
          /\ NextId(r) /\ wres' = [wres EXCEPT ![t][r] = row]
          /\ Goto(t, "commit") /\ UNCHANGED <<committed, req, mem, wpass, lock>>
          /\ dog[q.dog] # "deleted"
    BY <1>2 DEF InsertReservation
  <2>2. /\ Registers(t) /\ ~Moves(t) /\ pc[t] = "insert" /\ wres[t] = NoWrites
        /\ q.act \in Activities /\ q.dog \in Dogs /\ q.pass \in Passes
        /\ mem[t].next \in SlotStatus
    BY KindOf DEF LifecycleInv, Fit, WritesFit, EntersSlot, InsertReservation
  <2>3. row \in ResRow /\ row # NoRow
    <3>1. row \in ResRow
      BY <2>2 DEF ResRow, SlotStatus, Status
    <3> QED
      BY <3>1, BookingAssumption
  <2>4. /\ wres' = [wres EXCEPT ![t] = [wres[t] EXCEPT ![r] = row]]
        /\ [wres[t] EXCEPT ![r] = row] \in [ResIds -> ResRow \cup {NoRow}]
    BY <2>1, <2>3 DEF LifecycleInv, LifecycleTypeOK, HandlersTyped
  <2>5. /\ wres'[t][r] = row
        /\ \A s \in ResIds \ {r} : wres'[t][s] = NoRow
    BY <2>2, <2>4 DEF LifecycleInv, LifecycleTypeOK, HandlersTyped, NoWrites
  <2>6. /\ HandlersTyped(LifecycleSteps, LifecycleRequests)'
        /\ LocalStep(t) /\ DogsStayFree(t) /\ pc'[t] = "commit"
    <3>1. "commit" \in LifecycleSteps
      BY DEF LifecycleSteps, Steps
    <3> QED
      BY <2>1, <2>2, <2>4, <3>1, HandlerGoesOn
  <2>7. res[r] = NoRow /\ \A u \in Txs : wres[u][r] = NoRow
    BY <2>1 DEF NextId, Unused
  <2>8. lock[q.dog] = NoTx
    <3>1. \A u \in Txs \ {t} : lock[q.dog] # u
      BY DEF InsertReservation, InsertWaits
    <3>2. lock[q.dog] # t /\ lock[q.dog] \in Txs \cup {NoTx}
      BY <2>2, RowsTyped DEF LifecycleInv, LifecycleTypeOK, HandlersTyped
    <3> QED
      BY <3>1, <3>2
  <2>9. Registers(t)' /\ ~Moves(t)'
    BY <2>1, <2>2 DEF Registers, Moves
  <2>10. WaitsForCommit(t, r)'
    BY <2>1, <2>2, <2>5, <2>6, <2>7, <2>8, <2>9 DEF WaitsForCommit, committed
  <2>11. WritesFit(t)'
    BY <2>5, <2>6, <2>10 DEF WritesFit
  <2>12. StaysBookable(t)'
    BY <2>1, <2>2, ActivityStaysBookable DEF Admitting
  <2>13. Fit(t)'
    BY <2>6, <2>9, <2>11, <2>12
    DEF Fit, RequestFits, LifecycleFits, Remembers, EntersSlot, HoldsItsBooking, HoldsItsVictim
  <2>14. WritesApart'
    <3> SUFFICES ASSUME NEW u \in Txs, NEW v \in Txs, NEW s \in ResIds,
                        wres'[u][s] # NoRow, wres'[v][s] # NoRow
                 PROVE  u = v
      BY DEF WritesApart
    <3>1. \A w \in Txs \ {t} : wres'[w][s] = wres[w][s]
      BY <2>4 DEF LifecycleInv, LifecycleTypeOK, HandlersTyped
    <3> QED
      BY <2>5, <2>7, <3>1 DEF LifecycleInv, WritesApart
  <2> QED
    BY <2>6, <2>13, <2>14, LocalKeeps
<1> QED
  BY <1>1, <1>2

-----------------------------------------------------------------------------
(* The statements of cancel, forgive, reject, confirm, complete and noShow.*)

LEMMA MoverFits ==
  ASSUME NEW t \in Txs, LifecycleInv, Moves(t), req'[t] = req[t], wres'[t] = NoWrites,
         pc'[t] \in {"readActivity", "lockPass", "writePass", "writeReservation"},
         HoldsItsBooking(t)', Remembers(t)'
  PROVE  Fit(t)'
<1>1. Moves(t)' /\ ~Registers(t)'
  BY KindOf DEF LifecycleInv, Registers, Moves
<1> QED
  BY <1>1
  DEF Fit, RequestFits, LifecycleFits, EntersSlot, WritesFit, HoldsItsVictim, StaysBookable,
      NoWrites

(* What a handler knows of the booking it moves.                           *)
LEMMA MoverFacts ==
  ASSUME NEW t \in Txs, LifecycleInv, Moves(t),
         pc[t] \in {"readActivity", "lockPass", "writePass", "writeReservation"}
  PROVE  /\ ~Registers(t) /\ req[t].res \in ResIds /\ req[t].res \in Rows \ Dogs
         /\ wres[t] = NoWrites /\ lock[req[t].res] = t
         /\ mem[t].row \in ResRow /\ res[req[t].res] = mem[t].row
         /\ mem[t].row.pass \in Passes /\ mem[t].row.pass \in Rows \ Dogs
         /\ pc[t] = "readActivity" => /\ req[t].op \in {"cancel", "complete", "noShow"}
                                      /\ MayStart(req[t].op, mem[t].row.status)
         /\ pc[t] \in {"lockPass", "writePass", "writeReservation"} =>
              <<mem[t].row.status, mem[t].next>> \in Transitions
<1>1. Fit(t)
  BY DEF LifecycleInv
<1>2. ~Registers(t) /\ req[t].res \in ResIds
  BY <1>1, KindOf
<1>3. /\ lock[req[t].res] = t /\ mem[t].row \in ResRow /\ res[req[t].res] = mem[t].row
      /\ wres[t] = NoWrites
  BY <1>1 DEF Fit, HoldsItsBooking, WritesFit
<1>4. mem[t].row.pass \in Passes
  BY <1>3 DEF ResRow
<1>5. /\ pc[t] = "readActivity" => /\ req[t].op \in {"cancel", "complete", "noShow"}
                                   /\ MayStart(req[t].op, mem[t].row.status)
      /\ pc[t] \in {"lockPass", "writePass", "writeReservation"} =>
           <<mem[t].row.status, mem[t].next>> \in Transitions
  BY <1>1 DEF Fit, HoldsItsBooking
<1> QED
  BY <1>2, <1>3, <1>4, <1>5, RowsTyped, KeysAssumption

LEMMA LockReservationKeeps ==
  ASSUME NEW t \in Txs, LifecycleInv, LockReservation(t)
  PROVE  LifecycleInv'
<1> DEFINE r == req[t].res
           op == req[t].op
           m == [mem[t] EXCEPT !.row = res[r], !.next = Decided(op)]
<1>1. CASE Rollback(t)
  BY <1>1, RollbackKeeps
<1>2. ASSUME Exists(r), MayStart(op, res[r].status), LockRow(t, r), Free(r),
             Remember(t, m), Goto(t, AfterLock(op)), pc[t] = "lockReservation",
             UNCHANGED <<committed, req, wres, wpass>>
      PROVE  LifecycleInv'
  <2>1. /\ Moves(t) /\ r \in ResIds /\ r \in Rows \ Dogs /\ lock[r] \in {NoTx, t}
        /\ op \in {"cancel", "complete", "noShow", "forgive", "confirm", "reject"}
    BY <1>2, RowsTyped, KeysAssumption, KindOf, KindsOfRequests DEF LifecycleInv, Free, Moves
  <2>2. res[r] \in ResRow
    BY <1>2, <2>1 DEF Exists, LifecycleInv, LifecycleTypeOK, TablesTyped
  <2>3. AfterLock(op) \in {"readActivity", "lockPass", "writeReservation"}
    BY DEF AfterLock
  <2>4. m \in Memory /\ mem'[t].row = res[r] /\ mem'[t].next = Decided(op)
    <3>1. Decided(op) \in Status \cup {NoRow}
      BY DEF Decided, Status
    <3>2. mem[t] \in Memory /\ mem'[t] = m
      BY <1>2 DEF LifecycleInv, LifecycleTypeOK, HandlersTyped, Remember
    <3> QED
      BY <2>2, <3>1, <3>2 DEF Memory
  <2> HIDE DEF m
  <2>5. /\ HandlersTyped(LifecycleSteps, LifecycleRequests)'
        /\ LocalStep(t) /\ DogsStayFree(t) /\ pc'[t] = AfterLock(op)
    <3>1. AfterLock(op) \in LifecycleSteps
      BY <2>3 DEF LifecycleSteps, Steps
    <3> QED
      BY <1>2, <2>1, <2>4, <3>1, HandlerGoesOn
  <2>6. /\ req'[t] = req[t] /\ res' = res /\ wres'[t] = NoWrites /\ lock'[r] = t
        /\ Moves(t)'
    BY <1>2, <2>1, LockTaken
    DEF LifecycleInv, LifecycleTypeOK, HandlersTyped, Fit, WritesFit, committed, Moves
  <2>7. AfterLock(op) \in {"lockPass", "writeReservation"}
          => <<res[r].status, Decided(op)>> \in Transitions
    BY <1>2, <2>1, <2>2 DEF AfterLock, MayStart, Decided, Transitions
  <2>8. AfterLock(op) = "readActivity" => op \in {"cancel", "complete", "noShow"}
    BY <2>1 DEF AfterLock
  <2>9. HoldsItsBooking(t)'
    BY <1>2, <2>2, <2>3, <2>4, <2>5, <2>6, <2>7, <2>8 DEF HoldsItsBooking
  <2>10. Remembers(t)'
    BY <2>3, <2>5 DEF Remembers
  <2>11. Fit(t)'
    BY <2>1, <2>3, <2>5, <2>6, <2>9, <2>10, MoverFits
  <2> QED
    BY <1>2, <2>5, <2>11, LocalKeeps
<1> QED
  BY <1>1, <1>2 DEF LockReservation

LEMMA ReadActivityKeeps ==
  ASSUME NEW t \in Txs, LifecycleInv, ReadActivity(t)
  PROVE  LifecycleInv'
<1> DEFINE arow == activity[mem[t].row.act]
           op == req[t].op
           next == Outcome(op, arow, req[t].now)
           m == [mem[t] EXCEPT !.next = next]
           then == IF op = "cancel" THEN "lockPass" ELSE "writeReservation"
<1>1. CASE Rollback(t)
  BY <1>1, RollbackKeeps
<1>2. ASSUME InTimeForIt(op, mem[t].row, arow, req[t].now), pc[t] = "readActivity",
             Remember(t, m), Goto(t, then), UNCHANGED <<committed, req, wres, wpass, lock>>
      PROVE  LifecycleInv'
  <2>1. Moves(t)
    BY <1>2, KindOf DEF LifecycleInv
  <2>2. /\ wres[t] = NoWrites /\ lock[req[t].res] = t
        /\ mem[t].row \in ResRow /\ res[req[t].res] = mem[t].row
        /\ op \in {"cancel", "complete", "noShow"} /\ MayStart(op, mem[t].row.status)
    BY <1>2, <2>1, MoverFacts
  <2>3. <<mem[t].row.status, next>> \in Transitions
    BY <1>2, <2>2 DEF InTimeForIt, MayStart, Outcome, Transitions
  <2>4. m \in Memory /\ mem'[t].row = mem[t].row /\ mem'[t].next = next
    <3>1. next \in Status
      BY DEF Outcome, Status
    <3>2. mem[t] \in Memory /\ mem'[t] = m
      BY <1>2 DEF LifecycleInv, LifecycleTypeOK, HandlersTyped, Remember
    <3> HIDE DEF next
    <3> QED
      BY <3>1, <3>2 DEF Memory
  <2>5. then \in {"lockPass", "writeReservation"} /\ then \in LifecycleSteps
    BY DEF LifecycleSteps, Steps
  <2> HIDE DEF m, next, then
  <2>6. /\ HandlersTyped(LifecycleSteps, LifecycleRequests)'
        /\ LocalStep(t) /\ DogsStayFree(t) /\ pc'[t] = then
    BY <1>2, <2>4, <2>5, HandlerGoesOn
  <2>7. req'[t] = req[t] /\ res' = res /\ wres'[t] = NoWrites /\ lock' = lock
    BY <1>2, <2>2 DEF committed
  <2>8. HoldsItsBooking(t)'
    BY <2>2, <2>3, <2>4, <2>5, <2>6, <2>7 DEF HoldsItsBooking
  <2>9. Remembers(t)'
    BY <2>5, <2>6 DEF Remembers
  <2>10. Fit(t)'
    BY <2>1, <2>5, <2>6, <2>7, <2>8, <2>9, MoverFits
  <2> QED
    BY <1>2, <2>6, <2>10, LocalKeeps
<1> QED
  BY <1>1, <1>2 DEF ReadActivity

LEMMA LockPassToRefundKeeps ==
  ASSUME NEW t \in Txs, LifecycleInv, LockPassToRefund(t)
  PROVE  LifecycleInv'
<1> DEFINE p == mem[t].row.pass
           m == [mem[t] EXCEPT !.prow = [pass[p] EXCEPT !.remaining = pass[p].remaining + 1],
                               !.amount = 1]
<1>1. Moves(t) /\ pc[t] = "lockPass" /\ Free(p)
  <2>1. pc[t] = "lockPass" /\ req[t].op # "register" /\ Free(p)
    BY DEF LockPassToRefund
  <2> QED
    BY <2>1, KindOf DEF LifecycleInv
<1>2. /\ req[t].res \in ResIds /\ req[t].res \in Rows \ Dogs
      /\ wres[t] = NoWrites /\ lock[req[t].res] = t
      /\ mem[t].row \in ResRow /\ res[req[t].res] = mem[t].row
      /\ p \in Passes /\ p \in Rows \ Dogs /\ lock[p] \in {NoTx, t}
      /\ <<mem[t].row.status, mem[t].next>> \in Transitions
  BY <1>1, MoverFacts DEF Free
<1>3. CASE Rollback(t)
  BY <1>3, RollbackKeeps
<1>4. ASSUME LockRow(t, p), Remember(t, m), Goto(t, "writePass"),
             UNCHANGED <<committed, req, wres, wpass>>
      PROVE  LifecycleInv'
  <2>1. [pass[p] EXCEPT !.remaining = pass[p].remaining + 1] \in PassRow
    <3>1. pass[p] \in PassRow
      BY <1>2 DEF LifecycleInv, LifecycleTypeOK, TablesTyped
    <3> QED
      BY <3>1 DEF PassRow
  <2>2. /\ m \in Memory /\ mem'[t].row = mem[t].row /\ mem'[t].next = mem[t].next
        /\ mem'[t].amount = 1 /\ mem'[t].prow \in PassRow
    <3>1. mem'[t] = m /\ mem[t] \in Memory
      BY <1>4 DEF LifecycleInv, LifecycleTypeOK, HandlersTyped, Remember
    <3> QED
      BY <2>1, <3>1 DEF Memory
  <2> HIDE DEF m
  <2>3. /\ HandlersTyped(LifecycleSteps, LifecycleRequests)'
        /\ LocalStep(t) /\ DogsStayFree(t) /\ pc'[t] = "writePass"
    BY <1>1, <1>2, <1>4, <2>2, HandlerGoesOn DEF LifecycleSteps, Steps
  <2>4. /\ req'[t] = req[t] /\ res' = res /\ wres'[t] = NoWrites
        /\ lock'[req[t].res] = t
    BY <1>2, <1>4, LockTaken
    DEF committed, LifecycleInv, LifecycleTypeOK, HandlersTyped
  <2>5. HoldsItsBooking(t)' /\ Remembers(t)'
    BY <1>2, <2>2, <2>3, <2>4 DEF HoldsItsBooking, Remembers
  <2>6. Fit(t)'
    BY <1>1, <2>3, <2>4, <2>5, MoverFits
  <2> QED
    BY <1>4, <2>3, <2>6, LocalKeeps
<1>5. ASSUME LockRow(t, p), Goto(t, "writeReservation"),
             UNCHANGED <<committed, req, mem, wres, wpass>>
      PROVE  LifecycleInv'
  <2>1. /\ HandlersTyped(LifecycleSteps, LifecycleRequests)'
        /\ LocalStep(t) /\ DogsStayFree(t) /\ pc'[t] = "writeReservation"
    BY <1>1, <1>2, <1>5, HandlerGoesOn DEF LifecycleSteps, Steps
  <2>2. /\ req'[t] = req[t] /\ mem' = mem /\ res' = res /\ wres'[t] = NoWrites
        /\ lock'[req[t].res] = t
    BY <1>2, <1>5, LockTaken
    DEF committed, LifecycleInv, LifecycleTypeOK, HandlersTyped
  <2>3. HoldsItsBooking(t)' /\ Remembers(t)'
    BY <1>2, <2>1, <2>2 DEF HoldsItsBooking, Remembers
  <2>4. Fit(t)'
    BY <1>1, <2>1, <2>2, <2>3, MoverFits
  <2> QED
    BY <1>5, <2>1, <2>4, LocalKeeps
<1> QED
  BY <1>3, <1>4, <1>5 DEF LockPassToRefund

LEMMA WriteRefundedPassKeeps ==
  ASSUME NEW t \in Txs, LifecycleInv, WriteRefundedPass(t)
  PROVE  LifecycleInv'
<1>1. CASE Rollback(t)
  BY <1>1, RollbackKeeps
<1>2. ASSUME ~Rollback(t) PROVE LifecycleInv'
  <2>1. Moves(t) /\ pc[t] = "writePass"
    <3>1. pc[t] = "writePass" /\ req[t].op # "register"
      BY DEF WriteRefundedPass
    <3> QED
      BY <3>1, KindOf DEF LifecycleInv
  <2>2. /\ req[t].res \in Rows /\ wres[t] = NoWrites /\ lock[req[t].res] = t
        /\ mem[t].row \in ResRow /\ res[req[t].res] = mem[t].row
        /\ mem[t].row.pass \in Passes
        /\ <<mem[t].row.status, mem[t].next>> \in Transitions
    BY <2>1, MoverFacts
  <2>3. /\ HandlersTyped(LifecycleSteps, LifecycleRequests)'
        /\ LocalStep(t) /\ DogsStayFree(t) /\ pc'[t] = "writeReservation"
        /\ UNCHANGED <<req, mem, wres, committed>>
        /\ \A x \in Rows : lock[x] = t => lock'[x] = t
    BY <1>2, <2>1, <2>2, PassIsWritten DEF WriteRefundedPass, LifecycleSteps, Steps
  <2>4. HoldsItsBooking(t)' /\ Remembers(t)'
    BY <2>2, <2>3 DEF HoldsItsBooking, Remembers, committed
  <2>5. Fit(t)'
    BY <2>1, <2>2, <2>3, <2>4, MoverFits
  <2> QED
    BY <2>3, <2>5, LocalKeeps
<1> QED
  BY <1>1, <1>2

(* Whoever has written a booking that is in the table has it locked.       *)
LEMMA LockedWritesApart ==
  ASSUME NEW t \in Txs, LifecycleInv, NEW r \in ResIds, res[r] # NoRow, lock[r] \in {NoTx, t},
         NEW row, wres' = [wres EXCEPT ![t] = [wres[t] EXCEPT ![r] = row]]
  PROVE  WritesApart'
<1> SUFFICES ASSUME NEW u \in Txs, NEW v \in Txs, NEW s \in ResIds,
                    wres'[u][s] # NoRow, wres'[v][s] # NoRow
             PROVE  u = v
  BY DEF WritesApart
<1>1. \A w \in Txs \ {t} : wres'[w] = wres[w]
  BY DEF LifecycleInv, LifecycleTypeOK, HandlersTyped
<1>2. s # r => wres'[t][s] = wres[t][s]
  BY DEF LifecycleInv, LifecycleTypeOK, HandlersTyped
<1>3. ASSUME NEW w \in Txs \ {t} PROVE wres[w][r] = NoRow
  <2>1. wres[w][r] # NoRow => WaitsForCommit(w, r)
    BY DEF LifecycleInv, Fit, WritesFit
  <2> QED
    BY <2>1, KeysAssumption DEF WaitsForCommit
<1> QED
  BY <1>1, <1>2, <1>3 DEF LifecycleInv, WritesApart

LEMMA WriteReservationKeeps ==
  ASSUME NEW t \in Txs, LifecycleInv, WriteReservation(t)
  PROVE  LifecycleInv'
<1>1. CASE Rollback(t)
  BY <1>1, RollbackKeeps
<1>2. ASSUME ~Rollback(t) PROVE LifecycleInv'
  <2> DEFINE r == req[t].res
             row == [res[r] EXCEPT !.status = mem[t].next]
  <2>1. /\ Exists(r) /\ wres' = [wres EXCEPT ![t][r] = row]
        /\ LockRow(t, r) /\ lock[r] \in {NoTx, t} /\ Goto(t, "commit")
        /\ UNCHANGED <<committed, req, mem, wpass>> /\ pc[t] = "writeReservation"
    BY <1>2 DEF WriteReservation
  <2>2. Moves(t)
    BY <2>1, KindOf DEF LifecycleInv
  <2>3. /\ ~Registers(t) /\ r \in ResIds /\ r \in Rows \ Dogs
        /\ wres[t] = NoWrites /\ lock[r] = t
        /\ mem[t].row \in ResRow /\ res[r] = mem[t].row
        /\ <<mem[t].row.status, mem[t].next>> \in Transitions
    BY <2>1, <2>2, MoverFacts
  <2>4. /\ row \in ResRow /\ row # NoRow
        /\ row.act = res[r].act /\ row.dog = res[r].dog /\ row.pass = res[r].pass
        /\ <<res[r].status, row.status>> \in Transitions
    <3>1. mem[t].next \in Status
      BY <2>3 DEF Transitions, Status
    <3>2. row \in ResRow
      BY <2>3, <3>1 DEF ResRow
    <3> QED
      BY <2>3, <3>1, <3>2, BookingAssumption DEF ResRow
  <2>5. /\ wres' = [wres EXCEPT ![t] = [wres[t] EXCEPT ![r] = row]]
        /\ [wres[t] EXCEPT ![r] = row] \in [ResIds -> ResRow \cup {NoRow}]
    BY <2>1, <2>3, <2>4 DEF LifecycleInv, LifecycleTypeOK, HandlersTyped
  <2>6. /\ wres'[t][r] = row
        /\ \A s \in ResIds \ {r} : wres'[t][s] = NoRow
    BY <2>3, <2>5 DEF LifecycleInv, LifecycleTypeOK, HandlersTyped, NoWrites
  <2> HIDE DEF row
  <2>7. /\ HandlersTyped(LifecycleSteps, LifecycleRequests)'
        /\ LocalStep(t) /\ DogsStayFree(t) /\ pc'[t] = "commit"
    <3>1. "commit" \in LifecycleSteps
      BY DEF LifecycleSteps, Steps
    <3> QED
      BY <2>1, <2>3, <2>5, <3>1, HandlerGoesOn
  <2>8. /\ Moves(t)' /\ ~Registers(t)' /\ req' = req /\ mem' = mem /\ res' = res
        /\ lock'[r] = t
    BY <2>1, <2>2, <2>3, LockTaken
    DEF Registers, Moves, committed, LifecycleInv, LifecycleTypeOK, HandlersTyped
  <2>9. HoldsItsBooking(t)'
    BY <2>3, <2>7, <2>8 DEF HoldsItsBooking
  <2>10. WritesFit(t)'
    <3>1. WaitsForCommit(t, r)'
      BY <2>1, <2>4, <2>6, <2>8 DEF WaitsForCommit, Exists
    <3> QED
      BY <2>6, <2>7, <2>8, <3>1 DEF WritesFit
  <2>11. Fit(t)'
    BY <2>7, <2>8, <2>9, <2>10
    DEF Fit, RequestFits, LifecycleFits, Remembers, EntersSlot, HoldsItsVictim, StaysBookable
  <2>12. WritesApart'
    BY <2>1, <2>3, <2>5, LockedWritesApart DEF Exists
  <2> QED
    BY <2>7, <2>11, <2>12, LocalKeeps
<1> QED
  BY <1>1, <1>2

-----------------------------------------------------------------------------
(* Statements that publish what they do and answer.                        *)

(* An answer that spares what the others rely on.                          *)
LEMMA AnswerKeeps ==
  ASSUME NEW t \in Txs, LifecycleInv, Release(t), TablesTyped', NoOrphanBookings',
         \A u \in Txs \ {t} : TablesSpare(u)
  PROVE  LifecycleInv'
<1>1. /\ HandlersTyped(LifecycleSteps, LifecycleRequests)'
      /\ OthersKeep(t) /\ DogsStayFree(t) /\ Fit(t)'
      /\ wres'[t] = NoWrites /\ \A u \in Txs \ {t} : wres'[u] = wres[u]
  BY AnsweredFits DEF LifecycleInv
<1>2. ASSUME NEW u \in Txs \ {t} PROVE Fit(u)'
  BY <1>1, OthersStayFit DEF LifecycleInv
<1>3. WritesApart'
  BY <1>1 DEF LifecycleInv, WritesApart, NoWrites
<1>4. \A u \in Txs : \A d \in Dogs : lock'[d] = u => pc'[u] = "cascadeDog"
  BY <1>1, RowsTyped DEF LifecycleInv, OthersKeep, DogsStayFree
<1> QED
  BY <1>1, <1>2, <1>3, <1>4 DEF LifecycleInv, LifecycleTypeOK

(* An answer frees no dog that somebody has booked and not committed: it   *)
(* was free already.                                                       *)
LEMMA AnswerLeavesDogsFree ==
  ASSUME NEW t \in Txs, LifecycleInv, Release(t), NEW d \in Dogs, lock[d] = NoTx
  PROVE  lock'[d] = NoTx
BY RowsTyped, KeysAssumption DEF Release

LEMMA PublishedRows ==
  ASSUME NEW t \in Txs, LifecycleTypeOK, Publish(t)
  PROVE  /\ \A r \in ResIds : res'[r] = IF wres[t][r] # NoRow THEN wres[t][r] ELSE res[r]
         /\ res' \in [ResIds -> ResRow \cup {NoRow}]
         /\ pass' \in [Passes -> PassRow]
         /\ audit' \in [Passes -> [consumed : Nat, refunded : Nat]]
<1>1. \A r \in ResIds : res'[r] = IF wres[t][r] # NoRow THEN wres[t][r] ELSE res[r]
  BY DEF Publish, Written
<1>2. res' \in [ResIds -> ResRow \cup {NoRow}]
  <2>1. res \in [ResIds -> ResRow \cup {NoRow}]
        /\ wres[t] \in [ResIds -> ResRow \cup {NoRow}]
    BY DEF LifecycleTypeOK, TablesTyped, HandlersTyped
  <2>2. res' = [r \in ResIds |-> IF wres[t][r] # NoRow THEN wres[t][r] ELSE res[r]]
    BY DEF Publish, Written
  <2> QED
    BY <2>1, <2>2
<1>3. CASE wpass[t] = NoRow
  BY <1>1, <1>2, <1>3 DEF Publish, LifecycleTypeOK, TablesTyped
<1>4. CASE wpass[t] # NoRow
  <2> DEFINE p == wpass[t].pass
             old == audit[p]
  <2>1. p \in Passes /\ wpass[t].row \in PassRow /\ old \in [consumed : Nat, refunded : Nat]
    BY <1>4 DEF LifecycleTypeOK, TablesTyped, HandlersTyped, PassWrite
  <2>2. /\ pass' = [pass EXCEPT ![p] = wpass[t].row]
        /\ audit' = [audit EXCEPT ![p] =
              IF wpass[t].amount = -1 THEN [old EXCEPT !.consumed = old.consumed + 1]
                                      ELSE [old EXCEPT !.refunded = old.refunded + 1]]
    BY <1>4 DEF Publish
  <2>3. /\ [old EXCEPT !.consumed = old.consumed + 1] \in [consumed : Nat, refunded : Nat]
        /\ [old EXCEPT !.refunded = old.refunded + 1] \in [consumed : Nat, refunded : Nat]
    BY <2>1
  <2> QED
    BY <1>1, <1>2, <2>1, <2>2, <2>3 DEF LifecycleTypeOK, TablesTyped
<1> QED
  BY <1>3, <1>4

(* A COMMIT, with the UPDATE of an activity that nobody has locked.        *)
LEMMA PublishKeeps ==
  ASSUME NEW t \in Txs, LifecycleInv, Publish(t), Release(t), UNCHANGED <<clock, dog, gone>>,
         forced' \subseteq ResIds, reviewed' \subseteq ResIds,
         activity' \in [Activities -> ActivityRow \cup {NoRow}],
         \A a \in Activities : /\ lock[a] \in Txs \ {t} => activity'[a] = activity[a]
                               /\ activity[a] # NoRow => activity'[a] # NoRow
  PROVE  LifecycleInv'
<1>1. /\ \A r \in ResIds : res'[r] = IF wres[t][r] # NoRow THEN wres[t][r] ELSE res[r]
      /\ TablesTyped'
  BY PublishedRows DEF LifecycleInv, LifecycleTypeOK, TablesTyped
<1>2. \A r \in ResIds : wres[t][r] # NoRow => WaitsForCommit(t, r)
  BY DEF LifecycleInv, Fit, WritesFit
<1>3. Registers(t) /\ pc[t] = "commit" =>
        lock[req[t].act] = t /\ activity[req[t].act] # NoRow /\ req[t].act \in Activities
  BY KindOf DEF LifecycleInv, Fit, StaysBookable, Admitting
<1>4. NoOrphanBookings'
  <2> SUFFICES ASSUME NEW r \in ResIds, Exists(r)'
               PROVE  activity'[res'[r].act] # NoRow /\ dog'[res'[r].dog] # "deleted"
    BY DEF NoOrphanBookings
  <2>1. CASE wres[t][r] = NoRow
    <3>1. res'[r] = res[r] /\ Exists(r) /\ res[r].act \in Activities
      BY <1>1, <2>1 DEF Exists, TablesTyped, ResRow
    <3> QED
      BY <3>1 DEF LifecycleInv, NoOrphanBookings
  <2>2. CASE wres[t][r] # NoRow
    <3>1. res'[r] = wres[t][r] /\ WaitsForCommit(t, r)
      BY <1>1, <1>2, <2>2
    <3>2. CASE res[r] = NoRow
      BY <1>3, <3>1, <3>2 DEF WaitsForCommit
    <3>3. CASE res[r] # NoRow
      <4>1. Exists(r) /\ res[r].act \in Activities
        BY <3>3 DEF Exists, LifecycleInv, LifecycleTypeOK, TablesTyped, ResRow
      <4> QED
        BY <3>1, <3>3, <4>1 DEF WaitsForCommit, LifecycleInv, NoOrphanBookings
    <3> QED
      BY <3>2, <3>3
  <2> QED
    BY <2>1, <2>2
<1>5. ASSUME NEW u \in Txs \ {t} PROVE TablesSpare(u)
  <2>1. ASSUME NEW r \in ResIds, lock[r] = u, res[r] # NoRow PROVE res'[r] = res[r]
    BY <1>1, <1>2, <2>1 DEF WaitsForCommit
  <2>2. ASSUME NEW r \in ResIds, wres[u][r] # NoRow PROVE res'[r] = res[r]
    BY <1>1, <2>2 DEF LifecycleInv, WritesApart
  <2>3. ASSUME NEW a \in Activities, lock[a] = u
        PROVE  SlotHolders(a)' \subseteq SlotHolders(a)
    <3> SUFFICES ASSUME NEW r \in ResIds, HoldsSlot(r)', res'[r].act = a
                 PROVE  HoldsSlot(r) /\ res[r].act = a
      BY DEF SlotHolders
    <3>1. CASE wres[t][r] = NoRow
      BY <1>1, <3>1 DEF HoldsSlot, Exists
    <3>2. CASE wres[t][r] # NoRow
      <4>1. res'[r] = wres[t][r] /\ WaitsForCommit(t, r)
        BY <1>1, <1>2, <3>2
      <4>2. res[r] # NoRow
        BY <1>3, <2>3, <4>1 DEF WaitsForCommit
      <4>3. <<res[r].status, res'[r].status>> \in Transitions /\ res[r].act = a
        BY <4>1, <4>2 DEF WaitsForCommit
      <4> QED
        BY <4>2, <4>3 DEF Transitions, HoldsSlot, Exists, SlotStatus
    <3> QED
      BY <3>1, <3>2
  <2>4. ASSUME NEW d \in Dogs, dog[d] # "deleted", lock[d] = NoTx
        PROVE  dog'[d] # "deleted" /\ lock'[d] = NoTx
    BY <2>4, AnswerLeavesDogsFree
  <2> QED
    BY <2>1, <2>2, <2>3, <2>4 DEF TablesSpare
<1> QED
  BY <1>1, <1>4, <1>5, AnswerKeeps

LEMMA CommitKeeps ==
  ASSUME NEW t \in Txs, LifecycleInv, Commit(t)
  PROVE  LifecycleInv'
<1>1. /\ forced' \subseteq ResIds /\ reviewed' \subseteq ResIds
      /\ activity' = activity /\ activity \in [Activities -> ActivityRow \cup {NoRow}]
  BY DEF Commit, Written, LifecycleInv, LifecycleTypeOK, TablesTyped
<1> QED
  BY <1>1, PublishKeeps DEF Commit

LEMMA ReadPassKeeps ==
  ASSUME NEW t \in Txs, LifecycleInv, ReadPass(t)
  PROVE  LifecycleInv'
<1> DEFINE q == req[t]
           row == Patched(pass[q.pass], q)
           m == [mem[t] EXCEPT !.prow = row]
<1>1. pc[t] = "readPass" /\ q \in EditPassRequests /\ ~Registers(t) /\ ~Moves(t)
      /\ wres[t] = NoWrites
  BY KindOf DEF LifecycleInv, Fit, RequestFits, WritesFit, ReadPass
<1>2. row \in PassRow
  <2>1. pass[q.pass] \in PassRow
    BY <1>1, KindsOfRequests DEF LifecycleInv, LifecycleTypeOK, TablesTyped
  <2>2. q.paid \in BOOLEAN \cup {NoRow} /\ q.expires \in Nat \cup {NoRow}
    BY <1>1, BookingAssumption DEF EditPassRequests
  <2> DEFINE b == IF q.paid = NoRow THEN pass[q.pass].paid ELSE q.paid
             e == IF q.expires = NoRow THEN pass[q.pass].expires ELSE q.expires
  <2>3. b \in BOOLEAN /\ e \in Int
    BY <2>1, <2>2 DEF PassRow
  <2>4. row = [pass[q.pass] EXCEPT !.paid = b, !.expires = e]
    BY DEF Patched
  <2>5. ASSUME NEW c \in BOOLEAN, NEW f \in Int
        PROVE  [pass[q.pass] EXCEPT !.paid = c, !.expires = f] \in PassRow
    BY <2>1 DEF PassRow
  <2> HIDE DEF row, b, e
  <2> QED
    BY <2>3, <2>4, <2>5
<1>3. m \in Memory /\ mem'[t] = m /\ m.prow = row
  <2>1. mem[t] \in Memory /\ mem'[t] = m
    BY DEF ReadPass, LifecycleInv, LifecycleTypeOK, HandlersTyped, Remember
  <2> HIDE DEF row
  <2> QED
    BY <1>2, <2>1 DEF Memory
<1>4. /\ HandlersTyped(LifecycleSteps, LifecycleRequests)'
      /\ LocalStep(t) /\ DogsStayFree(t) /\ pc'[t] = "updatePass"
  <2>1. /\ Remember(t, m) /\ Goto(t, "updatePass")
        /\ UNCHANGED <<committed, req, wres, wpass, lock>>
    BY DEF ReadPass
  <2>2. "updatePass" \in LifecycleSteps
    BY DEF LifecycleSteps, Steps
  <2> HIDE DEF m
  <2> QED
    BY <1>1, <1>3, <2>1, <2>2, HandlerGoesOn
<1>5. req' = req /\ wres' = wres
  BY DEF ReadPass
<1>6. Fit(t)'
  BY <1>1, <1>2, <1>3, <1>4, <1>5
  DEF Fit, RequestFits, LifecycleFits, Remembers, EntersSlot, HoldsItsBooking, WritesFit,
      HoldsItsVictim, StaysBookable, Registers, Moves, NoWrites
<1> QED
  BY <1>4, <1>5, <1>6, LocalKeeps

LEMMA UpdatePassKeeps ==
  ASSUME NEW t \in Txs, LifecycleInv, UpdatePass(t)
  PROVE  LifecycleInv'
<1> DEFINE p == req[t].pass
           row == [mem[t].prow EXCEPT !.ver = mem[t].prow.ver + 1]
<1>1. CASE Rollback(t)
  BY <1>1, RollbackKeeps
<1>2. ASSUME pc[t] = "updatePass", pass' = [pass EXCEPT ![p] = row], Release(t),
             UNCHANGED <<clock, activity, dog, res, gone, audit, forced, reviewed>>
      PROVE  LifecycleInv'
  <2>1. row \in PassRow
    <3>1. mem[t].prow \in PassRow
      BY <1>2 DEF LifecycleInv, Fit, Remembers
    <3> QED
      BY <3>1 DEF PassRow
  <2>2. TablesTyped' /\ NoOrphanBookings'
    BY <1>2, <2>1 DEF LifecycleInv, LifecycleTypeOK, TablesTyped, NoOrphanBookings, Exists
  <2>3. ASSUME NEW u \in Txs \ {t} PROVE TablesSpare(u)
    BY <1>2, AnswerLeavesDogsFree DEF TablesSpare, SlotHolders, HoldsSlot, Exists
  <2> QED
    BY <1>2, <2>2, <2>3, AnswerKeeps
<1> QED
  BY <1>1, <1>2 DEF UpdatePass

-----------------------------------------------------------------------------
(* The statements of close and bulk completion.                            *)

(* Requests that neither register nor move a booking write nothing before  *)
(* their locks, except the bookings that a close has settled.              *)
OtherRequest(t) == ~Registers(t) /\ ~Moves(t)

LEMMA OtherFits ==
  ASSUME NEW t \in Txs, LifecycleInv, OtherRequest(t), req'[t] = req[t], wres'[t] = NoWrites,
         pc'[t] \notin {"lockActivity", "listHolders", "readDogs", "insert", "lockReservation",
                        "readActivity", "writeReservation", "lockPass", "writePass", "commit",
                        "readPass", "updatePass"},
         LifecycleFits(t)', Remembers(t)', HoldsItsVictim(t)'
  PROVE  Fit(t)'
<1>1. OtherRequest(t)'
  BY DEF OtherRequest, Registers, Moves
<1> QED
  BY <1>1
  DEF OtherRequest, Fit, RequestFits, EntersSlot, HoldsItsBooking, WritesFit, StaysBookable,
      NoWrites

LEMMA ReadActivityToCloseKeeps ==
  ASSUME NEW t \in Txs, LifecycleInv, ReadActivityToClose(t)
  PROVE  LifecycleInv'
<1> DEFINE arow == activity[req[t].act]
           m == [mem[t] EXCEPT !.arow = arow]
<1>1. CASE Rollback(t)
  BY <1>1, RollbackKeeps
<1>2. ASSUME arow # NoRow, pc[t] = "readActivityToClose", Remember(t, m),
             Goto(t, "listToClose"), UNCHANGED <<committed, req, wres, wpass, lock>>
      PROVE  LifecycleInv'
  <2>1. /\ req[t] \in CloseRequests \cup BulkRequests /\ OtherRequest(t)
        /\ wres[t] = NoWrites
    BY <1>2, KindOf DEF LifecycleInv, Fit, LifecycleFits, WritesFit, OtherRequest
  <2>2. arow \in ActivityRow
    BY <1>2, <2>1, KindsOfRequests DEF LifecycleInv, LifecycleTypeOK, TablesTyped
  <2>3. m \in Memory /\ mem'[t].arow = arow
    <3>1. mem[t] \in Memory /\ mem'[t] = m
      BY <1>2 DEF LifecycleInv, LifecycleTypeOK, HandlersTyped, Remember
    <3> QED
      BY <2>2, <3>1 DEF Memory
  <2>4. /\ HandlersTyped(LifecycleSteps, LifecycleRequests)'
        /\ LocalStep(t) /\ DogsStayFree(t) /\ pc'[t] = "listToClose"
    <3> HIDE DEF m
    <3> QED
      BY <1>2, <2>3, HandlerGoesOn DEF LifecycleSteps
  <2>5. Fit(t)'
    BY <1>2, <2>1, <2>2, <2>3, <2>4, OtherFits DEF LifecycleFits, Remembers, HoldsItsVictim
  <2> QED
    BY <1>2, <2>4, <2>5, LocalKeeps
<1> QED
  BY <1>1, <1>2 DEF ReadActivityToClose

LEMMA ListToCloseKeeps ==
  ASSUME NEW t \in Txs, LifecycleInv, ListToClose(t)
  PROVE  LifecycleInv'
<1> DEFINE m == [mem[t] EXCEPT !.todo = Confirmed(req[t].act)]
<1>1. CASE Rollback(t)
  BY <1>1, RollbackKeeps
<1>2. ASSUME pc[t] = "listToClose", Remember(t, m),
             Goto(t, "settle"), UNCHANGED <<committed, req, wres, wpass, lock>>
      PROVE  LifecycleInv'
  <2>1. /\ req[t] \in CloseRequests \cup BulkRequests /\ OtherRequest(t)
        /\ wres[t] = NoWrites /\ mem[t].arow \in ActivityRow
    BY <1>2, KindOf DEF LifecycleInv, Fit, LifecycleFits, WritesFit, OtherRequest, Remembers
  <2>2. m \in Memory /\ mem'[t].arow = mem[t].arow
    <3>1. mem[t] \in Memory /\ mem'[t] = m
      BY <1>2 DEF LifecycleInv, LifecycleTypeOK, HandlersTyped, Remember
    <3>2. Confirmed(req[t].act) \subseteq ResIds
      BY DEF Confirmed, RowsOfActivity
    <3> QED
      BY <3>1, <3>2 DEF Memory
  <2>3. /\ HandlersTyped(LifecycleSteps, LifecycleRequests)'
        /\ LocalStep(t) /\ DogsStayFree(t) /\ pc'[t] = "settle"
    <3> HIDE DEF m
    <3> QED
      BY <1>2, <2>2, HandlerGoesOn DEF LifecycleSteps
  <2>4. Fit(t)'
    BY <1>2, <2>1, <2>2, <2>3, OtherFits DEF LifecycleFits, Remembers, HoldsItsVictim
  <2> QED
    BY <1>2, <2>3, <2>4, LocalKeeps
<1> QED
  BY <1>1, <1>2 DEF ListToClose

(* The booking a close settles next is the first of those it has listed.   *)
LEMMA NextIsListed ==
  ASSUME NEW t \in Txs, LifecycleInv, mem[t].todo # {}
  PROVE  /\ NextToSettle(t) \in mem[t].todo
         /\ \A s \in mem[t].todo : NextToSettle(t) <= s
<1> DEFINE T == mem[t].todo
<1>1. T \subseteq Nat /\ T # {}
  BY KeysAssumption DEF LifecycleInv, LifecycleTypeOK, HandlersTyped, Memory
<1>2. \E m \in T : \A n \in T : ~(<<n, m>> \in OpToRel(<, Nat))
  BY <1>1, WFMin, NatLessThanWellFounded
<1>3. PICK m \in T : \A n \in T : ~(n < m)
  BY <1>1, <1>2 DEF OpToRel
<1>4. \A n \in T : m <= n
  BY <1>1, <1>3
<1> QED
  BY <1>4 DEF NextToSettle

LEMMA SettleKeeps ==
  ASSUME NEW t \in Txs, LifecycleInv, Settle(t)
  PROVE  LifecycleInv'
<1> DEFINE r == NextToSettle(t)
           row == [res[r] EXCEPT !.status = Settled(t, r)]
           m == [mem[t] EXCEPT !.todo = mem[t].todo \ {r}]
<1>1. CASE Rollback(t)
  BY <1>1, RollbackKeeps
<1>2. ASSUME pc[t] = "settle", mem[t].todo # {}, Free(r), StillSettles(t, r), LockRow(t, r),
             wres' = [wres EXCEPT ![t][r] = row], Remember(t, m),
             UNCHANGED <<committed, pc, req, wpass>>
      PROVE  LifecycleInv'
  <2>1. r \in ResIds /\ r \in Rows \ Dogs /\ lock[r] = NoTx /\ res[r] # NoRow
    <3>1. mem[t].todo \subseteq ResIds
      BY DEF LifecycleInv, LifecycleTypeOK, HandlersTyped, Memory
    <3> QED
      BY <1>2, <3>1, NextIsListed, RowsTyped, KeysAssumption
      DEF Free, StillSettles, Exists
  <2>2. res[r] \in ResRow /\ res[r].status = "CONFIRMED"
    BY <1>2, <2>1 DEF StillSettles, LifecycleInv, LifecycleTypeOK, TablesTyped
  <2>3. Settled(t, r) \in {"NO_SHOW", "COMPLETED"}
    BY DEF Settled
  <2>4. /\ row \in ResRow /\ row # NoRow
        /\ row.act = res[r].act /\ row.dog = res[r].dog /\ row.pass = res[r].pass
        /\ <<res[r].status, row.status>> \in Transitions
    <3>1. row \in ResRow /\ row.status = Settled(t, r)
      BY <2>2, <2>3 DEF ResRow, Status
    <3> QED
      BY <2>2, <2>3, <3>1, BookingAssumption DEF Transitions, ResRow
  <2> HIDE DEF row
  <2>5. /\ wres' = [wres EXCEPT ![t] = [wres[t] EXCEPT ![r] = row]]
        /\ [wres[t] EXCEPT ![r] = row] \in [ResIds -> ResRow \cup {NoRow}]
    BY <1>2, <2>1, <2>4 DEF LifecycleInv, LifecycleTypeOK, HandlersTyped
  <2>6. /\ wres'[t][r] = row
        /\ \A s \in ResIds \ {r} : wres'[t][s] = wres[t][s]
    BY <2>1, <2>5 DEF LifecycleInv, LifecycleTypeOK, HandlersTyped
  <2>7. m \in Memory /\ mem'[t] = m /\ m.arow = mem[t].arow
    <3>1. mem[t] \in Memory /\ mem'[t] = m
      BY <1>2 DEF LifecycleInv, LifecycleTypeOK, HandlersTyped, Remember
    <3> QED
      BY <3>1 DEF Memory
  <2> HIDE DEF m
  <2>8. /\ HandlersTyped(LifecycleSteps, LifecycleRequests)'
        /\ LocalStep(t) /\ DogsStayFree(t) /\ pc'[t] = "settle"
    <3>1. Goto(t, "settle") /\ "settle" \in LifecycleSteps
      BY <1>2 DEF Goto, LifecycleSteps, LifecycleInv, LifecycleTypeOK, HandlersTyped
    <3> QED
      BY <1>2, <2>1, <2>5, <2>7, <3>1, HandlerGoesOn
  <2>9. /\ lock'[r] = t /\ \A x \in Rows : lock[x] = t => lock'[x] = t
        /\ res' = res /\ req' = req /\ ~Registers(t) /\ ~Moves(t)
        /\ req[t] \in CloseRequests \cup BulkRequests /\ mem[t].arow \in ActivityRow
    BY <1>2, <2>1, LockTaken, KindOf
    DEF committed, LifecycleInv, LifecycleTypeOK, HandlersTyped, Fit, LifecycleFits, Remembers
  <2>10. WritesFit(t)'
    <3>1. ASSUME NEW s \in ResIds, wres'[t][s] # NoRow PROVE WaitsForCommit(t, s)'
      <4>1. CASE s = r
        BY <2>1, <2>4, <2>6, <2>9, <4>1 DEF WaitsForCommit
      <4>2. CASE s # r
        <5>1. wres[t][s] # NoRow /\ wres'[t][s] = wres[t][s] /\ s \in Rows
          BY <2>6, <3>1, <4>2, RowsTyped
        <5>2. WaitsForCommit(t, s)
          BY <5>1 DEF LifecycleInv, Fit, WritesFit
        <5>3. res[s] # NoRow
          BY <2>9, <5>2 DEF WaitsForCommit
        <5> QED
          BY <2>9, <5>1, <5>2, <5>3 DEF WaitsForCommit
      <4> QED
        BY <4>1, <4>2
    <3> QED
      BY <2>8, <3>1 DEF WritesFit
  <2>11. Fit(t)'
    BY <2>7, <2>8, <2>9, <2>10
    DEF Fit, RequestFits, LifecycleFits, Remembers, EntersSlot, HoldsItsBooking,
        HoldsItsVictim, StaysBookable, Registers, Moves
  <2>12. WritesApart'
    BY <2>1, <2>5, LockedWritesApart
  <2> QED
    BY <2>8, <2>11, <2>12, LocalKeeps
<1> QED
  BY <1>1, <1>2 DEF Settle

LEMMA UpdateActivityKeeps ==
  ASSUME NEW t \in Txs, LifecycleInv, UpdateActivity(t)
  PROVE  LifecycleInv'
<1> DEFINE a == req[t].act
           row == [mem[t].arow EXCEPT !.closed = TRUE]
<1>1. CASE Rollback(t)
  BY <1>1, RollbackKeeps
<1>2. ASSUME pc[t] = "settle", Free(a), activity' = [activity EXCEPT ![a] = row],
             Publish(t), Release(t), UNCHANGED <<clock, dog, gone, forced, reviewed>>
      PROVE  LifecycleInv'
  <2>1. row \in ActivityRow
    <3>1. mem[t].arow \in ActivityRow
      BY <1>2 DEF LifecycleInv, Fit, Remembers
    <3> QED
      BY <3>1 DEF ActivityRow
  <2>2. lock[a] = NoTx /\ row # NoRow
    BY <1>2, <2>1, LifecycleAssumption DEF Free
  <2> HIDE DEF row
  <2>3. /\ activity' \in [Activities -> ActivityRow \cup {NoRow}]
        /\ \A b \in Activities : /\ lock[b] \in Txs \ {t} => activity'[b] = activity[b]
                                 /\ activity[b] # NoRow => activity'[b] # NoRow
    BY <1>2, <2>1, <2>2, KeysAssumption DEF LifecycleInv, LifecycleTypeOK, TablesTyped
  <2>4. forced' \subseteq ResIds /\ reviewed' \subseteq ResIds
    BY <1>2 DEF LifecycleInv, LifecycleTypeOK, TablesTyped
  <2> QED
    BY <1>2, <2>3, <2>4, PublishKeeps
<1> QED
  BY <1>1, <1>2 DEF UpdateActivity

LEMMA CommitRepairKeeps ==
  ASSUME NEW t \in Txs, LifecycleInv, CommitRepair(t)
  PROVE  LifecycleInv'
<1>1. /\ forced' \subseteq ResIds /\ reviewed' \subseteq ResIds
      /\ activity' = activity /\ activity \in [Activities -> ActivityRow \cup {NoRow}]
  BY DEF CommitRepair, LifecycleInv, LifecycleTypeOK, TablesTyped
<1> QED
  BY <1>1, PublishKeeps DEF CommitRepair

-----------------------------------------------------------------------------
(* The statements of modify and delete.                                    *)

LEMMA ReadActivityToModifyKeeps ==
  ASSUME NEW t \in Txs, LifecycleInv, ReadActivityToModify(t)
  PROVE  LifecycleInv'
<1> DEFINE q == req[t]
           arow == activity[q.act]
           row == PatchedActivity(arow, q)
           m == [mem[t] EXCEPT !.arow = row]
<1>1. CASE Rollback(t)
  BY <1>1, RollbackKeeps
<1>2. ASSUME arow # NoRow, pc[t] = "readActivityToModify", Remember(t, m),
             Goto(t, "writeModified"), UNCHANGED <<committed, req, wres, wpass, lock>>
      PROVE  LifecycleInv'
  <2>1. q \in ModifyRequests /\ OtherRequest(t) /\ wres[t] = NoWrites
    BY <1>2, KindOf DEF LifecycleInv, Fit, LifecycleFits, WritesFit, OtherRequest
  <2>2. row \in ActivityRow
    <3>1. arow \in ActivityRow
      BY <1>2, <2>1, KindsOfRequests DEF LifecycleInv, LifecycleTypeOK, TablesTyped
    <3>2. q.cap \in (Nat \ {0}) \cup {NoRow} /\ q.date \in Int \cup {NoRow}
      BY <2>1, KindsOfRequests, LifecycleAssumption
    <3> QED
      BY <3>1, <3>2 DEF PatchedActivity, ActivityRow
  <2> HIDE DEF row
  <2>3. m \in Memory /\ mem'[t].arow = row
    <3>1. mem[t] \in Memory /\ mem'[t] = m
      BY <1>2 DEF LifecycleInv, LifecycleTypeOK, HandlersTyped, Remember
    <3> QED
      BY <2>2, <3>1 DEF Memory
  <2>4. /\ HandlersTyped(LifecycleSteps, LifecycleRequests)'
        /\ LocalStep(t) /\ DogsStayFree(t) /\ pc'[t] = "writeModified"
    <3> HIDE DEF m
    <3> QED
      BY <1>2, <2>3, HandlerGoesOn DEF LifecycleSteps
  <2>5. Fit(t)'
    BY <1>2, <2>1, <2>2, <2>3, <2>4, OtherFits DEF LifecycleFits, Remembers, HoldsItsVictim
  <2> QED
    BY <1>2, <2>4, <2>5, LocalKeeps
<1> QED
  BY <1>1, <1>2 DEF ReadActivityToModify

(* An UPDATE of an activity that nobody has locked.                        *)
LEMMA WriteModifiedKeeps ==
  ASSUME NEW t \in Txs, LifecycleInv, WriteModified(t)
  PROVE  LifecycleInv'
<1> DEFINE a == req[t].act
<1>1. CASE Rollback(t)
  BY <1>1, RollbackKeeps
<1>2. ASSUME pc[t] = "writeModified", Free(a), activity' = [activity EXCEPT ![a] = mem[t].arow],
             Release(t), UNCHANGED <<clock, dog, res, gone, pass, audit, forced, reviewed>>
      PROVE  LifecycleInv'
  <2>1. mem[t].arow \in ActivityRow /\ mem[t].arow # NoRow /\ lock[a] = NoTx
    BY <1>2, LifecycleAssumption DEF LifecycleInv, Fit, Remembers, Free
  <2>2. TablesTyped'
    BY <1>2, <2>1 DEF LifecycleInv, LifecycleTypeOK, TablesTyped
  <2>3. NoOrphanBookings'
    <3>1. \A b \in Activities : activity[b] # NoRow => activity'[b] # NoRow
      BY <1>2, <2>1 DEF LifecycleInv, LifecycleTypeOK, TablesTyped
    <3>2. \A r \in ResIds : Exists(r) => res[r].act \in Activities
      BY DEF Exists, LifecycleInv, LifecycleTypeOK, TablesTyped, ResRow
    <3> QED
      BY <1>2, <3>1, <3>2 DEF LifecycleInv, NoOrphanBookings, Exists
  <2>4. ASSUME NEW u \in Txs \ {t} PROVE TablesSpare(u)
    <3>1. \A b \in Activities : lock[b] = u => activity'[b] = activity[b]
      BY <1>2, <2>1, KeysAssumption DEF LifecycleInv, LifecycleTypeOK, TablesTyped
    <3> QED
      BY <1>2, <3>1, AnswerLeavesDogsFree DEF TablesSpare, SlotHolders, HoldsSlot, Exists
  <2> QED
    BY <1>2, <2>2, <2>3, <2>4, AnswerKeeps
<1> QED
  BY <1>1, <1>2 DEF WriteModified

LEMMA CountActiveKeeps ==
  ASSUME NEW t \in Txs, LifecycleInv, CountActive(t)
  PROVE  LifecycleInv'
<1>1. CASE Rollback(t)
  BY <1>1, RollbackKeeps
<1>2. ASSUME pc[t] = "countActive", Goto(t, "deleteActivity"),
             UNCHANGED <<committed, req, mem, wres, wpass, lock>>
      PROVE  LifecycleInv'
  <2>1. req[t] \in DeleteActivityRequests /\ OtherRequest(t) /\ wres[t] = NoWrites
    BY <1>2, KindOf DEF LifecycleInv, Fit, LifecycleFits, WritesFit, OtherRequest
  <2>2. /\ HandlersTyped(LifecycleSteps, LifecycleRequests)'
        /\ LocalStep(t) /\ DogsStayFree(t) /\ pc'[t] = "deleteActivity"
    BY <1>2, HandlerGoesOn DEF LifecycleSteps
  <2>3. Fit(t)'
    BY <1>2, <2>1, <2>2, OtherFits DEF LifecycleFits, Remembers, HoldsItsVictim
  <2> QED
    BY <1>2, <2>2, <2>3, LocalKeeps
<1> QED
  BY <1>1, <1>2 DEF CountActive

LEMMA DeleteActivityKeeps ==
  ASSUME NEW t \in Txs, LifecycleInv, DeleteActivity(t)
  PROVE  LifecycleInv'
<1> DEFINE a == req[t].act
<1>1. CASE Rollback(t)
  BY <1>1, RollbackKeeps
<1>2. ASSUME pc[t] = "deleteActivity", Free(a), LockRow(t, a), Goto(t, "cascadeActivity"),
             UNCHANGED <<committed, req, mem, wres, wpass>>
      PROVE  LifecycleInv'
  <2>1. /\ req[t] \in DeleteActivityRequests /\ OtherRequest(t) /\ wres[t] = NoWrites
        /\ a \in Rows \ Dogs /\ lock[a] \in {NoTx, t}
    BY <1>2, KindOf, KindsOfRequests, RowsTyped, KeysAssumption
    DEF LifecycleInv, Fit, LifecycleFits, WritesFit, OtherRequest, Free
  <2>2. /\ HandlersTyped(LifecycleSteps, LifecycleRequests)'
        /\ LocalStep(t) /\ DogsStayFree(t) /\ pc'[t] = "cascadeActivity"
    BY <1>2, <2>1, HandlerGoesOn DEF LifecycleSteps
  <2>3. lock'[a] = t
    BY <1>2, <2>1, LockTaken DEF LifecycleInv, LifecycleTypeOK, HandlersTyped
  <2>4. Fit(t)'
    BY <1>2, <2>1, <2>2, <2>3, OtherFits DEF LifecycleFits, Remembers, HoldsItsVictim
  <2> QED
    BY <1>2, <2>2, <2>4, LocalKeeps
<1> QED
  BY <1>1, <1>2 DEF DeleteActivity

(* The cascade takes the bookings of the activity with it.                 *)
LEMMA CascadeActivityKeeps ==
  ASSUME NEW t \in Txs, LifecycleInv, CascadeActivity(t)
  PROVE  LifecycleInv'
<1> DEFINE a == req[t].act
<1>1. /\ activity' = [activity EXCEPT ![a] = NoRow] /\ gone' = gone \cup RowsOfActivity(a)
      /\ Release(t) /\ UNCHANGED <<clock, dog, res, pass, audit, forced, reviewed>>
      /\ lock[a] = t
  BY DEF CascadeActivity, LifecycleInv, Fit, HoldsItsVictim
<1>2. TablesTyped'
  BY <1>1 DEF LifecycleInv, LifecycleTypeOK, TablesTyped, RowsOfActivity
<1>3. NoOrphanBookings'
  <2> SUFFICES ASSUME NEW r \in ResIds, Exists(r)'
               PROVE  activity'[res'[r].act] # NoRow /\ dog'[res'[r].dog] # "deleted"
    BY DEF NoOrphanBookings
  <2>1. Exists(r) /\ res[r].act # a
    BY <1>1 DEF Exists, RowsOfActivity
  <2>2. res[r].act \in Activities
    BY <2>1 DEF Exists, LifecycleInv, LifecycleTypeOK, TablesTyped, ResRow
  <2> QED
    BY <1>1, <2>1, <2>2 DEF LifecycleInv, LifecycleTypeOK, TablesTyped, NoOrphanBookings
<1>4. ASSUME NEW u \in Txs \ {t} PROVE TablesSpare(u)
  <2>1. \A b \in Activities : lock[b] = u => activity'[b] = activity[b]
    BY <1>1 DEF LifecycleInv, LifecycleTypeOK, TablesTyped
  <2>2. \A b \in Activities : SlotHolders(b)' \subseteq SlotHolders(b)
    BY <1>1 DEF SlotHolders, HoldsSlot, Exists
  <2> QED
    BY <1>1, <2>1, <2>2, AnswerLeavesDogsFree DEF TablesSpare
<1> QED
  BY <1>1, <1>2, <1>3, <1>4, AnswerKeeps

(* A dog is locked only while nobody has an uncommitted booking of it.     *)
LEMMA DeleteDogKeeps ==
  ASSUME NEW t \in Txs, LifecycleInv, DeleteDog(t)
  PROVE  LifecycleInv'
<1> DEFINE d == req[t].dog
<1>1. CASE Rollback(t)
  BY <1>1, RollbackKeeps
<1>2. ASSUME pc[t] = "deleteDog", Free(d), Inserting(d) = {}, LockRow(t, d),
             Goto(t, "cascadeDog"), UNCHANGED <<committed, req, mem, wres, wpass>>
      PROVE  LifecycleInv'
  <2>1. /\ req[t] \in DeleteDogRequests /\ OtherRequest(t) /\ wres[t] = NoWrites
        /\ d \in Dogs /\ d \in Rows /\ lock[d] \in {NoTx, t}
    BY <1>2, KindOf, KindsOfRequests, RowsTyped
    DEF LifecycleInv, Fit, LifecycleFits, WritesFit, OtherRequest, Free
  <2>2. /\ lock' \in [Rows -> Txs \cup {NoTx}] /\ lock'[d] = t
        /\ \A u \in Txs \ {t} : \A x \in Rows : (lock'[x] = u) <=> (lock[x] = u)
    BY <1>2, <2>1, LockTaken DEF LifecycleInv, LifecycleTypeOK, HandlersTyped
  <2>3. /\ pc' \in [Txs -> LifecycleSteps] /\ pc'[t] = "cascadeDog"
        /\ \A u \in Txs \ {t} : pc'[u] = pc[u]
    BY <1>2 DEF Goto, LifecycleSteps, LifecycleInv, LifecycleTypeOK, HandlersTyped
  <2>4. HandlersTyped(LifecycleSteps, LifecycleRequests)' /\ LocalStep(t)
    BY <1>2, <2>2, <2>3
    DEF LifecycleInv, LifecycleTypeOK, HandlersTyped, LocalStep, OthersKeep
  <2>5. DogsStayFree(t)
    <3>1. \A e \in Dogs \ {d} : lock'[e] = lock[e]
      BY <1>2, RowsTyped DEF LockRow, LifecycleInv, LifecycleTypeOK, HandlersTyped
    <3> QED
      BY <1>2, <2>3, <3>1 DEF DogsStayFree
  <2>6. Fit(t)'
    BY <1>2, <2>1, <2>2, <2>3, OtherFits DEF LifecycleFits, Remembers, HoldsItsVictim
  <2> QED
    BY <1>2, <2>4, <2>5, <2>6, LocalKeeps
<1> QED
  BY <1>1, <1>2 DEF DeleteDog

LEMMA CascadeDogKeeps ==
  ASSUME NEW t \in Txs, LifecycleInv, CascadeDog(t)
  PROVE  LifecycleInv'
<1> DEFINE d == req[t].dog
<1>1. CASE Rollback(t)
  BY <1>1, RollbackKeeps
<1>2. ASSUME pc[t] = "cascadeDog", dog' = [dog EXCEPT ![d] = "deleted"],
             gone' = gone \cup RowsOfDog(d), Release(t),
             UNCHANGED <<clock, activity, res, pass, audit, forced, reviewed>>
      PROVE  LifecycleInv'
  <2>1. lock[d] = t /\ d \in Dogs
    BY <1>2, KindsOfRequests DEF LifecycleInv, Fit, HoldsItsVictim, LifecycleFits
  <2>2. TablesTyped'
    BY <1>2 DEF LifecycleInv, LifecycleTypeOK, TablesTyped, RowsOfDog
  <2>3. NoOrphanBookings'
    <3> SUFFICES ASSUME NEW r \in ResIds, Exists(r)'
                 PROVE  activity'[res'[r].act] # NoRow /\ dog'[res'[r].dog] # "deleted"
      BY DEF NoOrphanBookings
    <3>1. Exists(r) /\ res[r].dog # d
      BY <1>2 DEF Exists, RowsOfDog
    <3>2. res[r].dog \in Dogs
      BY <3>1 DEF Exists, LifecycleInv, LifecycleTypeOK, TablesTyped, ResRow
    <3> QED
      BY <1>2, <3>1, <3>2 DEF LifecycleInv, LifecycleTypeOK, TablesTyped, NoOrphanBookings
  <2>4. ASSUME NEW u \in Txs \ {t} PROVE TablesSpare(u)
    <3>1. \A e \in Dogs : lock[e] = NoTx /\ dog[e] # "deleted" =>
            dog'[e] # "deleted" /\ lock'[e] = NoTx
      BY <1>2, <2>1, AnswerLeavesDogsFree, KeysAssumption
      DEF LifecycleInv, LifecycleTypeOK, TablesTyped
    <3>2. \A b \in Activities : SlotHolders(b)' \subseteq SlotHolders(b)
      BY <1>2 DEF SlotHolders, HoldsSlot, Exists
    <3> QED
      BY <1>2, <3>1, <3>2 DEF TablesSpare
  <2> QED
    BY <1>2, <2>2, <2>3, <2>4, AnswerKeeps
<1> QED
  BY <1>1, <1>2 DEF CascadeDog

LEMMA EditDogKeeps ==
  ASSUME NEW t \in Txs, LifecycleInv, EditDog(t)
  PROVE  LifecycleInv'
<1> DEFINE d == req[t].dog
<1>1. CASE Rollback(t)
  BY <1>1, RollbackKeeps
<1>2. ASSUME pc[t] = "editDog", dog[d] # "deleted", dog' = [dog EXCEPT ![d] = req[t].to],
             Release(t), UNCHANGED <<clock, activity, res, gone, pass, audit, forced, reviewed>>
      PROVE  LifecycleInv'
  <2>1. req[t].to \in {"active", "inactive"}
    BY <1>2, KindsOfRequests DEF LifecycleInv, Fit, LifecycleFits
  <2>2. /\ TablesTyped'
        /\ \A e \in Dogs : dog[e] # "deleted" => dog'[e] # "deleted"
    BY <1>2, <2>1 DEF LifecycleInv, LifecycleTypeOK, TablesTyped
  <2>3. NoOrphanBookings'
    <3>1. \A r \in ResIds : Exists(r) => res[r].dog \in Dogs
      BY DEF Exists, LifecycleInv, LifecycleTypeOK, TablesTyped, ResRow
    <3> QED
      BY <1>2, <2>2, <3>1 DEF LifecycleInv, NoOrphanBookings, Exists
  <2>4. ASSUME NEW u \in Txs \ {t} PROVE TablesSpare(u)
    BY <1>2, <2>2, AnswerLeavesDogsFree DEF TablesSpare, SlotHolders, HoldsSlot, Exists
  <2> QED
    BY <1>2, <2>2, <2>3, <2>4, AnswerKeeps
<1> QED
  BY <1>1, <1>2 DEF EditDog

-----------------------------------------------------------------------------
(* Every step.                                                             *)

LEMMA LifecycleKeeps == ASSUME LifecycleInv, [LifecycleNext]_vars PROVE LifecycleInv'
<1>1. CASE UNCHANGED vars
  BY <1>1, StutterKeeps
<1>2. CASE Tick
  BY <1>2, TickKeeps
<1>3. ASSUME NEW t \in Txs, Begin(t) \/ BeginLifecycle(t) \/ Abort(t) PROVE LifecycleInv'
  BY <1>3, BeginKeeps, RollbackKeeps DEF Abort
<1>4. ASSUME NEW t \in Txs, Step(t) PROVE LifecycleInv'
  BY <1>4, LockActivityKeeps, ListHoldersKeeps, ReadDogsKeeps, LockPassToConsumeKeeps,
     WriteConsumedPassKeeps, InsertReservationKeeps, LockReservationKeeps,
     ReadActivityKeeps, LockPassToRefundKeeps, WriteRefundedPassKeeps,
     WriteReservationKeeps, ReadPassKeeps, UpdatePassKeeps, CommitKeeps DEF Step
<1>5. ASSUME NEW t \in Txs, LifecycleStep(t) PROVE LifecycleInv'
  BY <1>5, ReadActivityToCloseKeeps, ListToCloseKeeps, SettleKeeps, UpdateActivityKeeps,
     CommitRepairKeeps, ReadActivityToModifyKeeps, WriteModifiedKeeps, CountActiveKeeps,
     DeleteActivityKeeps, CascadeActivityKeeps, DeleteDogKeeps, CascadeDogKeeps, EditDogKeeps
  DEF LifecycleStep
<1> QED
  BY <1>1, <1>2, <1>3, <1>4, <1>5 DEF LifecycleNext, Next

(* LifecycleInv holds in every state the composed system can reach.        *)
THEOREM LifecycleHolds == LifecycleSpec => []LifecycleInv
<1>1. LifecycleInv /\ [LifecycleNext]_vars => LifecycleInv'
  BY LifecycleKeeps
<1> QED
  BY <1>1, LifecycleStarts, PTL DEF LifecycleSpec

(* The composed system keeps its tables and its handlers in type.          *)
THEOREM LifecycleTyped == LifecycleSpec => []LifecycleTypeOK
<1>1. LifecycleInv => LifecycleTypeOK
  BY DEF LifecycleInv
<1> QED
  BY <1>1, LifecycleHolds, PTL

(* No booking outlives its activity or its dog, whatever is deleted between*)
(* the statements of a registration (register.go:157-397).                 *)
THEOREM NoOrphans == LifecycleSpec => []NoOrphanBookings
<1>1. LifecycleInv => NoOrphanBookings
  BY DEF LifecycleInv
<1> QED
  BY <1>1, LifecycleHolds, PTL

-----------------------------------------------------------------------------
(* What a step does to the bookings: most leave them as they are or remove *)
(* them, a COMMIT publishes what its transaction has written.              *)
LEMMA BookingsChange ==
  ASSUME [LifecycleNext]_vars
  PROVE  \/ res' = res /\ gone \subseteq gone'
         \/ \E t \in Txs : Publish(t) /\ gone' = gone
<1>1. CASE UNCHANGED vars
  BY <1>1 DEF vars, committed
<1>2. CASE Tick
  BY <1>2 DEF Tick
<1>3. ASSUME NEW t \in Txs, Rollback(t) PROVE res' = res /\ gone' = gone
  BY <1>3 DEF Rollback, committed
<1>4. ASSUME NEW t \in Txs, Begin(t) \/ BeginLifecycle(t) \/ Abort(t)
      PROVE  res' = res /\ gone' = gone
  BY <1>3, <1>4 DEF Begin, BeginLifecycle, Accept, Abort, committed
<1>5. ASSUME NEW t \in Txs, Step(t), ~Commit(t) PROVE res' = res /\ gone' = gone
  BY <1>3, <1>5
  DEF Step, LockActivity, ListHolders, ReadDogs, LockPassToConsume, WriteConsumedPass,
      WritePass, InsertReservation, LockReservation, ReadActivity, LockPassToRefund,
      WriteRefundedPass, WriteReservation, ReadPass, UpdatePass, committed
<1>6. ASSUME NEW t \in Txs, Commit(t) \/ CommitRepair(t) PROVE Publish(t) /\ gone' = gone
  BY <1>6 DEF Commit, CommitRepair
<1>7. ASSUME NEW t \in Txs, UpdateActivity(t)
      PROVE  (res' = res \/ Publish(t)) /\ gone' = gone
  BY <1>3, <1>7 DEF UpdateActivity
<1>8. ASSUME NEW t \in Txs, LifecycleStep(t), ~UpdateActivity(t), ~CommitRepair(t)
      PROVE  res' = res /\ gone \subseteq gone'
  BY <1>3, <1>8
  DEF LifecycleStep, ReadActivityToClose, ListToClose, Settle, ReadActivityToModify,
      WriteModified, CountActive, DeleteActivity, CascadeActivity, DeleteDog, CascadeDog,
      EditDog, committed
<1>9. CASE \E t \in Txs : Begin(t) \/ BeginLifecycle(t) \/ Abort(t)
  BY <1>4, <1>9
<1>10. CASE \E t \in Txs : Step(t)
  BY <1>5, <1>6, <1>10
<1>11. CASE \E t \in Txs : LifecycleStep(t)
  BY <1>6, <1>7, <1>8, <1>11
<1> QED
  BY <1>1, <1>2, <1>9, <1>10, <1>11 DEF LifecycleNext, Next

(* A booking enters an open activity that has room for it, because the     *)
(* activity stays locked from the first look at it to the COMMIT.          *)
LEMMA AdmissionStep ==
  ASSUME LifecycleInv, [LifecycleNext]_vars, NEW a \in Activities,
         SlotHolders(a)' \ SlotHolders(a) # {}
  PROVE  /\ activity[a] # NoRow /\ ~activity[a].closed
         /\ Cardinality(SlotHolders(a)') <= activity[a].cap
<1>1. PICK t \in Txs : Publish(t) /\ gone' = gone
  <2>1. res' = res /\ gone \subseteq gone' => SlotHolders(a)' \subseteq SlotHolders(a)
    BY DEF SlotHolders, HoldsSlot, Exists
  <2> QED
    BY <2>1, BookingsChange
<1>2. \A r \in ResIds : res'[r] = IF wres[t][r] # NoRow THEN wres[t][r] ELSE res[r]
  BY <1>1, PublishedRows DEF LifecycleInv
<1>3. \A r \in ResIds : wres[t][r] # NoRow => WaitsForCommit(t, r)
  BY DEF LifecycleInv, Fit, WritesFit
<1>4. PICK r \in ResIds : r \in SlotHolders(a)' /\ r \notin SlotHolders(a)
  BY DEF SlotHolders
<1>5. wres[t][r] # NoRow /\ res'[r] = wres[t][r] /\ res'[r].act = a
      /\ res'[r].status \in SlotStatus /\ r \notin gone
  BY <1>1, <1>2, <1>4 DEF SlotHolders, HoldsSlot, Exists
<1>6. res[r] = NoRow
  <2> SUFFICES ASSUME res[r] # NoRow PROVE FALSE
    OBVIOUS
  <2>1. res[r].act = a /\ <<res[r].status, res'[r].status>> \in Transitions
    BY <1>3, <1>5 DEF WaitsForCommit
  <2> QED
    BY <1>4, <1>5, <2>1 DEF Transitions, SlotHolders, HoldsSlot, Exists, SlotStatus
<1>7. Registers(t) /\ pc[t] = "commit" /\ req[t].act = a
  BY <1>3, <1>5, <1>6 DEF WaitsForCommit
<1>8. /\ activity[a] # NoRow /\ ~activity[a].closed
      /\ Cardinality(SlotHolders(a)) < activity[a].cap
  BY <1>7 DEF LifecycleInv, Fit, StaysBookable, Admitting
<1>9. SlotHolders(a)' \subseteq SlotHolders(a) \cup {r}
  <2>1. PICK s \in ResIds : \A x \in ResIds \ {s} : wres[t][x] = NoRow
    BY <1>7 DEF LifecycleInv, Fit, WritesFit
  <2>2. \A x \in ResIds \ {r} : res'[x] = res[x]
    BY <1>2, <1>5, <2>1
  <2> QED
    BY <1>1, <2>2 DEF SlotHolders, HoldsSlot, Exists
<1>10. Cardinality(SlotHolders(a)') <= Cardinality(SlotHolders(a)) + 1
  <2>1. /\ IsFiniteSet(SlotHolders(a) \cup {r})
        /\ Cardinality(SlotHolders(a) \cup {r}) = Cardinality(SlotHolders(a)) + 1
    BY <1>4, HoldersFinite, FS_AddElement
  <2> QED
    BY <1>9, <2>1, FS_Subset
<1>11. activity[a].cap \in Nat
  BY <1>8 DEF LifecycleInv, LifecycleTypeOK, TablesTyped, ActivityRow
<1>12. Cardinality(SlotHolders(a)') \in Nat /\ Cardinality(SlotHolders(a)) \in Nat
  <2>1. SlotHolders(a)' \subseteq ResIds
    BY DEF SlotHolders
  <2> QED
    BY <2>1, KeysAssumption, HoldersFinite, FS_Subset, FS_CardinalityType
<1> QED
  BY <1>8, <1>10, <1>11, <1>12

(* Neither a close nor a smaller capacity nor a deletion that lands between*)
(* the checks of a registration and its COMMIT is overlooked.              *)
THEOREM AdmissionsAreCurrent == LifecycleSpec => AdmissionRespectsActivity
<1>1. LifecycleInv /\ [LifecycleNext]_vars =>
        \A a \in Activities :
          (SlotHolders(a))' \ SlotHolders(a) # {} =>
            /\ activity[a] # NoRow
            /\ ~activity[a].closed
            /\ Cardinality((SlotHolders(a))') <= activity[a].cap
  BY AdmissionStep
<1>2. LifecycleInv /\ [LifecycleNext]_vars =>
        [\A a \in Activities :
           (SlotHolders(a))' \ SlotHolders(a) # {} =>
             /\ activity[a] # NoRow
             /\ ~activity[a].closed
             /\ Cardinality((SlotHolders(a))') <= activity[a].cap]_vars
  BY <1>1
<1> QED
  BY <1>2, LifecycleHolds, PTL DEF LifecycleSpec, AdmissionRespectsActivity

(* Closing and bulk completion keep to the state machine of the bookings,  *)
(* and so does everything that runs next to them.                          *)
THEOREM StatusesFollow == LifecycleSpec => StatusMachine
<1> DEFINE A == \A r \in ResIds :
       res'[r] # res[r] =>
         \/ res[r] = NoRow /\ res'[r].status \in SlotStatus
         \/ /\ res[r] # NoRow
            /\ res'[r] = [res[r] EXCEPT !.status = res'[r].status]
            /\ <<res[r].status, res'[r].status>> \in Transitions
<1>1. ASSUME LifecycleInv, [LifecycleNext]_vars PROVE A
  <2> SUFFICES ASSUME NEW r \in ResIds, res'[r] # res[r]
               PROVE  \/ res[r] = NoRow /\ res'[r].status \in SlotStatus
                      \/ /\ res[r] # NoRow
                         /\ res'[r] = [res[r] EXCEPT !.status = res'[r].status]
                         /\ <<res[r].status, res'[r].status>> \in Transitions
    OBVIOUS
  <2>1. PICK t \in Txs : Publish(t)
    BY <1>1, BookingsChange
  <2>2. wres[t][r] # NoRow /\ res'[r] = wres[t][r]
    BY <1>1, <2>1, PublishedRows DEF LifecycleInv
  <2>3. WaitsForCommit(t, r)
    BY <1>1, <2>2 DEF LifecycleInv, Fit, WritesFit
  <2>4. res'[r] \in ResRow /\ res[r] \in ResRow \cup {NoRow}
    BY <1>1, <2>2 DEF LifecycleInv, LifecycleTypeOK, TablesTyped, HandlersTyped
  <2> QED
    BY <2>2, <2>3, <2>4 DEF WaitsForCommit, ResRow
<1>2. LifecycleInv /\ [LifecycleNext]_vars => A
  BY <1>1
<1> HIDE DEF A
<1>3. LifecycleSpec => [][A]_vars
  BY <1>2, LifecycleHolds, PTL DEF LifecycleSpec
<1> QED
  BY <1>3 DEF StatusMachine, A

-----------------------------------------------------------------------------
(* Closing.  Who closes an activity has seen it end; who books it has seen *)
(* it before its start, and answers within Lag (close_activity.go:107-120, *)
(* register.go:165-171).  When requests do not last longer than activities,*)
(* nobody is still booking what somebody closes.                           *)

InTime(t) ==
  pc[t] # "idle" =>
    /\ req[t].op \in Ops /\ req[t].now \in Times
    /\ req[t].now <= clock /\ clock <= req[t].now + Lag

Closing(t) == pc[t] \in {"listToClose", "settle"}

BooksInTime(t) ==
  Registers(t) /\ pc[t] \in Admitting => req[t].now <= OpenActivity[req[t].act].date

ClosesInTime(t) ==
  Closing(t) =>
    LET date == OpenActivity[req[t].act].date IN
    mem[t].arow.date = date /\ date + Duration < req[t].now

DatesStay ==
  \A a \in Activities : activity[a] # NoRow => activity[a].date = OpenActivity[a].date

TimelyInv ==
  /\ \A t \in Txs : InTime(t) /\ BooksInTime(t) /\ ClosesInTime(t)
  /\ DatesStay

(* The frame of every statement.                                           *)
LEMMA StatementFrame ==
  ASSUME LifecycleTypeOK, NEW t \in Txs, Step(t) \/ LifecycleStep(t) \/ Abort(t)
  PROVE  /\ clock' = clock /\ pc[t] # "idle" /\ (pc'[t] = "idle" \/ req' = req)
         /\ \A u \in Txs \ {t} : /\ pc'[u] = pc[u] /\ req'[u] = req[u] /\ mem'[u] = mem[u]
                                 /\ wres'[u] = wres[u]
<1> DEFINE F == /\ clock' = clock /\ pc[t] # "idle" /\ (pc'[t] = "idle" \/ req' = req)
                /\ \A u \in Txs \ {t} : /\ pc'[u] = pc[u] /\ req'[u] = req[u]
                                        /\ mem'[u] = mem[u] /\ wres'[u] = wres[u]
<1> USE DEF LifecycleTypeOK, HandlersTyped, Goto, Remember, committed
<1>1. Release(t) => /\ pc'[t] = "idle"
                    /\ \A u \in Txs \ {t} : /\ pc'[u] = pc[u] /\ req'[u] = req[u]
                                            /\ mem'[u] = mem[u] /\ wres'[u] = wres[u]
  BY DEF Release
<1>2. Rollback(t) /\ pc[t] # "idle" => F
  BY <1>1 DEF Rollback
<1> HIDE DEF F
<1>3. ASSUME Abort(t) PROVE F
  BY <1>2, <1>3 DEF Abort
<1>4. ASSUME LockActivity(t) \/ ListHolders(t) \/ ReadDogs(t) PROVE F
  BY <1>2, <1>4 DEF F, LockActivity, ListHolders, ReadDogs
<1>5. ASSUME LockPassToConsume(t) \/ WriteConsumedPass(t) \/ InsertReservation(t) PROVE F
  BY <1>2, <1>5 DEF F, LockPassToConsume, WriteConsumedPass, WritePass, InsertReservation
<1>6. ASSUME LockReservation(t) \/ ReadActivity(t) \/ LockPassToRefund(t) PROVE F
  BY <1>2, <1>6 DEF F, LockReservation, ReadActivity, LockPassToRefund
<1>7. ASSUME WriteRefundedPass(t) \/ WriteReservation(t) \/ ReadPass(t) PROVE F
  BY <1>2, <1>7 DEF F, WriteRefundedPass, WritePass, WriteReservation, ReadPass
<1>8. ASSUME UpdatePass(t) \/ Commit(t) \/ UpdateActivity(t) \/ CommitRepair(t) PROVE F
  BY <1>1, <1>2, <1>8 DEF F, UpdatePass, Commit, UpdateActivity, CommitRepair
<1>9. ASSUME ReadActivityToClose(t) \/ ListToClose(t) \/ Settle(t) PROVE F
  BY <1>2, <1>9 DEF F, ReadActivityToClose, ListToClose, Settle
<1>10. ASSUME ReadActivityToModify(t) \/ CountActive(t) \/ DeleteActivity(t) \/ DeleteDog(t)
       PROVE  F
  BY <1>2, <1>10 DEF F, ReadActivityToModify, CountActive, DeleteActivity, DeleteDog
<1>11. ASSUME WriteModified(t) \/ CascadeActivity(t) \/ CascadeDog(t) \/ EditDog(t) PROVE F
  BY <1>1, <1>2, <1>11 DEF F, WriteModified, CascadeActivity, CascadeDog, EditDog
<1>12. F
  BY <1>3, <1>4, <1>5, <1>6, <1>7, <1>8, <1>9, <1>10, <1>11 DEF Step, LifecycleStep, F
<1> QED
  BY <1>12 DEF F

(* A step is a statement, a new request, a tick of the clock or nothing.   *)
LEMMA StepKinds ==
  ASSUME LifecycleTypeOK, [LifecycleNext]_vars
  PROVE  \/ \E t \in Txs : Step(t) \/ LifecycleStep(t) \/ Abort(t)
         \/ \E t \in Txs, q \in LifecycleRequests, step \in LifecycleSteps :
              /\ Accept(t, q, step) /\ q.op \in Ops /\ q.now = clock
              /\ step \in {"lockActivity", "lockReservation", "readPass",
                           "readActivityToClose", "readActivityToModify", "countActive",
                           "deleteDog", "editDog"}
         \/ Tick
         \/ UNCHANGED vars
<1>1. ASSUME NEW t \in Txs, Begin(t)
      PROVE \E q \in LifecycleRequests :
              /\ Accept(t, q, FirstStep(q.op)) /\ q.op \in Ops /\ q.now = clock
              /\ FirstStep(q.op) \in {"lockActivity", "lockReservation", "readPass"}
  BY <1>1 DEF Begin, FirstStep, LifecycleRequests, Requests
<1>2. ASSUME NEW t \in Txs, BeginLifecycle(t)
      PROVE \E q \in LifecycleRequests :
              /\ Accept(t, q, FirstLifecycleStep(q.op)) /\ q.op \in Ops /\ q.now = clock
              /\ FirstLifecycleStep(q.op) \in {"readActivityToClose", "readActivityToModify",
                                               "countActive", "deleteDog", "editDog"}
  BY <1>2, KindsOfRequests DEF BeginLifecycle, FirstLifecycleStep, LifecycleRequests
<1>3. {"lockActivity", "lockReservation", "readPass", "readActivityToClose",
       "readActivityToModify", "countActive", "deleteDog", "editDog"} \subseteq LifecycleSteps
  BY DEF LifecycleSteps, Steps
<1> QED
  BY <1>1, <1>2, <1>3 DEF LifecycleNext, Next

LEMMA TimeFlows ==
  ASSUME LifecycleInv, \A t \in Txs : InTime(t), [LifecycleNext]_vars, NEW u \in Txs
  PROVE  InTime(u)'
<1> USE BookingAssumption
<1>1. LifecycleTypeOK /\ clock \in Nat
  BY DEF LifecycleInv, LifecycleTypeOK, TablesTyped
<1>2. CASE \E t \in Txs : Step(t) \/ LifecycleStep(t) \/ Abort(t)
  BY <1>1, <1>2, StatementFrame DEF InTime
<1>3. ASSUME NEW t \in Txs, NEW q \in LifecycleRequests, NEW step,
             Accept(t, q, step), q.op \in Ops, q.now = clock
      PROVE  InTime(u)'
  <2>1. clock' = clock /\ clock \in Times
    BY <1>3 DEF Accept, committed, LifecycleInv, LifecycleTypeOK, TablesTyped
  <2>2. CASE u = t
    BY <1>1, <1>3, <2>1, <2>2 DEF Accept, Goto, InTime, LifecycleTypeOK, HandlersTyped
  <2>3. CASE u # t
    BY <1>1, <1>3, <2>1, <2>3 DEF Accept, Goto, InTime, LifecycleTypeOK, HandlersTyped
  <2> QED
    BY <2>2, <2>3
<1>4. CASE Tick
  <2>1. /\ clock' = clock + 1 /\ pc' = pc /\ req' = req
        /\ pc[u] # "idle" => clock - req[u].now < Lag
    BY <1>4 DEF Tick, InFlight, handler
  <2> SUFFICES ASSUME pc[u] # "idle"
               PROVE  /\ req[u].op \in Ops /\ req[u].now \in Times
                      /\ req[u].now <= clock + 1 /\ clock + 1 <= req[u].now + Lag
    BY <2>1 DEF InTime
  <2>2. /\ req[u].op \in Ops /\ req[u].now \in Times
        /\ req[u].now <= clock /\ req[u].now \in Nat /\ Lag \in Nat
    BY DEF InTime
  <2> QED
    BY <1>1, <2>1, <2>2
<1>5. CASE UNCHANGED vars
  BY <1>5 DEF vars, committed, handler, InTime
<1> QED
  BY <1>1, <1>2, <1>3, <1>4, <1>5, StepKinds

LEMMA ComesToAdmit ==
  ASSUME LifecycleInv, NEW t \in Txs, Step(t) \/ LifecycleStep(t) \/ Abort(t),
         Registers(t), pc'[t] \in Admitting
  PROVE  \/ pc[t] \in Admitting
         \/ pc[t] = "lockActivity" /\ Bookable(req[t].act, req[t].now)
<1>1. pc[t] \in {"lockActivity"} \cup Admitting
  <2>1. pc[t] \in LifecycleSteps /\ pc[t] # "idle"
    BY StatementFrame DEF LifecycleInv, LifecycleTypeOK, HandlersTyped
  <2> QED
    BY <2>1, KindOf DEF LifecycleInv, LifecycleSteps, Steps, Admitting
<1>2. pc[t] = "lockActivity" => LockActivity(t) \/ Rollback(t)
  BY DEF Step, ListHolders, ReadDogs, LockPassToConsume, WriteConsumedPass, InsertReservation,
         LockReservation, ReadActivity, LockPassToRefund, WriteRefundedPass,
         WriteReservation, ReadPass, UpdatePass, Commit, LifecycleStep, ReadActivityToClose,
         ListToClose, Settle, UpdateActivity, CommitRepair, ReadActivityToModify,
         WriteModified, CountActive, DeleteActivity, CascadeActivity, DeleteDog, CascadeDog,
         EditDog, Abort
<1>3. ~Rollback(t)
  BY DEF Rollback, Release, Goto, Admitting, LifecycleInv, LifecycleTypeOK, HandlersTyped
<1> QED
  BY <1>1, <1>2, <1>3 DEF LockActivity

LEMMA ComesToClose ==
  ASSUME LifecycleInv, NEW t \in Txs, Step(t) \/ LifecycleStep(t) \/ Abort(t),
         Closing(t)'
  PROVE  \/ /\ pc[t] = "readActivityToClose" /\ mem'[t].arow = activity[req[t].act]
            /\ activity[req[t].act] # NoRow
            /\ IsFinished(activity[req[t].act], req[t].now)
         \/ Closing(t) /\ mem'[t].arow = mem[t].arow
<1> DEFINE G == \/ /\ pc[t] = "readActivityToClose" /\ mem'[t].arow = activity[req[t].act]
                   /\ activity[req[t].act] # NoRow
                   /\ IsFinished(activity[req[t].act], req[t].now)
                \/ Closing(t) /\ mem'[t].arow = mem[t].arow
<1> USE DEF LifecycleInv, LifecycleTypeOK, HandlersTyped, Goto, Closing, Remember
<1>1. ~Release(t) /\ ~Rollback(t)
  BY DEF Release, Rollback
<1>2. mem[t] \in Memory
  OBVIOUS
<1>3. CASE ReadActivityToClose(t)
  BY <1>1, <1>2, <1>3 DEF ReadActivityToClose, Memory
<1>4. CASE ListToClose(t) \/ Settle(t)
  BY <1>1, <1>2, <1>4 DEF ListToClose, Settle, Memory
<1>5. CASE Step(t)
  BY <1>1, <1>5 DEF Step, LockActivity, ListHolders, ReadDogs, LockPassToConsume,
         WriteConsumedPass, WritePass, InsertReservation,
         LockReservation, AfterLock, ReadActivity, LockPassToRefund, WriteRefundedPass,
         WriteReservation, ReadPass, UpdatePass, Commit
<1>6. CASE /\ LifecycleStep(t) /\ ~ReadActivityToClose(t) /\ ~ListToClose(t) /\ ~Settle(t)
  BY <1>1, <1>6 DEF LifecycleStep, UpdateActivity, CommitRepair, ReadActivityToModify,
         WriteModified, CountActive, DeleteActivity, CascadeActivity, DeleteDog, CascadeDog,
         EditDog
<1> QED
  BY <1>1, <1>3, <1>4, <1>5, <1>6 DEF Abort

(* Nobody moves the date of an activity.                                   *)
LEMMA DatesKept ==
  ASSUME LifecycleInv, TimelyInv, "modifyActivity" \notin Ops, [LifecycleNext]_vars
  PROVE  DatesStay'
<1>1. ASSUME NEW t \in Txs, Step(t) \/ Abort(t) \/ (LifecycleStep(t) /\ ~UpdateActivity(t)
                              /\ ~WriteModified(t) /\ ~CascadeActivity(t))
      PROVE  activity' = activity
  BY <1>1 DEF Step, LockActivity, ListHolders, ReadDogs, LockPassToConsume,
         WriteConsumedPass, WritePass, InsertReservation,
         LockReservation, ReadActivity, LockPassToRefund, WriteRefundedPass,
         WriteReservation, ReadPass, UpdatePass, Commit, LifecycleStep, ReadActivityToClose,
         ListToClose, Settle, CommitRepair, ReadActivityToModify,
         CountActive, DeleteActivity, DeleteDog, CascadeDog,
         EditDog, Abort, Rollback, committed
<1>2. ASSUME NEW t \in Txs, UpdateActivity(t) PROVE DatesStay'
  <2>1. activity' = activity \/
        activity' = [activity EXCEPT ![req[t].act] = [mem[t].arow EXCEPT !.closed = TRUE]]
    BY <1>2 DEF UpdateActivity, Rollback, committed
  <2>2. mem[t].arow \in ActivityRow /\ mem[t].arow.date = OpenActivity[req[t].act].date
    BY <1>2 DEF UpdateActivity, LifecycleInv, Fit, Remembers, TimelyInv, ClosesInTime, Closing
  <2>3. [mem[t].arow EXCEPT !.closed = TRUE].date = mem[t].arow.date
    BY <2>2 DEF ActivityRow
  <2>4. activity \in [Activities -> ActivityRow \cup {NoRow}] /\ DatesStay
    BY DEF LifecycleInv, LifecycleTypeOK, TablesTyped, TimelyInv
  <2> QED
    BY <2>1, <2>2, <2>3, <2>4 DEF DatesStay
<1>3. ASSUME NEW t \in Txs, WriteModified(t) PROVE FALSE
  <2>1. req[t].op = "modifyActivity"
    BY <1>3, KindsOfRequests DEF WriteModified, LifecycleInv, Fit, LifecycleFits
  <2>2. req[t].op \in Ops
    BY <1>3 DEF WriteModified, TimelyInv, InTime
  <2> QED
    BY <2>1, <2>2
<1>4. ASSUME NEW t \in Txs, CascadeActivity(t) PROVE DatesStay'
  BY <1>4 DEF CascadeActivity, DatesStay, TimelyInv, LifecycleInv, LifecycleTypeOK, TablesTyped
<1>5. CASE UNCHANGED activity
  BY <1>5 DEF DatesStay, TimelyInv
<1>6. CASE \E t \in Txs : Step(t) \/ LifecycleStep(t) \/ Abort(t)
  BY <1>1, <1>2, <1>3, <1>4, <1>5, <1>6
<1>7. CASE \E t \in Txs, q \in LifecycleRequests, step \in LifecycleSteps : Accept(t, q, step)
  BY <1>5, <1>7 DEF Accept, committed
<1>8. CASE Tick \/ UNCHANGED vars
  BY <1>5, <1>8 DEF Tick, vars, committed
<1> QED
  BY <1>6, <1>7, <1>8, StepKinds DEF LifecycleInv

LEMMA TimelyKeeps ==
  ASSUME LifecycleInv, TimelyInv, "modifyActivity" \notin Ops, [LifecycleNext]_vars
  PROVE  TimelyInv'
<1>1. LifecycleTypeOK /\ DatesStay
  BY DEF LifecycleInv, TimelyInv
<1>2. ASSUME NEW u \in Txs PROVE InTime(u)'
  BY TimeFlows DEF TimelyInv
<1>3. ASSUME NEW t \in Txs, Step(t) \/ LifecycleStep(t) \/ Abort(t), NEW u \in Txs
      PROVE  BooksInTime(u)' /\ ClosesInTime(u)'
  <2>1. BooksInTime(u) /\ ClosesInTime(u)
    BY DEF TimelyInv
  <2>2. CASE u # t
    BY <1>1, <1>3, <2>1, <2>2, StatementFrame
    DEF BooksInTime, ClosesInTime, Registers, Closing
  <2>3. CASE u = t /\ pc'[t] = "idle"
    BY <2>3 DEF BooksInTime, ClosesInTime, Admitting, Closing
  <2>4. CASE u = t /\ pc'[t] # "idle"
    <3>1. req' = req
      BY <1>1, <1>3, <2>4, StatementFrame
    <3>2. BooksInTime(t)'
      <4> SUFFICES ASSUME Registers(t), pc'[t] \in Admitting
                   PROVE  req[t].now <= OpenActivity[req[t].act].date
        BY <3>1 DEF BooksInTime, Registers
      <4>1. CASE pc[t] \in Admitting
        BY <2>1, <2>4, <4>1 DEF BooksInTime
      <4>2. CASE pc[t] = "lockActivity" /\ Bookable(req[t].act, req[t].now)
        <5>1. /\ req[t].act \in Activities /\ activity[req[t].act] \in ActivityRow
              /\ req[t].now \in Nat
          <6>1. req[t].act \in Activities /\ activity[req[t].act] # NoRow
            BY <4>2, KindOf DEF LifecycleInv, Bookable
          <6>2. req[t].now \in Times
            BY <4>2 DEF TimelyInv, InTime
          <6> QED
            BY <6>1, <6>2, BookingAssumption DEF LifecycleInv, LifecycleTypeOK, TablesTyped
        <5>2. activity[req[t].act].date = OpenActivity[req[t].act].date
              /\ ~(activity[req[t].act].date < req[t].now)
          BY <1>1, <4>2, <5>1 DEF Bookable, IsInThePast, DatesStay
        <5> QED
          BY <5>1, <5>2 DEF ActivityRow
      <4> QED
        BY <1>3, <4>1, <4>2, ComesToAdmit
    <3>3. ClosesInTime(t)'
      <4> SUFFICES ASSUME Closing(t)'
                   PROVE  LET date == OpenActivity[req[t].act].date IN
                          mem'[t].arow.date = date /\ date + Duration < req[t].now
        BY <3>1 DEF ClosesInTime
      <4>1. CASE Closing(t) /\ mem'[t].arow = mem[t].arow
        BY <2>1, <2>4, <4>1 DEF ClosesInTime
      <4>2. CASE /\ pc[t] = "readActivityToClose" /\ mem'[t].arow = activity[req[t].act]
                 /\ activity[req[t].act] # NoRow
                 /\ IsFinished(activity[req[t].act], req[t].now)
        <5>1. req[t].act \in Activities
          BY <4>2, KindsOfRequests DEF LifecycleInv, Fit, LifecycleFits
        <5> QED
          BY <1>1, <4>2, <5>1 DEF IsFinished, DatesStay
      <4> QED
        BY <1>3, <4>1, <4>2, ComesToClose
    <3> QED
      BY <2>4, <3>2, <3>3
  <2> QED
    BY <2>2, <2>3, <2>4
<1>4. ASSUME NEW t \in Txs, NEW q \in LifecycleRequests, NEW step \in LifecycleSteps,
             Accept(t, q, step), NEW u \in Txs,
             step \notin Admitting \cup {"listToClose", "settle"}
      PROVE  BooksInTime(u)' /\ ClosesInTime(u)'
  <2>1. /\ pc'[t] = step /\ mem' = mem
        /\ \A v \in Txs \ {t} : pc'[v] = pc[v] /\ req'[v] = req[v]
    BY <1>1, <1>4 DEF Accept, Goto, LifecycleTypeOK, HandlersTyped
  <2> QED
    BY <1>4, <2>1 DEF TimelyInv, BooksInTime, ClosesInTime, Registers, Closing
<1>5. CASE \E t \in Txs, q \in LifecycleRequests, step \in LifecycleSteps :
              /\ Accept(t, q, step)
              /\ step \in {"lockActivity", "lockReservation", "readPass",
                           "readActivityToClose", "readActivityToModify", "countActive",
                           "deleteDog", "editDog"}
  BY <1>2, <1>4, <1>5, DatesKept DEF TimelyInv, Admitting
<1>6. CASE Tick \/ UNCHANGED vars
  <2>1. UNCHANGED <<pc, req, mem>>
    BY <1>6 DEF Tick, vars, handler
  <2> QED
    BY <1>2, <2>1, DatesKept DEF TimelyInv, BooksInTime, ClosesInTime, Registers, Closing
<1>7. CASE \E t \in Txs : Step(t) \/ LifecycleStep(t) \/ Abort(t)
  BY <1>2, <1>3, <1>7, DatesKept DEF TimelyInv
<1> QED
  BY <1>1, <1>5, <1>6, <1>7, StepKinds

LEMMA TimelyStarts == Init => TimelyInv
BY DEF Init, TimelyInv, InTime, BooksInTime, ClosesInTime, DatesStay, Admitting, Closing

LEMMA NobodyBooksWhatCloses ==
  ASSUME LifecycleInv, TimelyInv, Lag <= Duration, NEW t \in Txs, NEW u \in Txs,
         Registers(t), pc[t] \in Admitting, Closing(u), req[u].act = req[t].act
  PROVE  FALSE
<1> DEFINE date == OpenActivity[req[t].act].date
<1>1. date \in Int
  BY KindOf, BookingAssumption DEF LifecycleInv, ActivityRow
<1>2. req[t].now <= date /\ date + Duration < req[u].now
  BY DEF TimelyInv, BooksInTime, ClosesInTime
<1>3. /\ req[t].now \in Times /\ clock <= req[t].now + Lag
      /\ req[u].now \in Times /\ req[u].now <= clock
  BY DEF TimelyInv, InTime, Admitting, Closing
<1>4. clock \in Times
  BY DEF LifecycleInv, LifecycleTypeOK, TablesTyped
<1>5. Times \subseteq Nat /\ Lag \in Nat /\ Duration \in Nat
  BY BookingAssumption
<1>6. req[t].now \in Nat /\ req[u].now \in Nat /\ clock \in Nat
  BY <1>3, <1>4, <1>5
<1>7. clock <= req[t].now + Lag /\ req[u].now <= clock
  BY <1>3
<1> HIDE DEF date
<1> QED
  BY <1>1, <1>2, <1>5, <1>6, <1>7

(* A booking keeps its activity.                                           *)
LEMMA BookingKeepsActivity ==
  ASSUME LifecycleInv, [LifecycleNext]_vars, NEW r \in ResIds, res[r] # NoRow
  PROVE  res'[r] # NoRow /\ res'[r].act = res[r].act
<1>1. CASE res' = res
  BY <1>1
<1>2. ASSUME NEW t \in Txs, Publish(t)
      PROVE  res'[r] # NoRow /\ res'[r].act = res[r].act
  <2>1. res'[r] = IF wres[t][r] # NoRow THEN wres[t][r] ELSE res[r]
    BY <1>2, PublishedRows DEF LifecycleInv
  <2>2. wres[t][r] # NoRow => WaitsForCommit(t, r)
    BY DEF LifecycleInv, Fit, WritesFit
  <2> QED
    BY <2>1, <2>2 DEF WaitsForCommit
<1> QED
  BY <1>1, <1>2, BookingsChange

-----------------------------------------------------------------------------
(* Which bookings of a closed activity are CONFIRMED, whatever the         *)
(* operations and however long they last.                                  *)

(* An activity is closed, is being closed by a handler that has listed its *)
(* bookings, or is about to be written back closed by an edit.             *)
Late(a) ==
  \/ activity[a] # NoRow /\ activity[a].closed
  \/ \E t \in Txs : /\ req[t].act = a
                    /\ \/ pc[t] = "settle"
                       \/ pc[t] = "writeModified" /\ mem[t].arow.closed

Latecomers == {r \in ResIds : \E a \in Activities : r \in Confirmed(a)' \ Confirmed(a) /\ Late(a)}

VARIABLE late   \* history: the bookings that became CONFIRMED in an activity that was Late

Note == late' = late \cup Latecomers

Watching == late = {} /\ [][Note]_<<vars, late>>

Watched ==
  /\ late \subseteq late'
  /\ \A a \in Activities : Late(a) => Confirmed(a)' \subseteq Confirmed(a) \cup late'

(* What a close has still to settle, what it has settled, and what an edit *)
(* is going to write back.                                                 *)
Settles(t) ==
  /\ pc[t] = "settle" =>
       /\ \A r \in ResIds : wres[t][r] # NoRow => wres[t][r].status # "CONFIRMED"
       /\ \A r \in Confirmed(req[t].act) : r \in mem[t].todo \cup late \/ wres[t][r] # NoRow
  /\ pc[t] = "writeModified" /\ mem[t].arow.closed => Confirmed(req[t].act) \subseteq late

OnlyLatecomers ==
  \A a \in Activities : activity[a] # NoRow /\ activity[a].closed => Confirmed(a) \subseteq late

SettledInv == OnlyLatecomers /\ \A t \in Txs : Settles(t)

LEMMA WatchingSteps == [Note]_<<vars, late>> => Watched
<1> SUFFICES ASSUME [Note]_<<vars, late>> PROVE Watched
  OBVIOUS
<1>1. CASE UNCHANGED <<vars, late>>
  BY <1>1 DEF vars, committed, Watched, Confirmed, RowsOfActivity, Exists
<1>2. CASE Note
  <2>1. \A a \in Activities : Confirmed(a)' \subseteq ResIds
    BY DEF Confirmed, RowsOfActivity
  <2> QED
    BY <1>2, <2>1 DEF Note, Latecomers, Watched
<1> QED
  BY <1>1, <1>2

(* What others do leaves a handler what it has still to settle.            *)
LEMMA OthersLeaveSettles ==
  ASSUME LifecycleInv, Watched, NEW u \in Txs, Settles(u),
         pc'[u] = pc[u], req'[u] = req[u], mem'[u] = mem[u], wres'[u] = wres[u]
  PROVE  Settles(u)'
<1> SUFFICES ASSUME pc[u] \in {"settle", "writeModified"} PROVE Settles(u)'
  BY DEF Settles
<1> DEFINE a == req[u].act
<1>1. a \in Activities
  BY KindsOfRequests DEF LifecycleInv, Fit, LifecycleFits
<1>2. Confirmed(req[u].act)' = Confirmed(a)'
  OBVIOUS
<1>3. late \subseteq late'
  BY DEF Watched
<1>4. CASE pc[u] = "settle"
  <2>1. Late(a)
    BY <1>4 DEF Late
  <2>2. Confirmed(a)' \subseteq Confirmed(a) \cup late'
    BY <1>1, <2>1 DEF Watched
  <2> HIDE DEF a
  <2>3. \A r \in Confirmed(req[u].act)' : r \in mem[u].todo \cup late' \/ wres[u][r] # NoRow
    BY <1>2, <1>3, <1>4, <2>2 DEF Settles, a
  <2> QED
    BY <1>4, <2>3 DEF Settles
<1>5. CASE pc[u] = "writeModified" /\ mem[u].arow.closed
  <2>1. Late(a)
    BY <1>5 DEF Late
  <2>2. Confirmed(a)' \subseteq Confirmed(a) \cup late'
    BY <1>1, <2>1 DEF Watched
  <2> HIDE DEF a
  <2>3. Confirmed(req[u].act)' \subseteq late'
    BY <1>2, <1>3, <1>5, <2>2 DEF Settles, a
  <2> QED
    BY <1>5, <2>3 DEF Settles
<1> QED
  BY <1>4, <1>5 DEF Settles

LEMMA SettlesKept ==
  ASSUME LifecycleInv, SettledInv, Watched, NEW t \in Txs,
         Step(t) \/ LifecycleStep(t) \/ Abort(t)
  PROVE  Settles(t)'
<1> SUFFICES ASSUME pc'[t] \in {"settle", "writeModified"} PROVE Settles(t)'
  BY DEF Settles
<1> USE DEF LifecycleInv, LifecycleTypeOK, HandlersTyped, Goto, Remember
<1>1. ~Release(t) /\ ~Rollback(t)
  BY DEF Release, Rollback
<1>2. mem[t] \in Memory /\ late \subseteq late'
  BY DEF Watched
<1>3. CASE ListToClose(t)
  <2> DEFINE m == [mem[t] EXCEPT !.todo = Confirmed(req[t].act)]
  <2>1. mem'[t] = m /\ UNCHANGED <<committed, req, wres>> /\ pc[t] = "listToClose"
        /\ pc'[t] = "settle"
    BY <1>1, <1>3 DEF ListToClose
  <2>2. mem'[t].todo = Confirmed(req[t].act)
    BY <1>2, <2>1 DEF Memory
  <2>3. wres'[t] = NoWrites
    BY <2>1 DEF Fit, WritesFit
  <2>4. Confirmed(req[t].act)' = Confirmed(req[t].act)
    BY <2>1 DEF Confirmed, RowsOfActivity, Exists, committed
  <2> QED
    BY <2>1, <2>2, <2>3, <2>4 DEF Settles, NoWrites
<1>4. CASE Settle(t)
  <2> DEFINE r == NextToSettle(t)
             m == [mem[t] EXCEPT !.todo = mem[t].todo \ {r}]
             row == [res[r] EXCEPT !.status = Settled(t, r)]
  <2>1. /\ pc[t] = "settle" /\ mem'[t] = m /\ UNCHANGED <<committed, req, pc>>
        /\ mem[t].todo # {} /\ StillSettles(t, r)
        /\ wres' = [wres EXCEPT ![t][r] = row]
    BY <1>1, <1>4 DEF Settle
  <2>2. r \in ResIds
    BY <1>2, <2>1, NextIsListed DEF Memory
  <2>3. row \in ResRow /\ row.status # "CONFIRMED"
    <3>1. res[r] \in ResRow /\ Settled(t, r) \in Status /\ Settled(t, r) # "CONFIRMED"
      BY <2>1, <2>2 DEF StillSettles, Exists, TablesTyped, Settled, Status
    <3> QED
      BY <3>1 DEF ResRow
  <2>4. row # NoRow
    BY <2>3, BookingAssumption
  <2> HIDE DEF row
  <2>5. wres'[t][r] = row /\ \A s \in ResIds \ {r} : wres'[t][s] = wres[t][s]
    BY <2>1, <2>2
  <2>6. mem'[t].todo = mem[t].todo \ {r}
    BY <1>2, <2>1 DEF Memory
  <2>7. Confirmed(req[t].act)' = Confirmed(req[t].act)
    BY <2>1 DEF Confirmed, RowsOfActivity, Exists, committed
  <2>8. Confirmed(req[t].act) \subseteq ResIds
    BY DEF Confirmed, RowsOfActivity
  <2>9. Settles(t)
    BY DEF SettledInv
  <2> HIDE DEF r
  <2>10. \A s \in ResIds : wres'[t][s] # NoRow => wres'[t][s].status # "CONFIRMED"
    BY <2>1, <2>3, <2>5, <2>9 DEF Settles
  <2>11. \A s \in Confirmed(req[t].act)' : s \in mem'[t].todo \cup late' \/ wres'[t][s] # NoRow
    BY <1>2, <2>1, <2>4, <2>5, <2>6, <2>7, <2>8, <2>9 DEF Settles
  <2> QED
    BY <2>1, <2>10, <2>11 DEF Settles
<1>5. CASE ReadActivityToModify(t)
  <2> DEFINE a == req[t].act
             m == [mem[t] EXCEPT !.arow = PatchedActivity(activity[a], req[t])]
  <2>1. /\ pc[t] = "readActivityToModify" /\ activity[a] # NoRow
        /\ UNCHANGED <<committed, req>> /\ pc'[t] = "writeModified"
        /\ mem'[t] = m
    BY <1>1, <1>5 DEF ReadActivityToModify
  <2>2. a \in Activities
    BY <2>1, KindsOfRequests DEF Fit, LifecycleFits
  <2>3. mem'[t].arow = PatchedActivity(activity[a], req[t])
    BY <1>2, <2>1 DEF Memory
  <2>4. activity[a] \in ActivityRow
    BY <2>1, <2>2 DEF TablesTyped
  <2>5. PatchedActivity(activity[a], req[t]).closed = activity[a].closed
    BY <2>4 DEF PatchedActivity, ActivityRow
  <2>6. Confirmed(req[t].act)' = Confirmed(a)
    BY <2>1 DEF Confirmed, RowsOfActivity, Exists, committed
  <2>7. activity[a].closed => Confirmed(a) \subseteq late
    BY <2>1, <2>2 DEF SettledInv, OnlyLatecomers
  <2> HIDE DEF a
  <2> QED
    BY <1>2, <2>1, <2>3, <2>5, <2>6, <2>7 DEF Settles
<1>6. CASE Step(t)
  <2>1. pc[t] \notin {"settle", "writeModified"}
    BY <1>6
    DEF Step, LockActivity, ListHolders, ReadDogs, LockPassToConsume,
        WriteConsumedPass, InsertReservation, LockReservation, ReadActivity,
        LockPassToRefund, WriteRefundedPass, WriteReservation, ReadPass, UpdatePass, Commit
  <2> QED
    BY <1>1, <1>6, <2>1 DEF Step, LockActivity, ListHolders, ReadDogs, LockPassToConsume,
         WriteConsumedPass, WritePass, InsertReservation,
         LockReservation, AfterLock, ReadActivity, LockPassToRefund, WriteRefundedPass,
         WriteReservation, ReadPass, UpdatePass, Commit
<1>7. CASE LifecycleStep(t) /\ ~ListToClose(t) /\ ~Settle(t) /\ ~ReadActivityToModify(t)
  BY <1>1, <1>7
  DEF LifecycleStep, ReadActivityToClose, UpdateActivity, CommitRepair,
      WriteModified, CountActive, DeleteActivity, CascadeActivity,
      DeleteDog, CascadeDog, EditDog
<1> QED
  BY <1>1, <1>3, <1>4, <1>5, <1>6, <1>7 DEF Abort

(* An activity is closed by a close that has settled everything it listed, *)
(* or by an edit that writes back a closed copy.                           *)
LEMMA ActivityCloses ==
  ASSUME LifecycleInv, [LifecycleNext]_vars,
         NEW a \in Activities, activity'[a] # NoRow, activity'[a].closed
  PROVE  \/ activity[a] # NoRow /\ activity[a].closed
         \/ \E t \in Txs : /\ Publish(t) /\ pc[t] = "settle" /\ mem[t].todo = {}
                           /\ req[t].act = a /\ gone' = gone
         \/ \E t \in Txs : /\ pc[t] = "writeModified" /\ req[t].act = a
                           /\ mem[t].arow.closed /\ UNCHANGED <<res, gone>>
<1>1. CASE activity' = activity
  BY <1>1
<1>2. ASSUME NEW t \in Txs, Step(t) \/ Abort(t) \/ (LifecycleStep(t) /\ ~UpdateActivity(t)
                              /\ ~WriteModified(t) /\ ~CascadeActivity(t))
      PROVE  activity' = activity
  BY <1>2 DEF Step, LockActivity, ListHolders, ReadDogs, LockPassToConsume,
         WriteConsumedPass, WritePass, InsertReservation,
         LockReservation, ReadActivity, LockPassToRefund, WriteRefundedPass,
         WriteReservation, ReadPass, UpdatePass, Commit, LifecycleStep, ReadActivityToClose,
         ListToClose, Settle, CommitRepair, ReadActivityToModify,
         CountActive, DeleteActivity, DeleteDog, CascadeDog,
         EditDog, Abort, Rollback, committed
<1>3. activity \in [Activities -> ActivityRow \cup {NoRow}]
  BY DEF LifecycleInv, LifecycleTypeOK, TablesTyped
<1>4. ASSUME NEW t \in Txs, UpdateActivity(t), activity' # activity, activity'[a] # activity[a]
      PROVE  /\ Publish(t) /\ pc[t] = "settle" /\ mem[t].todo = {}
             /\ req[t].act = a /\ gone' = gone
  <2>1. ~Rollback(t)
    BY <1>4 DEF Rollback, committed
  <2>2. /\ Publish(t) /\ pc[t] = "settle" /\ mem[t].todo = {} /\ gone' = gone
        /\ activity' = [activity EXCEPT ![req[t].act] = [mem[t].arow EXCEPT !.closed = TRUE]]
    BY <1>4, <2>1 DEF UpdateActivity
  <2> QED
    BY <1>3, <1>4, <2>2
<1>5. ASSUME NEW t \in Txs, WriteModified(t), activity'[a] # activity[a]
      PROVE  /\ pc[t] = "writeModified" /\ req[t].act = a /\ mem[t].arow.closed
             /\ UNCHANGED <<res, gone>>
  <2>1. ~Rollback(t)
    BY <1>5 DEF Rollback, committed
  <2>2. /\ pc[t] = "writeModified" /\ UNCHANGED <<res, gone>>
        /\ activity' = [activity EXCEPT ![req[t].act] = mem[t].arow]
    BY <1>5, <2>1 DEF WriteModified
  <2> QED
    BY <1>3, <1>5, <2>2
<1>6. ASSUME NEW t \in Txs, CascadeActivity(t) PROVE activity'[a] = activity[a]
  BY <1>3, <1>6 DEF CascadeActivity
<1>7. CASE \E t \in Txs : Step(t) \/ LifecycleStep(t) \/ Abort(t)
  BY <1>1, <1>2, <1>4, <1>5, <1>6, <1>7
<1>8. CASE \E t \in Txs, q \in LifecycleRequests, step \in LifecycleSteps : Accept(t, q, step)
  BY <1>1, <1>8 DEF Accept, committed
<1>9. CASE Tick \/ UNCHANGED vars
  BY <1>1, <1>9 DEF Tick, vars, committed
<1> QED
  BY <1>7, <1>8, <1>9, StepKinds DEF LifecycleInv

LEMMA ClosedStaysSettled ==
  ASSUME LifecycleInv, SettledInv, Watched, [LifecycleNext]_vars
  PROVE  OnlyLatecomers'
<1> SUFFICES ASSUME NEW a \in Activities, activity'[a] # NoRow, activity'[a].closed,
                    NEW r \in Confirmed(a)'
             PROVE  r \in late'
  BY DEF OnlyLatecomers
<1>1. r \in ResIds /\ res'[r].status = "CONFIRMED"
  BY DEF Confirmed, RowsOfActivity
<1>2. (\A t \in Txs : Settles(t)) /\ late \subseteq late'
  BY DEF SettledInv, Watched
<1>3. Late(a) => r \in Confirmed(a) \cup late'
  BY DEF Watched
<1>4. CASE activity[a] # NoRow /\ activity[a].closed
  BY <1>2, <1>3, <1>4 DEF SettledInv, OnlyLatecomers, Late
<1>5. ASSUME NEW t \in Txs, Publish(t), pc[t] = "settle", mem[t].todo = {}, req[t].act = a
      PROVE  r \in late'
  <2>1. Late(a)
    BY <1>5 DEF Late
  <2> SUFFICES ASSUME r \in Confirmed(a), r \notin late PROVE FALSE
    BY <1>2, <1>3, <2>1
  <2>2. wres[t][r] # NoRow /\ wres[t][r].status # "CONFIRMED"
    BY <1>1, <1>2, <1>5 DEF Settles
  <2>3. res'[r] = wres[t][r]
    BY <1>1, <1>5, <2>2, PublishedRows DEF LifecycleInv
  <2> QED
    BY <1>1, <2>2, <2>3
<1>6. ASSUME NEW t \in Txs, pc[t] = "writeModified", req[t].act = a, mem[t].arow.closed
      PROVE  r \in late'
  BY <1>2, <1>3, <1>6 DEF Late, Settles
<1> QED
  BY <1>4, <1>5, <1>6, ActivityCloses

LEMMA SettledKeeps ==
  ASSUME LifecycleInv, SettledInv, Watched, [LifecycleNext]_vars
  PROVE  SettledInv'
<1>1. LifecycleTypeOK /\ \A t \in Txs : Settles(t)
  BY DEF LifecycleInv, SettledInv
<1>2. ASSUME NEW t \in Txs, Step(t) \/ LifecycleStep(t) \/ Abort(t), NEW u \in Txs
      PROVE  Settles(u)'
  BY <1>1, <1>2, StatementFrame, OthersLeaveSettles, SettlesKept
<1>3. ASSUME NEW t \in Txs, NEW q \in LifecycleRequests, NEW step \in LifecycleSteps,
             Accept(t, q, step), step \notin {"settle", "writeModified"}, NEW u \in Txs
      PROVE  Settles(u)'
  <2>1. /\ pc'[t] = step /\ mem' = mem /\ wres' = wres
        /\ \A v \in Txs \ {t} : pc'[v] = pc[v] /\ req'[v] = req[v]
    BY <1>1, <1>3 DEF Accept, Goto, LifecycleTypeOK, HandlersTyped
  <2>2. CASE u # t
    BY <1>1, <2>1, <2>2, OthersLeaveSettles
  <2>3. CASE u = t
    BY <1>3, <2>1, <2>3 DEF Settles
  <2> QED
    BY <2>2, <2>3
<1>4. CASE Tick \/ UNCHANGED vars
  <2>1. UNCHANGED <<pc, req, mem, wres>>
    BY <1>4 DEF Tick, vars, handler
  <2> QED
    BY <1>1, <2>1, ClosedStaysSettled, OthersLeaveSettles DEF SettledInv
<1>5. CASE \E t \in Txs : Step(t) \/ LifecycleStep(t) \/ Abort(t)
  BY <1>2, <1>5, ClosedStaysSettled DEF SettledInv
<1>6. CASE \E t \in Txs, q \in LifecycleRequests, step \in LifecycleSteps :
             Accept(t, q, step) /\ step \notin {"settle", "writeModified"}
  BY <1>3, <1>6, ClosedStaysSettled DEF SettledInv
<1> QED
  BY <1>1, <1>4, <1>5, <1>6, StepKinds

LEMMA SettledStarts == ASSUME Init, late = {} PROVE SettledInv
BY DEF Init, SettledInv, OnlyLatecomers, Settles, Confirmed, RowsOfActivity, Exists

(* Of ClosedMeansSettled this holds for every operation, however long a    *)
(* request lasts: a booking of a closed activity that is CONFIRMED became  *)
(* so while the activity was closed already, while a close had listed its  *)
(* bookings, or while an edit was going to write back a closed copy        *)
(* (confirm.go:76, close_activity.go:107-189, activity_repository.go:141). *)
(* A close leaves no booking CONFIRMED that it could have listed, even     *)
(* when other closes, cancels and edits interleave with it.                *)
THEOREM ClosedKeepsOnlyLatecomers == LifecycleSpec /\ Watching => []OnlyLatecomers
<1>1. Init /\ late = {} => SettledInv
  BY SettledStarts
<1>2. LifecycleInv /\ SettledInv /\ [LifecycleNext]_vars /\ [Note]_<<vars, late>>
        => SettledInv'
  BY SettledKeeps, WatchingSteps
<1>3. SettledInv => OnlyLatecomers
  BY DEF SettledInv
<1> QED
  BY <1>1, <1>2, <1>3, LifecycleHolds, PTL DEF LifecycleSpec, Watching

-----------------------------------------------------------------------------
(* The order of locks, with closes among the bookings: activities before   *)
(* passes, bookings before passes, and a close takes its bookings in the   *)
(* order of their ids and the activity last (close_activity.go:161-166).   *)

OrderlyLock(t, x) ==
  \/ x \in Activities /\ Registers(t) /\ pc[t] \in Admitting /\ x = req[t].act
  \/ /\ x \in ResIds /\ Moves(t)
     /\ pc[t] \in {"readActivity", "lockPass", "writePass", "writeReservation", "commit"}
  \/ x \in Passes /\ pc[t] \in {"writePass", "insert", "writeReservation", "commit"}
  \/ /\ x \in ResIds /\ pc[t] = "settle"
     /\ res[x] # NoRow /\ res[x].act = req[t].act
     /\ \A s \in mem[t].todo : x < s
  \/ x \in Activities /\ pc[t] = "cascadeActivity"
  \/ x \in Dogs /\ pc[t] = "cascadeDog"

InOrder(t) ==
  /\ \A x \in Rows : lock[x] = t => OrderlyLock(t, x)
  /\ pc[t] = "writePass" => lock[PassOf(t)] = t
  /\ pc[t] = "settle" =>
       \A s \in mem[t].todo : res[s] # NoRow /\ res[s].act = req[t].act

(* What a statement does to the locks.                                     *)
LEMMA StatementLocks ==
  ASSUME NEW t \in Txs, Step(t) \/ LifecycleStep(t) \/ Abort(t)
  PROVE  \/ Release(t)
         \/ lock' = lock
         \/ \E x : lock[x] \in {NoTx, t} /\ LockRow(t, x)
<1> DEFINE Takes(x) == lock[x] \in {NoTx, t} /\ LockRow(t, x)
           G == Release(t) \/ lock' = lock \/ \E x : Takes(x)
<1> SUFFICES G
  OBVIOUS
<1>0. (\A x : Takes(x) => G) /\ (Rollback(t) => G)
  BY DEF Rollback
<1> HIDE DEF Takes
<1>1. Abort(t) \/ Rollback(t) => G
  BY DEF Abort, Rollback
<1>2. CASE \/ ListHolders(t) \/ ReadDogs(t) \/ InsertReservation(t) \/ ReadActivity(t)
           \/ ReadPass(t) \/ UpdatePass(t) \/ Commit(t)
  BY <1>1, <1>2 DEF ListHolders, ReadDogs, InsertReservation, ReadActivity, ReadPass,
     UpdatePass, Commit
<1>3. LockActivity(t) => Rollback(t) \/ Takes(req[t].act)
  BY DEF LockActivity, Free, Takes
<1>4. LockPassToConsume(t) => Rollback(t) \/ Takes(req[t].pass)
  BY DEF LockPassToConsume, Free, Takes
<1>5. WriteConsumedPass(t) => Rollback(t) \/ Takes(req[t].pass)
  BY DEF WriteConsumedPass, WritePass, Takes
<1>6. LockReservation(t) => Rollback(t) \/ Takes(req[t].res)
  BY DEF LockReservation, Free, Takes
<1>7. LockPassToRefund(t) => Rollback(t) \/ Takes(mem[t].row.pass)
  BY DEF LockPassToRefund, Free, Takes
<1>8. WriteRefundedPass(t) => Rollback(t) \/ Takes(mem[t].row.pass)
  BY DEF WriteRefundedPass, WritePass, Takes
<1>9. WriteReservation(t) => Rollback(t) \/ Takes(req[t].res)
  BY DEF WriteReservation, Takes
<1>10. Settle(t) => Rollback(t) \/ Takes(NextToSettle(t))
  BY DEF Settle, Free, Takes
<1>11. DeleteActivity(t) => Rollback(t) \/ Takes(req[t].act)
  BY DEF DeleteActivity, Free, Takes
<1>12. DeleteDog(t) => Rollback(t) \/ Takes(req[t].dog)
  BY DEF DeleteDog, Free, Takes
<1>13. CASE \/ ReadActivityToClose(t) \/ ListToClose(t) \/ UpdateActivity(t)
            \/ CommitRepair(t) \/ ReadActivityToModify(t) \/ WriteModified(t)
            \/ CountActive(t) \/ CascadeActivity(t) \/ CascadeDog(t) \/ EditDog(t)
  BY <1>1, <1>13 DEF ReadActivityToClose, ListToClose, UpdateActivity, CommitRepair,
     ReadActivityToModify, WriteModified, CountActive, CascadeActivity, CascadeDog, EditDog
<1> HIDE DEF G
<1>14. CASE Step(t)
  BY <1>0, <1>2, <1>3, <1>4, <1>5, <1>6, <1>7, <1>8, <1>9, <1>14 DEF Step
<1>15. CASE LifecycleStep(t)
  BY <1>0, <1>10, <1>11, <1>12, <1>13, <1>15 DEF LifecycleStep
<1> QED
  BY <1>1, <1>14, <1>15

LEMMA OthersStayInOrder ==
  ASSUME LifecycleInv, [LifecycleNext]_vars, NEW u \in Txs, InOrder(u),
         pc'[u] = pc[u], req'[u] = req[u], mem'[u] = mem[u],
         \A x \in Rows : (lock'[x] = u) <=> (lock[x] = u)
  PROVE  InOrder(u)'
<1>1. \A r \in ResIds : res[r] # NoRow => res'[r] # NoRow /\ res'[r].act = res[r].act
  BY BookingKeepsActivity
<1>2. ASSUME NEW x \in Rows, lock'[x] = u PROVE OrderlyLock(u, x)'
  <2>1. OrderlyLock(u, x)
    BY <1>2 DEF InOrder
  <2> QED
    BY <1>1, <2>1 DEF OrderlyLock, Registers, Moves
<1>3. pc[u] = "writePass" => lock'[PassOf(u)'] = u
  <2>1. PassOf(u)' = PassOf(u)
    BY DEF PassOf, Registers
  <2>2. pc[u] = "writePass" => PassOf(u) \in Rows
    BY RowsTyped, KindOf
    DEF PassOf, LifecycleInv, Fit, HoldsItsBooking, ResRow
  <2> QED
    BY <2>1, <2>2 DEF InOrder
<1>4. pc[u] = "settle" => mem[u].todo \subseteq ResIds
  BY DEF LifecycleInv, LifecycleTypeOK, HandlersTyped, Memory
<1> QED
  BY <1>1, <1>2, <1>3, <1>4 DEF InOrder

(* An answered request holds nothing.                                      *)
LEMMA AnsweredInOrder ==
  ASSUME NEW t \in Txs, LifecycleTypeOK, Release(t)
  PROVE  InOrder(t)'
<1>1. pc'[t] = "idle" /\ \A x \in Rows : lock'[x] # t
  BY KeysAssumption DEF Release, Goto, LifecycleTypeOK, HandlersTyped
<1> QED
  BY <1>1 DEF InOrder

(* A handler that has just taken the row y, or none.                       *)
LEMMA TakesInOrder ==
  ASSUME NEW t \in Txs, LifecycleTypeOK, InOrder(t), pc'[t] # "settle",
         \A x \in Rows : lock[x] = t /\ OrderlyLock(t, x) => OrderlyLock(t, x)',
         lock' = lock \/ \E y : LockRow(t, y) /\ OrderlyLock(t, y)',
         pc'[t] = "writePass" => PassOf(t)' \in Rows /\ LockRow(t, PassOf(t)')
  PROVE  InOrder(t)'
<1>1. ASSUME NEW x \in Rows, lock'[x] = t PROVE OrderlyLock(t, x)'
  <2>1. CASE lock[x] = t
    BY <2>1 DEF InOrder
  <2>2. CASE lock[x] # t
    <3>1. PICK y : LockRow(t, y) /\ OrderlyLock(t, y)'
      BY <1>1, <2>2
    <3>2. x = y
      BY <1>1, <2>2, <3>1 DEF LockRow, LifecycleTypeOK, HandlersTyped
    <3> QED
      BY <3>1, <3>2
  <2> QED
    BY <2>1, <2>2
<1>2. pc'[t] = "writePass" => lock'[PassOf(t)'] = t
  BY DEF LockRow, LifecycleTypeOK, HandlersTyped
<1> QED
  BY <1>1, <1>2 DEF InOrder

LEMMA RegistersInLifecycleOrder ==
  ASSUME NEW t \in Txs, LifecycleInv, InOrder(t),
         \/ LockActivity(t) \/ ListHolders(t) \/ ReadDogs(t)
         \/ LockPassToConsume(t) \/ WriteConsumedPass(t) \/ InsertReservation(t)
  PROVE  Release(t) \/ InOrder(t)'
<1> SUFFICES ASSUME ~Release(t) PROVE InOrder(t)'
  OBVIOUS
<1>1. /\ LifecycleTypeOK
      /\ pc[t] \in {"lockActivity", "listHolders", "readDogs", "lockPass", "writePass", "insert"}
  BY DEF LifecycleInv, LockActivity, ListHolders, ReadDogs, LockPassToConsume,
         WriteConsumedPass, InsertReservation
<1>2. /\ Registers(t) /\ req' = req /\ ~Rollback(t)
      /\ req[t].op = "register" /\ req[t].act \in Activities /\ req[t].pass \in Passes
  <2>1. Registers(t) \/ Moves(t)
    BY <1>1, KindOf DEF LifecycleInv
  <2>2. Moves(t) => req[t].op # "register"
    BY KindOf DEF LifecycleInv
  <2>3. Registers(t)
    BY <1>1, <2>1, <2>2, KindOf
    DEF LifecycleInv, LockActivity, ListHolders, ReadDogs, LockPassToConsume,
        WriteConsumedPass, InsertReservation
  <2>4. ~Rollback(t)
    BY DEF Rollback
  <2>5. req' = req
    BY <2>4 DEF LockActivity, ListHolders, ReadDogs, LockPassToConsume,
        WriteConsumedPass, WritePass, InsertReservation
  <2> QED
    BY <2>3, <2>4, <2>5, KindOf DEF LifecycleInv
<1>3. Registers(t)' /\ PassOf(t)' = req[t].pass /\ PassOf(t) = req[t].pass
      /\ req[t].act \in Rows /\ req[t].pass \in Rows
  BY <1>2, RowsTyped DEF Registers, PassOf
<1>4. pc \in [Txs -> LifecycleSteps]
  BY <1>1 DEF LifecycleTypeOK, HandlersTyped
<1>5. CASE LockActivity(t)
  <2>1. /\ pc[t] = "lockActivity" /\ pc'[t] = "listHolders" /\ LockRow(t, req[t].act)
    BY <1>2, <1>4, <1>5 DEF LockActivity, Goto
  <2> QED
    BY <1>1, <1>2, <1>3, <2>1, TakesInOrder DEF OrderlyLock, Admitting
<1>6. CASE ListHolders(t) \/ ReadDogs(t)
  <2>1. /\ pc[t] \in {"listHolders", "readDogs"} /\ pc'[t] \in {"readDogs", "lockPass"}
        /\ lock' = lock
    BY <1>2, <1>4, <1>6 DEF ListHolders, ReadDogs, Goto
  <2> QED
    BY <1>1, <1>2, <1>3, <2>1, TakesInOrder DEF OrderlyLock, Admitting
<1>7. CASE LockPassToConsume(t)
  <2>1. /\ pc[t] = "lockPass" /\ pc'[t] = "writePass" /\ LockRow(t, req[t].pass)
    BY <1>2, <1>4, <1>7 DEF LockPassToConsume, Goto
  <2> QED
    BY <1>1, <1>2, <1>3, <2>1, TakesInOrder DEF OrderlyLock, Admitting, Moves
<1>8. CASE WriteConsumedPass(t)
  <2>1. /\ pc[t] = "writePass" /\ pc'[t] = "insert" /\ LockRow(t, req[t].pass)
    BY <1>2, <1>4, <1>8 DEF WriteConsumedPass, WritePass, Goto
  <2> QED
    BY <1>1, <1>2, <1>3, <2>1, TakesInOrder, KindOf DEF OrderlyLock, Admitting, LifecycleInv
<1>9. CASE InsertReservation(t)
  <2>1. /\ pc[t] = "insert" /\ pc'[t] = "commit" /\ lock' = lock
    BY <1>2, <1>4, <1>9 DEF InsertReservation, Goto
  <2> QED
    BY <1>1, <1>2, <1>3, <2>1, TakesInOrder DEF OrderlyLock, Admitting
<1> QED
  BY <1>5, <1>6, <1>7, <1>8, <1>9

LEMMA MovesInLifecycleOrder ==
  ASSUME NEW t \in Txs, LifecycleInv, InOrder(t),
         \/ LockReservation(t) \/ ReadActivity(t) \/ LockPassToRefund(t)
         \/ WriteRefundedPass(t) \/ WriteReservation(t)
  PROVE  Release(t) \/ InOrder(t)'
<1> SUFFICES ASSUME ~Release(t) PROVE InOrder(t)'
  OBVIOUS
<1>1. /\ LifecycleTypeOK
      /\ pc[t] \in {"lockReservation", "readActivity", "lockPass", "writePass",
                    "writeReservation"}
  BY DEF LifecycleInv, LockReservation, ReadActivity, LockPassToRefund,
         WriteRefundedPass, WriteReservation
<1>2. /\ Moves(t) /\ ~Registers(t) /\ req' = req /\ ~Rollback(t) /\ req[t].res \in ResIds
  <2>1. Registers(t) \/ Moves(t)
    BY <1>1, KindOf DEF LifecycleInv
  <2>2. Registers(t) => req[t].op = "register"
    BY KindOf DEF LifecycleInv
  <2>3. Moves(t)
    BY <1>1, <2>1, <2>2, KindOf
    DEF LifecycleInv, LockReservation, ReadActivity, LockPassToRefund,
         WriteRefundedPass, WriteReservation
  <2>4. ~Rollback(t)
    BY DEF Rollback
  <2>5. req' = req
    BY <2>4 DEF LockReservation, ReadActivity, LockPassToRefund,
         WriteRefundedPass, WritePass, WriteReservation
  <2> QED
    BY <2>3, <2>4, <2>5, KindOf DEF LifecycleInv
<1>3. Moves(t)' /\ ~Registers(t)' /\ req[t].res \in Rows
  BY <1>2, RowsTyped DEF Registers, Moves
<1>4. pc \in [Txs -> LifecycleSteps] /\ mem \in [Txs -> Memory] /\ mem[t] \in Memory
  BY <1>1 DEF LifecycleTypeOK, HandlersTyped
<1>5. CASE LockReservation(t)
  <2>1. /\ pc[t] = "lockReservation" /\ pc'[t] = AfterLock(req[t].op)
        /\ LockRow(t, req[t].res)
    BY <1>2, <1>4, <1>5 DEF LockReservation, Goto, LifecycleSteps, Steps
  <2>2. AfterLock(req[t].op) \in {"lockPass", "writeReservation", "readActivity"}
    BY DEF AfterLock
  <2> QED
    BY <1>1, <1>2, <1>3, <2>1, <2>2, TakesInOrder DEF OrderlyLock
<1>6. CASE ReadActivity(t)
  <2>1. /\ pc[t] = "readActivity" /\ pc'[t] \in {"lockPass", "writeReservation"}
        /\ lock' = lock
    BY <1>2, <1>4, <1>6 DEF ReadActivity, Goto
  <2> QED
    BY <1>1, <1>2, <1>3, <2>1, TakesInOrder DEF OrderlyLock
<1>7. CASE LockPassToRefund(t)
  <2> DEFINE p == mem[t].row.pass
             m == [mem[t] EXCEPT !.prow = [pass[p] EXCEPT !.remaining = pass[p].remaining + 1],
                                 !.amount = 1]
  <2>1. /\ pc[t] = "lockPass" /\ LockRow(t, p)
        /\ pc'[t] = "writeReservation" \/ (pc'[t] = "writePass" /\ mem'[t] = m)
    BY <1>2, <1>4, <1>7 DEF LockPassToRefund, Goto, Remember
  <2>2. mem[t].row \in ResRow
    BY <1>2, <2>1 DEF LifecycleInv, Fit, HoldsItsBooking
  <2>3. p \in Passes /\ p \in Rows
    BY <2>2, RowsTyped DEF ResRow
  <2>4. pc'[t] = "writePass" => PassOf(t)' = p
    <3>1. m.row = mem[t].row
      BY <1>4 DEF Memory
    <3> QED
      BY <1>3, <2>1, <3>1 DEF PassOf
  <2> HIDE DEF p, m
  <2> QED
    BY <1>1, <1>2, <1>3, <2>1, <2>3, <2>4, TakesInOrder DEF OrderlyLock
<1>8. CASE WriteRefundedPass(t)
  <2>1. /\ pc[t] = "writePass" /\ pc'[t] = "writeReservation" /\ LockRow(t, mem[t].row.pass)
    BY <1>2, <1>4, <1>8 DEF WriteRefundedPass, WritePass, Goto
  <2>2. mem[t].row.pass \in Passes
    BY <1>2, <2>1 DEF LifecycleInv, Fit, HoldsItsBooking, ResRow
  <2> QED
    BY <1>1, <1>2, <1>3, <2>1, <2>2, TakesInOrder DEF OrderlyLock
<1>9. CASE WriteReservation(t)
  <2>1. /\ pc[t] = "writeReservation" /\ pc'[t] = "commit" /\ LockRow(t, req[t].res)
    BY <1>2, <1>4, <1>9 DEF WriteReservation, Goto
  <2> QED
    BY <1>1, <1>2, <1>3, <2>1, TakesInOrder DEF OrderlyLock
<1> QED
  BY <1>5, <1>6, <1>7, <1>8, <1>9

LEMMA ClosesInOrder ==
  ASSUME NEW t \in Txs, LifecycleInv, InOrder(t), ListToClose(t) \/ Settle(t)
  PROVE  Release(t) \/ InOrder(t)'
<1> SUFFICES ASSUME ~Release(t), ~Rollback(t) PROVE InOrder(t)'
  BY DEF Rollback
<1>1. /\ pc \in [Txs -> LifecycleSteps] /\ mem \in [Txs -> Memory] /\ mem[t] \in Memory
      /\ lock \in [Rows -> Txs \cup {NoTx}]
  BY DEF LifecycleInv, LifecycleTypeOK, HandlersTyped
<1>2. CASE ListToClose(t)
  <2> DEFINE m == [mem[t] EXCEPT !.todo = Confirmed(req[t].act)]
  <2>1. /\ pc[t] = "listToClose" /\ pc'[t] = "settle" /\ mem'[t] = m
        /\ UNCHANGED <<res, req, lock>>
    BY <1>1, <1>2 DEF ListToClose, Goto, Remember, committed
  <2>2. mem'[t].todo = Confirmed(req[t].act)
    BY <1>1, <2>1 DEF Memory
  <2>3. \A s \in Confirmed(req[t].act) : res[s] # NoRow /\ res[s].act = req[t].act
    BY DEF Confirmed, RowsOfActivity, Exists
  <2>4. \A x \in Rows : lock[x] # t
    BY <2>1 DEF InOrder, OrderlyLock, Admitting
  <2> QED
    BY <2>1, <2>2, <2>3, <2>4 DEF InOrder
<1>3. CASE Settle(t)
  <2> DEFINE n == NextToSettle(t)
             m == [mem[t] EXCEPT !.todo = mem[t].todo \ {n}]
  <2>1. /\ pc[t] = "settle" /\ pc' = pc /\ mem'[t] = m /\ mem[t].todo # {}
        /\ LockRow(t, n) /\ UNCHANGED <<res, req>>
    BY <1>1, <1>3 DEF Settle, Remember, committed
  <2>2. mem'[t].todo = mem[t].todo \ {n} /\ mem[t].todo \subseteq ResIds
    BY <1>1, <2>1 DEF Memory
  <2>3. n \in mem[t].todo /\ \A s \in mem[t].todo : n <= s
    BY <2>1, NextIsListed
  <2>4. \A s \in mem[t].todo \ {n} : n < s
    <3>1. n \in Nat /\ \A s \in mem[t].todo : s \in Nat
      BY <2>2, <2>3, KeysAssumption
    <3> HIDE DEF n
    <3> QED
      BY <2>3, <3>1
  <2>5. res[n] # NoRow /\ res[n].act = req[t].act
    BY <2>1, <2>3 DEF InOrder
  <2>6. ASSUME NEW x \in Rows, lock'[x] = t PROVE OrderlyLock(t, x)'
    <3>1. CASE x = n
      BY <2>1, <2>2, <2>3, <2>4, <2>5, <3>1 DEF OrderlyLock
    <3>2. CASE x # n
      <4>1. lock[x] = t
        BY <1>1, <2>1, <2>6, <3>2 DEF LockRow
      <4>2. OrderlyLock(t, x)
        BY <4>1 DEF InOrder
      <4>3. x \in ResIds /\ res[x] # NoRow /\ res[x].act = req[t].act
            /\ \A s \in mem[t].todo : x < s
        BY <2>1, <4>2 DEF OrderlyLock, Admitting
      <4> QED
        BY <2>1, <2>2, <4>3 DEF OrderlyLock
    <3> QED
      BY <3>1, <3>2
  <2>7. \A s \in mem'[t].todo : res'[s] # NoRow /\ res'[s].act = req'[t].act
    BY <2>1, <2>2 DEF InOrder
  <2> QED
    BY <2>1, <2>6, <2>7 DEF InOrder
<1> QED
  BY <1>2, <1>3

LEMMA RestInOrder ==
  ASSUME NEW t \in Txs, LifecycleInv, InOrder(t),
         \/ ReadPass(t) \/ UpdatePass(t) \/ Commit(t) \/ Abort(t)
         \/ LifecycleStep(t) /\ ~ListToClose(t) /\ ~Settle(t)
  PROVE  Release(t) \/ InOrder(t)'
<1> SUFFICES ASSUME ~Release(t), ~Rollback(t) PROVE InOrder(t)'
  BY DEF Rollback
<1>1. LifecycleTypeOK /\ pc \in [Txs -> LifecycleSteps]
  BY DEF LifecycleInv, LifecycleTypeOK, HandlersTyped
<1>2. ASSUME \A x \in Rows : ~OrderlyLock(t, x), pc'[t] \notin {"settle", "writePass"},
             lock' = lock
      PROVE  InOrder(t)'
  BY <1>1, <1>2, TakesInOrder
<1>3. CASE \/ ReadPass(t) \/ ReadActivityToClose(t) \/ ReadActivityToModify(t)
           \/ CountActive(t)
  <2>1. /\ pc[t] \in {"readPass", "readActivityToClose", "readActivityToModify", "countActive"}
        /\ pc'[t] \in {"updatePass", "listToClose", "writeModified", "deleteActivity"}
        /\ lock' = lock
    BY <1>1, <1>3 DEF ReadPass, ReadActivityToClose, ReadActivityToModify, CountActive, Goto
  <2> QED
    BY <1>2, <2>1 DEF OrderlyLock, Admitting
<1>4. CASE DeleteActivity(t)
  <2>1. /\ pc[t] = "deleteActivity" /\ pc'[t] = "cascadeActivity" /\ LockRow(t, req[t].act)
    BY <1>1, <1>4 DEF DeleteActivity, Goto
  <2>2. req[t].act \in Activities
    BY <2>1, KindsOfRequests DEF LifecycleInv, Fit, LifecycleFits
  <2> QED
    BY <1>1, <2>1, <2>2, TakesInOrder DEF OrderlyLock, Admitting
<1>5. CASE DeleteDog(t)
  <2>1. /\ pc[t] = "deleteDog" /\ pc'[t] = "cascadeDog" /\ LockRow(t, req[t].dog)
    BY <1>1, <1>5 DEF DeleteDog, Goto
  <2>2. req[t].dog \in Dogs
    BY <2>1, KindsOfRequests DEF LifecycleInv, Fit, LifecycleFits
  <2> QED
    BY <1>1, <2>1, <2>2, TakesInOrder DEF OrderlyLock, Admitting
<1> QED
  BY <1>3, <1>4, <1>5
  DEF UpdatePass, Commit, Abort, LifecycleStep, UpdateActivity, CommitRepair, WriteModified,
      CascadeActivity, CascadeDog, EditDog

LEMMA OrderKept ==
  ASSUME LifecycleInv, \A t \in Txs : InOrder(t), [LifecycleNext]_vars, NEW u \in Txs
  PROVE  InOrder(u)'
<1>0. LifecycleTypeOK
  BY DEF LifecycleInv
<1> USE DEF LifecycleTypeOK, HandlersTyped
<1>1. ASSUME NEW t \in Txs, Step(t) \/ LifecycleStep(t) \/ Abort(t) PROVE InOrder(u)'
  <2>1. CASE u = t
    <3>1. Release(t) \/ InOrder(t)'
      BY <1>1, RegistersInLifecycleOrder, MovesInLifecycleOrder, ClosesInOrder, RestInOrder
      DEF Step
    <3> QED
      BY <1>0, <2>1, <3>1, AnsweredInOrder
  <2>2. CASE u # t
    <3>1. \A x \in Rows : (lock'[x] = u) <=> (lock[x] = u)
      BY <1>0, <1>1, <2>2, StatementLocks, KeysAssumption DEF Release, LockRow
    <3> QED
      BY <1>0, <1>1, <2>2, <3>1, StatementFrame, OthersStayInOrder
  <2> QED
    BY <2>1, <2>2
<1>2. ASSUME NEW t \in Txs, NEW q \in LifecycleRequests, NEW step \in LifecycleSteps,
             Accept(t, q, step), step \notin {"settle", "writePass"}
      PROVE  InOrder(u)'
  <2>1. /\ pc[t] = "idle" /\ pc'[t] = step /\ mem' = mem /\ lock' = lock
        /\ \A v \in Txs \ {t} : pc'[v] = pc[v] /\ req'[v] = req[v]
    BY <1>0, <1>2 DEF Accept, Goto
  <2>2. CASE u = t
    <3>1. \A x \in Rows : lock[x] # t
      BY <2>1 DEF InOrder, OrderlyLock, Admitting
    <3> QED
      BY <1>2, <2>1, <2>2, <3>1 DEF InOrder
  <2>3. CASE u # t
    BY <2>1, <2>3, OthersStayInOrder
  <2> QED
    BY <2>2, <2>3
<1>3. CASE \E t \in Txs, q \in LifecycleRequests, step \in LifecycleSteps :
              /\ Accept(t, q, step)
              /\ step \in {"lockActivity", "lockReservation", "readPass",
                           "readActivityToClose", "readActivityToModify", "countActive",
                           "deleteDog", "editDog"}
  BY <1>2, <1>3
<1>4. CASE Tick \/ UNCHANGED vars
  BY <1>4, OthersStayInOrder DEF Tick, vars, handler
<1> QED
  BY <1>0, <1>1, <1>3, <1>4, StepKinds

LEMMA OrderStarts == ASSUME Init, NEW t \in Txs PROVE InOrder(t)
BY KeysAssumption DEF Init, InOrder

-----------------------------------------------------------------------------
(* How far a handler is from the end of its transaction, as far as waiting *)
(* is concerned: a close is the farther the more ids it still has before   *)
(* it.                                                                     *)
StillAhead(t) == {y \in ResIds : \E s \in mem[t].todo : s <= y}

Rank(t) ==
  IF pc[t] = "settle" THEN 4 + Cardinality(StillAhead(t))
  ELSE IF pc[t] \in {"lockActivity", "lockReservation"} THEN 5 + Cardinality(ResIds)
  ELSE Distance(t)

LEMMA AheadIsFinite ==
  \A t : /\ IsFiniteSet(StillAhead(t)) /\ Cardinality(StillAhead(t)) \in Nat
         /\ Cardinality(ResIds) \in Nat /\ Cardinality(StillAhead(t)) <= Cardinality(ResIds)
<1> TAKE t
<1>1. StillAhead(t) \subseteq ResIds
  BY DEF StillAhead
<1> QED
  BY <1>1, KeysAssumption, FS_Subset, FS_CardinalityType

LEMMA RankIsNatural == \A t : Rank(t) \in Nat
<1> TAKE t
<1>1. Cardinality(StillAhead(t)) \in Nat /\ Cardinality(ResIds) \in Nat
  BY AheadIsFinite
<1> QED
  BY <1>1 DEF Rank, Distance

(* A close that has locked a booking is past the close that waits for it.  *)
LEMMA CloseIsPast ==
  ASSUME LifecycleInv, NEW t \in Txs, NEW u \in Txs, InOrder(u),
         pc[u] = "settle", mem[t].todo # {}, lock[NextToSettle(t)] = u
  PROVE  Cardinality(StillAhead(u)) < Cardinality(StillAhead(t))
<1> DEFINE n == NextToSettle(t)
<1>1. n \in mem[t].todo /\ mem[t].todo \subseteq ResIds /\ mem[u].todo \subseteq ResIds
  BY NextIsListed DEF LifecycleInv, LifecycleTypeOK, HandlersTyped, Memory
<1>2. n \in ResIds /\ n \in Rows
  BY <1>1, RowsTyped
<1> HIDE DEF n
<1>3. OrderlyLock(u, n)
  BY <1>2 DEF InOrder, n
<1>4. \A s \in mem[u].todo : n < s
  BY <1>2, <1>3, KeysAssumption DEF OrderlyLock, Admitting
<1>5. n \in StillAhead(t) /\ n \notin StillAhead(u)
  <2>1. n <= n /\ \A s \in mem[u].todo : ~(s <= n)
    BY <1>1, <1>2, <1>4, KeysAssumption
  <2> QED
    BY <1>1, <1>2, <2>1 DEF StillAhead
<1>6. StillAhead(u) \subseteq StillAhead(t)
  <2> SUFFICES ASSUME NEW y \in ResIds, NEW s \in mem[u].todo, s <= y PROVE y \in StillAhead(t)
    BY DEF StillAhead
  <2>1. n <= y
    <3>1. n \in Nat /\ s \in Nat /\ y \in Nat
      BY <1>1, <1>2, KeysAssumption
    <3> QED
      BY <1>4, <3>1
  <2> QED
    BY <1>1, <2>1 DEF StillAhead
<1>7. /\ IsFiniteSet(StillAhead(t))
      /\ Cardinality(StillAhead(t)) \in Nat /\ Cardinality(StillAhead(u)) \in Nat
  BY AheadIsFinite
<1>8. /\ Cardinality(StillAhead(u)) <= Cardinality(StillAhead(t))
      /\ Cardinality(StillAhead(t)) # Cardinality(StillAhead(u))
  BY <1>5, <1>6, <1>7, FS_Subset
<1> QED
  BY <1>7, <1>8

(* Where nothing is deleted and no activity edited, a lock is taken to     *)
(* book, to move a booking or to close.                                    *)
LEMMA NobodyDeletes ==
  ASSUME LifecycleInv, TimelyInv, "modifyActivity" \notin Ops, "deleteActivity" \notin Ops,
         "deleteDog" \notin Ops, NEW t \in Txs
  PROVE  pc[t] \notin {"writeModified", "deleteActivity", "cascadeActivity", "deleteDog",
                       "cascadeDog"}
<1>1. pc[t] # "idle" => req[t].op \in Ops
  BY DEF TimelyInv, InTime
<1> QED
  BY <1>1, KindsOfRequests DEF LifecycleInv, Fit, LifecycleFits

(* Who waits for another is farther from the end. In particular a close    *)
(* that wants its activity finds it free, and a registration does not wait *)
(* for a close of the activity it books: the two never meet.               *)
LEMMA LifecycleWaitsForNearer ==
  ASSUME LifecycleInv, TimelyInv, \A v \in Txs : InOrder(v), Lag <= Duration,
         "modifyActivity" \notin Ops, "deleteActivity" \notin Ops, "deleteDog" \notin Ops,
         NEW t \in Txs, NEW u \in Txs, u \in LifecycleWaitsFor(t)
  PROVE  Rank(u) < Rank(t)
<1> USE RowsTyped
<1>1. /\ pc[t] \in LifecycleSteps /\ pc[u] \in LifecycleSteps
      /\ pc[u] \notin {"settle", "commit"} => wres[u] = NoWrites
      /\ pc[t] # "cascadeActivity" /\ pc[t] # "cascadeDog"
      /\ pc[u] # "cascadeActivity" /\ pc[u] # "cascadeDog"
      /\ pc[t] \notin {"writeModified", "deleteActivity", "deleteDog"}
  BY NobodyDeletes
  DEF LifecycleInv, LifecycleTypeOK, HandlersTyped, Fit, WritesFit
<1>2. /\ Cardinality(ResIds) \in Nat
      /\ \A v \in Txs : Cardinality(StillAhead(v)) \in Nat
                        /\ Cardinality(StillAhead(v)) <= Cardinality(ResIds)
  BY AheadIsFinite
<1>3. \A a \in Activities : lock[a] = u =>
        Registers(u) /\ pc[u] \in Admitting /\ a = req[u].act
  BY <1>1, KeysAssumption DEF InOrder, OrderlyLock
<1>4. \A r \in ResIds : lock[r] = u =>
        pc[u] \in {"settle", "readActivity", "lockPass", "writePass", "writeReservation",
                   "commit"}
  BY KeysAssumption DEF InOrder, OrderlyLock
<1>5. \A p \in Passes : lock[p] = u =>
        pc[u] \in {"writePass", "insert", "writeReservation", "commit"}
  BY KeysAssumption DEF InOrder, OrderlyLock
<1>6. \A d \in Dogs : lock[d] # u
  BY <1>1, KeysAssumption DEF InOrder, OrderlyLock
<1>7. /\ pc[t] \in {"lockActivity", "insert"} => Registers(t)
      /\ pc[t] \in {"lockReservation", "writeReservation"} => Moves(t)
      /\ pc[t] \in {"lockPass", "writePass"} => Registers(t) \/ Moves(t)
      /\ Registers(t) => /\ req[t].op = "register" /\ req[t].act \in Activities
                         /\ req[t].dog \in Dogs /\ req[t].pass \in Passes
      /\ Moves(t) => req[t].op # "register" /\ req[t].res \in ResIds /\ ~Registers(t)
  BY KindOf DEF LifecycleInv
<1>8. Moves(t) /\ pc[t] \in {"lockPass", "writePass", "writeReservation"} =>
        mem[t].row.pass \in Passes /\ lock[req[t].res] = t
  BY DEF LifecycleInv, Fit, HoldsItsBooking, ResRow
<1>9. CASE pc[t] = "settle" /\ mem[t].todo # {}
  <2>1. NextToSettle(t) \in ResIds
    BY <1>9, NextIsListed DEF LifecycleInv, LifecycleTypeOK, HandlersTyped, Memory
  <2>2. lock[NextToSettle(t)] = u
    BY <1>9 DEF LifecycleWaitsFor
  <2>3. CASE pc[u] = "settle"
    <3>1. Cardinality(StillAhead(u)) < Cardinality(StillAhead(t))
      BY <1>9, <2>2, <2>3, CloseIsPast
    <3> QED
      BY <1>2, <1>9, <2>3, <3>1 DEF Rank
  <2>4. CASE pc[u] # "settle"
    BY <1>2, <1>4, <1>9, <2>1, <2>2, <2>4 DEF Rank, Distance
  <2> QED
    BY <2>3, <2>4
<1>10. CASE pc[t] = "settle" /\ mem[t].todo = {}
  <2>1. lock[req[t].act] = u
    BY <1>10 DEF LifecycleWaitsFor, WaitsFor
  <2>2. req[t].act \in Activities
    BY <1>10, KindsOfRequests DEF LifecycleInv, Fit, LifecycleFits
  <2>3. Registers(u) /\ pc[u] \in Admitting /\ req[t].act = req[u].act
    BY <1>3, <2>1, <2>2
  <2> QED
    BY <1>10, <2>3, NobodyBooksWhatCloses DEF Closing
<1>11. CASE pc[t] = "editDog"
  <2>1. req[t].dog \in Dogs
    BY <1>11, KindsOfRequests DEF LifecycleInv, Fit, LifecycleFits
  <2>2. u \in Inserting(req[t].dog)
    BY <1>6, <1>11, <2>1 DEF LifecycleWaitsFor
  <2>3. PICK r \in ResIds : res[r] = NoRow /\ wres[u][r] # NoRow
    BY <2>2 DEF Inserting
  <2>4. pc[u] = "commit"
    BY <2>3 DEF LifecycleInv, Fit, WritesFit, WaitsForCommit
  <2> QED
    BY <1>11, <2>4 DEF Rank, Distance
<1>12. CASE pc[t] \notin {"settle", "editDog"}
  <2>1. u \in WaitsFor(t)
    BY <1>1, <1>12 DEF LifecycleWaitsFor
  <2>2. CASE pc[t] = "lockActivity"
    <3>1. lock[req[t].act] = u
      BY <2>1, <2>2 DEF WaitsFor
    <3> QED
      BY <1>2, <1>3, <1>7, <2>2, <3>1 DEF Rank, Distance, Admitting
  <2>3. CASE pc[t] = "lockReservation"
    <3>1. lock[req[t].res] = u
      BY <2>1, <2>3 DEF WaitsFor
    <3>2. pc[u] = "settle" \/ Distance(u) <= 3
      BY <1>4, <1>7, <2>3, <3>1 DEF Distance
    <3>3. pc[u] \notin {"lockActivity", "lockReservation"}
      BY <1>4, <1>7, <2>3, <3>1
    <3> QED
      BY <1>2, <2>3, <3>2, <3>3, RankIsNatural DEF Rank, Distance
  <2>4. CASE pc[t] = "writeReservation"
    BY <1>7, <1>8, <2>1, <2>4 DEF WaitsFor
  <2>5. CASE pc[t] = "writePass"
    <3>1. lock[PassOf(t)] = t
      BY <2>5 DEF InOrder
    <3>2. PassOf(t) = IF req[t].op = "register" THEN req[t].pass ELSE mem[t].row.pass
      BY <1>7, <2>5 DEF PassOf
    <3> QED
      BY <2>1, <2>5, <3>1, <3>2 DEF WaitsFor
  <2>6. CASE pc[t] \in {"lockPass", "updatePass"}
    <3>1. pc[t] = "updatePass" => req[t].pass \in Passes
      BY KindsOfRequests DEF LifecycleInv, Fit, RequestFits
    <3>2. \E p \in Passes : lock[p] = u
      BY <1>7, <1>8, <2>1, <2>6, <3>1 DEF WaitsFor
    <3> QED
      BY <1>5, <2>6, <3>2 DEF Rank, Distance
  <2>7. CASE pc[t] = "insert"
    <3>1. PICK r \in ActiveBooking(req[t].act, req[t].dog) : wres[u][r] # NoRow
      BY <1>6, <1>7, <2>1, <2>7 DEF WaitsFor, InsertWaits
    <3>2. r \in ResIds /\ res[r] # NoRow /\ res[r].act = req[t].act
      BY DEF ActiveBooking, SlotHolders, HoldsSlot, Exists
    <3>3. lock[r] = u
      BY <3>1, <3>2 DEF LifecycleInv, Fit, WritesFit, WaitsForCommit
    <3>4. pc[u] = "settle" => req[u].act = req[t].act
      BY <3>2, <3>3, KeysAssumption DEF InOrder, OrderlyLock, Admitting
    <3>5. pc[u] # "settle"
      BY <1>7, <2>7, <3>4, NobodyBooksWhatCloses DEF Admitting, Closing
    <3>6. pc[u] = "commit"
      BY <1>1, <3>1, <3>2, <3>5 DEF NoWrites
    <3> QED
      BY <2>7, <3>6 DEF Rank, Distance
  <2> QED
    BY <1>12, <2>1, <2>2, <2>3, <2>4, <2>5, <2>6, <2>7 DEF WaitsFor
<1> QED
  BY <1>9, <1>10, <1>11, <1>12

(* Where requests do not last longer than activities and nothing is edited *)
(* or deleted next to them, closes, bulk completions, registrations and    *)
(* single-booking operations never wait for one another in a circle        *)
(* (close_activity.go:161-166).                                            *)
THEOREM ClosesDoNotDeadlock ==
  ASSUME Lag <= Duration, "modifyActivity" \notin Ops, "deleteActivity" \notin Ops,
         "deleteDog" \notin Ops
  PROVE  LifecycleSpec => []NoCloseDeadlock
<1> DEFINE Ordered == \A t \in Txs : InOrder(t)
           I == LifecycleInv /\ TimelyInv /\ Ordered
<1>1. Init => I
  BY LifecycleStarts, TimelyStarts, OrderStarts
<1>2. ASSUME I, [LifecycleNext]_vars PROVE I'
  <2>1. Ordered'
    BY <1>2, OrderKept
  <2> QED
    BY <1>2, <2>1, LifecycleKeeps, TimelyKeeps
<1>3. ASSUME I, NEW S \in SUBSET InFlight, S # {}
      PROVE  \E t \in S : LifecycleWaitsFor(t) \cap S = {}
  <2>1. S \subseteq Txs
    BY DEF InFlight
  <2> DEFINE R == {Rank(t) : t \in S}
  <2>2. R \subseteq Nat /\ R # {}
    BY <1>3, RankIsNatural
  <2>3. \E m \in R : \A n \in R : ~(<<n, m>> \in OpToRel(<, Nat))
    BY <2>2, WFMin, NatLessThanWellFounded
  <2>4. PICK t \in S : \A u \in S : ~(Rank(u) < Rank(t))
    BY <2>2, <2>3 DEF OpToRel
  <2>5. ASSUME NEW u \in S, u \in LifecycleWaitsFor(t) PROVE FALSE
    BY <1>3, <2>1, <2>4, <2>5, LifecycleWaitsForNearer
  <2> QED
    BY <2>5
<1>4. I => NoCloseDeadlock
  BY <1>3 DEF NoCloseDeadlock
<1>5. I /\ [LifecycleNext]_vars => I'
  BY <1>2
<1> HIDE DEF I
<1> QED
  BY <1>1, <1>4, <1>5, PTL DEF LifecycleSpec
=============================================================================
