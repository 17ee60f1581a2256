---------------------------- MODULE BookingProofs ----------------------------
(***************************************************************************)
(* Proof that BookingInv is an invariant of the booking engine for every   *)
(* set of handlers, dogs, passes, activities and bookings.  Type           *)
(* correctness, the session ledger, its refinement, the movements, the     *)
(* state machine and, with the order of locks, the absence of deadlock     *)
(* follow from it.                                                         *)
(***************************************************************************)
EXTENDS BookingInvariant, FiniteSetTheorems, TLAPS

-----------------------------------------------------------------------------
(* The handlers other than t do not move, and keep their locks.            *)
OthersKeep(t) ==
  \A u \in Txs \ {t} :
    /\ pc'[u] = pc[u] /\ req'[u] = req[u] /\ mem'[u] = mem[u]
    /\ wres'[u] = wres[u] /\ wpass'[u] = wpass[u]
    /\ \A x \in Rows : (lock'[x] = u) <=> (lock[x] = u)

(* A step of t that publishes nothing.                                     *)
LocalStep(t) == UNCHANGED committed /\ OthersKeep(t)

(* What u needs of the committed tables to stay as it is.                  *)
TablesKeep(u) ==
  /\ \A r \in ResIds : lock[r] = u /\ res[r] # NoRow => res'[r] = res[r]
  /\ \A r \in ResIds : wres[u][r] # NoRow => res'[r] = res[r]
  /\ \A p \in Passes : lock[p] = u => pass'[p] = pass[p]
  /\ \A p \in Passes : \/ pass'[p] = pass[p]
                       \/ pass'[p].ver \in Nat /\ pass'[p].ver > pass[p].ver

LEMMA RowsTyped ==
  /\ Activities \subseteq Rows /\ Dogs \subseteq Rows
  /\ Passes \subseteq Rows /\ ResIds \subseteq Rows
BY DEF Rows

(* A row lock that t takes was free or its own.                            *)
LEMMA LockTaken ==
  ASSUME NEW t \in Txs, NEW x \in Rows,
         lock \in [Rows -> Txs \cup {NoTx}], lock[x] \in {NoTx, t},
         LockRow(t, x)
  PROVE  /\ lock' \in [Rows -> Txs \cup {NoTx}]
         /\ lock'[x] = t
         /\ \A y \in Rows : lock[y] = t => lock'[y] = t
         /\ \A u \in Txs \ {t} : \A y \in Rows : (lock'[y] = u) <=> (lock[y] = u)
BY KeysAssumption DEF LockRow

(* The initial state.                                                      *)
LEMMA InitialInvariant == Init => BookingInv
<1> SUFFICES ASSUME Init PROVE BookingInv
  OBVIOUS
<1> USE KeysAssumption, BookingAssumption
<1>1. TablesTyped
  <2>1. pass \in [Passes -> PassRow]
    BY DEF Init, PassRow
  <2>2. activity \in [Activities -> ActivityRow \cup {NoRow}]
    BY DEF Init
  <2> QED
    BY <2>1, <2>2 DEF Init, TablesTyped
<1>2. HandlersTyped(Steps, Requests)
  <2>1. NoMem \in Memory
    BY DEF NoMem, Memory
  <2> QED
    BY <2>1 DEF Init, HandlersTyped, Steps, NoWrites
<1>3. ASSUME NEW t \in Txs PROVE Sound(t)
  <2>1. pc[t] = "idle" /\ wres[t] = NoWrites /\ wpass[t] = NoRow
        /\ \A x \in Rows : lock[x] # t
    BY DEF Init
  <2> QED
    BY <2>1 DEF Sound, RequestFits, NothingEarly, HoldsItsBooking, EntersSlot,
                HoldsItsPass, WrotePass, WroteBooking, EditIsFresh
<1>4. WritesApart
  BY DEF Init, WritesApart, NoWrites
<1>5. SessionLedger
  <2> SUFFICES ASSUME NEW p \in Passes
               PROVE pass[p].remaining + Cardinality(Charged(p)) = NumSessions[p]
    BY DEF SessionLedger
  <2>1. Charged(p) = {}
    BY DEF Init, Charged, BookedWith
  <2>2. pass[p].remaining = NumSessions[p] /\ NumSessions[p] \in Nat
    BY DEF Init
  <2> QED
    BY <2>1, <2>2, FS_EmptySet
<1> QED
  BY <1>1, <1>2, <1>3, <1>4, <1>5 DEF BookingInv, TypeOK

-----------------------------------------------------------------------------
(* What TypeOK and Sound say about the request and the memory of a handler.*)
LEMMA RequestFacts ==
  ASSUME NEW t \in Txs, TypeOK, Sound(t)
  PROVE  /\ Registers(t) => /\ req[t].op = "register" /\ req[t].pass \in Passes
                            /\ req[t].act \in Activities /\ req[t].dog \in Dogs
         /\ Moves(t) => /\ req[t].op # "register" /\ req[t].res \in ResIds
                        /\ req[t].op \in {"cancel", "complete", "noShow",
                                          "forgive", "confirm", "reject"}
         /\ req[t] \in EditPassRequests => req[t].pass \in Passes
         /\ Moves(t) /\ pc[t] \in {"readActivity", "lockPass", "writePass",
                                   "writeReservation", "commit"}
              => mem[t].row \in ResRow /\ mem[t].row.pass \in Passes
         /\ (Registers(t) \/ Moves(t)) /\ pc[t] \in {"lockPass", "writePass",
                                    "insert", "writeReservation", "commit"}
              => PassOf(t) \in Passes
<1>1. Registers(t) => /\ req[t].op = "register" /\ req[t].pass \in Passes
                      /\ req[t].act \in Activities /\ req[t].dog \in Dogs
  BY DEF Registers, RegisterRequests
<1>2. Moves(t) => /\ req[t].op # "register" /\ req[t].res \in ResIds
                  /\ req[t].op \in {"cancel", "complete", "noShow",
                                    "forgive", "confirm", "reject"}
  BY DEF Moves, ReservationRequests, CancelRequests, AttendanceRequests, ReviewRequests
<1>3. req[t] \in EditPassRequests => req[t].pass \in Passes
  BY DEF EditPassRequests
<1>4. Moves(t) /\ pc[t] \in {"readActivity", "lockPass", "writePass",
                             "writeReservation", "commit"}
        => mem[t].row \in ResRow /\ mem[t].row.pass \in Passes
  BY DEF Sound, HoldsItsBooking, ResRow
<1> QED
  BY <1>1, <1>2, <1>3, <1>4 DEF PassOf, Sound, RequestFits

(* A step of t that does not touch what u has locked, read or written      *)
(* leaves u sound.                                                         *)
LEMMA OthersStaySound ==
  ASSUME NEW t \in Txs, NEW u \in Txs \ {t}, TypeOK, Sound(u),
         OthersKeep(t), TablesKeep(u)
  PROVE  Sound(u)'
<1> USE RowsTyped
<1>1. /\ pc'[u] = pc[u] /\ req'[u] = req[u] /\ mem'[u] = mem[u]
      /\ wres'[u] = wres[u] /\ wpass'[u] = wpass[u]
      /\ \A x \in Rows : (lock'[x] = u) <=> (lock[x] = u)
  BY DEF OthersKeep
<1>2. (Registers(u)' <=> Registers(u)) /\ (Moves(u)' <=> Moves(u))
      /\ PassOf(u)' = PassOf(u) /\ Change(u)' = Change(u)
  BY <1>1 DEF Registers, Moves, PassOf, Change
<1>3. RequestFits(u)' /\ NothingEarly(u)'
  BY <1>1, <1>2 DEF Sound, RequestFits, NothingEarly
<1>4. HoldsItsBooking(u)'
  <2>1. Moves(u) => req[u].res \in ResIds
    BY RequestFacts
  <2>2. Moves(u) /\ pc[u] \in {"readActivity", "lockPass", "writePass",
                               "writeReservation", "commit"}
          => res'[req[u].res] = res[req[u].res]
    BY <2>1, BookingAssumption DEF Sound, HoldsItsBooking, TablesKeep
  <2> QED
    BY <1>1, <1>2, <2>1, <2>2 DEF Sound, HoldsItsBooking
<1>5. EntersSlot(u)'
  BY <1>1, <1>2 DEF Sound, EntersSlot
<1>6. ASSUME pc[u] = "writePass" \/ wpass[u] # NoRow, lock[PassOf(u)] = u
      PROVE  PassOf(u) \in Passes /\ pass'[PassOf(u)] = pass[PassOf(u)]
                                  /\ lock'[PassOf(u)] = u
  <2>1. PassOf(u) \in Passes
    BY <1>6, RequestFacts DEF Sound, RequestFits, NothingEarly
  <2> QED
    BY <1>1, <1>6, <2>1 DEF TablesKeep
<1>7. HoldsItsPass(u)'
  BY <1>1, <1>2, <1>6 DEF Sound, HoldsItsPass
<1>8. WrotePass(u)'
  BY <1>1, <1>2, <1>6 DEF Sound, WrotePass
<1>9. WroteBooking(u)'
  <2>1. \A r \in ResIds : wres[u][r] # NoRow => res'[r] = res[r]
    BY DEF TablesKeep
  <2> SUFFICES ASSUME pc[u] = "commit"
               PROVE  WroteBooking(u)'
    BY <1>1 DEF WroteBooking
  <2>2. ASSUME Registers(u)
        PROVE  \E r \in ResIds :
                 /\ res'[r] = NoRow
                 /\ wres'[u][r] \in ResRow
                 /\ wres'[u][r].pass = req'[u].pass
                 /\ wres'[u][r].status \in SlotStatus
                 /\ \A s \in ResIds \ {r} : wres'[u][s] = NoRow
    BY <1>1, <2>1, <2>2, BookingAssumption DEF Sound, WroteBooking
  <2> QED
    BY <1>1, <1>2, <2>2 DEF Sound, WroteBooking
<1>10. EditIsFresh(u)'
  <2> SUFFICES ASSUME pc[u] = "updatePass"
               PROVE  EditIsFresh(u)'
    BY <1>1 DEF EditIsFresh
  <2> DEFINE p == req[u].pass
  <2>1. p \in Passes
    BY RequestFacts DEF Sound, RequestFits
  <2>2. /\ mem[u].prow \in PassRow
        /\ mem[u].prow.ver <= pass[p].ver
        /\ mem[u].prow.ver = pass[p].ver => mem[u].prow.remaining = pass[p].remaining
    BY DEF Sound, EditIsFresh
  <2>3. pass[p].ver \in Nat /\ mem[u].prow.ver \in Nat
    BY <2>1, <2>2 DEF TypeOK, TablesTyped, PassRow
  <2>4. CASE pass'[p] = pass[p]
    BY <1>1, <2>2, <2>4 DEF EditIsFresh
  <2>5. CASE pass'[p].ver \in Nat /\ pass'[p].ver > pass[p].ver
    <3>1. pass'[p].ver # mem[u].prow.ver /\ mem[u].prow.ver <= pass'[p].ver
      BY <2>2, <2>3, <2>5
    <3> QED
      BY <1>1, <2>2, <3>1 DEF EditIsFresh
  <2> QED
    BY <2>1, <2>4, <2>5 DEF TablesKeep
<1> QED
  BY <1>3, <1>4, <1>5, <1>7, <1>8, <1>9, <1>10 DEF Sound

(* A step of t that publishes nothing keeps the invariant if it keeps t    *)
(* typed and sound and what t has written apart from the others' writes.   *)
LEMMA WritingPreserves ==
  ASSUME NEW t \in Txs, BookingInv, LocalStep(t),
         HandlersTyped(Steps, Requests)', Sound(t)', WritesApart'
  PROVE  BookingInv'
<1>1. TablesTyped' /\ SessionLedger'
  BY DEF BookingInv, TypeOK, LocalStep, committed, TablesTyped, SessionLedger,
         Charged, BookedWith
<1>2. ASSUME NEW u \in Txs \ {t} PROVE Sound(u)'
  <2>1. TablesKeep(u)
    BY DEF LocalStep, committed, TablesKeep
  <2> QED
    BY <2>1, OthersStaySound DEF BookingInv, LocalStep
<1> QED
  BY <1>1, <1>2 DEF BookingInv, TypeOK

LEMMA LocalPreserves ==
  ASSUME NEW t \in Txs, BookingInv, LocalStep(t),
         HandlersTyped(Steps, Requests)', Sound(t)',
         wres'[t] \in {wres[t], NoWrites}
  PROVE  BookingInv'
<1>1. WritesApart'
  <2> SUFFICES ASSUME NEW u \in Txs, NEW v \in Txs, NEW r \in ResIds,
                      wres'[u][r] # NoRow, wres'[v][r] # NoRow
               PROVE  u = v
    BY DEF WritesApart
  <2>1. \A w \in Txs : wres'[w][r] # NoRow => wres[w][r] # NoRow
    BY DEF LocalStep, OthersKeep, NoWrites
  <2> QED
    BY <2>1 DEF BookingInv, WritesApart
<1> QED
  BY <1>1, WritingPreserves

(* Answering a request frees the locks and the memory of the handler.      *)
LEMMA Released ==
  ASSUME NEW t \in Txs, TypeOK, Release(t)
  PROVE  HandlersTyped(Steps, Requests)' /\ OthersKeep(t) /\ Sound(t)'
         /\ wres' = [wres EXCEPT ![t] = NoWrites]
<1> USE DEF TypeOK, HandlersTyped
<1>1. /\ pc'[t] = "idle" /\ wres'[t] = NoWrites /\ wpass'[t] = NoRow
      /\ \A x \in Rows : lock'[x] # t
  BY KeysAssumption DEF Release, Goto
<1>2. Sound(t)'
  BY <1>1 DEF Sound, RequestFits, NothingEarly, HoldsItsBooking, EntersSlot,
              HoldsItsPass, WrotePass, WroteBooking, EditIsFresh
<1>3. OthersKeep(t)
  BY KeysAssumption DEF Release, Goto, OthersKeep
<1>4. HandlersTyped(Steps, Requests)'
  <2>1. NoMem \in Memory /\ NoWrites \in [ResIds -> ResRow \cup {NoRow}]
    BY DEF NoMem, Memory, NoWrites
  <2>2. lock' \in [Rows -> Txs \cup {NoTx}] /\ pc' \in [Txs -> Steps]
    BY DEF Release, Goto, Steps
  <2>3. req' \in [Txs -> Requests \cup {NoRow}] /\ mem' \in [Txs -> Memory]
    BY <2>1 DEF Release
  <2>4. /\ wres' \in [Txs -> [ResIds -> ResRow \cup {NoRow}]]
        /\ wpass' \in [Txs -> PassWrite \cup {NoRow}]
    BY <2>1 DEF Release
  <2> QED
    BY <2>2, <2>3, <2>4
<1> QED
  BY <1>2, <1>3, <1>4 DEF Release

(* A rollback, for whatever reason, keeps the invariant.                   *)
LEMMA RollbackPreserves ==
  ASSUME NEW t \in Txs, BookingInv, Rollback(t)
  PROVE  BookingInv'
<1>1. /\ HandlersTyped(Steps, Requests)' /\ OthersKeep(t) /\ Sound(t)'
      /\ wres' = [wres EXCEPT ![t] = NoWrites]
  BY Released DEF BookingInv, Rollback
<1>2. wres'[t] = NoWrites
  BY <1>1 DEF BookingInv, TypeOK, HandlersTyped
<1> QED
  BY <1>1, <1>2, LocalPreserves DEF Rollback, LocalStep

-----------------------------------------------------------------------------
(* What most statements have in common: the handler goes on to its next    *)
(* statement, having changed its memory, its writes or one lock at most.   *)
LEMMA HandlerMoves ==
  ASSUME NEW t \in Txs, TypeOK, NEW step \in Steps, Goto(t, step), UNCHANGED req,
         mem' = mem \/ \E m \in Memory : Remember(t, m),
         wres' = wres \/ \E w \in [ResIds -> ResRow \cup {NoRow}] :
                            wres' = [wres EXCEPT ![t] = w],
         wpass' = wpass \/ \E w \in PassWrite : wpass' = [wpass EXCEPT ![t] = w],
         lock' = lock \/ \E x \in Rows : lock[x] \in {NoTx, t} /\ LockRow(t, x)
  PROVE  HandlersTyped(Steps, Requests)' /\ OthersKeep(t) /\ pc'[t] = step
<1> USE DEF TypeOK, HandlersTyped
<1>1. /\ pc' \in [Txs -> Steps] /\ pc'[t] = step
      /\ \A u \in Txs \ {t} : pc'[u] = pc[u]
  BY DEF Goto
<1>2. mem' \in [Txs -> Memory] /\ \A u \in Txs \ {t} : mem'[u] = mem[u]
  BY DEF Remember
<1>3. /\ wres' \in [Txs -> [ResIds -> ResRow \cup {NoRow}]]
      /\ \A u \in Txs \ {t} : wres'[u] = wres[u]
  OBVIOUS
<1>4. /\ wpass' \in [Txs -> PassWrite \cup {NoRow}]
      /\ \A u \in Txs \ {t} : wpass'[u] = wpass[u]
  OBVIOUS
<1>5. /\ lock' \in [Rows -> Txs \cup {NoTx}]
      /\ \A u \in Txs \ {t} : \A x \in Rows : (lock'[x] = u) <=> (lock[x] = u)
  BY LockTaken
<1> QED
  BY <1>1, <1>2, <1>3, <1>4, <1>5 DEF OthersKeep

LEMMA BeginPreserves ==
  ASSUME NEW t \in Txs, BookingInv, Begin(t)
  PROVE  BookingInv'
<1>1. PICK q \in Requests : Accept(t, q, FirstStep(q.op))
  BY DEF Begin, Requests
<1>2. /\ pc[t] = "idle" /\ wres[t] = NoWrites /\ wpass[t] = NoRow
      /\ \A x \in Rows : lock[x] # t
  BY <1>1 DEF Accept, BookingInv, Sound, NothingEarly
<1>3. \/ q \in RegisterRequests /\ FirstStep(q.op) = "lockActivity"
      \/ q \in ReservationRequests /\ FirstStep(q.op) = "lockReservation"
      \/ q \in EditPassRequests /\ FirstStep(q.op) = "readPass"
  BY DEF Requests, RegisterRequests, ReservationRequests, CancelRequests,
         AttendanceRequests, ReviewRequests, EditPassRequests, FirstStep
<1>4. /\ HandlersTyped(Steps, Requests)' /\ LocalStep(t)
      /\ pc'[t] = FirstStep(q.op) /\ req'[t] = q
  <2>1. FirstStep(q.op) \in Steps
    BY <1>3 DEF Steps
  <2> QED
    BY <1>1, <2>1 DEF Accept, Goto, BookingInv, TypeOK, HandlersTyped, LocalStep, OthersKeep
<1>5. Sound(t)'
  <2>1. UNCHANGED <<wres, wpass, lock>>
    BY <1>1 DEF Accept
  <2>2. RequestFits(t)'
    BY <1>3, <1>4 DEF RequestFits, Registers, Moves
  <2>3. NothingEarly(t)'
    BY <1>2, <1>3, <1>4, <2>1 DEF NothingEarly
  <2> QED
    BY <1>2, <1>3, <1>4, <2>1, <2>2, <2>3
    DEF Sound, HoldsItsBooking, EntersSlot, HoldsItsPass, WrotePass, WroteBooking,
        EditIsFresh
<1> QED
  BY <1>1, <1>4, <1>5, LocalPreserves DEF Accept

-----------------------------------------------------------------------------
(* The statements of register.                                             *)

(* Sound(t)' while nothing is written yet and no lock matters.             *)
LEMMA StillReading ==
  ASSUME NEW t \in Txs, BookingInv, UNCHANGED <<req, wres, wpass>>,
         Registers(t), pc[t] \in {"lockActivity", "listHolders", "readDogs"},
         \/ pc'[t] \in {"listHolders", "readDogs"}
         \/ pc'[t] = "lockPass" /\ mem'[t].next \in SlotStatus
  PROVE  Sound(t)'
<1>1. wres'[t] = NoWrites /\ wpass'[t] = NoRow
  BY DEF BookingInv, Sound, NothingEarly
<1>2. Registers(t)' /\ ~Moves(t)'
  BY RequestFacts DEF BookingInv, Registers, Moves
<1> QED
  BY <1>1, <1>2
  DEF Sound, RequestFits, NothingEarly, HoldsItsBooking, EntersSlot,
      HoldsItsPass, WrotePass, WroteBooking, EditIsFresh

LEMMA LockActivityPreserves ==
  ASSUME NEW t \in Txs, BookingInv, LockActivity(t)
  PROVE  BookingInv'
<1>1. CASE Rollback(t)
  BY <1>1, RollbackPreserves
<1>2. ASSUME LockRow(t, req[t].act), Goto(t, "listHolders"),
             UNCHANGED <<committed, req, mem, wres, wpass>>
      PROVE  BookingInv'
  <2>1. Registers(t) /\ req[t].act \in Rows /\ lock[req[t].act] \in {NoTx, t}
    BY RowsTyped, RequestFacts DEF BookingInv, Sound, RequestFits, LockActivity, Free
  <2>2. HandlersTyped(Steps, Requests)' /\ LocalStep(t) /\ pc'[t] = "listHolders"
    BY <1>2, <2>1, HandlerMoves DEF BookingInv, Steps, LocalStep
  <2>3. Sound(t)'
    BY <1>2, <2>1, <2>2, StillReading DEF LockActivity
  <2> QED
    BY <1>2, <2>2, <2>3, LocalPreserves
<1> QED
  BY <1>1, <1>2 DEF LockActivity

LEMMA ListHoldersPreserves ==
  ASSUME NEW t \in Txs, BookingInv, ListHolders(t)
  PROVE  BookingInv'
<1> DEFINE m == [mem[t] EXCEPT !.holders = {res[r].dog : r \in SlotHolders(req[t].act)}]
<1>1. CASE Rollback(t)
  BY <1>1, RollbackPreserves
<1>2. ASSUME Remember(t, m), Goto(t, "readDogs"),
             UNCHANGED <<committed, req, wres, wpass, lock>>
      PROVE  BookingInv'
  <2>1. Registers(t)
    BY DEF BookingInv, Sound, RequestFits, ListHolders
  <2>2. m \in Memory
    <3>1. {res[r].dog : r \in SlotHolders(req[t].act)} \subseteq Dogs
      BY DEF SlotHolders, HoldsSlot, Exists, BookingInv, TypeOK, TablesTyped, ResRow
    <3>2. mem[t] \in Memory
      BY DEF BookingInv, TypeOK, HandlersTyped
    <3>3. ASSUME NEW hs \in SUBSET Dogs PROVE [mem[t] EXCEPT !.holders = hs] \in Memory
      BY <3>2 DEF Memory
    <3> QED
      BY <3>1, <3>3
  <2>3. HandlersTyped(Steps, Requests)' /\ LocalStep(t) /\ pc'[t] = "readDogs"
    BY <1>2, <2>2, HandlerMoves DEF BookingInv, Steps, LocalStep
  <2>4. Sound(t)'
    BY <1>2, <2>1, <2>3, StillReading DEF ListHolders
  <2> QED
    BY <1>2, <2>3, <2>4, LocalPreserves
<1> QED
  BY <1>1, <1>2 DEF ListHolders

LEMMA ReadDogsPreserves ==
  ASSUME NEW t \in Txs, BookingInv, ReadDogs(t)
  PROVE  BookingInv'
<1> DEFINE m == [mem[t] EXCEPT !.next = AdmittedAs(t)]
<1>1. CASE Rollback(t)
  BY <1>1, RollbackPreserves
<1>2. ASSUME Remember(t, m), Goto(t, "lockPass"),
             UNCHANGED <<committed, req, wres, wpass, lock>>
      PROVE  BookingInv'
  <2>1. Registers(t)
    BY DEF BookingInv, Sound, RequestFits, ReadDogs
  <2>2. AdmittedAs(t) \in SlotStatus /\ AdmittedAs(t) \in Status
    BY DEF AdmittedAs, SlotStatus, Status
  <2>3. m \in Memory /\ mem'[t].next \in SlotStatus
    <3>1. mem[t] \in Memory /\ mem'[t] = m
      BY <1>2 DEF BookingInv, TypeOK, HandlersTyped, Remember
    <3> QED
      BY <2>2, <3>1 DEF Memory
  <2>4. HandlersTyped(Steps, Requests)' /\ LocalStep(t) /\ pc'[t] = "lockPass"
    BY <1>2, <2>3, HandlerMoves DEF BookingInv, Steps, LocalStep
  <2>5. Sound(t)'
    BY <1>2, <2>1, <2>3, <2>4, StillReading DEF ReadDogs
  <2> QED
    BY <1>2, <2>4, <2>5, LocalPreserves
<1> QED
  BY <1>1, <1>2 DEF ReadDogs

LEMMA LockPassToConsumePreserves ==
  ASSUME NEW t \in Txs, BookingInv, LockPassToConsume(t)
  PROVE  BookingInv'
<1> DEFINE p == req[t].pass
           m == [mem[t] EXCEPT !.prow = [pass[p] EXCEPT !.remaining = pass[p].remaining - 1],
                               !.amount = -1]
<1>1. CASE Rollback(t)
  BY <1>1, RollbackPreserves
<1>2. ASSUME Payable(t, p), LockRow(t, p), Remember(t, m), Goto(t, "writePass"),
             UNCHANGED <<committed, req, wres, wpass>>
      PROVE  BookingInv'
  <2>1. Registers(t) /\ ~Moves(t) /\ p \in Passes /\ p \in Rows /\ lock[p] \in {NoTx, t}
    BY RowsTyped, RequestFacts
    DEF BookingInv, Sound, RequestFits, LockPassToConsume, Free
  <2>2. pass[p] \in PassRow /\ pass[p].remaining > 0
    <3>1. pass[p] \in PassRow
      BY <2>1 DEF BookingInv, TypeOK, TablesTyped
    <3> QED
      BY <1>2, <3>1 DEF Payable, IsExhausted, PassRow
  <2>3. /\ [pass[p] EXCEPT !.remaining = pass[p].remaining - 1] \in PassRow
        /\ SameTerms([pass[p] EXCEPT !.remaining = pass[p].remaining - 1], pass[p])
    BY <2>2 DEF PassRow, SameTerms
  <2>4. m \in Memory
    <3>1. mem[t] \in Memory
      BY DEF BookingInv, TypeOK, HandlersTyped
    <3> QED
      BY <2>3, <3>1 DEF Memory
  <2>5. HandlersTyped(Steps, Requests)' /\ LocalStep(t) /\ pc'[t] = "writePass"
    BY <1>2, <2>1, <2>4, HandlerMoves DEF BookingInv, Steps, LocalStep
  <2>6. /\ mem'[t].next = mem[t].next /\ mem'[t].amount = -1
        /\ mem'[t].prow \in PassRow
        /\ mem'[t].prow.remaining = pass[p].remaining - 1
        /\ SameTerms(mem'[t].prow, pass[p])
    <3>1. mem'[t] = m /\ mem[t] \in Memory
      BY <1>2 DEF BookingInv, TypeOK, HandlersTyped, Remember
    <3> QED
      BY <2>2, <2>3, <3>1 DEF Memory, PassRow
  <2>7. Sound(t)'
    <3>1. /\ wres'[t] = NoWrites /\ wpass'[t] = NoRow /\ mem[t].next \in SlotStatus
          /\ lock'[p] = t /\ pass' = pass
      BY <1>2, <2>1, LockTaken
      DEF BookingInv, TypeOK, HandlersTyped, Sound, NothingEarly, EntersSlot,
          LockPassToConsume, committed
    <3>2. Registers(t)' /\ ~Moves(t)' /\ PassOf(t)' = p /\ Change(t)' = -1
      BY <1>2, <2>1 DEF Registers, Moves, PassOf, Change
    <3>3. HoldsItsPass(t)'
      BY <2>2, <2>6, <3>1, <3>2 DEF HoldsItsPass, PassRow
    <3> QED
      BY <2>5, <2>6, <3>1, <3>2, <3>3
      DEF Sound, RequestFits, NothingEarly, HoldsItsBooking, EntersSlot,
          WrotePass, WroteBooking, EditIsFresh
  <2> QED
    BY <1>2, <2>5, <2>7, LocalPreserves
<1> QED
  BY <1>1, <1>2 DEF LockPassToConsume

(* A pass UPDATE: what both of its callers rely on.                        *)
LEMMA PassWritten ==
  ASSUME NEW t \in Txs, BookingInv, pc[t] = "writePass", NEW then \in Steps,
         WritePass(t, PassOf(t), then), ~Rollback(t)
  PROVE  /\ HandlersTyped(Steps, Requests)' /\ LocalStep(t) /\ pc'[t] = then
         /\ UNCHANGED <<req, mem, wres, committed>>
         /\ \A x \in Rows : lock[x] = t => lock'[x] = t
         /\ wpass'[t] # NoRow
         /\ wpass'[t].pass = PassOf(t) /\ wpass'[t].amount = Change(t)
         /\ wpass'[t].row.remaining = pass[PassOf(t)].remaining + Change(t)
         /\ wpass'[t].row.ver = pass[PassOf(t)].ver + 1
         /\ SameTerms(wpass'[t].row, pass[PassOf(t)])
<1> DEFINE p == PassOf(t)
           w == [pass |-> p, amount |-> mem[t].amount,
                 row |-> [mem[t].prow EXCEPT !.ver = mem[t].prow.ver + 1]]
<1>1. /\ pass[p].ver = mem[t].prow.ver /\ wpass' = [wpass EXCEPT ![t] = w]
      /\ LockRow(t, p) /\ lock[p] \in {NoTx, t} /\ Goto(t, then)
      /\ UNCHANGED <<committed, req, mem, wres>>
  BY DEF WritePass
<1>2. p \in Passes /\ p \in Rows
  BY RowsTyped, RequestFacts DEF BookingInv, Sound, RequestFits
<1>3. /\ mem[t].prow \in PassRow /\ mem[t].amount = Change(t)
      /\ mem[t].prow.remaining = pass[p].remaining + Change(t)
      /\ SameTerms(mem[t].prow, pass[p])
  BY DEF BookingInv, Sound, HoldsItsPass
<1>4. w.row \in PassRow /\ w.row.remaining = mem[t].prow.remaining
      /\ w.row.ver = pass[p].ver + 1 /\ SameTerms(w.row, pass[p])
  BY <1>1, <1>3 DEF PassRow, SameTerms
<1>5. w \in PassWrite /\ w # NoRow
  BY <1>2, <1>3, <1>4, BookingAssumption DEF PassWrite, Change
<1>6. wpass'[t] = w
  BY <1>1 DEF BookingInv, TypeOK, HandlersTyped
<1>7. HandlersTyped(Steps, Requests)' /\ OthersKeep(t) /\ pc'[t] = then
  <2>1. \E v \in PassWrite : wpass' = [wpass EXCEPT ![t] = v]
    BY <1>1, <1>5
  <2>2. \E x \in Rows : lock[x] \in {NoTx, t} /\ LockRow(t, x)
    BY <1>1, <1>2
  <2> HIDE DEF p, w
  <2> QED
    BY <1>1, <2>1, <2>2, HandlerMoves DEF BookingInv
<1>8. \A x \in Rows : lock[x] = t => lock'[x] = t
  BY <1>1, <1>2, LockTaken DEF BookingInv, TypeOK, HandlersTyped
<1> QED
  BY <1>1, <1>3, <1>4, <1>5, <1>6, <1>7, <1>8 DEF LocalStep

LEMMA WriteConsumedPassPreserves ==
  ASSUME NEW t \in Txs, BookingInv, WriteConsumedPass(t)
  PROVE  BookingInv'
<1>1. CASE Rollback(t)
  BY <1>1, RollbackPreserves
<1>2. ASSUME ~Rollback(t) PROVE BookingInv'
  <2>1. Registers(t) /\ ~Moves(t) /\ pc[t] = "writePass" /\ PassOf(t) = req[t].pass
        /\ PassOf(t) \in Rows
    BY RowsTyped, RequestFacts
    DEF BookingInv, Sound, RequestFits, WriteConsumedPass, PassOf
  <2>2. /\ HandlersTyped(Steps, Requests)' /\ LocalStep(t) /\ pc'[t] = "insert"
        /\ UNCHANGED <<req, mem, wres, committed>>
        /\ \A x \in Rows : lock[x] = t => lock'[x] = t
        /\ wpass'[t] # NoRow
        /\ wpass'[t].pass = PassOf(t) /\ wpass'[t].amount = Change(t)
        /\ wpass'[t].row.remaining = pass[PassOf(t)].remaining + Change(t)
        /\ wpass'[t].row.ver = pass[PassOf(t)].ver + 1
        /\ SameTerms(wpass'[t].row, pass[PassOf(t)])
    BY <1>2, <2>1, PassWritten DEF WriteConsumedPass, Steps
  <2>3. Registers(t)' /\ ~Moves(t)' /\ PassOf(t)' = PassOf(t) /\ Change(t)' = Change(t)
    BY <2>1, <2>2 DEF Registers, Moves, PassOf, Change
  <2>4. /\ wres'[t] = NoWrites /\ mem'[t].next \in SlotStatus
        /\ lock'[PassOf(t)] = t /\ pass' = pass
    BY <2>1, <2>2
    DEF BookingInv, Sound, NothingEarly, EntersSlot, HoldsItsPass, committed
  <2>5. Sound(t)'
    BY <2>2, <2>3, <2>4
    DEF Sound, RequestFits, NothingEarly, HoldsItsBooking, EntersSlot, HoldsItsPass,
        WrotePass, WroteBooking, EditIsFresh
  <2> QED
    BY <2>2, <2>5, LocalPreserves
<1> QED
  BY <1>1, <1>2

LEMMA InsertReservationPreserves ==
  ASSUME NEW t \in Txs, BookingInv, InsertReservation(t)
  PROVE  BookingInv'
<1>1. CASE Rollback(t)
  BY <1>1, RollbackPreserves
<1>2. ASSUME ~Rollback(t) PROVE BookingInv'
  <2> DEFINE row == [act |-> req[t].act, dog |-> req[t].dog, pass |-> req[t].pass,
                     status |-> mem[t].next]
  <2>1. PICK r \in ResIds :
          /\ NextId(r) /\ wres' = [wres EXCEPT ![t][r] = row]
          /\ Goto(t, "commit") /\ UNCHANGED <<committed, req, mem, wpass, lock>>
    BY <1>2 DEF InsertReservation
  <2>2. /\ Registers(t) /\ ~Moves(t) /\ pc[t] = "insert"
        /\ wres[t] = NoWrites /\ mem[t].next \in SlotStatus
    BY RequestFacts
    DEF BookingInv, Sound, RequestFits, NothingEarly, EntersSlot, InsertReservation
  <2>3. row \in ResRow /\ row # NoRow
    <3>1. row \in ResRow
      BY <2>2, RequestFacts DEF BookingInv, ResRow, SlotStatus, Status
    <3> QED
      BY <3>1, BookingAssumption
  <2>4. /\ wres' = [wres EXCEPT ![t] = [wres[t] EXCEPT ![r] = row]]
        /\ [wres[t] EXCEPT ![r] = row] \in [ResIds -> ResRow \cup {NoRow}]
    BY <2>1, <2>3 DEF BookingInv, TypeOK, HandlersTyped
  <2>5. /\ wres'[t][r] = row
        /\ \A s \in ResIds \ {r} : wres'[t][s] = NoRow
    BY <2>2, <2>4 DEF BookingInv, TypeOK, HandlersTyped, NoWrites
  <2>6. HandlersTyped(Steps, Requests)' /\ LocalStep(t) /\ pc'[t] = "commit"
    BY <2>1, <2>4, HandlerMoves DEF BookingInv, Steps, LocalStep
  <2>7. Registers(t)' /\ ~Moves(t)' /\ PassOf(t)' = PassOf(t) /\ Change(t)' = Change(t)
    BY <2>1, <2>2 DEF Registers, Moves, PassOf, Change
  <2>8. res[r] = NoRow /\ \A u \in Txs : wres[u][r] = NoRow
    BY <2>1 DEF NextId, Unused
  <2>9. WroteBooking(t)'
    <3>1. /\ res'[r] = NoRow
          /\ wres'[t][r] \in ResRow
          /\ wres'[t][r].pass = req'[t].pass
          /\ wres'[t][r].status \in SlotStatus
          /\ \A s \in ResIds \ {r} : wres'[t][s] = NoRow
      BY <2>1, <2>2, <2>3, <2>5, <2>8 DEF committed
    <3> QED
      BY <2>7, <3>1 DEF WroteBooking
  <2>10. WrotePass(t)'
    BY <2>1, <2>2, <2>6, <2>7 DEF BookingInv, Sound, WrotePass, committed
  <2>11. Sound(t)'
    BY <2>6, <2>7, <2>9, <2>10
    DEF Sound, RequestFits, NothingEarly, HoldsItsBooking, EntersSlot, HoldsItsPass,
        EditIsFresh
  <2>12. WritesApart'
    <3> SUFFICES ASSUME NEW u \in Txs, NEW v \in Txs, NEW s \in ResIds,
                        wres'[u][s] # NoRow, wres'[v][s] # NoRow
                 PROVE  u = v
      BY DEF WritesApart
    <3>1. \A w \in Txs \ {t} : wres'[w][s] = wres[w][s]
      BY <2>4 DEF BookingInv, TypeOK, HandlersTyped
    <3> QED
      BY <2>5, <2>8, <3>1 DEF BookingInv, WritesApart
  <2> QED
    BY <2>6, <2>11, <2>12, WritingPreserves
<1> QED
  BY <1>1, <1>2

-----------------------------------------------------------------------------
(* The statements of the transitions.                                      *)

LEMMA LockReservationPreserves ==
  ASSUME NEW t \in Txs, BookingInv, LockReservation(t)
  PROVE  BookingInv'
<1> DEFINE r == req[t].res
           m == [mem[t] EXCEPT !.row = res[r], !.next = Decided(req[t].op)]
<1>1. CASE Rollback(t)
  BY <1>1, RollbackPreserves
<1>2. ASSUME Exists(r), MayStart(req[t].op, res[r].status), LockRow(t, r), Free(r),
             Remember(t, m), Goto(t, AfterLock(req[t].op)),
             UNCHANGED <<committed, req, wres, wpass>>
      PROVE  BookingInv'
  <2>1. /\ Moves(t) /\ ~Registers(t) /\ r \in ResIds /\ r \in Rows
        /\ lock[r] \in {NoTx, t} /\ pc[t] = "lockReservation"
        /\ req[t].op \in {"cancel", "complete", "noShow", "forgive", "confirm", "reject"}
    <3>1. Moves(t) /\ pc[t] = "lockReservation"
      BY DEF BookingInv, Sound, RequestFits, LockReservation
    <3> QED
      BY <1>2, <3>1, RowsTyped, RequestFacts DEF BookingInv, Free, Registers, RegisterRequests
  <2>2. res[r] \in ResRow
    BY <1>2, <2>1 DEF Exists, BookingInv, TypeOK, TablesTyped
  <2>3. AfterLock(req[t].op) \in {"readActivity", "lockPass", "writeReservation"}
    BY DEF AfterLock
  <2>4. m \in Memory
    <3>1. Decided(req[t].op) \in Status \cup {NoRow}
      BY DEF Decided, Status
    <3>2. mem[t] \in Memory
      BY DEF BookingInv, TypeOK, HandlersTyped
    <3> QED
      BY <2>2, <3>1, <3>2 DEF Memory
  <2>5. /\ HandlersTyped(Steps, Requests)' /\ LocalStep(t)
        /\ pc'[t] = AfterLock(req[t].op)
    <3>1. AfterLock(req[t].op) \in Steps
      BY <2>3 DEF Steps
    <3> QED
      BY <1>2, <2>1, <2>4, <3>1, HandlerMoves DEF BookingInv, LocalStep
  <2>6. mem'[t].row = res[r] /\ mem'[t].next = Decided(req[t].op)
    <3>1. mem'[t] = m /\ mem[t] \in Memory
      BY <1>2 DEF BookingInv, TypeOK, HandlersTyped, Remember
    <3> QED
      BY <3>1 DEF Memory
  <2>7. Moves(t)' /\ ~Registers(t)' /\ req'[t] = req[t] /\ res' = res
    BY <1>2, <2>1 DEF Registers, Moves, committed
  <2>8. /\ wres'[t] = NoWrites /\ wpass'[t] = NoRow /\ lock'[r] = t
    BY <1>2, <2>1, LockTaken
    DEF BookingInv, TypeOK, HandlersTyped, Sound, NothingEarly
  <2>9. AfterLock(req[t].op) \in {"lockPass", "writeReservation"}
          => <<res[r].status, Decided(req[t].op)>> \in Transitions
    BY <1>2, <2>1, <2>2 DEF AfterLock, MayStart, Decided, Transitions
  <2>10. HoldsItsBooking(t)'
    <3>1. /\ lock'[req'[t].res] = t /\ mem'[t].row \in ResRow
          /\ res'[req'[t].res] = mem'[t].row
      BY <2>2, <2>6, <2>7, <2>8
    <3>2. /\ MayStart(req'[t].op, mem'[t].row.status)
          /\ pc'[t] = "readActivity" => req'[t].op \in {"cancel", "complete", "noShow"}
      BY <1>2, <2>1, <2>5, <2>6, <2>7 DEF AfterLock
    <3>3. pc'[t] \in {"lockPass", "writePass", "writeReservation", "commit"}
            => <<mem'[t].row.status, mem'[t].next>> \in Transitions
      BY <2>3, <2>5, <2>6, <2>9
    <3> QED
      BY <3>1, <3>2, <3>3 DEF HoldsItsBooking
  <2>11. WrotePass(t)'
    <3>1. AfterLock(req[t].op) = "writeReservation" => Decided(req[t].op) = "CONFIRMED"
      BY <2>1 DEF AfterLock, Decided
    <3> QED
      BY <2>3, <2>5, <2>6, <2>7, <2>8, <3>1
      DEF WrotePass, GivenBack, ChargedStatus, Status
  <2>12. Sound(t)'
    BY <2>3, <2>5, <2>7, <2>8, <2>10, <2>11
    DEF Sound, RequestFits, NothingEarly, EntersSlot, HoldsItsPass, WroteBooking,
        EditIsFresh
  <2> QED
    BY <1>2, <2>5, <2>12, LocalPreserves
<1> QED
  BY <1>1, <1>2 DEF LockReservation

LEMMA ReadActivityPreserves ==
  ASSUME NEW t \in Txs, BookingInv, ReadActivity(t)
  PROVE  BookingInv'
<1> DEFINE arow == activity[mem[t].row.act]
           op == req[t].op
           next == Outcome(op, arow, req[t].now)
           m == [mem[t] EXCEPT !.next = next]
           then == IF op = "cancel" THEN "lockPass" ELSE "writeReservation"
<1>1. CASE Rollback(t)
  BY <1>1, RollbackPreserves
<1>2. ASSUME InTimeForIt(op, mem[t].row, arow, req[t].now),
             Remember(t, m), Goto(t, then), UNCHANGED <<committed, req, wres, wpass, lock>>
      PROVE  BookingInv'
  <2>1. /\ Moves(t) /\ ~Registers(t) /\ pc[t] = "readActivity"
        /\ wres[t] = NoWrites /\ wpass[t] = NoRow
        /\ req[t].res \in ResIds /\ lock[req[t].res] = t
        /\ mem[t].row \in ResRow /\ res[req[t].res] = mem[t].row
        /\ op \in {"cancel", "complete", "noShow"}
        /\ MayStart(op, mem[t].row.status)
    <3>1. Moves(t) /\ pc[t] = "readActivity"
      BY DEF BookingInv, Sound, RequestFits, ReadActivity
    <3>2. op # "register" /\ req[t].res \in ResIds
      BY <3>1, RequestFacts DEF BookingInv
    <3> QED
      BY <3>1, <3>2
      DEF BookingInv, Sound, NothingEarly, HoldsItsBooking, Registers, RegisterRequests
  <2>2. <<mem[t].row.status, next>> \in Transitions
    BY <1>2, <2>1 DEF InTimeForIt, MayStart, Outcome, Transitions
  <2>3. op # "cancel" => next \in {"COMPLETED", "NO_SHOW"}
    BY <2>1 DEF Outcome
  <2>4. m \in Memory /\ mem'[t].row = mem[t].row /\ mem'[t].next = next
    <3>1. next \in Status
      BY DEF Outcome, Status
    <3>2. mem[t] \in Memory /\ mem'[t] = m
      BY <1>2 DEF BookingInv, TypeOK, HandlersTyped, Remember
    <3> HIDE DEF next
    <3> QED
      BY <3>1, <3>2 DEF Memory
  <2>5. /\ HandlersTyped(Steps, Requests)' /\ LocalStep(t) /\ pc'[t] = then
    BY <1>2, <2>4, HandlerMoves DEF BookingInv, LocalStep, Steps
  <2>6. /\ Moves(t)' /\ ~Registers(t)' /\ req'[t] = req[t] /\ res' = res
        /\ wres'[t] = NoWrites /\ wpass'[t] = NoRow /\ lock' = lock
    BY <1>2, <2>1 DEF Registers, Moves, committed
  <2> HIDE DEF next
  <2>7. HoldsItsBooking(t)'
    BY <2>1, <2>2, <2>4, <2>5, <2>6 DEF HoldsItsBooking
  <2>8. WrotePass(t)'
    BY <2>3, <2>4, <2>5, <2>6 DEF WrotePass, GivenBack, ChargedStatus, Status
  <2>9. Sound(t)'
    BY <2>5, <2>6, <2>7, <2>8
    DEF Sound, RequestFits, NothingEarly, EntersSlot, HoldsItsPass, WroteBooking,
        EditIsFresh
  <2> QED
    BY <1>2, <2>5, <2>9, LocalPreserves
<1> QED
  BY <1>1, <1>2 DEF ReadActivity

(* A booking that holds a session is counted, so its pass can take the     *)
(* session back: CanRefund is never false where it would lose a refund.    *)
LEMMA ChargedFinite == \A p : IsFiniteSet(Charged(p)) /\ Cardinality(Charged(p)) \in Nat
<1> TAKE p
<1>1. Charged(p) \subseteq ResIds
  BY DEF Charged, BookedWith
<1> QED
  BY <1>1, KeysAssumption, FS_Subset, FS_CardinalityType

LEMMA HeldSessionIsRefundable ==
  ASSUME BookingInv, NEW r \in ResIds, res[r] \in ResRow,
         res[r].status \in ChargedStatus
  PROVE  CanRefund(res[r].pass, pass[res[r].pass])
<1> DEFINE p == res[r].pass
<1>1. p \in Passes /\ r \in Charged(p)
  BY BookingAssumption DEF Charged, BookedWith, ResRow
<1>2. Cardinality(Charged(p)) # 0
  BY <1>1, ChargedFinite, FS_EmptySet
<1>3. pass[p].remaining \in Nat /\ NumSessions[p] \in Nat
  BY <1>1, KeysAssumption DEF BookingInv, TypeOK, TablesTyped, PassRow
<1>4. pass[p].remaining + Cardinality(Charged(p)) = NumSessions[p]
  BY <1>1 DEF BookingInv, SessionLedger
<1> QED
  BY <1>2, <1>3, <1>4, ChargedFinite DEF CanRefund

LEMMA LockPassToRefundPreserves ==
  ASSUME NEW t \in Txs, BookingInv, LockPassToRefund(t)
  PROVE  BookingInv'
<1> DEFINE p == mem[t].row.pass
           m == [mem[t] EXCEPT !.prow = [pass[p] EXCEPT !.remaining = pass[p].remaining + 1],
                               !.amount = 1]
<1>1. /\ Moves(t) /\ ~Registers(t) /\ pc[t] = "lockPass"
      /\ wres[t] = NoWrites /\ wpass[t] = NoRow
      /\ req[t].res \in ResIds /\ req[t].res \in Rows /\ lock[req[t].res] = t
      /\ mem[t].row \in ResRow /\ res[req[t].res] = mem[t].row
      /\ <<mem[t].row.status, mem[t].next>> \in Transitions
      /\ p \in Passes /\ p \in Rows /\ PassOf(t) = p
  <2>1. Moves(t) /\ ~Registers(t) /\ pc[t] = "lockPass"
    BY RequestFacts
    DEF BookingInv, Sound, RequestFits, LockPassToRefund, Registers, RegisterRequests
  <2>2. req[t].res \in ResIds /\ p \in Passes
    BY <2>1, RequestFacts DEF BookingInv
  <2> QED
    BY <2>1, <2>2, RowsTyped
    DEF BookingInv, Sound, NothingEarly, HoldsItsBooking, PassOf
<1>2. Free(p)
  BY DEF LockPassToRefund
<1>3. CASE Rollback(t)
  BY <1>3, RollbackPreserves
<1>4. ASSUME Refunds(t, p), LockRow(t, p), Remember(t, m), Goto(t, "writePass"),
             UNCHANGED <<committed, req, wres, wpass>>
      PROVE  BookingInv'
  <2>1. pass[p] \in PassRow
    BY <1>1 DEF BookingInv, TypeOK, TablesTyped
  <2>2. /\ [pass[p] EXCEPT !.remaining = pass[p].remaining + 1] \in PassRow
        /\ [pass[p] EXCEPT !.remaining = pass[p].remaining + 1].remaining
             = pass[p].remaining + 1
        /\ SameTerms([pass[p] EXCEPT !.remaining = pass[p].remaining + 1], pass[p])
    BY <2>1 DEF PassRow, SameTerms
  <2>3. m \in Memory
    <3>1. mem[t] \in Memory
      BY DEF BookingInv, TypeOK, HandlersTyped
    <3> QED
      BY <2>2, <3>1 DEF Memory
  <2>4. /\ mem'[t].row = mem[t].row /\ mem'[t].next = mem[t].next
        /\ mem'[t].amount = 1 /\ mem'[t].prow \in PassRow
        /\ mem'[t].prow.remaining = pass[p].remaining + 1
        /\ SameTerms(mem'[t].prow, pass[p])
    <3>1. mem'[t] = m /\ mem[t] \in Memory
      BY <1>4 DEF BookingInv, TypeOK, HandlersTyped, Remember
    <3> QED
      BY <2>2, <3>1 DEF Memory
  <2>5. HandlersTyped(Steps, Requests)' /\ LocalStep(t) /\ pc'[t] = "writePass"
    BY <1>1, <1>2, <1>4, <2>3, HandlerMoves DEF BookingInv, Steps, LocalStep, Free
  <2>6. /\ Moves(t)' /\ ~Registers(t)' /\ req'[t] = req[t] /\ PassOf(t)' = p
        /\ Change(t)' = 1 /\ res' = res /\ pass' = pass
        /\ wres'[t] = NoWrites /\ wpass'[t] = NoRow
        /\ lock'[p] = t /\ lock'[req[t].res] = t
    BY <1>1, <1>2, <1>4, <2>4, LockTaken
    DEF Registers, Moves, PassOf, Change, committed, BookingInv, TypeOK, HandlersTyped, Free
  <2>7. mem[t].next \in GivenBack
    BY <1>4 DEF Refunds, GivenBack, ChargedStatus, Status
  <2>8. HoldsItsBooking(t)' /\ HoldsItsPass(t)'
    BY <1>1, <2>4, <2>5, <2>6, <2>7 DEF HoldsItsBooking, HoldsItsPass
  <2>9. Sound(t)'
    BY <2>5, <2>6, <2>8
    DEF Sound, RequestFits, NothingEarly, EntersSlot, WrotePass, WroteBooking, EditIsFresh
  <2> QED
    BY <1>4, <2>5, <2>9, LocalPreserves
<1>5. ASSUME ~Refunds(t, p), LockRow(t, p), Goto(t, "writeReservation"),
             UNCHANGED <<committed, req, mem, wres, wpass>>
      PROVE  BookingInv'
  <2>1. HandlersTyped(Steps, Requests)' /\ LocalStep(t) /\ pc'[t] = "writeReservation"
    BY <1>1, <1>2, <1>5, HandlerMoves DEF BookingInv, Steps, LocalStep, Free
  <2>2. /\ Moves(t)' /\ ~Registers(t)' /\ req'[t] = req[t] /\ mem' = mem
        /\ res' = res /\ wres'[t] = NoWrites /\ wpass'[t] = NoRow
        /\ lock'[req[t].res] = t
    BY <1>1, <1>2, <1>5, LockTaken
    DEF Registers, Moves, committed, BookingInv, TypeOK, HandlersTyped, Free
  <2>3. mem[t].next \notin GivenBack
    <3>1. mem[t].row.status \in ChargedStatus \/ mem[t].next \notin GivenBack
      BY <1>1 DEF Transitions, ChargedStatus, GivenBack, Status
    <3>2. mem[t].row.status \in ChargedStatus => CanRefund(p, pass[p])
      BY <1>1, HeldSessionIsRefundable
    <3>3. mem[t].next \in GivenBack => mem[t].next \in {"CANCELLED_IN_TIME", "FORGIVEN"}
      BY DEF GivenBack, ChargedStatus, Status
    <3> QED
      BY <1>5, <3>1, <3>2, <3>3 DEF Refunds
  <2>4. HoldsItsBooking(t)'
    BY <1>1, <2>1, <2>2 DEF HoldsItsBooking
  <2>5. Sound(t)'
    BY <2>1, <2>2, <2>3, <2>4
    DEF Sound, RequestFits, NothingEarly, EntersSlot, HoldsItsPass, WrotePass,
        WroteBooking, EditIsFresh
  <2> QED
    BY <1>5, <2>1, <2>5, LocalPreserves
<1> QED
  BY <1>3, <1>4, <1>5 DEF LockPassToRefund

LEMMA WriteRefundedPassPreserves ==
  ASSUME NEW t \in Txs, BookingInv, WriteRefundedPass(t)
  PROVE  BookingInv'
<1>1. CASE Rollback(t)
  BY <1>1, RollbackPreserves
<1>2. ASSUME ~Rollback(t) PROVE BookingInv'
  <2>1. Moves(t) /\ ~Registers(t) /\ pc[t] = "writePass" /\ PassOf(t) = mem[t].row.pass
        /\ PassOf(t) \in Rows
    BY RowsTyped, RequestFacts
    DEF BookingInv, Sound, RequestFits, WriteRefundedPass, PassOf, Registers, RegisterRequests
  <2>2. /\ HandlersTyped(Steps, Requests)' /\ LocalStep(t) /\ pc'[t] = "writeReservation"
        /\ UNCHANGED <<req, mem, wres, committed>>
        /\ \A x \in Rows : lock[x] = t => lock'[x] = t
        /\ wpass'[t] # NoRow
        /\ wpass'[t].pass = PassOf(t) /\ wpass'[t].amount = Change(t)
        /\ wpass'[t].row.remaining = pass[PassOf(t)].remaining + Change(t)
        /\ wpass'[t].row.ver = pass[PassOf(t)].ver + 1
        /\ SameTerms(wpass'[t].row, pass[PassOf(t)])
    BY <1>2, <2>1, PassWritten DEF WriteRefundedPass, Steps
  <2>3. /\ Moves(t)' /\ ~Registers(t)' /\ PassOf(t)' = PassOf(t) /\ Change(t)' = Change(t)
    BY <2>1, <2>2 DEF Registers, Moves, PassOf, Change
  <2>4. /\ wres'[t] = NoWrites /\ mem'[t].next \in GivenBack
        /\ lock'[PassOf(t)] = t /\ pass' = pass
    BY <2>1, <2>2 DEF BookingInv, Sound, NothingEarly, HoldsItsPass, committed
  <2>5. HoldsItsBooking(t)'
    <3>1. req[t].res \in Rows
      BY <2>1, RowsTyped, RequestFacts DEF BookingInv
    <3> QED
      BY <2>1, <2>2, <3>1 DEF BookingInv, Sound, HoldsItsBooking, committed
  <2>6. Sound(t)'
    BY <2>2, <2>3, <2>4, <2>5
    DEF Sound, RequestFits, NothingEarly, EntersSlot, HoldsItsPass, WrotePass,
        WroteBooking, EditIsFresh
  <2> QED
    BY <2>2, <2>6, LocalPreserves
<1> QED
  BY <1>1, <1>2

LEMMA WriteReservationPreserves ==
  ASSUME NEW t \in Txs, BookingInv, WriteReservation(t)
  PROVE  BookingInv'
<1>1. CASE Rollback(t)
  BY <1>1, RollbackPreserves
<1>2. ASSUME ~Rollback(t) PROVE BookingInv'
  <2> DEFINE r == req[t].res
             row == [res[r] EXCEPT !.status = mem[t].next]
  <2>1. /\ Exists(r) /\ wres' = [wres EXCEPT ![t][r] = row]
        /\ LockRow(t, r) /\ lock[r] \in {NoTx, t} /\ Goto(t, "commit")
        /\ UNCHANGED <<committed, req, mem, wpass>>
    BY <1>2 DEF WriteReservation
  <2>2. /\ Moves(t) /\ ~Registers(t) /\ pc[t] = "writeReservation"
        /\ wres[t] = NoWrites /\ r \in ResIds /\ r \in Rows /\ lock[r] = t
        /\ mem[t].row \in ResRow /\ res[r] = mem[t].row
        /\ <<mem[t].row.status, mem[t].next>> \in Transitions
    <3>1. Moves(t) /\ pc[t] = "writeReservation"
      BY DEF BookingInv, Sound, RequestFits, WriteReservation
    <3>2. req[t].op # "register" /\ r \in ResIds
      BY <3>1, RequestFacts DEF BookingInv
    <3> QED
      BY <3>1, <3>2, RowsTyped
      DEF BookingInv, Sound, NothingEarly, HoldsItsBooking, Registers, RegisterRequests
  <2>3. row \in ResRow /\ row # NoRow
    <3>1. mem[t].next \in Status
      BY <2>2 DEF Transitions, Status
    <3>2. row \in ResRow
      BY <2>2, <3>1 DEF ResRow
    <3> QED
      BY <3>2, BookingAssumption
  <2>4. /\ wres' = [wres EXCEPT ![t] = [wres[t] EXCEPT ![r] = row]]
        /\ [wres[t] EXCEPT ![r] = row] \in [ResIds -> ResRow \cup {NoRow}]
    BY <2>1, <2>2, <2>3 DEF BookingInv, TypeOK, HandlersTyped
  <2>5. /\ wres'[t][r] = row
        /\ \A s \in ResIds \ {r} : wres'[t][s] = NoRow
    BY <2>2, <2>4 DEF BookingInv, TypeOK, HandlersTyped, NoWrites
  <2>6. HandlersTyped(Steps, Requests)' /\ LocalStep(t) /\ pc'[t] = "commit"
    BY <2>1, <2>2, <2>4, HandlerMoves DEF BookingInv, Steps, LocalStep
  <2>7. /\ Moves(t)' /\ ~Registers(t)' /\ PassOf(t)' = PassOf(t) /\ Change(t)' = Change(t)
        /\ req' = req /\ mem' = mem /\ res' = res /\ pass' = pass /\ wpass' = wpass
        /\ \A x \in Rows : lock[x] = t => lock'[x] = t
    BY <2>1, <2>2, LockTaken
    DEF Registers, Moves, PassOf, Change, committed, BookingInv, TypeOK, HandlersTyped
  <2>8. WroteBooking(t)'
    BY <2>2, <2>5, <2>7 DEF WroteBooking
  <2>9. WrotePass(t)'
    <3>1. wpass[t] # NoRow => PassOf(t) \in Rows
      BY <2>2, RowsTyped, RequestFacts DEF BookingInv
    <3> QED
      BY <2>2, <2>6, <2>7, <3>1 DEF BookingInv, Sound, WrotePass
  <2>10. HoldsItsBooking(t)'
    BY <2>2, <2>6, <2>7 DEF HoldsItsBooking
  <2>11. Sound(t)'
    BY <2>6, <2>7, <2>8, <2>9, <2>10
    DEF Sound, RequestFits, NothingEarly, EntersSlot, HoldsItsPass, EditIsFresh
  <2>12. ASSUME NEW u \in Txs \ {t} PROVE wres[u][r] = NoRow
    <3> SUFFICES ASSUME wres[u][r] # NoRow PROVE FALSE
      OBVIOUS
    <3>1. pc[u] = "commit" /\ (Registers(u) \/ Moves(u))
      BY <2>2 DEF BookingInv, Sound, NothingEarly, RequestFits, NoWrites
    <3>2. CASE Registers(u)
      BY <2>1, <2>2, <3>1, <3>2 DEF BookingInv, Sound, WroteBooking, Exists
    <3>3. CASE Moves(u)
      <4>1. r = req[u].res
        BY <2>2, <3>1, <3>3 DEF BookingInv, Sound, WroteBooking
      <4> QED
        BY <2>2, <3>1, <3>3, <4>1 DEF BookingInv, Sound, HoldsItsBooking
    <3> QED
      BY <3>1, <3>2, <3>3
  <2>13. WritesApart'
    <3> SUFFICES ASSUME NEW u \in Txs, NEW v \in Txs, NEW s \in ResIds,
                        wres'[u][s] # NoRow, wres'[v][s] # NoRow
                 PROVE  u = v
      BY DEF WritesApart
    <3>1. \A w \in Txs \ {t} : wres'[w][s] = wres[w][s]
      BY <2>4 DEF BookingInv, TypeOK, HandlersTyped
    <3> QED
      BY <2>5, <2>12, <3>1 DEF BookingInv, WritesApart
  <2> QED
    BY <2>6, <2>11, <2>13, WritingPreserves
<1> QED
  BY <1>1, <1>2

-----------------------------------------------------------------------------
(* COMMIT publishes one new booking, or one move of a booking ...          *)
LEMMA BookingPublished ==
  ASSUME NEW t \in Txs, BookingInv, Commit(t)
  PROVE  \E r \in ResIds :
           /\ \A s \in ResIds \ {r} : res'[s] = res[s] /\ wres[t][s] = NoRow
           /\ res' \in [ResIds -> ResRow \cup {NoRow}]
           /\ res'[r] \in ResRow
           /\ \/ /\ Registers(t) /\ res[r] = NoRow
                 /\ res'[r].pass = PassOf(t) /\ res'[r].status \in SlotStatus
              \/ /\ Moves(t) /\ ~Registers(t) /\ r = req[t].res /\ res[r] \in ResRow
                 /\ res[r] = mem[t].row /\ lock[r] = t
                 /\ res[r].pass = PassOf(t)
                 /\ res'[r] = [res[r] EXCEPT !.status = mem[t].next]
                 /\ res'[r].status = mem[t].next
                 /\ <<res[r].status, mem[t].next>> \in Transitions
<1>1. pc[t] = "commit" /\ (Registers(t) \/ Moves(t))
  BY DEF Commit, BookingInv, Sound, RequestFits
<1>2. \A r \in ResIds : res'[r] = IF wres[t][r] # NoRow THEN wres[t][r] ELSE res[r]
  BY DEF Commit, Publish, Written
<1>3. res' \in [ResIds -> ResRow \cup {NoRow}]
  <2>1. res \in [ResIds -> ResRow \cup {NoRow}]
        /\ wres[t] \in [ResIds -> ResRow \cup {NoRow}]
    BY DEF BookingInv, TypeOK, TablesTyped, HandlersTyped
  <2>2. res' = [r \in ResIds |-> IF wres[t][r] # NoRow THEN wres[t][r] ELSE res[r]]
    BY DEF Commit, Publish, Written
  <2> QED
    BY <2>1, <2>2
<1>4. CASE Registers(t)
  <2>1. PICK r \in ResIds :
           /\ res[r] = NoRow
           /\ wres[t][r] \in ResRow
           /\ wres[t][r].pass = req[t].pass
           /\ wres[t][r].status \in SlotStatus
           /\ \A s \in ResIds \ {r} : wres[t][s] = NoRow
    BY <1>1, <1>4 DEF BookingInv, Sound, WroteBooking
  <2>2. res'[r] = wres[t][r] /\ \A s \in ResIds \ {r} : res'[s] = res[s]
    BY <1>2, <2>1, BookingAssumption
  <2> QED
    BY <1>3, <1>4, <2>1, <2>2 DEF PassOf
<1>5. CASE ~Registers(t)
  <2> DEFINE r == req[t].res
             row == [mem[t].row EXCEPT !.status = mem[t].next]
  <2>1. Moves(t) /\ r \in ResIds /\ mem[t].row \in ResRow /\ res[r] = mem[t].row
        /\ lock[r] = t /\ <<mem[t].row.status, mem[t].next>> \in Transitions
    <3>1. Moves(t) /\ r \in ResIds
      BY <1>1, <1>5, RequestFacts DEF BookingInv
    <3> QED
      BY <1>1, <3>1 DEF BookingInv, Sound, HoldsItsBooking
  <2>2. wres[t][r] = row /\ \A s \in ResIds \ {r} : wres[t][s] = NoRow
    BY <1>1, <2>1 DEF BookingInv, Sound, WroteBooking
  <2>3. row \in ResRow /\ row.status = mem[t].next /\ row # NoRow
    <3>1. mem[t].next \in Status
      BY <2>1 DEF Transitions, Status
    <3>2. row \in ResRow /\ row.status = mem[t].next
      BY <2>1, <3>1 DEF ResRow
    <3> QED
      BY <3>2, BookingAssumption
  <2>4. res'[r] = row /\ \A s \in ResIds \ {r} : res'[s] = res[s]
    BY <1>2, <2>1, <2>2, <2>3
  <2>5. res[r].pass = PassOf(t)
    BY <1>5, <2>1 DEF PassOf
  <2> QED
    BY <1>3, <1>5, <2>1, <2>2, <2>3, <2>4, <2>5
<1> QED
  BY <1>4, <1>5

(* ... and the counter of its pass, if the booking or the move changes it. *)
LEMMA PassPublished ==
  ASSUME NEW t \in Txs, BookingInv, Commit(t)
  PROVE  /\ pass' \in [Passes -> PassRow]
         /\ audit' \in [Passes -> [consumed : Nat, refunded : Nat]]
         /\ \/ wpass[t] = NoRow /\ pass' = pass
            \/ /\ wpass[t] # NoRow /\ PassOf(t) \in Passes /\ lock[PassOf(t)] = t
               /\ pass'[PassOf(t)].remaining = pass[PassOf(t)].remaining + Change(t)
               /\ pass'[PassOf(t)].ver = pass[PassOf(t)].ver + 1
               /\ SameTerms(pass'[PassOf(t)], pass[PassOf(t)])
               /\ \A p \in Passes \ {PassOf(t)} : pass'[p] = pass[p]
<1>1. pass \in [Passes -> PassRow] /\ audit \in [Passes -> [consumed : Nat, refunded : Nat]]
  BY DEF BookingInv, TypeOK, TablesTyped
<1>2. CASE wpass[t] = NoRow
  BY <1>1, <1>2 DEF Commit, Publish
<1>3. CASE wpass[t] # NoRow
  <2> DEFINE p == PassOf(t)
             old == audit[p]
             new == IF wpass[t].amount = -1
                      THEN [old EXCEPT !.consumed = old.consumed + 1]
                      ELSE [old EXCEPT !.refunded = old.refunded + 1]
  <2>1. wpass[t] \in PassWrite
    BY <1>3 DEF BookingInv, TypeOK, HandlersTyped
  <2>2. /\ wpass[t].pass = p /\ lock[p] = t
        /\ wpass[t].row.remaining = pass[p].remaining + Change(t)
        /\ wpass[t].row.ver = pass[p].ver + 1
        /\ SameTerms(wpass[t].row, pass[p])
    BY <1>3 DEF BookingInv, Sound, WrotePass
  <2>3. p \in Passes /\ wpass[t].row \in PassRow
    BY <2>1, <2>2 DEF PassWrite
  <2>4. pass' = [pass EXCEPT ![p] = wpass[t].row] /\ audit' = [audit EXCEPT ![p] = new]
    BY <1>3, <2>2 DEF Commit, Publish
  <2>5. new \in [consumed : Nat, refunded : Nat]
    BY <1>1, <2>3
  <2> HIDE DEF new
  <2>6. audit' \in [Passes -> [consumed : Nat, refunded : Nat]]
    BY <1>1, <2>4, <2>5
  <2> QED
    BY <1>1, <1>3, <2>2, <2>3, <2>4, <2>6
<1> QED
  BY <1>2, <1>3

(* Charged(p) after a commit, if the bookings other than r stay.           *)
LEMMA LedgerStep ==
  ASSUME BookingInv, NEW r \in ResIds, \A s \in ResIds \ {r} : res'[s] = res[s],
         res'[r] \in ResRow, NEW p \in Passes
  PROVE  /\ res'[r].pass = p /\ res'[r].status \in ChargedStatus /\ r \notin Charged(p)
              => Cardinality(Charged(p))' = Cardinality(Charged(p)) + 1
         /\ r \in Charged(p) /\ ~(res'[r].pass = p /\ res'[r].status \in ChargedStatus)
              => Cardinality(Charged(p))' = Cardinality(Charged(p)) - 1
         /\ (r \in Charged(p) <=> res'[r].pass = p /\ res'[r].status \in ChargedStatus)
              => Cardinality(Charged(p))' = Cardinality(Charged(p))
<1> DEFINE C == Charged(p)
           here == res'[r].pass = p /\ res'[r].status \in ChargedStatus
<1>1. C' = IF here THEN C \cup {r} ELSE C \ {r}
  <2>1. \A s \in ResIds : s # r => (s \in C' <=> s \in C)
    BY DEF Charged, BookedWith
  <2>2. r \in C' <=> here
    BY BookingAssumption DEF Charged, BookedWith
  <2>3. C \subseteq ResIds /\ C' \subseteq ResIds
    BY DEF Charged, BookedWith
  <2> HIDE DEF C, here
  <2> QED
    BY <2>1, <2>2, <2>3
<1>2. IsFiniteSet(C) /\ Cardinality(C) \in Nat
  BY ChargedFinite
<1>3. CASE here /\ r \notin C
  BY <1>1, <1>2, <1>3, FS_AddElement
<1>4. CASE r \in C /\ ~here
  BY <1>1, <1>2, <1>4, FS_RemoveElement
<1>5. CASE r \in C <=> here
  <2>1. C' = C
    BY <1>1, <1>5
  <2> QED
    BY <1>5, <2>1
<1> QED
  BY <1>3, <1>4, <1>5

LEMMA CommitKeepsLedger ==
  ASSUME NEW t \in Txs, BookingInv, Commit(t)
  PROVE  SessionLedger'
<1> SUFFICES ASSUME NEW p \in Passes
             PROVE  pass'[p].remaining + Cardinality(Charged(p))' = NumSessions[p]
  BY DEF SessionLedger
<1>1. PICK r \in ResIds :
           /\ \A s \in ResIds \ {r} : res'[s] = res[s] /\ wres[t][s] = NoRow
           /\ res' \in [ResIds -> ResRow \cup {NoRow}]
           /\ res'[r] \in ResRow
           /\ \/ /\ Registers(t) /\ res[r] = NoRow
                 /\ res'[r].pass = PassOf(t) /\ res'[r].status \in SlotStatus
              \/ /\ Moves(t) /\ ~Registers(t) /\ r = req[t].res /\ res[r] \in ResRow
                 /\ res[r] = mem[t].row /\ lock[r] = t
                 /\ res[r].pass = PassOf(t)
                 /\ res'[r] = [res[r] EXCEPT !.status = mem[t].next]
                 /\ res'[r].status = mem[t].next
                 /\ <<res[r].status, mem[t].next>> \in Transitions
  BY BookingPublished
<1>2. /\ pass[p].remaining \in Nat /\ Cardinality(Charged(p)) \in Nat
      /\ pass[p].remaining + Cardinality(Charged(p)) = NumSessions[p]
  BY ChargedFinite DEF BookingInv, TypeOK, TablesTyped, PassRow, SessionLedger
<1>3. \/ wpass[t] = NoRow /\ pass' = pass
      \/ /\ wpass[t] # NoRow
         /\ pass'[PassOf(t)].remaining = pass[PassOf(t)].remaining + Change(t)
         /\ \A q \in Passes \ {PassOf(t)} : pass'[q] = pass[q]
  BY PassPublished
<1>4. pc[t] = "commit"
  BY DEF Commit
<1>5. CASE Registers(t)
  <2>1. wpass[t] # NoRow /\ Change(t) = -1
    BY <1>4, <1>5 DEF BookingInv, Sound, WrotePass, Change
  <2>2. r \notin Charged(p) /\ res'[r].pass = PassOf(t) /\ res'[r].status \in ChargedStatus
    BY <1>1, <1>5 DEF Charged, BookedWith, SlotStatus, ChargedStatus, Status
  <2>3. CASE p = PassOf(t)
    <3>1. Cardinality(Charged(p))' = Cardinality(Charged(p)) + 1
      BY <1>1, <2>2, <2>3, LedgerStep
    <3> QED
      BY <1>2, <1>3, <2>1, <2>3, <3>1
  <2>4. CASE p # PassOf(t)
    <3>1. Cardinality(Charged(p))' = Cardinality(Charged(p))
      BY <1>1, <2>2, <2>4, LedgerStep
    <3> QED
      BY <1>2, <1>3, <2>1, <2>4, <3>1
  <2> QED
    BY <2>3, <2>4
<1>6. CASE ~Registers(t)
  <2>1. /\ res[r] \in ResRow /\ res[r].pass = PassOf(t)
        /\ res'[r].pass = PassOf(t) /\ res'[r].status = mem[t].next
        /\ <<res[r].status, mem[t].next>> \in Transitions
    BY <1>1, <1>6 DEF ResRow
  <2>2. /\ res[r].status \in ChargedStatus
        /\ mem[t].next \in ChargedStatus <=> mem[t].next \notin GivenBack
    BY <2>1 DEF Transitions, ChargedStatus, GivenBack, Status
  <2>3. r \in Charged(p) <=> p = PassOf(t)
    BY <2>1, <2>2, BookingAssumption DEF Charged, BookedWith
  <2>4. (mem[t].next \in GivenBack <=> wpass[t] # NoRow) /\ Change(t) = 1
    BY <1>1, <1>4, <1>6 DEF BookingInv, Sound, WrotePass, Change
  <2>5. CASE p = PassOf(t) /\ mem[t].next \in GivenBack
    <3>1. Cardinality(Charged(p))' = Cardinality(Charged(p)) - 1
      BY <1>1, <2>1, <2>2, <2>3, <2>5, LedgerStep
    <3> QED
      BY <1>2, <1>3, <2>4, <2>5, <3>1
  <2>6. CASE p # PassOf(t) \/ mem[t].next \notin GivenBack
    <3>1. Cardinality(Charged(p))' = Cardinality(Charged(p))
      BY <1>1, <2>1, <2>2, <2>3, <2>6, LedgerStep
    <3>2. pass'[p] = pass[p]
      BY <1>3, <2>4, <2>6
    <3> QED
      BY <1>2, <3>1, <3>2
  <2> QED
    BY <2>5, <2>6
<1> QED
  BY <1>5, <1>6

LEMMA CommitPreserves ==
  ASSUME NEW t \in Txs, BookingInv, Commit(t)
  PROVE  BookingInv'
<1>1. PICK r \in ResIds :
           /\ \A s \in ResIds \ {r} : res'[s] = res[s] /\ wres[t][s] = NoRow
           /\ res' \in [ResIds -> ResRow \cup {NoRow}]
           /\ res[r] = NoRow \/ lock[r] = t
  BY BookingPublished
<1>2. /\ pass' \in [Passes -> PassRow]
      /\ audit' \in [Passes -> [consumed : Nat, refunded : Nat]]
      /\ \/ pass' = pass
         \/ /\ PassOf(t) \in Passes /\ lock[PassOf(t)] = t
            /\ pass'[PassOf(t)].ver = pass[PassOf(t)].ver + 1
            /\ \A p \in Passes \ {PassOf(t)} : pass'[p] = pass[p]
  BY PassPublished
<1>3. /\ HandlersTyped(Steps, Requests)' /\ OthersKeep(t) /\ Sound(t)'
      /\ wres' = [wres EXCEPT ![t] = NoWrites]
  BY Released DEF BookingInv, Commit
<1>4. TypeOK'
  <2>1. forced' \subseteq ResIds /\ reviewed' \subseteq ResIds
    BY DEF Commit, Written, BookingInv, TypeOK, TablesTyped
  <2>2. TablesTyped'
    BY <1>1, <1>2, <2>1 DEF Commit, BookingInv, TypeOK, TablesTyped
  <2> QED
    BY <1>3, <2>2 DEF TypeOK
<1>5. ASSUME NEW u \in Txs \ {t} PROVE TablesKeep(u)
  <2>1. \A s \in ResIds : wres[t][s] = NoRow => res'[s] = res[s]
    BY DEF Commit, Publish, Written
  <2>2. \A s \in ResIds : lock[s] = u /\ res[s] # NoRow => res'[s] = res[s]
    BY <1>1
  <2>3. \A s \in ResIds : wres[u][s] # NoRow => res'[s] = res[s]
    BY <2>1 DEF BookingInv, WritesApart
  <2>4. \A p \in Passes : lock[p] = u => pass'[p] = pass[p]
    BY <1>2
  <2>5. ASSUME NEW p \in Passes
        PROVE  \/ pass'[p] = pass[p]
               \/ pass'[p].ver \in Nat /\ pass'[p].ver > pass[p].ver
    <3>1. pass[p].ver \in Nat
      BY DEF BookingInv, TypeOK, TablesTyped, PassRow
    <3> QED
      BY <1>2, <3>1
  <2> QED
    BY <2>2, <2>3, <2>4, <2>5 DEF TablesKeep
<1>6. ASSUME NEW u \in Txs PROVE Sound(u)'
  BY <1>3, <1>5, OthersStaySound DEF BookingInv
<1>7. WritesApart'
  <2> SUFFICES ASSUME NEW u \in Txs, NEW v \in Txs, NEW s \in ResIds,
                      wres'[u][s] # NoRow, wres'[v][s] # NoRow
               PROVE  u = v
    BY DEF WritesApart
  <2>1. \A w \in Txs : wres'[w][s] # NoRow => wres[w][s] # NoRow
    BY <1>3 DEF BookingInv, TypeOK, HandlersTyped, NoWrites
  <2> QED
    BY <2>1 DEF BookingInv, WritesApart
<1> QED
  BY <1>4, <1>6, <1>7, CommitKeepsLedger DEF BookingInv

-----------------------------------------------------------------------------
(* The pass edits, and time.                                               *)

LEMMA ReadPassPreserves ==
  ASSUME NEW t \in Txs, BookingInv, ReadPass(t)
  PROVE  BookingInv'
<1> DEFINE p == req[t].pass
           new == Patched(pass[p], req[t])
           m == [mem[t] EXCEPT !.prow = new]
<1>1. /\ pc[t] = "readPass" /\ req[t] \in EditPassRequests /\ p \in Passes
      /\ wres[t] = NoWrites /\ wpass[t] = NoRow
  BY RequestFacts DEF ReadPass, BookingInv, Sound, RequestFits, NothingEarly
<1>2. new \in PassRow /\ new.remaining = pass[p].remaining /\ new.ver = pass[p].ver
  <2>1. pass[p] \in PassRow
    BY <1>1 DEF BookingInv, TypeOK, TablesTyped
  <2>2. req[t].paid \in BOOLEAN \cup {NoRow} /\ req[t].expires \in Nat \cup {NoRow}
    BY <1>1, BookingAssumption DEF EditPassRequests
  <2>3. ASSUME NEW b \in BOOLEAN, NEW e \in Int
        PROVE  LET q == [pass[p] EXCEPT !.paid = b, !.expires = e]
               IN  q \in PassRow /\ q.remaining = pass[p].remaining /\ q.ver = pass[p].ver
    BY <2>1 DEF PassRow
  <2> DEFINE b == IF req[t].paid = NoRow THEN pass[p].paid ELSE req[t].paid
             e == IF req[t].expires = NoRow THEN pass[p].expires ELSE req[t].expires
  <2>4. b \in BOOLEAN /\ e \in Int
    BY <2>1, <2>2 DEF PassRow
  <2>5. new = [pass[p] EXCEPT !.paid = b, !.expires = e]
    BY DEF Patched
  <2> HIDE DEF new, b, e
  <2> QED
    BY <2>3, <2>4, <2>5
<1> HIDE DEF new
<1>3. m \in Memory /\ m.prow = new
  <2>1. mem[t] \in Memory
    BY DEF BookingInv, TypeOK, HandlersTyped
  <2> QED
    BY <1>2, <2>1 DEF Memory
<1>4. /\ Remember(t, m) /\ Goto(t, "updatePass")
      /\ UNCHANGED <<committed, req, wres, wpass, lock>>
  BY DEF ReadPass, new
<1>5. HandlersTyped(Steps, Requests)' /\ LocalStep(t) /\ pc'[t] = "updatePass"
  BY <1>3, <1>4, HandlerMoves DEF BookingInv, Steps, LocalStep
<1>6. mem'[t].prow = new /\ req'[t] = req[t] /\ pass' = pass
  BY <1>3, <1>4 DEF Remember, BookingInv, TypeOK, HandlersTyped, committed
<1>7. EditIsFresh(t)'
  <2>1. pass[p].ver \in Nat
    BY <1>1 DEF BookingInv, TypeOK, TablesTyped, PassRow
  <2> QED
    BY <1>2, <1>6, <2>1 DEF EditIsFresh
<1>8. Sound(t)'
  <2>1. wres'[t] = NoWrites /\ wpass'[t] = NoRow
    BY <1>1, <1>4
  <2> QED
    BY <1>1, <1>5, <1>6, <1>7, <2>1
    DEF Sound, RequestFits, NothingEarly, HoldsItsBooking, EntersSlot, HoldsItsPass,
        WrotePass, WroteBooking
<1> QED
  BY <1>4, <1>5, <1>8, LocalPreserves

LEMMA UpdatePassPreserves ==
  ASSUME NEW t \in Txs, BookingInv, UpdatePass(t)
  PROVE  BookingInv'
<1>1. CASE Rollback(t)
  BY <1>1, RollbackPreserves
<1>2. ASSUME ~Rollback(t) PROVE BookingInv'
  <2> DEFINE p == req[t].pass
             new == [mem[t].prow EXCEPT !.ver = mem[t].prow.ver + 1]
  <2>1. /\ pass[p].ver = mem[t].prow.ver /\ pass' = [pass EXCEPT ![p] = new]
        /\ Release(t) /\ lock[p] = NoTx /\ pc[t] = "updatePass"
        /\ UNCHANGED <<clock, activity, dog, res, gone, audit, forced, reviewed>>
    BY <1>2 DEF UpdatePass, Free
  <2>2. /\ p \in Passes /\ mem[t].prow \in PassRow
        /\ mem[t].prow.remaining = pass[p].remaining
    BY <2>1, RequestFacts DEF BookingInv, Sound, RequestFits, EditIsFresh
  <2>3. /\ new \in PassRow /\ new.remaining = pass[p].remaining
        /\ new.ver = pass[p].ver + 1
    BY <2>1, <2>2 DEF PassRow
  <2> HIDE DEF new
  <2>4. /\ HandlersTyped(Steps, Requests)' /\ OthersKeep(t) /\ Sound(t)'
        /\ wres' = [wres EXCEPT ![t] = NoWrites]
    BY <2>1, Released DEF BookingInv
  <2>5. /\ pass \in [Passes -> PassRow] /\ pass' \in [Passes -> PassRow]
        /\ pass'[p] = new /\ \A q \in Passes \ {p} : pass'[q] = pass[q]
    BY <2>1, <2>2, <2>3 DEF BookingInv, TypeOK, TablesTyped
  <2>6. TypeOK'
    BY <2>1, <2>4, <2>5 DEF BookingInv, TypeOK, TablesTyped
  <2>7. ASSUME NEW u \in Txs \ {t} PROVE Sound(u)'
    <3>1. pass[p].ver \in Nat /\ lock[p] # u
      BY <2>1, <2>2, <2>5, KeysAssumption DEF PassRow
    <3>2. TablesKeep(u)
      BY <2>1, <2>3, <2>5, <3>1 DEF TablesKeep
    <3> QED
      BY <2>4, <3>2, OthersStaySound DEF BookingInv
  <2>8. WritesApart'
    <3> SUFFICES ASSUME NEW u \in Txs, NEW v \in Txs, NEW s \in ResIds,
                        wres'[u][s] # NoRow, wres'[v][s] # NoRow
                 PROVE  u = v
      BY DEF WritesApart
    <3>1. \A w \in Txs : wres'[w][s] # NoRow => wres[w][s] # NoRow
      BY <2>4 DEF BookingInv, TypeOK, HandlersTyped, NoWrites
    <3> QED
      BY <3>1 DEF BookingInv, WritesApart
  <2>9. SessionLedger'
    <3>1. \A q \in Passes : pass'[q].remaining = pass[q].remaining
      BY <2>3, <2>5
    <3>2. \A q \in Passes : Charged(q)' = Charged(q)
      BY <2>1 DEF Charged, BookedWith
    <3> QED
      BY <3>1, <3>2 DEF BookingInv, SessionLedger
  <2> QED
    BY <2>4, <2>6, <2>7, <2>8, <2>9 DEF BookingInv
<1> QED
  BY <1>1, <1>2

LEMMA TickPreserves == ASSUME BookingInv, Tick PROVE BookingInv'
<1>1. clock' \in Times
      /\ UNCHANGED <<activity, dog, res, gone, pass, audit, forced, reviewed>>
      /\ UNCHANGED <<pc, req, mem, wres, wpass, lock>>
  BY DEF Tick, handler
<1>2. TypeOK' /\ WritesApart' /\ SessionLedger'
  BY <1>1 DEF BookingInv, TypeOK, TablesTyped, HandlersTyped, WritesApart, SessionLedger,
              Charged, BookedWith
<1>3. ASSUME NEW t \in Txs PROVE Sound(t)'
  <2>1. Sound(t)
    BY DEF BookingInv
  <2> QED
    BY <1>1, <2>1 DEF Sound, RequestFits, NothingEarly, HoldsItsBooking, EntersSlot,
       HoldsItsPass, WrotePass, WroteBooking, EditIsFresh, Registers, Moves, PassOf, Change
<1> QED
  BY <1>2, <1>3 DEF BookingInv

(* A step in which nobody moves.                                           *)
LEMMA StutterPreserves == ASSUME BookingInv, UNCHANGED vars PROVE BookingInv'
<1>1. UNCHANGED <<clock, activity, dog, res, gone, pass, audit, forced, reviewed>>
      /\ UNCHANGED <<pc, req, mem, wres, wpass, lock>>
  BY DEF vars, committed, handler
<1>2. TypeOK' /\ WritesApart' /\ SessionLedger'
  BY <1>1 DEF BookingInv, TypeOK, TablesTyped, HandlersTyped, WritesApart, SessionLedger,
              Charged, BookedWith
<1>3. ASSUME NEW t \in Txs PROVE Sound(t)'
  <2>1. Sound(t)
    BY DEF BookingInv
  <2> QED
    BY <1>1, <2>1 DEF Sound, RequestFits, NothingEarly, HoldsItsBooking, EntersSlot,
       HoldsItsPass, WrotePass, WroteBooking, EditIsFresh, Registers, Moves, PassOf, Change
<1> QED
  BY <1>2, <1>3 DEF BookingInv

-----------------------------------------------------------------------------
(* The invariant is inductive: no statement of a handler, no new request,  *)
(* no rollback and no tick of the clock breaks it.                         *)
LEMMA NextPreserves == ASSUME BookingInv, [Next]_vars PROVE BookingInv'
<1>1. ASSUME NEW t \in Txs, Step(t) PROVE BookingInv'
  BY <1>1, LockActivityPreserves, ListHoldersPreserves, ReadDogsPreserves,
     LockPassToConsumePreserves, WriteConsumedPassPreserves, InsertReservationPreserves,
     LockReservationPreserves, ReadActivityPreserves, LockPassToRefundPreserves,
     WriteRefundedPassPreserves, WriteReservationPreserves, ReadPassPreserves,
     UpdatePassPreserves, CommitPreserves
  DEF Step
<1>2. ASSUME NEW t \in Txs, Abort(t) PROVE BookingInv'
  BY <1>2, RollbackPreserves DEF Abort
<1> QED
  BY <1>1, <1>2, BeginPreserves, TickPreserves, StutterPreserves DEF Next

THEOREM InvariantHolds == Spec => []BookingInv
<1>1. BookingInv /\ [Next]_vars => BookingInv'
  BY NextPreserves
<1> QED
  BY <1>1, InitialInvariant, PTL DEF Spec

(* Every table and every handler variable stays within its type; no        *)
(* counter of a pass, nor a copy a handler works on, drops below zero      *)
(* (pass.go:259-311, migration 000001).                                    *)
THEOREM TypeCorrect == Spec => []TypeOK
<1>1. BookingInv => TypeOK
  BY DEF BookingInv
<1> QED
  BY <1>1, InvariantHolds, PTL

(* However many registrations, cancellations, forgivenesses, rejections    *)
(* and edits interleave, and wherever they die, every session of a pass is *)
(* on the pass or held by exactly one charged booking (register.go:354-386,*)
(* cancel.go:200-262, forgive.go:131-171).                                 *)
THEOREM LedgerExact == Spec => []SessionLedger
<1>1. BookingInv => SessionLedger
  BY DEF BookingInv
<1> QED
  BY <1>1, InvariantHolds, PTL

-----------------------------------------------------------------------------
(* Only a COMMIT changes a booking, and only COMMIT and the UPDATE of an   *)
(* edit change a pass.                                                     *)
LEMMA OnlyCommitPublishes ==
  ASSUME Next, \A t \in Txs : ~Commit(t)
  PROVE  res' = res /\ (pass' = pass \/ \E t \in Txs : UpdatePass(t) /\ ~Rollback(t))
<1>1. CASE Tick
  BY <1>1 DEF Tick
<1>2. ASSUME NEW t \in Txs, Rollback(t) \/ UNCHANGED committed
      PROVE  res' = res /\ pass' = pass
  BY <1>2 DEF Rollback, committed
<1>3. ASSUME NEW t \in Txs, Begin(t) \/ Abort(t)
      PROVE  Rollback(t) \/ UNCHANGED committed
  BY <1>3 DEF Begin, Abort, Accept
<1>4. ASSUME NEW t \in Txs, Step(t), ~UpdatePass(t)
      PROVE  Rollback(t) \/ UNCHANGED committed
  BY <1>4 DEF Step, LockActivity, ListHolders, ReadDogs, LockPassToConsume,
     WriteConsumedPass, WritePass, InsertReservation, LockReservation, ReadActivity,
     LockPassToRefund, WriteRefundedPass, WriteReservation, ReadPass
<1>5. ASSUME NEW t \in Txs, UpdatePass(t), ~Rollback(t) PROVE res' = res
  BY <1>5 DEF UpdatePass
<1> QED
  BY <1>1, <1>2, <1>3, <1>4, <1>5 DEF Next

(* The UPDATE of an edit writes back the counter it read, and the guard on *)
(* updated_at says that it is still the committed one.                     *)
LEMMA EditKeepsCounter ==
  ASSUME NEW t \in Txs, BookingInv, UpdatePass(t), ~Rollback(t)
  PROVE  \A p \in Passes : pass'[p].remaining = pass[p].remaining
<1> DEFINE p == req[t].pass
           new == [mem[t].prow EXCEPT !.ver = mem[t].prow.ver + 1]
<1>1. /\ pass[p].ver = mem[t].prow.ver /\ pass' = [pass EXCEPT ![p] = new]
      /\ pc[t] = "updatePass"
  BY DEF UpdatePass
<1>2. /\ p \in Passes /\ mem[t].prow \in PassRow
      /\ mem[t].prow.remaining = pass[p].remaining
  BY <1>1, RequestFacts DEF BookingInv, Sound, RequestFits, EditIsFresh
<1>3. new.remaining = pass[p].remaining
  BY <1>2 DEF PassRow
<1>4. pass \in [Passes -> PassRow]
  BY DEF BookingInv, TypeOK, TablesTyped
<1> HIDE DEF new
<1> QED
  BY <1>1, <1>3, <1>4

(* A committed reservation only follows the edges of the state machine of  *)
(* reservation.go:25-40 and never changes its activity, dog or pass,       *)
(* however many cancels, confirms, rejects and completions race.           *)
THEOREM StatusesFollowTheMachine == Spec => StatusMachine
<1> DEFINE A == \A r \in ResIds :
       res'[r] # res[r] =>
         \/ res[r] = NoRow /\ res'[r].status \in SlotStatus
         \/ /\ res[r] # NoRow
            /\ res'[r] = [res[r] EXCEPT !.status = res'[r].status]
            /\ <<res[r].status, res'[r].status>> \in Transitions
<1>1. ASSUME BookingInv, [Next]_vars PROVE A
  <2>1. CASE UNCHANGED vars
    BY <2>1 DEF vars, committed
  <2>2. ASSUME NEW t \in Txs, Commit(t) PROVE A
    <3>1. PICK r \in ResIds :
           /\ \A s \in ResIds \ {r} : res'[s] = res[s]
           /\ \/ /\ res[r] = NoRow /\ res'[r].status \in SlotStatus
              \/ /\ res[r] \in ResRow
                 /\ res'[r] = [res[r] EXCEPT !.status = mem[t].next]
                 /\ res'[r].status = mem[t].next
                 /\ <<res[r].status, mem[t].next>> \in Transitions
      BY <1>1, <2>2, BookingPublished
    <3> QED
      BY <3>1, BookingAssumption
  <2> QED
    BY <1>1, <2>1, <2>2, OnlyCommitPublishes
<1>2. BookingInv /\ [Next]_vars => A
  BY <1>1
<1> HIDE DEF A
<1>3. Spec => [][A]_vars
  BY <1>2, InvariantHolds, PTL DEF Spec
<1> QED
  BY <1>3 DEF StatusMachine, A

(* An edit of paid or expires_at and a change of the counter never         *)
(* overwrite one another: a step that changes the counter writes back the  *)
(* committed paid and expires_at (register.go:360-366, modify.go).         *)
THEOREM EditsAreNotLost == Spec => PassEditsSurvive
<1> DEFINE A == \A p \in Passes :
       pass'[p].remaining # pass[p].remaining =>
         pass'[p].paid = pass[p].paid /\ pass'[p].expires = pass[p].expires
<1>1. ASSUME BookingInv, [Next]_vars PROVE A
  <2>1. CASE UNCHANGED vars
    BY <2>1 DEF vars, committed
  <2>2. ASSUME NEW t \in Txs, Commit(t) PROVE A
    <3>1. \/ pass' = pass
          \/ /\ SameTerms(pass'[PassOf(t)], pass[PassOf(t)])
             /\ \A p \in Passes \ {PassOf(t)} : pass'[p] = pass[p]
      BY <1>1, <2>2, PassPublished
    <3> QED
      BY <3>1 DEF SameTerms
  <2>3. ASSUME NEW t \in Txs, UpdatePass(t), ~Rollback(t) PROVE A
    BY <1>1, <2>3, EditKeepsCounter
  <2> QED
    BY <1>1, <2>1, <2>2, <2>3, OnlyCommitPublishes
<1>2. BookingInv /\ [Next]_vars => A
  BY <1>1
<1> HIDE DEF A
<1>3. Spec => [][A]_vars
  BY <1>2, InvariantHolds, PTL DEF Spec
<1> QED
  BY <1>3 DEF PassEditsSurvive, A

-----------------------------------------------------------------------------
(* The booking engine implements PassLedger.                               *)

(* What a commit that changes booking r only does to the bookings held and *)
(* returned of a pass p.                                                   *)
LEMMA HeldAfterCommit ==
  ASSUME NEW r \in ResIds, \A s \in ResIds \ {r} : res'[s] = res[s],
         res'[r] \in ResRow, NEW p \in Passes
  PROVE  /\ res'[r].pass = p /\ res'[r].status \in ChargedStatus
              => /\ Charged(p)' = Charged(p) \cup {r}
                 /\ (BookedWith(p) \ Charged(p))' = (BookedWith(p) \ Charged(p)) \ {r}
         /\ res'[r].pass = p /\ res'[r].status \notin ChargedStatus
              => /\ Charged(p)' = Charged(p) \ {r}
                 /\ (BookedWith(p) \ Charged(p))' = (BookedWith(p) \ Charged(p)) \cup {r}
         /\ res'[r].pass # p
              => /\ Charged(p)' = Charged(p) \ {r}
                 /\ (BookedWith(p) \ Charged(p))' = (BookedWith(p) \ Charged(p)) \ {r}
<1> DEFINE C == Charged(p)
           B == BookedWith(p)
<1>1. \A s \in ResIds : s # r => (s \in C' <=> s \in C) /\ (s \in B' <=> s \in B)
  BY DEF Charged, BookedWith
<1>2. r \in B' <=> res'[r].pass = p
  BY BookingAssumption DEF BookedWith
<1>3. r \in C' <=> res'[r].pass = p /\ res'[r].status \in ChargedStatus
  BY BookingAssumption DEF Charged, BookedWith
<1>4. C \subseteq ResIds /\ C' \subseteq ResIds /\ B \subseteq ResIds /\ B' \subseteq ResIds
  BY DEF Charged, BookedWith
<1> HIDE DEF C, B
<1> QED
  <2>1. (B \ C)' = B' \ C'
    OBVIOUS
  <2> QED
    BY <1>1, <1>2, <1>3, <1>4, <2>1 DEF C, B

(* A commit books one booking and takes a session, moves one and gives its *)
(* session back, or leaves all sessions where they are.                    *)
LEMMA CommitOutcome ==
  ASSUME NEW t \in Txs, BookingInv, Commit(t)
  PROVE  \/ /\ wpass[t] # NoRow /\ Change(t) = -1 /\ PassOf(t) \in Passes
            /\ \E r \in ResIds : \A p \in Passes :
                 /\ r \notin BookedWith(p) /\ r \notin Charged(p)
                 /\ Charged(p)' = IF p = PassOf(t) THEN Charged(p) \cup {r} ELSE Charged(p)
                 /\ (BookedWith(p) \ Charged(p))' = BookedWith(p) \ Charged(p)
         \/ /\ wpass[t] # NoRow /\ Change(t) = 1 /\ PassOf(t) \in Passes
            /\ \E r \in Charged(PassOf(t)) : \A p \in Passes :
                 /\ Charged(p)' = IF p = PassOf(t) THEN Charged(p) \ {r} ELSE Charged(p)
                 /\ (BookedWith(p) \ Charged(p))'
                      = IF p = PassOf(t) THEN (BookedWith(p) \ Charged(p)) \cup {r}
                        ELSE BookedWith(p) \ Charged(p)
         \/ /\ wpass[t] = NoRow
            /\ \A p \in Passes :
                 /\ Charged(p)' = Charged(p)
                 /\ (BookedWith(p) \ Charged(p))' = BookedWith(p) \ Charged(p)
<1> DEFINE q == PassOf(t)
<1>1. PICK r \in ResIds :
           /\ \A s \in ResIds \ {r} : res'[s] = res[s] /\ wres[t][s] = NoRow
           /\ res' \in [ResIds -> ResRow \cup {NoRow}]
           /\ res'[r] \in ResRow
           /\ \/ /\ Registers(t) /\ res[r] = NoRow
                 /\ res'[r].pass = PassOf(t) /\ res'[r].status \in SlotStatus
              \/ /\ Moves(t) /\ ~Registers(t) /\ r = req[t].res /\ res[r] \in ResRow
                 /\ res[r] = mem[t].row /\ lock[r] = t
                 /\ res[r].pass = PassOf(t)
                 /\ res'[r] = [res[r] EXCEPT !.status = mem[t].next]
                 /\ res'[r].status = mem[t].next
                 /\ <<res[r].status, mem[t].next>> \in Transitions
  BY BookingPublished
<1>2. pc[t] = "commit"
  BY DEF Commit
<1>3. \A p \in Passes : Charged(p) \subseteq BookedWith(p)
  BY DEF Charged
<1>4. CASE Registers(t)
  <2>1. wpass[t] # NoRow /\ Change(t) = -1
    BY <1>2, <1>4 DEF BookingInv, Sound, WrotePass, Change
  <2>2. /\ res[r] = NoRow /\ res'[r].pass = q /\ res'[r].status \in ChargedStatus
        /\ q \in Passes
    BY <1>1, <1>4 DEF SlotStatus, ChargedStatus, Status, ResRow
  <2>3. ASSUME NEW p \in Passes
        PROVE  /\ r \notin BookedWith(p) /\ r \notin Charged(p)
               /\ Charged(p)' = IF p = q THEN Charged(p) \cup {r} ELSE Charged(p)
               /\ (BookedWith(p) \ Charged(p))' = BookedWith(p) \ Charged(p)
    <3>1. r \notin BookedWith(p) /\ r \notin Charged(p)
      BY <2>2 DEF BookedWith, Charged
    <3>2. /\ p = q => /\ Charged(p)' = Charged(p) \cup {r}
                      /\ (BookedWith(p) \ Charged(p))' = (BookedWith(p) \ Charged(p)) \ {r}
          /\ p # q => /\ Charged(p)' = Charged(p) \ {r}
                      /\ (BookedWith(p) \ Charged(p))' = (BookedWith(p) \ Charged(p)) \ {r}
      BY <1>1, <2>2, HeldAfterCommit
    <3>3. /\ Charged(p) \ {r} = Charged(p)
          /\ (BookedWith(p) \ Charged(p)) \ {r} = BookedWith(p) \ Charged(p)
      BY <3>1
    <3> QED
      BY <3>1, <3>2, <3>3
  <2> QED
    BY <2>1, <2>2, <2>3
<1>5. CASE ~Registers(t)
  <2>1. /\ res[r] \in ResRow /\ res[r].pass = q /\ q \in Passes
        /\ res'[r].pass = q /\ res'[r].status = mem[t].next
        /\ <<res[r].status, mem[t].next>> \in Transitions
    BY <1>1, <1>5 DEF ResRow
  <2>2. /\ res[r].status \in ChargedStatus
        /\ mem[t].next \in ChargedStatus <=> mem[t].next \notin GivenBack
    BY <2>1 DEF Transitions, ChargedStatus, GivenBack, Status
  <2>3. ASSUME NEW p \in Passes
        PROVE  (r \in Charged(p) <=> p = q) /\ (r \in BookedWith(p) <=> p = q)
    BY <2>1, <2>2, BookingAssumption DEF Charged, BookedWith
  <2>4. (mem[t].next \in GivenBack <=> wpass[t] # NoRow) /\ Change(t) = 1
    BY <1>1, <1>2, <1>5 DEF BookingInv, Sound, WrotePass, Change
  <2>5. CASE mem[t].next \in GivenBack
    <3>1. ASSUME NEW p \in Passes
          PROVE  /\ Charged(p)' = IF p = q THEN Charged(p) \ {r} ELSE Charged(p)
                 /\ (BookedWith(p) \ Charged(p))'
                      = IF p = q THEN (BookedWith(p) \ Charged(p)) \cup {r}
                        ELSE BookedWith(p) \ Charged(p)
      <4>1. res'[r].status \notin ChargedStatus
        BY <2>1, <2>2, <2>5
      <4>2. /\ p = q => /\ Charged(p)' = Charged(p) \ {r}
                        /\ (BookedWith(p) \ Charged(p))' = (BookedWith(p) \ Charged(p)) \cup {r}
            /\ p # q => /\ Charged(p)' = Charged(p) \ {r}
                        /\ (BookedWith(p) \ Charged(p))' = (BookedWith(p) \ Charged(p)) \ {r}
        BY <1>1, <2>1, <4>1, HeldAfterCommit
      <4>3. p # q => /\ Charged(p) \ {r} = Charged(p)
                     /\ (BookedWith(p) \ Charged(p)) \ {r} = BookedWith(p) \ Charged(p)
        BY <2>3
      <4> QED
        BY <4>2, <4>3
    <3> QED
      BY <2>1, <2>3, <2>4, <2>5, <3>1
  <2>6. CASE mem[t].next \notin GivenBack
    <3>1. ASSUME NEW p \in Passes
          PROVE  /\ Charged(p)' = Charged(p)
                 /\ (BookedWith(p) \ Charged(p))' = BookedWith(p) \ Charged(p)
      <4>1. res'[r].status \in ChargedStatus
        BY <2>1, <2>2, <2>6
      <4>2. /\ p = q => /\ Charged(p)' = Charged(p) \cup {r}
                        /\ (BookedWith(p) \ Charged(p))' = (BookedWith(p) \ Charged(p)) \ {r}
            /\ p # q => /\ Charged(p)' = Charged(p) \ {r}
                        /\ (BookedWith(p) \ Charged(p))' = (BookedWith(p) \ Charged(p)) \ {r}
        BY <1>1, <2>1, <4>1, HeldAfterCommit
      <4>3. /\ p = q => Charged(p) \cup {r} = Charged(p)
            /\ p # q => Charged(p) \ {r} = Charged(p)
            /\ (BookedWith(p) \ Charged(p)) \ {r} = BookedWith(p) \ Charged(p)
        BY <2>3
      <4> QED
        BY <4>2, <4>3
    <3> QED
      BY <2>4, <2>6, <3>1
  <2> QED
    BY <2>5, <2>6
<1> QED
  BY <1>4, <1>5

LEMMA CommitMovesLedger ==
  ASSUME NEW t \in Txs, BookingInv, Commit(t), TypeOK'
  PROVE  Ledger!Next \/ UNCHANGED Ledger!ledger
<1> DEFINE left == [p \in Passes |-> pass[p].remaining]
           holding == [p \in Passes |-> Charged(p)]
           returned == [p \in Passes |-> BookedWith(p) \ Charged(p)]
           q == PassOf(t)
<1>1. \/ wpass[t] = NoRow /\ pass' = pass
      \/ /\ wpass[t] # NoRow
         /\ pass'[q].remaining = pass[q].remaining + Change(t)
         /\ \A p \in Passes \ {q} : pass'[p] = pass[p]
  BY PassPublished
<1>2. \A p \in Passes : pass[p].remaining \in Nat /\ pass'[p].remaining \in Nat
  BY DEF BookingInv, TypeOK, TablesTyped, PassRow
<1>3. ASSUME wpass[t] # NoRow, q \in Passes, Change(t) = -1, NEW r \in ResIds,
             \A p \in Passes :
                 /\ r \notin BookedWith(p) /\ r \notin Charged(p)
                 /\ Charged(p)' = IF p = q THEN Charged(p) \cup {r} ELSE Charged(p)
                 /\ (BookedWith(p) \ Charged(p))' = BookedWith(p) \ Charged(p)
      PROVE  Ledger!Next
  <2>1. left' = [left EXCEPT ![q] = left[q] - 1] /\ left[q] > 0
    <3>1. pass'[q].remaining = pass[q].remaining - 1 /\ pass[q].remaining > 0
      BY <1>1, <1>2, <1>3
    <3>2. \A p \in Passes \ {q} : pass'[p].remaining = pass[p].remaining
      BY <1>1, <1>3
    <3> HIDE DEF q
    <3> QED
      BY <1>3, <3>1, <3>2
  <2>2. holding' = [holding EXCEPT ![q] = holding[q] \cup {r}] /\ returned' = returned
    BY <1>3
  <2>3. r \notin UNION {holding[p] \cup returned[p] : p \in Passes}
    BY <1>3
  <2>4. Ledger!Take(q, r)
    BY <2>1, <2>2, <2>3 DEF Ledger!Take, Ledger!Known
  <2> QED
    BY <1>3, <2>4 DEF Ledger!Next
<1>4. ASSUME wpass[t] # NoRow, q \in Passes, Change(t) = 1, NEW r \in Charged(q),
             \A p \in Passes :
                 /\ Charged(p)' = IF p = q THEN Charged(p) \ {r} ELSE Charged(p)
                 /\ (BookedWith(p) \ Charged(p))'
                      = IF p = q THEN (BookedWith(p) \ Charged(p)) \cup {r}
                        ELSE BookedWith(p) \ Charged(p)
      PROVE  Ledger!Next
  <2>1. left' = [left EXCEPT ![q] = left[q] + 1]
    <3>1. pass'[q].remaining = pass[q].remaining + 1
      BY <1>1, <1>4
    <3>2. \A p \in Passes \ {q} : pass'[p].remaining = pass[p].remaining
      BY <1>1, <1>4
    <3> HIDE DEF q
    <3> QED
      BY <1>4, <3>1, <3>2
  <2>2. /\ holding' = [holding EXCEPT ![q] = holding[q] \ {r}]
        /\ returned' = [returned EXCEPT ![q] = returned[q] \cup {r}]
    BY <1>4
  <2>3. r \in holding[q] /\ r \in ResIds
    BY <1>4 DEF Charged, BookedWith
  <2>4. Ledger!GiveBack(q, r)
    BY <2>1, <2>2, <2>3 DEF Ledger!GiveBack
  <2> QED
    BY <1>4, <2>3, <2>4 DEF Ledger!Next
<1>5. ASSUME wpass[t] = NoRow,
             \A p \in Passes :
                 /\ Charged(p)' = Charged(p)
                 /\ (BookedWith(p) \ Charged(p))' = BookedWith(p) \ Charged(p)
      PROVE  UNCHANGED Ledger!ledger
  <2>1. left' = left /\ holding' = holding /\ returned' = returned
    BY <1>1, <1>5
  <2> QED
    BY <2>1 DEF Ledger!ledger
<1> QED
  BY <1>3, <1>4, <1>5, CommitOutcome

(* The booking engine implements the abstract ledger: what commits is one  *)
(* booking taking one session of its pass, or giving it back once and for  *)
(* all; every other statement of register.go, cancel.go, forgive.go,       *)
(* confirm.go, reject.go and modify.go is invisible to it.                 *)
THEOREM LedgerRefined == Spec => ImplementsPassLedger
<1>1. Init => Ledger!Init
  <2> SUFFICES ASSUME Init PROVE Ledger!Init
    OBVIOUS
  <2>1. \A p \in Passes : pass[p].remaining = NumSessions[p]
    BY DEF Init
  <2>2. \A p \in Passes : BookedWith(p) = {} /\ Charged(p) = {}
    BY DEF Init, BookedWith, Charged
  <2>3. NumSessions = [p \in Passes |-> NumSessions[p]]
    BY KeysAssumption
  <2> QED
    BY <2>1, <2>2, <2>3 DEF Ledger!Init
<1>2. ASSUME BookingInv, [Next]_vars PROVE [Ledger!Next]_(Ledger!ledger)
  <2>1. ASSUME res' = res, \A p \in Passes : pass'[p].remaining = pass[p].remaining
        PROVE  UNCHANGED Ledger!ledger
    BY <2>1 DEF Ledger!ledger, Charged, BookedWith
  <2>2. CASE UNCHANGED vars
    BY <2>1, <2>2 DEF vars, committed
  <2>3. ASSUME NEW t \in Txs, Commit(t) PROVE [Ledger!Next]_(Ledger!ledger)
    BY <1>2, <2>3, CommitPreserves, CommitMovesLedger DEF BookingInv
  <2>4. ASSUME NEW t \in Txs, UpdatePass(t), ~Rollback(t)
        PROVE  \A p \in Passes : pass'[p].remaining = pass[p].remaining
    BY <1>2, <2>4, EditKeepsCounter
  <2> QED
    BY <1>2, <2>1, <2>2, <2>3, <2>4, OnlyCommitPublishes
<1>3. BookingInv /\ [Next]_vars => [Ledger!Next]_(Ledger!ledger)
  BY <1>2
<1> QED
  BY <1>1, <1>3, InvariantHolds, PTL DEF Spec, ImplementsPassLedger, Ledger!Spec

-----------------------------------------------------------------------------
(* The rows of pass_movements.                                             *)

LEMMA BookedFinite ==
  \A p : /\ IsFiniteSet(BookedWith(p)) /\ Cardinality(BookedWith(p)) \in Nat
         /\ IsFiniteSet(BookedWith(p) \ Charged(p))
         /\ Cardinality(BookedWith(p) \ Charged(p)) \in Nat
<1> TAKE p
<1>1. BookedWith(p) \subseteq ResIds /\ BookedWith(p) \ Charged(p) \subseteq ResIds
  BY DEF BookedWith
<1> QED
  BY <1>1, KeysAssumption, FS_Subset, FS_CardinalityType

(* A movement row lands with the counter it explains.                      *)
LEMMA MovementPublished ==
  ASSUME NEW t \in Txs, BookingInv, Commit(t)
  PROVE  \/ wpass[t] = NoRow /\ audit' = audit
         \/ /\ wpass[t] # NoRow
            /\ \A p \in Passes \ {PassOf(t)} : audit'[p] = audit[p]
            /\ Change(t) = -1 /\ PassOf(t) \in Passes =>
                 /\ audit'[PassOf(t)].consumed = audit[PassOf(t)].consumed + 1
                 /\ audit'[PassOf(t)].refunded = audit[PassOf(t)].refunded
            /\ Change(t) = 1 /\ PassOf(t) \in Passes =>
                 /\ audit'[PassOf(t)].consumed = audit[PassOf(t)].consumed
                 /\ audit'[PassOf(t)].refunded = audit[PassOf(t)].refunded + 1
<1>1. CASE wpass[t] = NoRow
  BY <1>1 DEF Commit, Publish
<1>2. CASE wpass[t] # NoRow
  <2> DEFINE q == PassOf(t)
             old == audit[q]
  <2>1. wpass[t].pass = q /\ wpass[t].amount = Change(t)
    BY <1>2 DEF BookingInv, Sound, WrotePass
  <2>2. audit' = [audit EXCEPT ![q] =
                    IF Change(t) = -1
                      THEN [old EXCEPT !.consumed = old.consumed + 1]
                      ELSE [old EXCEPT !.refunded = old.refunded + 1]]
    BY <1>2, <2>1 DEF Commit, Publish
  <2>3. audit \in [Passes -> [consumed : Nat, refunded : Nat]]
    BY DEF BookingInv, TypeOK, TablesTyped
  <2> HIDE DEF q
  <2>4. q \in Passes => audit[q] \in [consumed : Nat, refunded : Nat]
    BY <2>3
  <2> QED
    BY <1>2, <2>2, <2>3, <2>4 DEF q
<1> QED
  BY <1>1, <1>2

LEMMA CommitKeepsMovements ==
  ASSUME NEW t \in Txs, BookingInv, Commit(t), MovementsMatchBookings
  PROVE  MovementsMatchBookings'
<1> DEFINE q == PassOf(t)
           B(p) == BookedWith(p)
           C(p) == Charged(p)
           D(p) == BookedWith(p) \ Charged(p)
<1> SUFFICES ASSUME NEW p \in Passes
             PROVE  /\ audit'[p].consumed = Cardinality(B(p)')
                    /\ audit'[p].refunded = Cardinality(D(p)')
  BY DEF MovementsMatchBookings
<1>1. /\ audit[p].consumed = Cardinality(B(p)) /\ audit[p].refunded = Cardinality(D(p))
      /\ IsFiniteSet(B(p)) /\ IsFiniteSet(D(p))
      /\ Cardinality(B(p)) \in Nat /\ Cardinality(D(p)) \in Nat
  BY BookedFinite DEF MovementsMatchBookings
<1>2. B(p) = C(p) \cup D(p) /\ B(p)' = C(p)' \cup D(p)'
  BY DEF Charged
<1>3. CASE wpass[t] = NoRow
  <2>1. C(p)' = C(p) /\ D(p)' = D(p) /\ audit' = audit
    BY <1>3, CommitOutcome, MovementPublished
  <2> QED
    BY <1>1, <1>2, <2>1
<1>4. ASSUME wpass[t] # NoRow, q \in Passes, Change(t) = -1, NEW r \in ResIds,
             r \notin B(p), D(p)' = D(p),
             C(p)' = IF p = q THEN C(p) \cup {r} ELSE C(p)
      PROVE  /\ audit'[p].consumed = Cardinality(B(p)')
             /\ audit'[p].refunded = Cardinality(D(p)')
  <2>1. B(p)' = IF p = q THEN B(p) \cup {r} ELSE B(p)
    BY <1>2, <1>4
  <2>2. Cardinality(B(p) \cup {r}) = Cardinality(B(p)) + 1
    BY <1>1, <1>4, FS_AddElement
  <2>3. /\ audit'[p].consumed = IF p = q THEN audit[p].consumed + 1 ELSE audit[p].consumed
        /\ audit'[p].refunded = audit[p].refunded
    BY <1>4, MovementPublished
  <2> HIDE DEF B, C, D, q
  <2> QED
    BY <1>1, <1>4, <2>1, <2>2, <2>3
<1>5. ASSUME wpass[t] # NoRow, q \in Passes, Change(t) = 1, NEW r \in C(q),
             C(p)' = IF p = q THEN C(p) \ {r} ELSE C(p),
             D(p)' = IF p = q THEN D(p) \cup {r} ELSE D(p)
      PROVE  /\ audit'[p].consumed = Cardinality(B(p)')
             /\ audit'[p].refunded = Cardinality(D(p)')
  <2>1. B(p)' = B(p) /\ (p = q => r \notin D(p))
    BY <1>2, <1>5
  <2>2. p = q => Cardinality(D(p) \cup {r}) = Cardinality(D(p)) + 1
    BY <1>1, <2>1, FS_AddElement
  <2>3. /\ audit'[p].consumed = audit[p].consumed
        /\ audit'[p].refunded = IF p = q THEN audit[p].refunded + 1 ELSE audit[p].refunded
    BY <1>5, MovementPublished
  <2> HIDE DEF B, C, D, q
  <2> QED
    BY <1>1, <1>5, <2>1, <2>2, <2>3
<1> QED
  BY <1>3, <1>4, <1>5, CommitOutcome

(* Only COMMIT writes to pass_movements.                                   *)
LEMMA OnlyCommitLogs ==
  ASSUME Next, \A t \in Txs : ~Commit(t)
  PROVE  audit' = audit
<1>1. CASE Tick
  BY <1>1 DEF Tick
<1>2. ASSUME NEW t \in Txs, Rollback(t) \/ UNCHANGED committed \/ UpdatePass(t)
      PROVE  audit' = audit
  BY <1>2 DEF Rollback, committed, UpdatePass
<1>3. ASSUME NEW t \in Txs, Begin(t) \/ Abort(t)
      PROVE  Rollback(t) \/ UNCHANGED committed
  BY <1>3 DEF Begin, Abort, Accept
<1>4. ASSUME NEW t \in Txs, Step(t), ~UpdatePass(t)
      PROVE  Rollback(t) \/ UNCHANGED committed
  BY <1>4 DEF Step, LockActivity, ListHolders, ReadDogs, LockPassToConsume,
     WriteConsumedPass, WritePass, InsertReservation, LockReservation, ReadActivity,
     LockPassToRefund, WriteRefundedPass, WriteReservation, ReadPass
<1> QED
  BY <1>1, <1>2, <1>3, <1>4 DEF Next

(* The log of a pass explains its bookings one by one, in every reachable  *)
(* state: a -1 row for each booking ever charged to it, a +1 row for each  *)
(* one refunded (pass_repository.go:97-121).                               *)
THEOREM MovementsExplained == Spec => []MovementsMatchBookings
<1>1. Init => MovementsMatchBookings
  <2> SUFFICES ASSUME Init, NEW p \in Passes
               PROVE  /\ audit[p].consumed = Cardinality(BookedWith(p))
                      /\ audit[p].refunded = Cardinality(BookedWith(p) \ Charged(p))
    BY DEF MovementsMatchBookings
  <2>1. BookedWith(p) = {} /\ BookedWith(p) \ Charged(p) = {}
    BY DEF Init, BookedWith
  <2> QED
    BY <2>1, FS_EmptySet DEF Init
<1>2. ASSUME BookingInv, MovementsMatchBookings, [Next]_vars
      PROVE  MovementsMatchBookings'
  <2>1. ASSUME res' = res, audit' = audit PROVE MovementsMatchBookings'
    BY <1>2, <2>1 DEF MovementsMatchBookings, Charged, BookedWith
  <2>2. CASE UNCHANGED vars
    BY <2>1, <2>2 DEF vars, committed
  <2>3. ASSUME NEW t \in Txs, Commit(t) PROVE MovementsMatchBookings'
    BY <1>2, <2>3, CommitKeepsMovements
  <2> QED
    BY <1>2, <2>1, <2>2, <2>3, OnlyCommitPublishes, OnlyCommitLogs
<1>3. BookingInv /\ MovementsMatchBookings /\ [Next]_vars => MovementsMatchBookings'
  BY <1>2
<1> QED
  BY <1>1, <1>3, InvariantHolds, PTL DEF Spec

-----------------------------------------------------------------------------
(* The order of locks.                                                     *)

(* What a statement of t does to the locks: it answers and frees them, or  *)
(* goes on in order, with at most one more row.                            *)
TakesOneMore(t) ==
  /\ \E step \in Steps : Goto(t, step)
  /\ UNCHANGED req
  /\ lock' = lock \/ \E x \in Rows : LockRow(t, x)
  /\ LocksInOrder(t)'

LEMMA RegistersInOrder ==
  ASSUME NEW t \in Txs, BookingInv, LocksInOrder(t),
         \/ LockActivity(t) \/ ListHolders(t) \/ ReadDogs(t)
         \/ LockPassToConsume(t) \/ WriteConsumedPass(t) \/ InsertReservation(t)
  PROVE  Release(t) \/ TakesOneMore(t)
<1> USE KeysAssumption DEF Goto, LockRow, Rollback, Rows
<1>1. /\ lock \in [Rows -> Txs \cup {NoTx}] /\ pc \in [Txs -> Steps]
      /\ pc[t] \in {"lockActivity", "listHolders", "readDogs", "insert"} => Registers(t)
      /\ pc[t] \in {"lockPass", "writePass"} => Registers(t) \/ Moves(t)
      /\ Registers(t) => req[t].act \in Activities /\ req[t].pass \in Passes
      /\ Moves(t) => req[t].op # "register"
  BY RequestFacts DEF BookingInv, TypeOK, HandlersTyped, Sound, RequestFits
<1>2. CASE LockActivity(t)
  BY <1>1, <1>2 DEF LockActivity, LocksInOrder, TakesOneMore, Registers, Steps
<1>3. CASE ListHolders(t)
  BY <1>1, <1>3 DEF ListHolders, LocksInOrder, TakesOneMore, Registers, Moves, Steps
<1>4. CASE ReadDogs(t)
  BY <1>1, <1>4 DEF ReadDogs, LocksInOrder, TakesOneMore, Registers, Moves, Steps
<1>5. CASE LockPassToConsume(t)
  BY <1>1, <1>5 DEF LockPassToConsume, LocksInOrder, TakesOneMore, Registers, Moves, Steps
<1>6. CASE WriteConsumedPass(t)
  BY <1>1, <1>6 DEF WriteConsumedPass, WritePass, LocksInOrder, TakesOneMore, Registers, Moves, Steps
<1>7. CASE InsertReservation(t)
  BY <1>1, <1>7 DEF InsertReservation, LocksInOrder, TakesOneMore, Registers, Moves, Steps
<1> QED
  BY <1>2, <1>3, <1>4, <1>5, <1>6, <1>7

LEMMA MovesInOrder ==
  ASSUME NEW t \in Txs, BookingInv, LocksInOrder(t),
         \/ LockReservation(t) \/ ReadActivity(t) \/ LockPassToRefund(t)
         \/ WriteRefundedPass(t) \/ WriteReservation(t)
         \/ ReadPass(t) \/ UpdatePass(t) \/ Commit(t)
  PROVE  Release(t) \/ TakesOneMore(t)
<1> USE KeysAssumption DEF Goto, LockRow, Rollback, Rows
<1>1. /\ lock \in [Rows -> Txs \cup {NoTx}] /\ pc \in [Txs -> Steps]
      /\ pc[t] \in {"lockReservation", "readActivity", "writeReservation"} => Moves(t)
      /\ pc[t] \in {"lockPass", "writePass"} => Registers(t) \/ Moves(t)
      /\ Registers(t) => req[t].op = "register"
      /\ Moves(t) => req[t].res \in ResIds
      /\ Moves(t) /\ pc[t] \in {"lockPass", "writePass"} => mem[t].row.pass \in Passes
  BY RequestFacts DEF BookingInv, TypeOK, HandlersTyped, Sound, RequestFits
<1>2. CASE LockReservation(t)
  <2>1. AfterLock(req[t].op) \in {"lockPass", "writeReservation", "readActivity"}
    BY DEF AfterLock
  <2> QED
    BY <1>1, <1>2, <2>1 DEF LockReservation, LocksInOrder, TakesOneMore, Moves, Steps
<1>3. CASE ReadActivity(t)
  BY <1>1, <1>3 DEF ReadActivity, LocksInOrder, TakesOneMore, Registers, Moves, Steps
<1>4. CASE LockPassToRefund(t)
  BY <1>1, <1>4 DEF LockPassToRefund, LocksInOrder, TakesOneMore, Registers, Moves, Steps
<1>5. CASE WriteRefundedPass(t)
  BY <1>1, <1>5 DEF WriteRefundedPass, WritePass, LocksInOrder, TakesOneMore, Registers, Moves, Steps
<1>6. CASE WriteReservation(t)
  BY <1>1, <1>6 DEF WriteReservation, LocksInOrder, TakesOneMore, Registers, Moves, Steps
<1>7. CASE ReadPass(t)
  BY <1>1, <1>7 DEF ReadPass, LocksInOrder, TakesOneMore, Registers, Moves, Steps
<1>8. CASE UpdatePass(t) \/ Commit(t)
  BY <1>8 DEF UpdatePass, Commit
<1> QED
  BY <1>2, <1>3, <1>4, <1>5, <1>6, <1>7, <1>8

LEMMA LockOrderStep ==
  ASSUME BookingInv, \A t \in Txs : LocksInOrder(t), [Next]_vars
  PROVE  \A t \in Txs : LocksInOrder(t)'
<1>1. /\ lock \in [Rows -> Txs \cup {NoTx}] /\ pc \in [Txs -> Steps]
      /\ req \in [Txs -> Requests \cup {NoRow}]
  BY DEF BookingInv, TypeOK, HandlersTyped
<1>2. ASSUME UNCHANGED handler PROVE \A t \in Txs : LocksInOrder(t)'
  BY <1>2 DEF handler, LocksInOrder, Registers, Moves
<1>3. ASSUME NEW t \in Txs, Release(t) PROVE \A u \in Txs : LocksInOrder(u)'
  <2> SUFFICES ASSUME NEW u \in Txs PROVE LocksInOrder(u)'
    OBVIOUS
  <2>1. CASE u = t
    BY <1>1, <1>3, <2>1, KeysAssumption DEF Release, LocksInOrder
  <2>2. CASE u # t
    BY <1>1, <1>3, <2>2, KeysAssumption DEF Release, Goto, LocksInOrder, Registers, Moves
  <2> QED
    BY <2>1, <2>2
<1>4. ASSUME NEW t \in Txs, TakesOneMore(t) PROVE \A u \in Txs : LocksInOrder(u)'
  <2> SUFFICES ASSUME NEW u \in Txs \ {t} PROVE LocksInOrder(u)'
    BY <1>4 DEF TakesOneMore
  <2> QED
    BY <1>1, <1>4 DEF TakesOneMore, Goto, LockRow, LocksInOrder, Registers, Moves
<1>5. ASSUME NEW t \in Txs, Begin(t) PROVE \A u \in Txs : LocksInOrder(u)'
  <2>1. /\ pc[t] = "idle" /\ UNCHANGED lock
        /\ \A u \in Txs \ {t} : pc'[u] = pc[u] /\ req'[u] = req[u]
    BY <1>1, <1>5 DEF Begin, Accept, Goto
  <2>2. \A x \in Rows : lock[x] # t
    BY <2>1 DEF BookingInv, Sound, NothingEarly
  <2> QED
    BY <2>1, <2>2 DEF LocksInOrder, Registers, Moves
<1>6. ASSUME NEW t \in Txs, Step(t) PROVE Release(t) \/ TakesOneMore(t)
  BY <1>6, RegistersInOrder, MovesInOrder DEF Step
<1> QED
  BY <1>2, <1>3, <1>4, <1>5, <1>6 DEF Next, vars, Tick, Abort, Rollback

(* How far a handler is from its COMMIT, as far as waiting is concerned.   *)
Distance(t) ==
  IF pc[t] = "commit" THEN 0
  ELSE IF pc[t] \in {"writePass", "writeReservation"} THEN 1
  ELSE IF pc[t] = "insert" THEN 2
  ELSE IF pc[t] \in {"lockActivity", "lockReservation"} THEN 4
  ELSE 3

LEMMA WaitsForNearer ==
  ASSUME BookingInv, \A u \in Txs : LocksInOrder(u),
         NEW t \in Txs, NEW u \in Txs, u \in WaitsFor(t)
  PROVE  Distance(u) < Distance(t)
<1> USE KeysAssumption DEF Rows, Distance
<1>1. /\ pc[t] \in Steps /\ pc[u] \in Steps
      /\ pc[t] \in {"lockActivity", "insert"} => Registers(t)
      /\ pc[t] \in {"lockReservation", "writeReservation"} => Moves(t)
      /\ pc[t] \in {"lockPass", "writePass"} => Registers(t) \/ Moves(t)
      /\ pc[t] = "updatePass" => req[t] \in EditPassRequests
      /\ pc[u] # "commit" => wres[u] = NoWrites
  BY DEF BookingInv, TypeOK, HandlersTyped, Sound, RequestFits, NothingEarly
<1>2. CASE pc[t] = "lockActivity"
  <2>1. req[t].act \in Activities /\ lock[req[t].act] = u
    BY <1>1, <1>2, RequestFacts DEF WaitsFor, BookingInv
  <2> QED
    BY <1>2, <2>1 DEF LocksInOrder
<1>3. CASE pc[t] = "lockReservation"
  <2>1. req[t].res \in ResIds /\ lock[req[t].res] = u
    BY <1>1, <1>3, RequestFacts DEF WaitsFor, BookingInv
  <2> QED
    BY <1>3, <2>1 DEF LocksInOrder
<1>4. CASE pc[t] = "writeReservation"
  <2>1. lock[req[t].res] = t
    BY <1>1, <1>4 DEF BookingInv, Sound, HoldsItsBooking
  <2> QED
    BY <1>4, <2>1 DEF WaitsFor
<1>5. CASE pc[t] = "writePass"
  <2>1. lock[PassOf(t)] = t
    BY <1>5 DEF BookingInv, Sound, HoldsItsPass
  <2>2. PassOf(t) = IF req[t].op = "register" THEN req[t].pass ELSE mem[t].row.pass
    BY <1>1, <1>5, RequestFacts DEF BookingInv, PassOf
  <2> QED
    BY <1>5, <2>1, <2>2 DEF WaitsFor
<1>6. CASE pc[t] \in {"lockPass", "updatePass"}
  <2>1. \E p \in Passes : lock[p] = u
    BY <1>1, <1>6, RequestFacts DEF WaitsFor, BookingInv
  <2> QED
    BY <1>6, <2>1 DEF LocksInOrder
<1>7. CASE pc[t] = "insert"
  <2>1. req[t].dog \in Dogs
    BY <1>1, <1>7, RequestFacts DEF BookingInv
  <2>2. lock[req[t].dog] # u
    BY <2>1 DEF LocksInOrder
  <2>3. \E r \in ResIds : wres[u][r] # NoRow
    BY <1>7, <2>2 DEF WaitsFor, InsertWaits, ActiveBooking, SlotHolders
  <2>4. pc[u] = "commit"
    BY <1>1, <2>3 DEF NoWrites
  <2> QED
    BY <1>7, <2>4
<1>8. CASE pc[t] \notin {"lockActivity", "lockReservation", "writeReservation", "lockPass",
                        "writePass", "insert", "updatePass"}
  BY <1>8 DEF WaitsFor
<1> QED
  BY <1>2, <1>3, <1>4, <1>5, <1>6, <1>7, <1>8

(* Whatever requests come together, no set of transactions waits only on   *)
(* itself: the one of them nearest to its COMMIT can go on (register.go:   *)
(* 160-386, cancel.go:206-262).                                            *)
THEOREM NobodyDeadlocks == Spec => []NoDeadlock
<1> DEFINE Ordered == \A t \in Txs : LocksInOrder(t)
<1>1. Init => Ordered
  BY KeysAssumption DEF Init, LocksInOrder
<1>2. BookingInv /\ Ordered /\ [Next]_vars => Ordered'
  BY LockOrderStep
<1>3. ASSUME BookingInv, Ordered, NEW S \in SUBSET InFlight, S # {}
      PROVE  \E t \in S : WaitsFor(t) \cap S = {}
  <2>1. S \subseteq Txs /\ \A t \in S : Distance(t) \in 0 .. 4
    BY DEF InFlight, Distance
  <2>2. ASSUME NEW t \in S, \A u \in S : Distance(t) <= Distance(u)
        PROVE  WaitsFor(t) \cap S = {}
    <3>1. ASSUME NEW u \in S, u \in WaitsFor(t) PROVE FALSE
      <4>1. Distance(u) < Distance(t)
        BY <1>3, <2>1, <3>1, WaitsForNearer
      <4> HIDE DEF Distance
      <4> QED
        BY <2>1, <2>2, <4>1
    <3> QED
      BY <3>1
  <2>3. \E t \in S : \A u \in S : Distance(t) <= Distance(u)
    BY <1>3, <2>1
  <2> QED
    BY <2>2, <2>3
<1>4. BookingInv /\ Ordered => NoDeadlock
  BY <1>3 DEF NoDeadlock
<1> HIDE DEF Ordered
<1> QED
  BY <1>1, <1>2, <1>4, InvariantHolds, PTL DEF Spec
=============================================================================
