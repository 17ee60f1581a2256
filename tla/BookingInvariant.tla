-------------------------- MODULE BookingInvariant --------------------------
(***************************************************************************)
(* Why the sessions of a pass add up: the inductive invariant behind       *)
(* TypeOK, SessionLedger and StatusMachine.  It says, statement by         *)
(* statement, what a handler has locked and what its memory and its        *)
(* uncommitted writes have to do with the committed rows.                  *)
(***************************************************************************)
EXTENDS BookingProperties

Registers(t) == req[t] \in RegisterRequests
Moves(t)     == req[t] \in ReservationRequests

(* The pass a handler consumes or refunds.                                 *)
PassOf(t) == IF Registers(t) THEN req[t].pass ELSE mem[t].row.pass

Change(t) == IF Registers(t) THEN -1 ELSE 1

(* The statuses in which the session has been given back.                  *)
GivenBack == Status \ ChargedStatus

(* The request a statement serves.                                         *)
RequestFits(t) ==
  /\ pc[t] \in {"lockActivity", "listHolders", "readDogs", "insert"} => Registers(t)
  /\ pc[t] \in {"lockReservation", "readActivity", "writeReservation"} => Moves(t)
  /\ pc[t] \in {"lockPass", "writePass", "commit"} => Registers(t) \/ Moves(t)
  /\ pc[t] \in {"readPass", "updatePass"} => req[t] \in EditPassRequests

(* Nothing is written before its statement, and an idle handler holds no   *)
(* lock.                                                                   *)
NothingEarly(t) ==
  /\ pc[t] = "idle" => \A x \in Rows : lock[x] # t
  /\ pc[t] # "commit" => wres[t] = NoWrites
  /\ pc[t] \notin {"insert", "writeReservation", "commit"} => wpass[t] = NoRow

(* A handler that moves a booking keeps it locked, and remembers it as it  *)
(* is in the table; the move it has decided on is one the domain allows.   *)
HoldsItsBooking(t) ==
  Moves(t) =>
    /\ pc[t] \in {"readActivity", "lockPass", "writePass", "writeReservation", "commit"} =>
         /\ lock[req[t].res] = t
         /\ mem[t].row \in ResRow
         /\ res[req[t].res] = mem[t].row
    /\ pc[t] = "readActivity" =>
         /\ req[t].op \in {"cancel", "complete", "noShow"}
         /\ MayStart(req[t].op, mem[t].row.status)
    /\ pc[t] \in {"lockPass", "writePass", "writeReservation", "commit"} =>
         <<mem[t].row.status, mem[t].next>> \in Transitions

(* A booking is made in a slot-holding status.                             *)
EntersSlot(t) ==
  Registers(t) /\ pc[t] \in {"lockPass", "writePass", "insert"} => mem[t].next \in SlotStatus

(* The columns of a pass that only an admin edits.                         *)
SameTerms(a, b) == a.paid = b.paid /\ a.expires = b.expires

(* Between its lock and its UPDATE the pass is as it was read.             *)
HoldsItsPass(t) ==
  pc[t] = "writePass" =>
    /\ lock[PassOf(t)] = t
    /\ mem[t].prow \in PassRow
    /\ mem[t].amount = Change(t)
    /\ mem[t].prow.remaining = pass[PassOf(t)].remaining + Change(t)
    /\ SameTerms(mem[t].prow, pass[PassOf(t)])
    /\ Moves(t) => mem[t].next \in GivenBack

(* The pass row that waits for COMMIT differs from the committed one by    *)
(* the one session of this booking, and is there exactly when it has to.   *)
WrotePass(t) ==
  /\ wpass[t] # NoRow =>
       /\ wpass[t].pass = PassOf(t)
       /\ wpass[t].amount = Change(t)
       /\ lock[PassOf(t)] = t
       /\ wpass[t].row.remaining = pass[PassOf(t)].remaining + Change(t)
       /\ wpass[t].row.ver = pass[PassOf(t)].ver + 1
       /\ SameTerms(wpass[t].row, pass[PassOf(t)])
       /\ Moves(t) => mem[t].next \in GivenBack
  /\ pc[t] \in {"insert", "commit"} /\ Registers(t) => wpass[t] # NoRow
  /\ pc[t] \in {"writeReservation", "commit"} /\ Moves(t) /\ mem[t].next \in GivenBack
       => wpass[t] # NoRow

(* What COMMIT will publish: one new booking, or one move.                 *)
WroteBooking(t) ==
  pc[t] = "commit" =>
    /\ Registers(t) =>
         \E r \in ResIds :
           /\ res[r] = NoRow
           /\ wres[t][r] \in ResRow
           /\ wres[t][r].pass = req[t].pass
           /\ wres[t][r].status \in SlotStatus
           /\ \A s \in ResIds \ {r} : wres[t][s] = NoRow
    /\ Moves(t) =>
         /\ wres[t][req[t].res] = [mem[t].row EXCEPT !.status = mem[t].next]
         /\ \A s \in ResIds \ {req[t].res} : wres[t][s] = NoRow

(* An unlocked edit either has read the current counter or will be refused.*)
EditIsFresh(t) ==
  pc[t] = "updatePass" =>
    LET p == req[t].pass IN
    /\ mem[t].prow \in PassRow
    /\ mem[t].prow.ver <= pass[p].ver
    /\ mem[t].prow.ver = pass[p].ver => mem[t].prow.remaining = pass[p].remaining

Sound(t) ==
  /\ RequestFits(t) /\ NothingEarly(t)
  /\ HoldsItsBooking(t) /\ EntersSlot(t) /\ HoldsItsPass(t)
  /\ WrotePass(t) /\ WroteBooking(t) /\ EditIsFresh(t)

(* No two transactions have written the same booking.                      *)
WritesApart ==
  \A t, u \in Txs : \A r \in ResIds :
    wres[t][r] # NoRow /\ wres[u][r] # NoRow => t = u

(* The inductive invariant: it keeps the ledger exact because a counter    *)
(* only changes together with the one booking that justifies it            *)
(* (register.go:354-386, cancel.go:200-262, forgive.go:131-171).           *)
BookingInv ==
  /\ TypeOK
  /\ \A t \in Txs : Sound(t)
  /\ WritesApart
  /\ SessionLedger
-----------------------------------------------------------------------------
(* Why nobody waits in a circle: the rows a handler has locked, by the     *)
(* statement it is at.  Activities are locked before passes, bookings      *)
(* before passes, and nothing is locked after a pass (register.go:160-367, *)
(* cancel.go:206-240).                                                     *)
LocksInOrder(t) ==
  \A x \in Rows : lock[x] = t =>
    \/ /\ x \in Activities /\ Registers(t)
       /\ pc[t] \in {"listHolders", "readDogs", "lockPass", "writePass", "insert", "commit"}
    \/ /\ x \in ResIds /\ Moves(t)
       /\ pc[t] \in {"readActivity", "lockPass", "writePass", "writeReservation", "commit"}
    \/ /\ x \in Passes
       /\ pc[t] \in {"writePass", "insert", "writeReservation", "commit"}

-----------------------------------------------------------------------------
(* Why nobody is admitted who should not be: the activity row that register*)
(* locks at first stays locked until its COMMIT, so what it then read of   *)
(* the bookings of the activity can only get better (register.go:157-316). *)

Admitting == {"listHolders", "readDogs", "lockPass", "writePass", "insert", "commit"}
Admitted  == {"lockPass", "writePass", "insert", "commit"}

HoldsItsActivity(t) ==
  Registers(t) /\ pc[t] \in Admitting => lock[req[t].act] = t

(* There still is a place, and no dog holds one that was not looked at.    *)
FoundRoom(t) ==
  Registers(t) /\ pc[t] \in Admitted \cup {"readDogs"} =>
    Cardinality(SlotHolders(req[t].act)) < activity[req[t].act].cap

SawAll(t) ==
  Registers(t) /\ pc[t] = "readDogs" =>
    \A r \in SlotHolders(req[t].act) : res[r].dog \in mem[t].holders

(* What the owner's path has checked by the time it looks for its pass.    *)
OwnerVetted(t) ==
  Registers(t) /\ ~req[t].admin /\ pc[t] \in Admitted =>
    /\ DogOwner[req[t].dog] = req[t].user
    /\ \A r \in SlotHolders(req[t].act) :
         /\ <<req[t].dog, res[r].dog>> \notin Blocks
         /\ mem[t].next = "CONFIRMED" => <<req[t].dog, res[r].dog>> \notin Reviews

PaysForItself(t) ==
  Registers(t) /\ pc[t] \in {"writePass", "insert", "commit"} =>
    DogOwner[req[t].dog] = PassOwner[req[t].pass]

(* The row that waits for COMMIT is the one that was asked for, and the    *)
(* index has seen no other of its kind.                                    *)
WroteItsRequest(t) ==
  Registers(t) /\ pc[t] = "commit" =>
    /\ ActiveBooking(req[t].act, req[t].dog) = {}
    /\ \A r \in Written(t) :
         /\ wres[t][r].act = req[t].act /\ wres[t][r].dog = req[t].dog
         /\ wres[t][r].status = mem[t].next

(* A request is not from the future, and what it decided on was true then. *)
DecidedInTime(t) ==
  /\ pc[t] # "idle" /\ (Registers(t) \/ Moves(t)) => req[t].now <= clock
  /\ Moves(t) /\ pc[t] \in {"lockPass", "writePass", "writeReservation", "commit"} =>
       LET arow == activity[mem[t].row.act] IN
       /\ mem[t].next = "CONFIRMED" => req[t].op = "confirm"
       /\ mem[t].next = "COMPLETED" => IsFinished(arow, req[t].now)
       /\ mem[t].next = "NO_SHOW"   => IsInThePast(arow, req[t].now)

Careful(t) ==
  /\ HoldsItsActivity(t) /\ FoundRoom(t) /\ SawAll(t) /\ OwnerVetted(t)
  /\ PaysForItself(t) /\ WroteItsRequest(t) /\ DecidedInTime(t)

(* What the booking use cases never change.                                *)
NothingElseMoves ==
  activity = OpenActivity /\ gone = {} /\ dog = [d \in Dogs |-> "active"]

(* The inductive invariant of the admissions, on top of BookingInv.        *)
AdmissionInv ==
  /\ NothingElseMoves
  /\ \A t \in Txs : Careful(t)
  /\ NoOverbooking /\ OneActiveBooking /\ MeetingsAreVetted
  /\ OwnPassPays /\ AttendanceAfterTheFact
=============================================================================
