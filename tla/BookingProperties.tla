------------------------- MODULE BookingProperties --------------------------
(***************************************************************************)
(* What the booking engine guarantees, whatever the interleaving of the    *)
(* handlers and wherever a transaction dies.                               *)
(***************************************************************************)
EXTENDS Booking

Requests == RegisterRequests \cup ReservationRequests \cup EditPassRequests

Steps == {"idle", "lockActivity", "listHolders", "readDogs", "lockPass",
          "writePass", "insert", "lockReservation", "readActivity",
          "writeReservation", "readPass", "updatePass", "commit"}

Memory == [holders : SUBSET Dogs, row : ResRow \cup {NoRow},
           next : Status \cup {NoRow}, prow : PassRow \cup {NoRow},
           amount : {-1, 0, 1}, arow : ActivityRow \cup {NoRow},
           todo : SUBSET ResIds]

(* The tables satisfy their column types and CHECK constraints.            *)
TablesTyped ==
  /\ clock \in Times
  /\ activity \in [Activities -> ActivityRow \cup {NoRow}]
  /\ dog \in [Dogs -> {"active", "inactive", "deleted"}]
  /\ res \in [ResIds -> ResRow \cup {NoRow}]
  /\ gone \subseteq ResIds
  /\ pass \in [Passes -> PassRow]
  /\ audit \in [Passes -> [consumed : Nat, refunded : Nat]]
  /\ forced \subseteq ResIds
  /\ reviewed \subseteq ResIds

(* A handler's variables are what its code declares.                       *)
HandlersTyped(steps, requests) ==
  /\ lock \in [Rows -> Txs \cup {NoTx}]
  /\ pc \in [Txs -> steps]
  /\ req \in [Txs -> requests \cup {NoRow}]
  /\ mem \in [Txs -> Memory]
  /\ wres \in [Txs -> [ResIds -> ResRow \cup {NoRow}]]
  /\ wpass \in [Txs -> PassWrite \cup {NoRow}]

(* Type invariant: counters never go below zero, also in the copies the    *)
(* handlers work on (pass.go:259-311, migration 000001).                   *)
TypeOK == TablesTyped /\ HandlersTyped(Steps, Requests)

-----------------------------------------------------------------------------
(* The sessions of a pass.                                                 *)

BookedWith(p) == {r \in ResIds : res[r] # NoRow /\ res[r].pass = p}

Charged(p) == {r \in BookedWith(p) : res[r].status \in ChargedStatus}

(* Every session of a pass is either still on it or held by exactly one    *)
(* booking that was charged and not refunded: no interleaving of register, *)
(* cancel, forgive and reject loses a session, refunds one twice or drops  *)
(* a refund because CanRefund was false (cancel.go:200-248, forgive.go,    *)
(* reject.go).                                                             *)
SessionLedger ==
  \A p \in Passes :
    pass[p].remaining + Cardinality(Charged(p)) = NumSessions[p]

(* pass_movements explains the bookings one by one: as many -1 rows as     *)
(* bookings ever charged to the pass and as many +1 rows as refunded ones  *)
(* (pass_repository.go:97-121, the counter and the log land together).     *)
MovementsMatchBookings ==
  \A p \in Passes :
    /\ audit[p].consumed = Cardinality(BookedWith(p))
    /\ audit[p].refunded = Cardinality(BookedWith(p) \ Charged(p))

(* The abstract ledger: sessions are taken and given back in single steps. *)
Ledger == INSTANCE PassLedger WITH
  left     <- [p \in Passes |-> pass[p].remaining],
  holding  <- [p \in Passes |-> Charged(p)],
  returned <- [p \in Passes |-> BookedWith(p) \ Charged(p)]

(* The booking engine implements the abstract ledger: however the          *)
(* statements of several requests interleave, what commits is one booking  *)
(* taking one session, or giving it back once and for all.                 *)
ImplementsPassLedger == Ledger!Spec

(* An admin's edit of paid or expires_at and a change of the counter never *)
(* overwrite one another: no step changes both (register.go:360-366, the   *)
(* updated_at guard against the modify and set_paid paths).                *)
PassEditsSurvive ==
  [][\A p \in Passes :
       pass'[p].remaining # pass[p].remaining =>
         pass'[p].paid = pass[p].paid /\ pass'[p].expires = pass[p].expires]_vars

-----------------------------------------------------------------------------
(* The slots of an activity.                                               *)

(* Two registrations can never both take the last slot (register.go:157-   *)
(* 159, "two concurrent registrations serialize on the capacity check").   *)
NoOverbooking ==
  \A a \in Activities :
    activity[a] # NoRow => Cardinality(SlotHolders(a)) <= activity[a].cap

(* A dog holds at most one slot of an activity (migration 000014).         *)
OneActiveBooking ==
  \A a \in Activities : \A r, s \in SlotHolders(a) :
    res[r].dog = res[s].dog => r = s

(* Of two dogs that hold slots of the same activity and may not meet, one  *)
(* was put there by an admin; if they need a review and both are           *)
(* confirmed, an admin decided about one of them.  Two registrations that  *)
(* do not see each other's dog would break it (register.go:249-316).       *)
MeetingsAreVetted ==
  \A a \in Activities : \A r, s \in SlotHolders(a) :
    LET pair == <<res[r].dog, res[s].dog>> IN
    /\ pair \in Blocks => {r, s} \cap forced # {}
    /\ pair \in Reviews /\ res[r].status = "CONFIRMED" /\ res[s].status = "CONFIRMED"
         => {r, s} \cap (forced \cup reviewed) # {}

(* A booking never consumes a session of somebody else's pass, not even    *)
(* through the admin path (register.go:343-352).                           *)
OwnPassPays ==
  \A r \in ResIds :
    res[r] # NoRow => DogOwner[res[r].dog] = PassOwner[res[r].pass]

-----------------------------------------------------------------------------
(* The life of a reservation: the state machine of reservation.go:25-40.   *)

Transitions ==
  {<<"CONFIRMED", "CANCELLED_IN_TIME">>, <<"CONFIRMED", "CANCELLED_LATE">>,
   <<"CANCELLED_LATE", "FORGIVEN">>,
   <<"CONFIRMED", "COMPLETED">>, <<"CONFIRMED", "NO_SHOW">>,
   <<"PENDING_TO_CONFIRM", "CONFIRMED">>,
   <<"PENDING_TO_CONFIRM", "CANCELLED_IN_TIME">>}

(* A committed reservation only ever follows an edge of the state machine, *)
(* keeps its activity, dog and pass, and starts in a slot-holding status,  *)
(* however many cancels, confirms, rejects and completions race.           *)
StatusMachine ==
  [][\A r \in ResIds :
       res'[r] # res[r] =>
         \/ res[r] = NoRow /\ res'[r].status \in SlotStatus
         \/ /\ res[r] # NoRow
            /\ res'[r] = [res[r] EXCEPT !.status = res'[r].status]
            /\ <<res[r].status, res'[r].status>> \in Transitions]_vars

(* Attendance is a statement about the past: nobody has attended, or       *)
(* missed, an activity that has not ended, or not begun, although the      *)
(* clock of a request is frozen before it waits for locks (complete.go:    *)
(* 129-144, mark_no_show.go, activity.go:192-213).                         *)
AttendanceAfterTheFact ==
  \A r \in ResIds :
    LET arow == activity[res[r].act] IN
    res[r] # NoRow /\ arow # NoRow =>
      /\ res[r].status = "COMPLETED" => IsFinished(arow, clock)
      /\ res[r].status = "NO_SHOW"   => IsInThePast(arow, clock)

-----------------------------------------------------------------------------
(* Lock waits.                                                             *)

(* The transactions t waits for at its next statement.                     *)
WaitsFor(t) ==
  LET holder(x) == {lock[x]} \ {NoTx, t} IN
  CASE pc[t] = "lockActivity"     -> holder(req[t].act)
    [] pc[t] = "lockReservation"  -> holder(req[t].res)
    [] pc[t] = "writeReservation" -> holder(req[t].res)
    [] pc[t] = "lockPass" /\ req[t].op = "register" -> holder(req[t].pass)
    [] pc[t] = "lockPass" /\ req[t].op # "register" -> holder(mem[t].row.pass)
    [] pc[t] = "writePass" /\ req[t].op = "register" -> holder(req[t].pass)
    [] pc[t] = "writePass" /\ req[t].op # "register" -> holder(mem[t].row.pass)
    [] pc[t] = "insert"           -> InsertWaits(t)
    [] pc[t] = "updatePass"       -> holder(req[t].pass)
    [] OTHER                      -> {}

(* No set of transactions waits only on itself: activity before pass in a  *)
(* booking and reservation before pass in a refund is a lock order, also   *)
(* with the waits hidden in the INSERT.                                    *)
NoDeadlock ==
  \A S \in SUBSET InFlight :
    S # {} => \E t \in S : WaitsFor(t) \cap S = {}

(* Handlers keep running and PostgreSQL serves lock waiters in order, so a *)
(* statement that can execute again and again is executed.                 *)
FairSpec == Spec /\ \A t \in Txs : SF_vars(Step(t))

(* Every request is answered, without any transaction having to be killed. *)
EveryRequestReturns == \A t \in Txs : pc[t] # "idle" ~> pc[t] = "idle"

-----------------------------------------------------------------------------
(* pass.go:289-293: 'The policy "no refund on expired pass" is enforced at *)
(* the use case layer (owner-side refunds).'  A cancellation by the owner  *)
(* never puts a session back on an expired pass.                           *)
NoOwnerRefundOnExpiredPass ==
  \A t \in Txs :
    /\ wpass[t] # NoRow /\ wpass[t].amount = 1
    /\ req[t].op = "cancel" /\ ~req[t].admin
    => ~IsExpired(wpass[t].row, req[t].now)
=============================================================================
