------------------------------ MODULE Database ------------------------------
(***************************************************************************)
(* The PostgreSQL tables the booking engine shares, and the transactions   *)
(* that run on them: internal/repository/postgres and its Transactor.      *)
(*                                                                         *)
(* A request is served by one handler t \in Txs, which runs one use case.  *)
(* The handler's statements are separate steps, so handlers interleave     *)
(* between any two of them.  Isolation is READ COMMITTED, the default that *)
(* BeginTx(ctx, nil) gets:                                                 *)
(*                                                                         *)
(*   - a plain SELECT reads the committed tables and takes no lock;        *)
(*   - SELECT ... FOR UPDATE waits until the row is free, then reads the   *)
(*     committed row and holds its lock until the transaction ends;        *)
(*   - writes stay in the transaction (wres, wpass) until Commit, which    *)
(*     publishes all of them at once; a rollback drops them.               *)
(***************************************************************************)
EXTENDS Integers, FiniteSets

CONSTANTS
  Activities, Dogs, Passes, Users,  \* ids of the rows of each table
  ResIds,          \* reservation ids, in the order the identity column gives them
  Txs,             \* request handlers
  NoTx, NoRow,     \* "nobody" and "no such row / NULL"
  DogOwner,        \* dogs.user_id
  PassOwner,       \* passes.user_id
  NumSessions      \* passes.num_of_sessions, which no operation changes

Rows == Activities \cup Dogs \cup Passes \cup ResIds

ASSUME KeysAssumption ==
  /\ ResIds \subseteq Nat
  /\ IsFiniteSet(ResIds)
  /\ Activities \cap (Dogs \cup Passes \cup ResIds) = {}
  /\ Dogs \cap (Passes \cup ResIds) = {}
  /\ Passes \cap ResIds = {}
  /\ NoTx \notin Txs
  /\ DogOwner \in [Dogs -> Users]
  /\ PassOwner \in [Passes -> Users]
  /\ NumSessions \in [Passes -> Nat \ {0}]

VARIABLES
  clock,      \* wall-clock time
  activity,   \* activities: a row, or NoRow once deleted
  dog,        \* dogs: "active", "inactive" or "deleted"
  res,        \* reservations: the last committed row, NoRow before the INSERT
  gone,       \* reservation rows an ON DELETE CASCADE has removed
  pass,       \* passes
  audit,      \* pass_movements: how many -1 and how many +1 rows a pass has
  forced,     \* history: bookings made with adminOverride
  reviewed,   \* history: bookings an admin promoted with ConfirmPending
  lock,       \* row locks: the transaction that holds the row, or NoTx
  pc,         \* the statement a handler executes next
  req,        \* the request a handler serves
  mem,        \* the values a handler has read or computed
  wres,       \* reservation rows a transaction has written but not committed
  wpass       \* the pass row it has written, with its movement

committed == <<clock, activity, dog, res, gone, pass, audit, forced, reviewed>>
handler   == <<pc, req, mem, wres, wpass, lock>>
vars      == <<committed, handler>>

-----------------------------------------------------------------------------
(* Reservation statuses, and the two ways the code groups them.            *)

Status == {"CONFIRMED", "PENDING_TO_CONFIRM", "COMPLETED", "NO_SHOW",
           "CANCELLED_IN_TIME", "CANCELLED_LATE", "FORGIVEN"}

SlotStatus == {"CONFIRMED", "PENDING_TO_CONFIRM"}

(* The statuses in which the session taken at booking stays taken.         *)
ChargedStatus == Status \ {"CANCELLED_IN_TIME", "FORGIVEN"}

ResRow   == [act : Activities, dog : Dogs, pass : Passes, status : Status]
PassRow  == [remaining : Nat, paid : BOOLEAN, expires : Int, ver : Nat]
(* A pass row a transaction has written: ver is the updated_at it read and *)
(* amount the movement the row justifies.                                  *)
PassWrite == [pass : Passes, row : PassRow, amount : {-1, 1}]

Exists(r) == res[r] # NoRow /\ r \notin gone

HoldsSlot(r) == Exists(r) /\ res[r].status \in SlotStatus

SlotHolders(a) == {r \in ResIds : HoldsSlot(r) /\ res[r].act = a}

-----------------------------------------------------------------------------
(* Row locks and the life of a transaction.                                *)

NoMem    == [holders |-> {}, row |-> NoRow, next |-> NoRow,
             prow |-> NoRow, amount |-> 0, arow |-> NoRow, todo |-> {}]
NoWrites == [r \in ResIds |-> NoRow]

Free(x) == lock[x] = NoTx

LockRow(t, x) == lock' = [lock EXCEPT ![x] = t]

Goto(t, step) == pc' = [pc EXCEPT ![t] = step]

Remember(t, m) == mem' = [mem EXCEPT ![t] = m]

(* A rollback that forgets to give the connection back (mutant).           *)
RollbackKeepingLocks(t) ==
  /\ Goto(t, "idle")
  /\ req'   = [req EXCEPT ![t] = NoRow]
  /\ mem'   = [mem EXCEPT ![t] = NoMem]
  /\ wres'  = [wres EXCEPT ![t] = NoWrites]
  /\ wpass' = [wpass EXCEPT ![t] = NoRow]
  /\ UNCHANGED <<committed, lock>>

(* The handler has answered: its locks are released, its memory is gone.   *)
Release(t) ==
  /\ Goto(t, "idle")
  /\ req'   = [req EXCEPT ![t] = NoRow]
  /\ mem'   = [mem EXCEPT ![t] = NoMem]
  /\ wres'  = [wres EXCEPT ![t] = NoWrites]
  /\ wpass' = [wpass EXCEPT ![t] = NoRow]
  /\ lock'  = [x \in Rows |-> IF lock[x] = t THEN NoTx ELSE lock[x]]

(* An error returned to WithinTx, a panic, a cancelled context, a lost     *)
(* connection or a crashed process: nothing of the transaction remains.    *)
Rollback(t) == Release(t) /\ UNCHANGED committed

Written(t) == {r \in ResIds : wres[t][r] # NoRow}

(* The counter is written without its movement row (mutant).               *)
PublishWithoutMovement(t) ==
  /\ res' = [r \in ResIds |-> IF r \in Written(t) THEN wres[t][r] ELSE res[r]]
  /\ pass' = [p \in Passes |-> IF wpass[t] # NoRow /\ wpass[t].pass = p
                                  THEN wpass[t].row ELSE pass[p]]
  /\ UNCHANGED audit

(* Publish the writes of t to reservations, passes and pass_movements.     *)
Publish(t) ==
  /\ res' = [r \in ResIds |-> IF r \in Written(t) THEN wres[t][r] ELSE res[r]]
  /\ \/ /\ wpass[t] = NoRow
        /\ UNCHANGED <<pass, audit>>
     \/ /\ wpass[t] # NoRow
        /\ LET w == wpass[t]
               p == w.pass
               old == audit[p]
           IN  /\ pass' = [pass EXCEPT ![p] = w.row]
               /\ audit' = [audit EXCEPT ![p] =
                     IF w.amount = -1
                       THEN [old EXCEPT !.consumed = old.consumed + 1]
                       ELSE [old EXCEPT !.refunded = old.refunded + 1]]

InFlight == {t \in Txs : pc[t] # "idle"}

(* BEGIN: an idle handler takes up a request; `now' was frozen with it.    *)
Accept(t, request, first) ==
  /\ pc[t] = "idle"
  /\ Goto(t, first)
  /\ req' = [req EXCEPT ![t] = request]
  /\ UNCHANGED <<committed, mem, wres, wpass, lock>>

(* Any transaction may die before its COMMIT.                              *)
Abort(t) == pc[t] # "idle" /\ Rollback(t)
=============================================================================
