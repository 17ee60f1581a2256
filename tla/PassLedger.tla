----------------------------- MODULE PassLedger -----------------------------
(***************************************************************************)
(* What the booking engine promises about passes, without handlers, rows,  *)
(* locks or transactions: a pass has a number of sessions left; a booking  *)
(* takes one when it is made and may give it back once.                    *)
(***************************************************************************)
EXTENDS Integers

CONSTANTS Passes, ResIds, NumSessions

VARIABLES
  left,       \* sessions a pass still offers
  holding,    \* bookings that hold a session of the pass
  returned    \* bookings that have given theirs back

ledger == <<left, holding, returned>>

Known == UNION {holding[p] \cup returned[p] : p \in Passes}

Init ==
  /\ left = NumSessions
  /\ holding = [p \in Passes |-> {}]
  /\ returned = [p \in Passes |-> {}]

(* A new booking takes a session of p.                                     *)
Take(p, r) ==
  /\ left[p] > 0
  /\ r \notin Known
  /\ left' = [left EXCEPT ![p] = left[p] - 1]
  /\ holding' = [holding EXCEPT ![p] = holding[p] \cup {r}]
  /\ UNCHANGED returned

(* A booking that holds a session of p gives it back, for good.            *)
GiveBack(p, r) ==
  /\ r \in holding[p]
  /\ left' = [left EXCEPT ![p] = left[p] + 1]
  /\ holding' = [holding EXCEPT ![p] = holding[p] \ {r}]
  /\ returned' = [returned EXCEPT ![p] = returned[p] \cup {r}]

Next == \E p \in Passes, r \in ResIds : Take(p, r) \/ GiveBack(p, r)

Spec == Init /\ [][Next]_ledger
=============================================================================
