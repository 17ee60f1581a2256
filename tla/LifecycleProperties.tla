------------------------- MODULE LifecycleProperties -------------------------
(***************************************************************************)
(* What bookings can rely on while the activity and the dog they refer to  *)
(* are closed, edited or deleted next to them.                             *)
(***************************************************************************)
EXTENDS ActivityLifecycle, BookingProperties

LifecycleRequests ==
  Requests \cup CloseRequests \cup BulkRequests \cup ModifyRequests
    \cup DeleteActivityRequests \cup DeleteDogRequests \cup EditDogRequests

LifecycleSteps ==
  Steps \cup {"readActivityToClose", "listToClose", "settle",
              "readActivityToModify", "writeModified",
              "countActive", "deleteActivity", "cascadeActivity",
              "deleteDog", "cascadeDog", "editDog"}

(* Type invariant of the composed system.                                  *)
LifecycleTypeOK ==
  TablesTyped /\ HandlersTyped(LifecycleSteps, LifecycleRequests)

-----------------------------------------------------------------------------
(* A booking enters an activity that is open and has room for it at the    *)
(* moment it becomes visible, not only when Register looked: a close, a    *)
(* smaller capacity or a deletion that lands in between would break it     *)
(* (register.go:157-198 against modify.go and close_activity.go).          *)
AdmissionRespectsActivity ==
  [][\A a \in Activities :
       (SlotHolders(a))' \ SlotHolders(a) # {} =>
         /\ activity[a] # NoRow
         /\ ~activity[a].closed
         /\ Cardinality((SlotHolders(a))') <= activity[a].cap]_vars

(* A booking never outlives its activity or its dog, although both are     *)
(* deleted by statements that take other locks than Register does          *)
(* (register.go:201 reads the dog without one; migration 000001, CASCADE). *)
NoOrphanBookings ==
  \A r \in ResIds :
    Exists(r) => activity[res[r].act] # NoRow /\ dog[res[r].dog] # "deleted"

(* An activity that is closed has no CONFIRMED booking left: what          *)
(* bulk_complete_reservations.go:111-115 says of an activity "that Close   *)
(* already finished".                                                      *)
ClosedMeansSettled ==
  \A a \in Activities :
    activity[a] # NoRow /\ activity[a].closed => Confirmed(a) = {}

(* Closing is final: activity.go:215-226, "the only way to close an        *)
(* activity in memory stays Close()", and nothing reopens one.             *)
ClosedStaysClosed ==
  [][\A a \in Activities :
       activity[a] # NoRow /\ activity[a].closed =>
         activity'[a] = NoRow \/ activity'[a].closed]_vars

(* activity_repository.go:178-184: Delete "refuses ... while the activity  *)
(* still holds at least one slot-holding reservation".                     *)
NoBookedActivityDeleted ==
  [][\A a \in Activities :
       activity[a] # NoRow /\ activity'[a] = NoRow => SlotHolders(a) = {}]_vars

-----------------------------------------------------------------------------
(* The transactions t waits for at its next statement.                     *)
LifecycleWaitsFor(t) ==
  LET holders(S) == {lock[x] : x \in S} \ {NoTx, t}
      step == pc[t] IN
  CASE step = "settle" /\ mem[t].todo # {} -> holders({NextToSettle(t)})
    [] step = "settle" /\ mem[t].todo = {} /\ ~mem[t].arow.closed
                              -> holders({req[t].act})
    [] step \in {"writeModified", "deleteActivity"} -> holders({req[t].act})
    [] step = "cascadeActivity" -> holders(RowsOfActivity(req[t].act))
    [] step \in {"deleteDog", "editDog"}
                              -> holders({req[t].dog}) \cup (Inserting(req[t].dog) \ {t})
    [] step = "cascadeDog"    -> holders(RowsOfDog(req[t].dog) \cup ClassesOf(req[t].dog))
    [] OTHER                  -> WaitsFor(t)

(* Closing an activity locks its bookings in id order and the activity     *)
(* last, so two closes, a bulk completion and the single-booking           *)
(* operations never wait for one another in a circle (close_activity.go:         *)
(* 161-166, "which risks a deadlock between two concurrent closes").       *)
NoCloseDeadlock ==
  \A S \in SUBSET InFlight :
    S # {} => \E t \in S : LifecycleWaitsFor(t) \cap S = {}
=============================================================================
