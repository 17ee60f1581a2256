-------------------------------- MODULE MCDesk --------------------------------
(* The edits of dogs and labels that interleave, and the requests of the   *)
(* API one by one, for TLC. They share the rules about dogs and no state:  *)
(* one of the two moves in a behaviour.                                    *)
EXTENDS Kennel, ApiProperties, TLC

VARIABLE moving   \* "kennel" or "api"

Both == <<moving, kennelVars, deskVars>>

MCInit == moving \in {"kennel", "api"} /\ KennelInit /\ DeskInit

MCNext ==
  \/ moving = "kennel" /\ KennelNext /\ UNCHANGED <<moving, deskVars>>
  \/ moving = "api" /\ DeskNext /\ UNCHANGED <<moving, kennelVars>>

MCSpec == MCInit /\ [][MCNext]_Both

(* Type invariant of the two.                                              *)
MCTypeOK == KennelTypeOK /\ DeskTypeOK

-----------------------------------------------------------------------------
(* Ann has a bitch, in heat when the API is asked; Bob an intact dog with  *)
(* a trigger that hers sets off.                                           *)
Bella ==
  [owner |-> 2, sex |-> "FEMALE", age |-> 5, weight |-> 400, special |-> FALSE,
   breed |-> "poodle", passport |-> "P1", photo |-> None, neutered |-> FALSE,
   heat |-> FALSE, active |-> TRUE, links |-> {1}]
Rex == [Bella EXCEPT !.owner = 3, !.sex = "MALE", !.weight = 2500, !.passport = "P2",
                     !.links = {2}]

Shy     == [code |-> "shy", target |-> None, level |-> "BAJA"]
HatesShy == [code |-> None, target |-> "shy", level |-> "ABSOLUTA"]

Pass(user, left) ==
  [user |-> user, total |-> 2, left |-> left, price |-> 10, kind |-> "GENERICO",
   expires |-> None, paid |-> FALSE]

Class(kind, dog, date, size) ==
  [kind |-> kind, dog |-> dog, size |-> size, cap |-> 2, hours |-> 1, date |-> date,
   closed |-> FALSE]

Booked(a, d, p, status) ==
  [activity |-> a, dog |-> d, pass |-> p, status |-> status, created |-> 0, reasons |-> {}]

Filled(rows, slots) == [id \in 1..slots |-> IF id <= Len(rows) THEN rows[id] ELSE None]

(* A group that starts within the late window, Bella's own class, a group  *)
(* that is over.                                                           *)
Groups == <<Class("ROUTE", None, 1, None), Class("INDIVIDUAL_CLASS", 1, 5, None),
            Class("SOCIALIZATION_GROUP", None, -5, "MINI")>>

TheRoles  == 1 :> "ADMIN" @@ 2 :> "USER" @@ 3 :> "USER"
TheDogs   == 1 :> Bella
TheLabels == 1 :> Shy @@ 2 :> HatesShy @@ 3 :> None
TheTables ==
  [dogs       |-> Filled(<<[Bella EXCEPT !.heat = TRUE], Rex>>, 3),
   labels     |-> Filled(<<Shy, HatesShy>>, 3),
   passes     |-> Filled(<<Pass(2, 1), Pass(3, 1)>>, 3),
   activities |-> Filled(Groups, 5),
   bookings   |-> Filled(<<Booked(3, 1, 1, "CONFIRMED"), Booked(1, 2, 2, "PENDING_TO_CONFIRM")>>, 3),
   last       |-> [dogs |-> 2, labels |-> 2, passes |-> 2, activities |-> 3, bookings |-> 2]]

ThePages == {<<0, 0>>, <<1, -1>>, <<1, 1>>}

TheDogPatches == {[heat |-> TRUE], [sex |-> "MALE"], [neutered |-> TRUE],
                  [special |-> TRUE], [active |-> FALSE]}
TheLabelPatches == {[code |-> "loud"], [target |-> "shy"], [level |-> "MEDIA"]}
TheDogBodies ==
  {[owner |-> 2, sex |-> "MALE", age |-> 12, weight |-> 900, special |-> FALSE,
    breed |-> "beagle", passport |-> p] : p \in {"P1", "P3", None}}
ThePassBodies   == {[total |-> t, price |-> 0, kind |-> "GENERICO", expires |-> None] : t \in 0..1}
ThePassPatches  == {[price |-> -1], [price |-> 9, expires |-> -1]}
TheActivityBodies ==
  {[kind |-> k, dog |-> d, size |-> None, cap |-> 1, hours |-> 1, date |-> 3, dates |-> s] :
     k \in {"ROUTE", "INDIVIDUAL_CLASS"}, d \in {None, 2}, s \in {<<>>, <<3, 4>>}}
TheActivityPatches == {[cap |-> 0], [cap |-> 3], [kind |-> "EXTRA"], [size |-> "MINI"],
                       [size |-> "MINI", cap |-> 3]}
TheFilters == {[closed |-> FALSE, from |-> None, to |-> None],
               [closed |-> None, from |-> -1, to |-> 2], [closed |-> None, from |-> 2, to |-> 1],
               [closed |-> None, from |-> None, to |-> None]}
=============================================================================
