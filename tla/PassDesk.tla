------------------------------- MODULE PassDesk -------------------------------
(* Requests about passes: sold, edited, marked as paid, listed.            *)
EXTENDS Desk

CONSTANTS PassBodies,    \* what POST /users/:user_id/passes may carry
          PassPatches

PassIds == Ids("passes")

PassKinds == {"GENERICO", "ESPECIFICO"}

(* What NewRegisterPassInput and ApplyPatch accept of a field.             *)
PassFieldValid(field, value) ==
  CASE field = "total" -> value > 0
    [] field = "price" -> value >= 0
    [] field = "kind"  -> value \in PassKinds
    [] OTHER           -> TRUE

NewPass(body, user) ==
  [user |-> user, total |-> body.total, left |-> body.total, price |-> body.price,
   kind |-> body.kind, expires |-> body.expires, paid |-> FALSE]

-----------------------------------------------------------------------------
(* The queries                                                             *)

ReadPass(p) ==
  IF p \notin Stored("passes") THEN Fail("not_found") ELSE Ok(Shown("pass", {p}))

AllPasses          == Stored("passes")
PassesOwnedBy(user) == {p \in Stored("passes") : db.passes[p].user = user}
PassesPaid(flag)   == {p \in Stored("passes") : db.passes[p].paid = flag}

CreatePass(row) ==
  IF row.user \notin Users THEN Fail("invalid_user_id")
  ELSE LET then == Insert(db, "passes", row)
       IN  Saved(Shown("pass", {NextId("passes")}), then)

(* Update, one request at a time: its guard on updated_at finds the row.   *)
UpdatePass(p, row) == Saved(Shown("pass", {p}), [db EXCEPT !.passes[p] = row])

-----------------------------------------------------------------------------
(* The use cases                                                           *)

ListPasses(ids, page) == Ok(Shown("pass", NewestFirst(ids, NormalizePagination(page))))

RegisterPass(body, user) ==
  IF user = 0 \/ \E f \in DOMAIN body : ~PassFieldValid(f, body[f]) THEN Fail("validation")
  ELSE CreatePass(NewPass(body, user))

GetPass(p) == IF p = 0 THEN Fail("validation") ELSE ReadPass(p)

(* The patch is applied, and may be refused, before it is found empty. The *)
(* row is read again for its new updated_at.                               *)
ModifyPass(p, patch, again) ==
  IF GetPass(p).error # None THEN GetPass(p)
  ELSE IF \E f \in DOMAIN patch : ~PassFieldValid(f, patch[f]) THEN Fail("validation")
  ELSE IF DOMAIN patch = {} THEN ReadPass(p)
  ELSE ReadBack(UpdatePass(p, Patched(db.passes[p], patch)), again)

SetPassPaid(p, flag, again) ==
  IF GetPass(p).error # None THEN GetPass(p)
  ELSE ReadBack(UpdatePass(p, [db.passes[p] EXCEPT !.paid = flag]), again)

ListAllPasses(page) == ListPasses(AllPasses, page)

ListByUserPasses(user, page) ==
  IF user = 0 THEN Fail("validation") ELSE ListPasses(PassesOwnedBy(user), page)

ListByPaidPasses(flag, page) == ListPasses(PassesPaid(flag), page)

-----------------------------------------------------------------------------
(* The handlers                                                            *)

(* A user there is not: the foreign key of the passes refuses the row.     *)
Buyers == Users \cup {0, Cardinality(Users) + 1}

PassHandler_Register(who) ==
  /\ HasRoom("passes")
  /\ \E body \in PassBodies, user \in Buyers : Answer(who, 201, RegisterPass(body, user))

PassHandler_Modify(who) ==
  \E p \in PassIds, patch \in PassPatches, again \in BOOLEAN :
    Answer(who, 200, ModifyPass(p, patch, again))

PassHandler_GetByID(who) == \E p \in PassIds : Answer(who, 200, GetPass(p))

PassHandler_List(who) == \E page \in Pages : Answer(who, 200, ListAllPasses(page))

PassHandler_ListByUser(who) ==
  \E user \in Users \cup {0}, page \in Pages :
    Answer(who, 200, Owned(who, user, ListByUserPasses(user, page)))

PassHandler_ListByPaid(who) ==
  \E flag \in BOOLEAN, page \in Pages : Answer(who, 200, ListByPaidPasses(flag, page))

PassHandler_SetPaid(who) ==
  \E p \in PassIds, flag \in BOOLEAN, again \in BOOLEAN :
    Answer(who, 200, SetPassPaid(p, flag, again))
=============================================================================
