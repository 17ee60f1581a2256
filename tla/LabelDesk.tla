------------------------------ MODULE LabelDesk ------------------------------
(* Requests about the catalogue of traits and triggers. Names are left     *)
(* out: their index behaves as the one of the codes.                       *)
EXTENDS Desk

(* IncompatibilityLevel.IsValid is Levels of Compatibility; NULL is None.  *)
LabelBodies == [code : Codes \cup {None}, target : Codes \cup {None},
                level : Levels \cup {None}]

ReadLabelRow(l) ==
  IF l \notin Stored("labels") THEN Fail("not_found") ELSE Ok(Shown("label", {l}))

LabelWithCode(code) ==
  {l \in Stored("labels") : code # None /\ db.labels[l].code = code}

LabelsOfLevel(level) ==
  {l \in Stored("labels") : level = None \/ db.labels[l].level = level}

(* Create and Update, under the unique index over the codes.               *)
CreateLabel(row) ==
  LET then == Insert(db, "labels", row) IN
  IF LabelWithCode(row.code) # {} THEN Fail("duplicate_code")
  ELSE Saved(Shown("label", {NextId("labels")}), then)

RewriteLabel(l, row) ==
  IF LabelWithCode(row.code) \ {l} # {} THEN Fail("duplicate_code")
  ELSE Saved(Shown("label", {l}), [db EXCEPT !.labels[l] = row])

(* The count of the triggers, then the foreign key of the join table.      *)
LabelInUse(l) ==
  LET code == db.labels[l].code IN
  \/ code # None /\ \E t \in Stored("labels") : db.labels[t].target = code
  \/ \E d \in Stored("dogs") : l \in db.dogs[d].links

EraseLabel(l) ==
  IF l \notin Stored("labels") THEN Fail("not_found")
  ELSE IF LabelInUse(l) THEN Fail("incompatibility_in_use")
  ELSE Saved({}, [db EXCEPT !.labels[l] = None])

-----------------------------------------------------------------------------
(* The use cases                                                           *)

ValidTarget(code) == LabelWithCode(code) # {}

RegisterLabel(body) ==
  IF body.level = None \/ ((body.code = None) <=> (body.target = None))
  THEN Fail("validation")
  ELSE IF body.target # None /\ ~ValidTarget(body.target) THEN Fail("validation")
  ELSE CreateLabel(body)

GetLabel(l) == IF l = 0 THEN Fail("validation") ELSE ReadLabelRow(l)

ListLabels(level) ==
  IF level \notin Levels \cup {None} THEN Fail("validation")
  ELSE Ok(Shown("label", LabelsOfLevel(level)))

(* The target is checked only when the row is loaded as a trigger.         *)
ModifyLabel(l, patch) ==
  IF GetLabel(l).error # None THEN GetLabel(l)
  ELSE LET row == Loaded(db.labels[l]) IN
    IF \/ \E f \in DOMAIN patch : patch[f] = None
       \/ /\ "target" \in DOMAIN patch /\ row.target # None
          /\ ~ValidTarget(patch.target)
    THEN Fail("validation")
    ELSE IF DOMAIN patch = {} THEN Ok(Shown("label", {l}))
    ELSE RewriteLabel(l, Patched(row, patch))

DeleteLabelRow(l) == IF l = 0 THEN Fail("validation") ELSE EraseLabel(l)

-----------------------------------------------------------------------------
(* The handlers                                                            *)

IncompatibilityHandler_Register(who) ==
  /\ HasRoom("labels")
  /\ \E body \in LabelBodies : Answer(who, 201, RegisterLabel(body))

IncompatibilityHandler_List(who) ==
  \E level \in Levels \cup {None, "NINGUNA"} : Answer(who, 200, ListLabels(level))

IncompatibilityHandler_GetByID(who) ==
  \E l \in Ids("labels") : Answer(who, 200, GetLabel(l))

IncompatibilityHandler_Modify(who) ==
  \E l \in Ids("labels"), patch \in LabelPatches : Answer(who, 200, ModifyLabel(l, patch))

IncompatibilityHandler_Delete(who) ==
  \E l \in Ids("labels") : Answer(who, 204, DeleteLabelRow(l))
=============================================================================
