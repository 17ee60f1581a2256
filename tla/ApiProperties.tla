---------------------------- MODULE ApiProperties ----------------------------
(* What holds of every answer the API gives.                               *)
EXTENDS Api

Tables == {"dogs", "labels", "passes", "activities", "bookings"}

(* The columns of the tables (migration 000001 and what followed it).      *)
DogRow ==
  [owner : Users, sex : Sexes, age : Nat \ {0}, weight : Nat \ {0}, special : BOOLEAN,
   breed : STRING, passport : STRING, photo : {None, "web"}, neutered : BOOLEAN,
   heat : BOOLEAN, active : BOOLEAN, links : SUBSET Nat]

PassRow ==
  [user : Users, total : Nat, left : Nat, price : Nat, kind : PassKinds,
   expires : Int \cup {None}, paid : BOOLEAN]

ActivityRow ==
  [kind : Kinds, dog : Nat \cup {None}, size : SizeTargets \cup {None}, cap : Nat \ {0},
   hours : Nat \ {0}, date : Int, closed : BOOLEAN]

BookingRow ==
  [activity : Nat, dog : Nat, pass : Nat, status : Statuses, created : Int,
   reasons : SUBSET ({"sex", "special"} \X Nat)]

Columns == [dogs |-> DogRow, labels |-> Label, passes |-> PassRow,
            activities |-> ActivityRow, bookings |-> BookingRow]

Rows(table) == {id \in DOMAIN table : table[id] # None}

Typed(table, row) == DOMAIN table \subseteq Nat \ {0} /\ table \in [DOMAIN table -> row \cup {None}]

(* What rows refer to is there (the foreign keys of the schema).           *)
References(dogs, labels, passes, activities, bookings) ==
  /\ \A d \in Rows(dogs) : dogs[d].links \subseteq Rows(labels)
  /\ \A a \in Rows(activities) : activities[a].dog \in Rows(dogs) \cup {None}
  /\ \A r \in Rows(bookings) :
       /\ bookings[r].dog \in Rows(dogs) /\ bookings[r].activity \in Rows(activities)
       /\ bookings[r].pass \in Rows(passes)

Schema(tables) ==
  /\ DOMAIN tables = Tables \cup {"last"} /\ tables.last \in [Tables -> Nat]
  /\ \A t \in Tables : /\ Typed(tables[t], Columns[t])
                       /\ \A id \in Rows(tables[t]) : id <= tables.last[t]
  /\ \A p \in Rows(tables.passes) : tables.passes[p].left <= tables.passes[p].total
  /\ References(tables.dogs, tables.labels, tables.passes, tables.activities, tables.bookings)

Errors == {"internal", "photo_url", "size_target"} \cup UNION {DOMAIN t : t \in ErrorTables}

(* NULL is no row, no date and no error; a patch names fields that a       *)
(* client may edit: DogPatch in dog.go:143, PassPatch in pass.go:194,      *)
(* ActivityPatch in activity.go:303.                                       *)
ASSUME ApiAssumption ==
  /\ Users \subseteq Nat \ {0} /\ Schema(FirstTables) /\ MaxAsked \in Nat
  /\ None \notin Errors /\ None \notin Int
  /\ None \notin DogRow \cup Label \cup PassRow \cup ActivityRow \cup BookingRow
  /\ \A patch \in DogPatches : \A f \in DOMAIN patch :
       CASE f \in {"age", "weight"} -> patch[f] \in Int
         [] f \in {"breed", "passport"} -> patch[f] \in STRING \cup {None}
         [] f \in {"special", "neutered", "heat", "active"} -> patch[f] \in BOOLEAN
         [] OTHER -> f = "sex"
  /\ \A patch \in LabelPatches, row \in Label : Patched(row, patch) \in Label
  /\ \A patch \in PassPatches : \A f \in DOMAIN patch :
       CASE f = "price"   -> patch[f] \in Int
         [] f = "expires" -> patch[f] \in Int
         [] f = "paid"    -> patch[f] \in BOOLEAN
         [] OTHER         -> f = "kind"
  /\ \A patch \in ActivityPatches : \A f \in DOMAIN patch :
       CASE f \in {"cap", "hours", "date"} -> patch[f] \in Int
         [] OTHER -> f \in {"kind", "size"}
  /\ \A body \in DogBodies :
       /\ body.age \in Int /\ body.weight \in Int /\ body.special \in BOOLEAN
       /\ body.breed \in STRING \cup {None} /\ body.passport \in STRING \cup {None}
  /\ \A body \in PassBodies :
       /\ DOMAIN body = {"total", "price", "kind", "expires"}
       /\ body.total \in Int /\ body.price \in Int /\ body.expires \in Int \cup {None}
  /\ \A body \in ActivityBodies :
       /\ body.cap \in Int /\ body.hours \in Int /\ body.date \in Int
       /\ body.dates \in Seq(Int)

(* Type invariant of the desk: the schema holds after every request.       *)
DeskTypeOK ==
  /\ asked \in 0..MaxAsked
  /\ answer.by \in Users \cup {None} /\ answer.code \in 200..599
  /\ answer.rows \subseteq {"dog", "label", "pass", "activity", "schedule", "booking", "user"} \X Nat
  /\ Schema(db)

(* Whose a row is; None if it is everyone's, as the rows of the schedule   *)
(* are: the unfiltered list shows them to whoever is logged in.            *)
OwnerOf(tables, kind, id) ==
  CASE kind = "user"     -> id
    [] kind = "dog"      -> tables.dogs[id].owner
    [] kind = "pass"     -> tables.passes[id].user
    [] kind = "booking"  -> tables.dogs[tables.bookings[id].dog].owner
    [] kind = "activity" -> IF tables.activities[id].dog = None THEN None
                            ELSE tables.dogs[tables.activities[id].dog].owner
    [] OTHER             -> None

Rewritten(kind, table) ==
  {<<kind, id>> : id \in {id \in DOMAIN db[table] : db'[table][id] # db[table][id]}}

(* A user who is no administrator is shown, and changes, only what is      *)
(* theirs, whatever ids the path and the body name:                        *)
(* RequireOwnershipOrAdmin in middleware.go:138-152, the ownership checks  *)
(* of register.go:211 and cancel.go:196, visibilityPredicate in            *)
(* activity_repository.go:45-62. What the unfiltered list of activities    *)
(* shows is kept from nobody: see ClassesStayPrivate.                      *)
OwnRowsOnly ==
  [][asked' # asked /\ ~Administrator(answer'.by) =>
       /\ \A s \in answer'.rows : OwnerOf(db', s[1], s[2]) \in {answer'.by, None}
       /\ \A s \in Rewritten("booking", "bookings") \cup Rewritten("pass", "passes") :
            OwnerOf(db', s[1], s[2]) = answer'.by
       /\ db'.dogs = db.dogs /\ db'.activities = db.activities
       /\ db'.labels = db.labels]_deskVars

(* One activity or one pass that there was has been edited, and that alone.*)
EditStored ==
  \E t \in {"activities", "passes"} : \E id \in Rows(db[t]) :
    /\ db'[t][id] # None /\ db' = [db EXCEPT ![t][id] = db'[t][id]]

(* A request that is answered with an error has done nothing by halves,    *)
(* however many of its statements had run (WithinTx in transaction.go:     *)
(* 47-75; the session consumed before the unique index refuses the         *)
(* booking, the sessions of a series before one of them fails, the         *)
(* bookings settled before one cannot be read): it has changed nothing, or *)
(* it is a 500 and the one UPDATE of an activity or a pass is stored whole *)
(* (activity_handler.go:361-365, pass/modify.go:95, set_paid.go:90: what   *)
(* fails is the reading for the answer).                                   *)
NothingHalfDone ==
  [][asked' # asked /\ answer'.code >= 400 =>
       db' = db \/ (answer'.code = 500 /\ EditStored)]_deskVars

(* list.go:33-35, "The repo ALWAYS applies the visibility filter (even on  *)
(* the no-bound, no-closed path)": the schedule too shows a user no class  *)
(* of somebody else's dog (activity_repository.go:45-62). It shows them all.*)
ClassesStayPrivate ==
  [][asked' # asked /\ ~Administrator(answer'.by) =>
       \A s \in answer'.rows : s[1] = "schedule" =>
         OwnerOf(db', "activity", s[2]) \in {answer'.by, None}]_deskVars

(* activity.go:227-229 and reservation_repository.go:392-395: a booking    *)
(* that is stored can be shown to who made it. The view of a booking for   *)
(* an individual class cannot.                                             *)
ViewsReadable == \A r \in Stored("bookings") : ReadView(r).error = None

(* activity.go:231: a row is read back through NewActivity, so an edit     *)
(* (ApplyPatch) has to leave what NewActivity accepts. A size written over *)
(* a class of one dog is not.                                              *)
ActivitiesReadable ==
  \A a \in Stored("activities") : ScanActivities({a}).error = None
=============================================================================
