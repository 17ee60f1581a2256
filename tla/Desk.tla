-------------------------------- MODULE Desk --------------------------------
(* What every HTTP handler shares: who asks, the tables it finds, the page *)
(* of a list, the answer. One request is one step here: how requests       *)
(* interleave is the business of the other modules, what one of them may   *)
(* show, refuse and change is the business of this one. A request that     *)
(* writes in several statements may still fail between two of them.        *)
EXTENDS Compatibility, Sequences

CONSTANTS UserRoles,     \* id -> role
          FirstTables,   \* name of a table -> id -> row or None
          Pages,         \* the <<limit, offset>> of the query strings
          MaxAsked       \* bound: requests of a behaviour

VARIABLES db,      \* the committed tables, and the last identity of each
          answer,  \* the last answer: to whom, its code, the rows it shows
          asked    \* how many requests were answered

deskVars == <<db, answer, asked>>

Users == DOMAIN UserRoles

Stored(table) == {id \in DOMAIN db[table] : db[table][id] # None}

(* What a client may put in a path or a body for an id: one there is, one  *)
(* there is not, or something that is no id (0).                           *)
Ids(table) == DOMAIN db[table] \cup {0}

(* runner: the identity column numbers the rows, whatever was deleted.     *)
NextId(table) == db.last[table] + 1
HasRoom(table) == NextId(table) \in DOMAIN db[table]   \* bound

InsertAll(tables, table, rows) ==
  LET last == tables.last[table]
  IN  [tables EXCEPT
         ![table] = [id \in DOMAIN @ |->
           IF id - last \in DOMAIN rows THEN rows[id - last] ELSE @[id]],
         !.last[table] = last + Len(rows)]

Insert(tables, table, row) == InsertAll(tables, table, <<row>>)

(* The clock stands still: the dates of the rows lie around it.            *)
Now == 0

Shown(kind, ids) == {<<kind, id>> : id \in ids}

-----------------------------------------------------------------------------
(* Outcomes of the use cases                                               *)

Ok(rows)          == [error |-> None, rows |-> rows, db |-> db]
Saved(rows, then) == [error |-> None, rows |-> rows, db |-> then]
Fail(error)       == [error |-> error, rows |-> {}, db |-> db]

(* The callback ran outside a transaction: what it wrote stays (mutant).   *)
NoRollback(error, written) == [error |-> error, rows |-> {}, db |-> written]

(* WithinTx: the callback had written this when it returned an error.      *)
RollBack(error, written) == [error |-> error, rows |-> {}, db |-> db]

(* The write was a transaction of its own; reading for the answer may fail *)
(* after it.                                                               *)
ReadBack(out, succeeds) ==
  IF out.error # None \/ succeeds THEN out ELSE [error |-> "internal", rows |-> {}, db |-> out.db]

-----------------------------------------------------------------------------
(* writeError                                                              *)

LookupErrors == [validation |-> 400, not_found |-> 404, invalid_user_id |-> 400]

ReservationErrors ==
  [invalid_activity_id |-> 400, activity_in_past |-> 400, activity_not_started |-> 400,
   activity_full |-> 409, already_cancelled |-> 409, duplicate_reservation |-> 409,
   invalid_dog_id |-> 400, dog_size_mismatch |-> 400, not_cancellable |-> 409,
   activity_not_finished |-> 400, not_completable |-> 409, not_pending |-> 409,
   not_late_cancelled |-> 409]

RegistrationErrors ==
  [individual_class_foreign |-> 403, dog_not_active |-> 400, activity_closed |-> 409,
   dog_incompatible |-> 409, sex_neutered_incompatibility |-> 409,
   invalid_pass_id |-> 400, pass_exhausted |-> 400, pass_expired |-> 400]

ClosingErrors ==
  [already_closed |-> 409, reservation_not_confirmed |-> 409,
   pending_to_confirm_exists |-> 409, activity_has_reservations |-> 409,
   invalid_reservation_id |-> 400]

UniqueErrors == [duplicate_passport |-> 409]

ClassErrors == [inactive_dog |-> 400, dog_required |-> 400]

CatalogueErrors ==
  [duplicate_code |-> 409, incompatibility_in_use |-> 409,
   invalid_heat_for_sex |-> 400, invalid_incompatibility_kind |-> 400]

Forbidden == [forbidden |-> 403]

ErrorTables == {LookupErrors, ReservationErrors, RegistrationErrors, ClosingErrors,
                UniqueErrors, ClassErrors, CatalogueErrors, Forbidden}

StatusOf(error) ==
  IF \E t \in ErrorTables : error \in DOMAIN t
  THEN LET table == CHOOSE t \in ErrorTables : error \in DOMAIN t IN table[error]
  ELSE 500

-----------------------------------------------------------------------------
(* Gates                                                                   *)

Administrator(who) == UserRoles[who] = "ADMIN"

(* Anyone may act for anyone (mutant).                                     *)
NoOwnership(who, owner) == TRUE

RequireOwnershipOrAdmin(who, owner) == Administrator(who) \/ who = owner

(* The same, before the use case runs.                                     *)
Owned(who, owner, out) ==
  IF owner = 0 THEN Fail("validation")
  ELSE IF RequireOwnershipOrAdmin(who, owner) THEN out ELSE Fail("forbidden")

Answer(who, success, out) ==
  /\ asked < MaxAsked
  /\ asked' = asked + 1
  /\ db' = out.db
  /\ answer' = [by |-> who, rows |-> out.rows,
                code |-> IF out.error = None THEN success ELSE StatusOf(out.error)]

-----------------------------------------------------------------------------
(* Pages                                                                   *)

NormalizePagination(page) ==
  [limit  |-> IF page[1] <= 0 THEN 50 ELSE IF page[1] > 100 THEN 100 ELSE page[1],
   offset |-> IF page[2] < 0 THEN 0 ELSE page[2]]

(* LIMIT and OFFSET over ORDER BY id (or created_at) DESC, and over ASC.   *)
Cut(ids, page, before(_, _)) ==
  {id \in ids : LET rank == Cardinality({i \in ids : before(i, id)})
                IN  rank >= page.offset /\ rank < page.offset + page.limit}

NewestFirst(ids, page) == Cut(ids, page, LAMBDA i, j : i > j)
OldestFirst(ids, page) == Cut(ids, page, LAMBDA i, j : i < j)
=============================================================================
