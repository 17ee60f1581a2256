---------------------------- MODULE ActivityDesk ----------------------------
(* Requests about activities: who sees them, their creation alone or in a  *)
(* series, their edits, and their closing with what it makes of bookings.  *)
EXTENDS Desk

CONSTANTS ActivityBodies,   \* what POST /activities may carry
          ActivityPatches,
          Filters           \* the filters of GET /activities

ActivityIds == Ids("activities")

Kinds == {"SOCIALIZATION_GROUP", "INDIVIDUAL_CLASS", "ROUTE", "EXTRA"}
TakesSizes(kind) == kind \in {"SOCIALIZATION_GROUP", "ROUTE"}
SizeTargets == SizeBrackets \ {"UNKNOWN"}

(* NewActivity, which also rebuilds the rows that are read.                *)
ActivityError(row) ==
  IF row.kind = "INDIVIDUAL_CLASS" /\ row.dog = None THEN "dog_required"
  ELSE IF row.size # None /\ ~(TakesSizes(row.kind) /\ row.size \in SizeTargets)
  THEN "size_target" ELSE None

NewActivity(body, date) ==
  [kind |-> body.kind, dog |-> body.dog, size |-> body.size, cap |-> body.cap,
   hours |-> body.hours, date |-> date, closed |-> FALSE]

IsFinished(row) == row.date + row.hours < Now

-----------------------------------------------------------------------------
(* The queries                                                             *)

(* visibilityPredicate, over the join with the dog of the class.           *)
VisibleTo(who, a) ==
  LET dog == db.activities[a].dog IN
  \/ Administrator(who) \/ dog = None
  \/ dog \in Stored("dogs") /\ db.dogs[dog].owner = who

(* The activities of a list or alone; a bad row fails the request.         *)
ScanAs(kind, ids) ==
  LET bad == {a \in ids : ActivityError(db.activities[a]) # None} IN
  IF bad = {} THEN Ok(Shown(kind, ids))
  ELSE Fail(ActivityError(db.activities[CHOOSE a \in bad : TRUE]))

ScanActivities(ids) == ScanAs("activity", ids)

ReadActivity(who, a) ==
  IF a \notin Stored("activities") \/ ~VisibleTo(who, a) THEN Fail("not_found")
  ELSE ScanActivities({a})

ActivitiesWith(who, Test(_)) ==
  {a \in Stored("activities") : VisibleTo(who, a) /\ Test(db.activities[a])}

(* List adds the predicate to a statement that has no WHERE: it extends    *)
(* the ON of a LEFT JOIN, which drops no activity. What it shows is named  *)
(* the schedule, to tell it from the lists that are filtered.              *)
AllActivities(who) == Stored("activities")

(* ListByDateRange: a bound that is absent is the zero time.               *)
ActivitiesBetween(who, from, to) ==
  ActivitiesWith(who, LAMBDA row : /\ from = None \/ row.date >= from
                                   /\ to # None /\ row.date < to)

ActivitiesByClosed(who, closed, from, to) ==
  ActivitiesWith(who, LAMBDA row : /\ row.closed = closed
                                   /\ from = None \/ row.date >= from
                                   /\ to = None \/ row.date <= to)

UpcomingActivities(who) == ActivitiesWith(who, LAMBDA row : row.date >= Now)

Chronological(ids, page) ==
  Cut(ids, page, LAMBDA i, j :
    LET x == db.activities[i].date
        y == db.activities[j].date IN x < y \/ (x = y /\ i < j))

(* CREATE and UPDATE; the CHECK of the table knows the class without dog.  *)
RowAccepted(row) == ~(row.kind = "INDIVIDUAL_CLASS" /\ row.dog = None)

UpdateActivity(a, row) ==
  IF RowAccepted(row) THEN Saved(Shown("activity", {a}), [db EXCEPT !.activities[a] = row])
  ELSE Fail("internal")

(* Two statements: the guard, and the DELETE with its cascade.             *)
EraseActivity(a) ==
  LET bookings == {r \in Stored("bookings") : db.bookings[r].activity = a}
      active   == {r \in bookings :
                     db.bookings[r].status \in {"CONFIRMED", "PENDING_TO_CONFIRM"}} IN
  IF active # {} THEN Fail("activity_has_reservations")
  ELSE IF a \notin Stored("activities") THEN Fail("not_found")
  ELSE Saved({}, [db EXCEPT
         !.activities[a] = None,
         !.bookings = [r \in DOMAIN @ |-> IF r \in bookings THEN None ELSE @[r]]])

-----------------------------------------------------------------------------
(* The use cases                                                           *)

BodyAccepted(body) ==
  /\ body.kind \in Kinds /\ body.cap > 0 /\ body.hours > 0 /\ body.dog # 0
  /\ body.size # None => TakesSizes(body.kind) /\ body.size \in SizeTargets

(* verifyTargetDog                                                         *)
TargetError(d) ==
  IF d = None THEN None
  ELSE IF d \notin Stored("dogs") THEN "invalid_dog_id"
  ELSE IF ~Readable(db.dogs[d]) THEN "internal"
  ELSE IF ~db.dogs[d].active THEN "inactive_dog" ELSE None

(* Sessions of a series are inserted one by one in one transaction, which  *)
(* may fail after any of them.                                             *)
CreateSessions(body, dates, inserted) ==
  LET rows == [i \in DOMAIN dates |-> NewActivity(body, dates[i])]
      done == InsertAll(db, "activities", SubSeq(rows, 1, inserted))
      ids  == NextId("activities") .. done.last["activities"] IN
  IF TargetError(body.dog) # None THEN Fail(TargetError(body.dog))
  ELSE IF ActivityError(NewActivity(body, Now)) # None
  THEN Fail(ActivityError(NewActivity(body, Now)))
  ELSE IF inserted < Len(dates) THEN RollBack("internal", done)
  ELSE Saved(Shown("activity", ids), done)

RegisterActivity(body, inserted) ==
  IF ~BodyAccepted(body) THEN Fail("validation")
  ELSE CreateSessions(body, <<body.date>>, inserted)

(* At most 52 dates, each after the one before.                            *)
BatchRegister(body, inserted) ==
  IF ~BodyAccepted(body) \/ \E i \in 2..Len(body.dates) : body.dates[i] <= body.dates[i - 1]
  THEN Fail("validation") ELSE CreateSessions(body, body.dates, inserted)

GetActivity(who, a) == IF a = 0 THEN Fail("validation") ELSE ReadActivity(who, a)

ListActivities(who, filter, page) ==
  LET cut == NormalizePagination(page) IN
  IF filter.from # None /\ filter.to # None /\ filter.from > filter.to THEN Fail("validation")
  ELSE IF filter.closed # None
  THEN ScanActivities(Chronological(
         ActivitiesByClosed(who, filter.closed, filter.from, filter.to), cut))
  ELSE IF filter.from # None \/ filter.to # None
  THEN ScanActivities(Chronological(ActivitiesBetween(who, filter.from, filter.to), cut))
  ELSE ScanAs("schedule", Chronological(AllActivities(who), cut))

ListUpcomingActivities(who, page) ==
  ScanActivities(Chronological(UpcomingActivities(who), NormalizePagination(page)))

(* ApplyPatch: a new kind drops a size it does not take, but a new size is *)
(* not held against the kind the activity has.                             *)
PatchedActivity(row, patch) ==
  LET new == Patched(row, patch)
  IN  IF "kind" \in DOMAIN patch /\ ~TakesSizes(new.kind) THEN [new EXCEPT !.size = None]
      ELSE new

PatchValid(patch) ==
  \A f \in DOMAIN patch :
    CASE f = "kind" -> patch[f] \in Kinds
      [] f = "size" -> patch[f] \in SizeTargets \cup {None}
      [] f \in {"cap", "hours"} -> patch[f] > 0
      [] OTHER -> TRUE

(* isEmptyActivityPatch: a size alone is answered, not written.            *)
ModifyActivity(who, a, patch) ==
  IF GetActivity(who, a).error # None THEN GetActivity(who, a)
  ELSE IF ~PatchValid(patch) THEN Fail("validation")
  ELSE IF DOMAIN patch \subseteq {"size"} THEN Ok(Shown("activity", {a}))
  ELSE UpdateActivity(a, PatchedActivity(db.activities[a], patch))

DeleteActivityRow(a) == IF a = 0 THEN Fail("validation") ELSE EraseActivity(a)

(* processConfirmedReservations, in the order of their ids: the owner of a *)
(* booking is read from its dog, and a dog that cannot be read fails all.  *)
Settled(r, noShows) == [db.bookings[r] EXCEPT !.status =
                          IF r \in noShows THEN "NO_SHOW" ELSE "COMPLETED"]

ProcessConfirmed(a, noShows, confirmed) ==
  LET bad  == {r \in confirmed : ~Readable(db.dogs[db.bookings[r].dog])}
      done == {r \in confirmed : \A s \in bad : r < s}
      then == [db EXCEPT
                 !.bookings = [r \in DOMAIN @ |-> IF r \in done THEN Settled(r, noShows) ELSE @[r]],
                 !.activities[a].closed = (bad = {})] IN
  IF bad = {} THEN Saved(Shown("activity", {a}), then) ELSE RollBack("internal", then)

BookingsOf(a, statuses) ==
  {r \in Stored("bookings") : /\ db.bookings[r].activity = a
                              /\ db.bookings[r].status \in statuses}

CloseActivity(who, a, noShows) ==
  LET confirmed == BookingsOf(a, {"CONFIRMED"}) IN
  IF 0 \in noShows \/ GetActivity(who, a).error = "validation" THEN Fail("validation")
  ELSE IF GetActivity(who, a).error # None THEN GetActivity(who, a)
  ELSE IF ~IsFinished(db.activities[a]) THEN Fail("activity_not_finished")
  ELSE IF db.activities[a].closed THEN Fail("already_closed")
  ELSE IF \E r \in noShows : r \notin Stored("bookings") \/ db.bookings[r].activity # a
  THEN Fail("invalid_reservation_id")
  ELSE IF noShows \ confirmed # {} THEN Fail("reservation_not_confirmed")
  ELSE ProcessConfirmed(a, noShows, confirmed)

BulkComplete(who, a) ==
  IF GetActivity(who, a).error # None THEN GetActivity(who, a)
  ELSE IF ~IsFinished(db.activities[a]) THEN Fail("activity_not_finished")
  ELSE IF BookingsOf(a, {"PENDING_TO_CONFIRM"}) # {} THEN Fail("pending_to_confirm_exists")
  ELSE ProcessConfirmed(a, {}, BookingsOf(a, {"CONFIRMED"}))

-----------------------------------------------------------------------------
(* The handlers                                                            *)

ActivityHandler_Register(who) ==
  \E body \in ActivityBodies :
    LET series == body.dates # <<>>
        size   == IF series THEN Len(body.dates) ELSE 1 IN
    \E inserted \in 0..size :
      /\ NextId("activities") + size - 1 \in DOMAIN db.activities
      /\ Answer(who, 201, IF series THEN BatchRegister(body, inserted)
                                    ELSE RegisterActivity(body, inserted))

ActivityHandler_List(who) ==
  \E filter \in Filters, page \in Pages : Answer(who, 200, ListActivities(who, filter, page))

ActivityHandler_ListUpcoming(who) ==
  \E page \in Pages : Answer(who, 200, ListUpcomingActivities(who, page))

ActivityHandler_GetByID(who) ==
  \E a \in ActivityIds : Answer(who, 200, GetActivity(who, a))

(* The places taken are counted once the edit is committed.                *)
ActivityHandler_Modify(who) ==
  \E a \in ActivityIds, patch \in ActivityPatches, counted \in BOOLEAN :
    Answer(who, 200, ReadBack(ModifyActivity(who, a, patch), counted))

ActivityHandler_Delete(who) ==
  \E a \in ActivityIds : Answer(who, 204, DeleteActivityRow(a))

ActivityHandler_Close(who) ==
  \E a \in ActivityIds, noShows \in {{}} \cup {{r} : r \in Ids("bookings")} :
    Answer(who, 200, CloseActivity(who, a, noShows))

ActivityHandler_BulkComplete(who) ==
  \E a \in ActivityIds : Answer(who, 200, BulkComplete(who, a))
=============================================================================
