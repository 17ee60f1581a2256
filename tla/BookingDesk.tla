----------------------------- MODULE BookingDesk -----------------------------
(* Requests about bookings: made, cancelled, settled one by one, and shown *)
(* in the lists of owners and of the administrator.                        *)
EXTENDS DogDesk, ActivityDesk

BookingIds == Ids("bookings")

HoldsSlot == {"CONFIRMED", "PENDING_TO_CONFIRM"}
Statuses  == HoldsSlot \cup {"CANCELLED_IN_TIME", "CANCELLED_LATE", "FORGIVEN",
                             "COMPLETED", "NO_SHOW"}

LateWindow == 2   \* hours

IsInThePast(row) == row.date < Now
IsExpired(pass)  == pass.expires # None /\ Now > pass.expires
CanRefund(pass)  == pass.left < pass.total

DogOfBooking(r)      == db.dogs[db.bookings[r].dog]
ActivityOfBooking(r) == db.activities[db.bookings[r].activity]

(* GetByID of the activity and of the dog a booking names.                 *)
UnreadableActivity(r) == ActivityError(ActivityOfBooking(r)) # None
UnreadableDog(r)      == ~Readable(DogOfBooking(r))

-----------------------------------------------------------------------------
(* The queries of views                                                    *)

(* scanReservationView rebuilds the activity without its dog.              *)
ScanViews(ids) ==
  IF \E r \in ids : ActivityOfBooking(r).kind = "INDIVIDUAL_CLASS"
  THEN Fail("dog_required") ELSE Ok(Shown("booking", ids))

BookingsWith(Test(_)) == {r \in Stored("bookings") : Test(db.bookings[r])}

ReadView(r) ==
  IF r \notin Stored("bookings") THEN Fail("not_found") ELSE ScanViews({r})

InWindow(row, from, to) ==
  (from = None \/ row.created >= from) /\ (to = None \/ row.created < to)

ViewsByUser(user, status, from, to) ==
  BookingsWith(LAMBDA row : /\ db.dogs[row.dog].owner = user
                            /\ (status = None \/ row.status = status)
                            /\ InWindow(row, from, to))

IsUpcoming(row) == row.status = "CONFIRMED" /\ db.activities[row.activity].date >= Now

UpcomingViewsByUser(user) ==
  BookingsWith(LAMBDA row : IsUpcoming(row) /\ db.dogs[row.dog].owner = user)

ViewsByDog(d)      == BookingsWith(LAMBDA row : row.dog = d)
ViewsByPass(p)     == BookingsWith(LAMBDA row : row.pass = p)
ViewsByActivity(a) == BookingsWith(LAMBDA row : row.activity = a)
AllViews(status)   == BookingsWith(LAMBDA row : status = None \/ row.status = status)
PendingViews       == BookingsWith(LAMBDA row : row.status = "PENDING_TO_CONFIRM")
AllUpcomingViews   == BookingsWith(IsUpcoming)

ByActivityDate(ids, page) ==
  Cut(ids, page, LAMBDA i, j :
    LET x == ActivityOfBooking(i).date
        y == ActivityOfBooking(j).date IN x < y \/ (x = y /\ i < j))

(* Both bounds count here; the rows are not rebuilt.                       *)
AttendanceReport(from, to, page) ==
  LET ids == BookingsWith(LAMBDA row :
               /\ row.status = "COMPLETED"
               /\ (from = None \/ db.activities[row.activity].date >= from)
               /\ (to = None \/ db.activities[row.activity].date <= to)) IN
  Cut(ids, page, LAMBDA i, j :
    LET x == ActivityOfBooking(i).date
        y == ActivityOfBooking(j).date IN x > y \/ (x = y /\ i < j))

-----------------------------------------------------------------------------
(* Registration, in the order of its checks                                *)

ActivityRefusal(a) ==
  IF a \notin Stored("activities") THEN "invalid_activity_id"
  ELSE LET row == db.activities[a] IN
    IF ActivityError(row) # None THEN ActivityError(row)
    ELSE IF IsInThePast(row) THEN "activity_in_past"
    ELSE IF row.closed THEN "activity_closed"
    ELSE IF Cardinality(BookingsOf(a, HoldsSlot)) >= row.cap THEN "activity_full" ELSE None

IsTargetedAtSize(row, dog) == row.size = None \/ row.size = SizeBracket(dog.weight)

DogRefusal(user, a, d, admin) ==
  IF d \notin Stored("dogs") THEN "invalid_dog_id"
  ELSE LET dog == db.dogs[d]
           row == db.activities[a] IN
    IF ~Readable(dog) THEN "internal"
    ELSE IF ~admin /\ dog.owner # user THEN "invalid_dog_id"
    ELSE IF ~dog.active THEN "dog_not_active"
    ELSE IF row.kind = "INDIVIDUAL_CLASS" /\ row.dog # d THEN "individual_class_foreign"
    ELSE IF ~admin /\ ~IsTargetedAtSize(row, dog) THEN "dog_size_mismatch" ELSE None

(* The dogs that hold a slot, loaded; an administrator skips the meeting.  *)
SlotHolders(a) == {db.bookings[r].dog : r \in BookingsOf(a, HoldsSlot)}
Loading(d)     == LoadDog(d, db.dogs[d], db.labels)

Meeting(a, d, admin) ==
  IF admin THEN "CONFIRMED"
  ELSE IF \E o \in SlotHolders(a) : ~Readable(db.dogs[o]) THEN "internal"
  ELSE Verdict(Loading(d), {Loading(o) : o \in SlotHolders(a)})

(* Label conflicts leave no reason behind.                                 *)
ReasonsOf(a, d) ==
  {<<"sex", o>> : o \in {o \in SlotHolders(a) : Reason(Loading(d), Loading(o)) # None}}
  \cup (IF db.dogs[d].special THEN {<<"special", d>>} ELSE {})

PassRefusal(user, d, p, admin) ==
  IF p \notin Stored("passes") THEN "invalid_pass_id"
  ELSE LET pass == db.passes[p] IN
    IF ~admin /\ pass.user # user THEN "invalid_pass_id"
    ELSE IF pass.left <= 0 THEN "pass_exhausted"
    ELSE IF IsExpired(pass) THEN "pass_expired"
    ELSE IF admin /\ db.dogs[d].owner # pass.user THEN "internal" ELSE None

NewBooking(a, d, p, status) ==
  [activity |-> a, dog |-> d, pass |-> p, status |-> status, created |-> Now,
   reasons |-> IF status = "PENDING_TO_CONFIRM" THEN ReasonsOf(a, d) ELSE {}]

(* The unique index of active bookings speaks last, after the session is   *)
(* consumed.                                                               *)
BookedTwice(a, d) == \E r \in BookingsOf(a, HoldsSlot) : db.bookings[r].dog = d

RegisterInTx(user, a, d, p, admin) ==
  IF ActivityRefusal(a) # None THEN Fail(ActivityRefusal(a))
  ELSE IF DogRefusal(user, a, d, admin) # None THEN Fail(DogRefusal(user, a, d, admin))
  ELSE IF Meeting(a, d, admin) \notin HoldsSlot THEN Fail(Meeting(a, d, admin))
  ELSE IF PassRefusal(user, d, p, admin) # None THEN Fail(PassRefusal(user, d, p, admin))
  ELSE LET consumed == [db EXCEPT !.passes[p].left = @ - 1]
           row      == NewBooking(a, d, p, Meeting(a, d, admin))
       IN  IF BookedTwice(a, d) THEN RollBack("duplicate_reservation", consumed)
           ELSE LET then == Insert(consumed, "bookings", row)
                IN  Saved(Shown("booking", {NextId("bookings")}), then)

RegisterReservation(user, a, d, p) ==
  IF 0 \in {user, a, d, p} THEN Fail("validation") ELSE RegisterInTx(user, a, d, p, FALSE)

RegisterAdminReservation(a, d, p) ==
  IF 0 \in {a, d, p} THEN Fail("validation") ELSE RegisterInTx(0, a, d, p, TRUE)

-----------------------------------------------------------------------------
(* What becomes of a booking                                               *)

SetStatus(tables, r, status) == [tables EXCEPT !.bookings[r].status = status]

GiveBack(tables, p) ==
  IF CanRefund(tables.passes[p]) THEN [tables EXCEPT !.passes[p].left = @ + 1] ELSE tables

Moved(r, then) == Saved(Shown("booking", {r}), then)

CancelInTx(user, r, admin) ==
  LET row  == db.bookings[r]
      late == Now > ActivityOfBooking(r).date - LateWindow IN
  IF r \notin Stored("bookings") THEN Fail("not_found")
  ELSE IF row.status # "CONFIRMED" THEN Fail("already_cancelled")
  ELSE IF UnreadableActivity(r) THEN Fail(ActivityError(ActivityOfBooking(r)))
  ELSE IF IsInThePast(ActivityOfBooking(r)) THEN Fail("activity_in_past")
  ELSE IF UnreadableDog(r) THEN Fail("internal")
  ELSE IF ~admin /\ DogOfBooking(r).owner # user THEN Fail("invalid_dog_id")
  ELSE IF ~admin /\ db.passes[row.pass].user # user THEN Fail("invalid_pass_id")
  ELSE IF late THEN Moved(r, SetStatus(db, r, "CANCELLED_LATE"))
  ELSE Moved(r, GiveBack(SetStatus(db, r, "CANCELLED_IN_TIME"), row.pass))

CancelReservation(user, r) ==
  IF 0 \in {user, r} THEN Fail("validation") ELSE CancelInTx(user, r, FALSE)

CancelReservationAdmin(r) ==
  IF r = 0 THEN Fail("validation") ELSE CancelInTx(0, r, TRUE)

(* A status that one operation leaves, for another, if it is found there.  *)
FromStatus(r, status, error, then) ==
  IF r = 0 THEN Fail("validation")
  ELSE IF r \notin Stored("bookings") THEN Fail("not_found")
  ELSE IF db.bookings[r].status # status THEN Fail(error) ELSE Moved(r, then)

ForgiveReservation(r) ==
  FromStatus(r, "CANCELLED_LATE", "not_late_cancelled",
             GiveBack(SetStatus(db, r, "FORGIVEN"), db.bookings[r].pass))

ConfirmPendingReservation(r) ==
  FromStatus(r, "PENDING_TO_CONFIRM", "not_pending", SetStatus(db, r, "CONFIRMED"))

RejectPendingReservation(r) ==
  FromStatus(r, "PENDING_TO_CONFIRM", "not_pending",
             GiveBack(SetStatus(db, r, "CANCELLED_IN_TIME"), db.bookings[r].pass))

(* The two that follow name the owner, and wait for the activity.          *)
Attended(user, r, ready, early, error, status) ==
  IF 0 \in {user, r} THEN Fail("validation")
  ELSE IF r \notin Stored("bookings") THEN Fail("not_found")
  ELSE IF UnreadableActivity(r) THEN Fail(ActivityError(ActivityOfBooking(r)))
  ELSE IF ~ready THEN Fail(early)
  ELSE IF UnreadableDog(r) THEN Fail("internal")
  ELSE IF DogOfBooking(r).owner # user THEN Fail("invalid_dog_id")
  ELSE FromStatus(r, "CONFIRMED", error, SetStatus(db, r, status))

MarkReservationNoShow(user, r) ==
  Attended(user, r, IsInThePast(ActivityOfBooking(r)),
           "activity_not_started", "not_cancellable", "NO_SHOW")

CompleteReservation(user, r) ==
  Attended(user, r, IsFinished(ActivityOfBooking(r)),
           "activity_not_finished", "not_completable", "COMPLETED")
=============================================================================
