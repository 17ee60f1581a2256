--------------------------- MODULE BookingHandlers ---------------------------
(* The lists of bookings, and the handlers of everything about bookings.   *)
EXTENDS BookingDesk

(* The use cases of the lists                                              *)

GetReservation(user, r) ==
  IF 0 \in {user, r} THEN Fail("validation")
  ELSE IF ReadView(r).error # None THEN ReadView(r)
  ELSE IF DogOfBooking(r).owner # user THEN Fail("not_found") ELSE ReadView(r)

ValidStatus(status) == status \in Statuses \cup {None}

RangeReversed(from, to) == from # None /\ to # None /\ from > to

ListByUserReservations(user, status, from, to, page) ==
  IF user = 0 \/ ~ValidStatus(status) \/ RangeReversed(from, to) THEN Fail("validation")
  ELSE ScanViews(NewestFirst(ViewsByUser(user, status, from, to), NormalizePagination(page)))

ListUpcomingByUser(user, page) ==
  IF user = 0 THEN Fail("validation")
  ELSE ScanViews(ByActivityDate(UpcomingViewsByUser(user), NormalizePagination(page)))

ListByDogReservations(d, page) ==
  IF d = 0 THEN Fail("validation")
  ELSE ScanViews(NewestFirst(ViewsByDog(d), NormalizePagination(page)))

ListByPassReservations(p, page) ==
  IF p = 0 THEN Fail("validation")
  ELSE ScanViews(NewestFirst(ViewsByPass(p), NormalizePagination(page)))

ListByActivityReservations(a, page) ==
  IF a = 0 THEN Fail("validation")
  ELSE ScanViews(OldestFirst(ViewsByActivity(a), NormalizePagination(page)))

ListAllReservations(status, page) ==
  IF ~ValidStatus(status) THEN Fail("validation")
  ELSE ScanViews(NewestFirst(AllViews(status), NormalizePagination(page)))

ListUpcomingAll(page) ==
  ScanViews(ByActivityDate(AllUpcomingViews, NormalizePagination(page)))

ListPendingReservations(page) ==
  ScanViews(OldestFirst(PendingViews, NormalizePagination(page)))

(* The first hundred bookings of any status; of these, who holds a slot.   *)
ListActivityRoster(a) ==
  LET views == OldestFirst(ViewsByActivity(a), [limit |-> 100, offset |-> 0]) IN
  IF a = 0 THEN Fail("validation")
  ELSE IF a \notin Stored("activities") THEN Fail("invalid_activity_id")
  ELSE IF ScanActivities({a}).error # None THEN ScanActivities({a})
  ELSE IF ScanViews(views).error # None THEN ScanViews(views)
  ELSE Ok(Shown("booking", {r \in views : db.bookings[r].status \in HoldsSlot}))

(* The page of the screen refuses what the others correct.                 *)
ListAttendanceReport(from, to, page) ==
  LET limit == IF page[1] = 0 THEN 100 ELSE page[1] IN
  IF limit \notin 0..1000 \/ page[2] < 0 \/ RangeReversed(from, to) THEN Fail("validation")
  ELSE Ok(Shown("booking", AttendanceReport(from, to, [limit |-> limit, offset |-> page[2]])))

ExportAttendanceReport(from, to) ==
  IF RangeReversed(from, to) THEN Fail("validation")
  ELSE Ok(Shown("booking", AttendanceReport(from, to, [limit |-> 50000, offset |-> 0])))

-----------------------------------------------------------------------------
(* The handlers                                                            *)

Owners == Users \cup {0}
Bounds == {None, Now - 1, Now + 1}
StatusFilters == {None, "CONFIRMED", "COMPLETED", "PENDIENTE"}

ReservationHandler_Register(who) ==
  /\ HasRoom("bookings")
  /\ \E user \in Owners, a \in ActivityIds, d \in DogIds, p \in Ids("passes") :
       Answer(who, 201, Owned(who, user, RegisterReservation(user, a, d, p)))

ReservationHandler_RegisterAdmin(who) ==
  /\ HasRoom("bookings")
  /\ \E a \in ActivityIds, d \in DogIds, p \in Ids("passes") :
       Answer(who, 201, RegisterAdminReservation(a, d, p))

ReservationHandler_Cancel(who) ==
  \E user \in Owners, r \in BookingIds :
    Answer(who, 200, Owned(who, user, CancelReservation(user, r)))

ReservationHandler_CancelAdmin(who) ==
  \E r \in BookingIds : Answer(who, 200, CancelReservationAdmin(r))

ReservationHandler_ConfirmPending(who) ==
  \E r \in BookingIds : Answer(who, 200, ConfirmPendingReservation(r))

ReservationHandler_RejectPending(who) ==
  \E r \in BookingIds : Answer(who, 200, RejectPendingReservation(r))

ReservationHandler_Forgive(who) ==
  \E r \in BookingIds : Answer(who, 200, ForgiveReservation(r))

ReservationHandler_MarkNoShow(who) ==
  \E user \in Owners, r \in BookingIds : Answer(who, 200, MarkReservationNoShow(user, r))

ReservationHandler_CompleteReservation(who) ==
  \E user \in Owners, r \in BookingIds : Answer(who, 200, CompleteReservation(user, r))

ReservationHandler_ListByUser(who) ==
  \E user \in Owners, status \in StatusFilters, from \in Bounds, to \in Bounds, page \in Pages :
    Answer(who, 200,
           Owned(who, user, ListByUserReservations(user, status, from, to, page)))

ReservationHandler_ListUpcomingByUser(who) ==
  \E user \in Owners, page \in Pages :
    Answer(who, 200, Owned(who, user, ListUpcomingByUser(user, page)))

ReservationHandler_GetByID(who) ==
  \E user \in Owners, r \in BookingIds :
    Answer(who, 200, Owned(who, user, GetReservation(user, r)))

ReservationHandler_ListByDog(who) ==
  \E d \in DogIds, page \in Pages : Answer(who, 200, ListByDogReservations(d, page))

ReservationHandler_ListByPass(who) ==
  \E p \in Ids("passes"), page \in Pages : Answer(who, 200, ListByPassReservations(p, page))

ReservationHandler_ListByActivity(who) ==
  \E a \in ActivityIds, page \in Pages : Answer(who, 200, ListByActivityReservations(a, page))

ReservationHandler_ListAll(who) ==
  \E status \in StatusFilters, page \in Pages :
    Answer(who, 200, ListAllReservations(status, page))

ReservationHandler_ListUpcomingAll(who) ==
  \E page \in Pages : Answer(who, 200, ListUpcomingAll(page))

ReservationHandler_ListPending(who) ==
  \E page \in Pages : Answer(who, 200, ListPendingReservations(page))

ReservationHandler_ListActivityRoster(who) ==
  \E a \in ActivityIds : Answer(who, 200, ListActivityRoster(a))

AttendanceHandler_List(who) ==
  \E from \in Bounds, to \in Bounds, page \in Pages :
    Answer(who, 200, ListAttendanceReport(from, to, page))

AttendanceHandler_DownloadCSV(who) ==
  \E from \in Bounds, to \in Bounds : Answer(who, 200, ExportAttendanceReport(from, to))
=============================================================================
