--------------------------------- MODULE Api ---------------------------------
(* The routes: what any user who is logged in may ask, what only an        *)
(* administrator may, and the requests about users that only read. Logging *)
(* in, profiles and invitations are the business of other modules.         *)
EXTENDS BookingHandlers, LabelDesk, PassDesk

GetUserRow(user) ==
  IF user = 0 THEN Fail("validation")
  ELSE IF user \notin Users THEN Fail("not_found") ELSE Ok(Shown("user", {user}))

AllUsers(page) == OldestFirst(Users, NormalizePagination(page))

ListUsers(page) == Ok(Shown("user", AllUsers(page)))

ListAllEmails == Ok(Shown("user", Users))

UserHandler_GetByID(who) ==
  \E user \in Users \cup {0} : Answer(who, 200, Owned(who, user, GetUserRow(user)))

UserHandler_GetMe(who) == Answer(who, 200, GetUserRow(who))

UserHandler_List(who) == \E page \in Pages : Answer(who, 200, ListUsers(page))

UserHandler_ListEmails(who) == Answer(who, 200, ListAllEmails)

-----------------------------------------------------------------------------
(* The group anyUser                                                       *)
AnyUser(who) ==
  \/ UserHandler_GetMe(who) \/ UserHandler_GetByID(who)
  \/ PassHandler_ListByUser(who)
  \/ ReservationHandler_Register(who) \/ ReservationHandler_Cancel(who)
  \/ ReservationHandler_ListByUser(who) \/ ReservationHandler_ListUpcomingByUser(who)
  \/ ReservationHandler_GetByID(who)
  \/ DogHandler_GetByID(who) \/ DogHandler_ListByOwner(who)
  \/ ActivityHandler_List(who) \/ ActivityHandler_ListUpcoming(who)
  \/ ActivityHandler_GetByID(who)

(* The group admin                                                         *)
Admin(who) ==
  \/ UserHandler_List(who) \/ UserHandler_ListEmails(who)
  \/ DogHandler_Register(who) \/ DogHandler_List(who)
  \/ DogHandler_ListActiveWithOwner(who) \/ DogHandler_ListByIsActive(who)
  \/ DogHandler_ListByIncompatibility(who) \/ DogHandler_ListByBreed(who)
  \/ DogHandler_ListBySex(who) \/ DogHandler_ListByNeutered(who)
  \/ DogHandler_ListByHeat(who) \/ DogHandler_ListByAgeBracket(who)
  \/ DogHandler_ListBySizeBracket(who) \/ DogHandler_Modify(who)
  \/ DogHandler_SetNeutered(who) \/ DogHandler_SetHeat(who) \/ DogHandler_SetPhoto(who)
  \/ DogHandler_Delete(who) \/ DogHandler_AddTrait(who) \/ DogHandler_AddTrigger(who)
  \/ DogHandler_RemoveIncompatibility(who)
  \/ IncompatibilityHandler_Register(who) \/ IncompatibilityHandler_List(who)
  \/ IncompatibilityHandler_GetByID(who) \/ IncompatibilityHandler_Modify(who)
  \/ IncompatibilityHandler_Delete(who)
  \/ ActivityHandler_Register(who) \/ ActivityHandler_Modify(who)
  \/ ActivityHandler_Delete(who) \/ ActivityHandler_Close(who)
  \/ ActivityHandler_BulkComplete(who)
  \/ PassHandler_Register(who) \/ PassHandler_List(who) \/ PassHandler_ListByPaid(who)
  \/ PassHandler_GetByID(who) \/ PassHandler_Modify(who) \/ PassHandler_SetPaid(who)
  \/ ReservationHandler_RegisterAdmin(who) \/ ReservationHandler_CancelAdmin(who)
  \/ ReservationHandler_Forgive(who) \/ ReservationHandler_MarkNoShow(who)
  \/ ReservationHandler_CompleteReservation(who) \/ ReservationHandler_ConfirmPending(who)
  \/ ReservationHandler_RejectPending(who) \/ ReservationHandler_ListByDog(who)
  \/ ReservationHandler_ListByPass(who) \/ ReservationHandler_ListByActivity(who)
  \/ ReservationHandler_ListActivityRoster(who) \/ ReservationHandler_ListAll(who)
  \/ ReservationHandler_ListUpcomingAll(who) \/ ReservationHandler_ListPending(who)
  \/ AttendanceHandler_List(who) \/ AttendanceHandler_DownloadCSV(who)

(* RequireRole before every route of the group.                            *)
RequireRole(who) == Answer(who, 200, Fail("forbidden"))

DeskInit ==
  /\ db = FirstTables
  /\ answer = [by |-> None, rows |-> {}, code |-> 200]
  /\ asked = 0

DeskNext ==
  \E who \in Users :
    \/ AnyUser(who)
    \/ Administrator(who) /\ Admin(who)
    \/ ~Administrator(who) /\ RequireRole(who)

DeskSpec == DeskInit /\ [][DeskNext]_deskVars
=============================================================================
