------------------------------ MODULE ApiProofs -------------------------------
(***************************************************************************)
(* What holds of every answer the API gives, for any tables that keep the  *)
(* schema, any users, bodies, patches, filters and pages: a refusal        *)
(* changes nothing, the schema is kept, and a user sees and changes only   *)
(* what is theirs; and that edits and requests side by side keep their     *)
(* types.                                                                  *)
(***************************************************************************)
EXTENDS MCDesk, KennelProofs

-----------------------------------------------------------------------------
(* A use case that fails leaves the tables as it found them                *)

Neat(out) == out.error # None => out.db = db

LEMMA Outcomes ==
  /\ \A rows : Neat(Ok(rows))
  /\ \A error : Neat(Fail(error))
  /\ \A rows, then : Neat(Saved(rows, then))
  /\ \A error, then : Neat(RollBack(error, then))
BY DEF Neat, Ok, Fail, Saved, RollBack

LEMMA DogOutcomes ==
  /\ \A ids, page : Neat(ListDogs(ids, page))
  /\ \A page : Neat(ActiveWithOwner(page))
  /\ \A d : Neat(GetDog(d))
  /\ \A body : Neat(RegisterDog(body))
  /\ \A d : Neat(DeleteDogRow(d))
  /\ \A d, patch : Neat(ModifyDog(d, patch))
  /\ \A d, x : Neat(SetDogNeutered(d, x))
  /\ \A d, x : Neat(SetDogHeat(d, x))
  /\ \A d, x : Neat(SetDogPhoto(d, x))
  /\ \A d, l, kind : Neat(LinkLabel(d, l, kind))
  /\ \A d, l : Neat(RemoveDogLabel(d, l))
<1>1. /\ \A ids : Neat(ScanDogs(ids))
      /\ \A d : Neat(ReadDog(d))
  BY Outcomes DEF ScanDogs, ReadDog
<1>2. /\ \A ids, page : Neat(ListDogs(ids, page))
      /\ \A page : Neat(ActiveWithOwner(page))
      /\ \A d : Neat(GetDog(d))
  BY <1>1, Outcomes DEF ListDogs, ActiveWithOwner, GetDog
<1>3. /\ \A row : Neat(CreateDog(row))
      /\ \A d, row : Neat(UpdateDog(d, row))
      /\ \A d : Neat(EraseDog(d))
  BY Outcomes DEF CreateDog, UpdateDog, EraseDog
<1>4. \A body : Neat(RegisterDog(body))
  BY <1>3, Outcomes DEF RegisterDog
<1>5. \A d : Neat(DeleteDogRow(d))
  BY <1>3, Outcomes DEF DeleteDogRow
<1>6. \A d, patch : Neat(ModifyDog(d, patch))
  BY <1>1, <1>3, Outcomes DEF ModifyDog, EditDog
<1>7. \A d, x : Neat(SetDogNeutered(d, x))
  BY <1>1, <1>3, Outcomes DEF SetDogNeutered, EditDog
<1>8. \A d, x : Neat(SetDogHeat(d, x))
  BY <1>1, <1>3, Outcomes DEF SetDogHeat, EditDog
<1>9. \A d, x : Neat(SetDogPhoto(d, x))
  BY <1>1, <1>3, Outcomes DEF SetDogPhoto, EditDog
<1>10. \A d, l, kind : Neat(LinkLabel(d, l, kind))
  BY <1>1, <1>3, Outcomes DEF LinkLabel, EditDog
<1>11. \A d, l : Neat(RemoveDogLabel(d, l))
  BY <1>1, <1>3, Outcomes DEF RemoveDogLabel, EditDog
<1> QED
  BY <1>2, <1>4, <1>5, <1>6, <1>7, <1>8, <1>9, <1>10, <1>11

LEMMA ActivityOutcomes ==
  /\ \A body, n : Neat(RegisterActivity(body, n)) /\ Neat(BatchRegister(body, n))
  /\ \A who, a : Neat(GetActivity(who, a)) /\ Neat(BulkComplete(who, a))
  /\ \A who, f, page : Neat(ListActivities(who, f, page))
  /\ \A who, page : Neat(ListUpcomingActivities(who, page))
  /\ \A who, a, patch : Neat(ModifyActivity(who, a, patch))
  /\ \A who, a, noShows : Neat(CloseActivity(who, a, noShows))
  /\ \A a : Neat(DeleteActivityRow(a))
<1>1. \A kind, ids : Neat(ScanAs(kind, ids)) /\ Neat(ScanActivities(ids))
  BY Outcomes DEF ScanAs, ScanActivities
<1>2. /\ \A who, a : Neat(ReadActivity(who, a))
      /\ \A a, row : Neat(UpdateActivity(a, row))
      /\ \A a : Neat(EraseActivity(a))
  BY <1>1, Outcomes DEF ReadActivity, UpdateActivity, EraseActivity
<1>3. \A body, dates, n : Neat(CreateSessions(body, dates, n))
  BY Outcomes DEF CreateSessions
<1>4. \A body, n : Neat(RegisterActivity(body, n)) /\ Neat(BatchRegister(body, n))
  BY <1>3, Outcomes DEF RegisterActivity, BatchRegister
<1>5. \A who, a : Neat(GetActivity(who, a))
  BY <1>2, Outcomes DEF GetActivity
<1>6. \A who, f, page : Neat(ListActivities(who, f, page))
  BY <1>1, Outcomes DEF ListActivities
<1>7. \A who, page : Neat(ListUpcomingActivities(who, page))
  BY <1>1 DEF ListUpcomingActivities
<1>8. \A who, a, patch : Neat(ModifyActivity(who, a, patch))
  BY <1>2, <1>5, Outcomes DEF ModifyActivity
<1>9. \A a, noShows, confirmed : Neat(ProcessConfirmed(a, noShows, confirmed))
  BY Outcomes DEF ProcessConfirmed
<1>10. \A who, a, noShows : Neat(CloseActivity(who, a, noShows))
  BY <1>5, <1>9, Outcomes DEF CloseActivity
<1>11. \A who, a : Neat(BulkComplete(who, a))
  BY <1>5, <1>9, Outcomes DEF BulkComplete
<1>12. \A a : Neat(DeleteActivityRow(a))
  BY <1>2, Outcomes DEF DeleteActivityRow
<1> QED
  BY <1>4, <1>5, <1>6, <1>7, <1>8, <1>10, <1>11, <1>12

LEMMA LabelOutcomes ==
  /\ \A body : Neat(RegisterLabel(body))
  /\ \A l : Neat(GetLabel(l)) /\ Neat(DeleteLabelRow(l))
  /\ \A level : Neat(ListLabels(level))
  /\ \A l, patch : Neat(ModifyLabel(l, patch))
<1>1. /\ \A l : Neat(ReadLabelRow(l))
      /\ \A row : Neat(CreateLabel(row))
      /\ \A l, row : Neat(RewriteLabel(l, row))
      /\ \A l : Neat(EraseLabel(l))
  BY Outcomes DEF ReadLabelRow, CreateLabel, RewriteLabel, EraseLabel
<1>2. /\ \A l : Neat(GetLabel(l)) /\ Neat(DeleteLabelRow(l))
      /\ \A level : Neat(ListLabels(level))
      /\ \A body : Neat(RegisterLabel(body))
  BY <1>1, Outcomes DEF GetLabel, DeleteLabelRow, ListLabels, RegisterLabel
<1>3. \A l, patch : Neat(ModifyLabel(l, patch))
  BY <1>1, <1>2, Outcomes DEF ModifyLabel
<1> QED
  BY <1>2, <1>3

LEMMA PassOutcomes ==
  /\ \A body, user : Neat(RegisterPass(body, user))
  /\ \A p : Neat(GetPass(p)) /\ Neat(ReadPass(p))
  /\ \A page : Neat(ListAllPasses(page))
  /\ \A user, page : Neat(ListByUserPasses(user, page))
  /\ \A flag, page : Neat(ListByPaidPasses(flag, page))
<1>1. /\ \A p : Neat(ReadPass(p))
      /\ \A row : Neat(CreatePass(row))
      /\ \A ids, page : Neat(ListPasses(ids, page))
  BY Outcomes DEF ReadPass, CreatePass, ListPasses
<1>2. \A p : Neat(GetPass(p))
  BY <1>1, Outcomes DEF GetPass
<1>3. \A body, user : Neat(RegisterPass(body, user))
  BY <1>1, Outcomes DEF RegisterPass
<1>5. /\ \A page : Neat(ListAllPasses(page))
      /\ \A user, page : Neat(ListByUserPasses(user, page))
      /\ \A flag, page : Neat(ListByPaidPasses(flag, page))
  BY <1>1, Outcomes DEF ListAllPasses, ListByUserPasses, ListByPaidPasses
<1> QED
  BY <1>1, <1>2, <1>3, <1>5

LEMMA BookingOutcomes ==
  /\ \A user, a, d, p : Neat(RegisterReservation(user, a, d, p))
  /\ \A a, d, p : Neat(RegisterAdminReservation(a, d, p))
  /\ \A user, r : Neat(CancelReservation(user, r))
  /\ \A r : Neat(CancelReservationAdmin(r))
  /\ \A r : /\ Neat(ForgiveReservation(r)) /\ Neat(ConfirmPendingReservation(r))
            /\ Neat(RejectPendingReservation(r))
  /\ \A user, r : Neat(MarkReservationNoShow(user, r)) /\ Neat(CompleteReservation(user, r))
<1>1. \A user, a, d, p, admin : Neat(RegisterInTx(user, a, d, p, admin))
  BY Outcomes DEF RegisterInTx
<1>2. /\ \A user, a, d, p : Neat(RegisterReservation(user, a, d, p))
      /\ \A a, d, p : Neat(RegisterAdminReservation(a, d, p))
  BY <1>1, Outcomes DEF RegisterReservation, RegisterAdminReservation
<1>3. \A user, r, admin : Neat(CancelInTx(user, r, admin))
  BY Outcomes DEF CancelInTx, Moved
<1>4. /\ \A user, r : Neat(CancelReservation(user, r))
      /\ \A r : Neat(CancelReservationAdmin(r))
  BY <1>3, Outcomes DEF CancelReservation, CancelReservationAdmin
<1>5. \A r, status, error, then : Neat(FromStatus(r, status, error, then))
  BY Outcomes DEF FromStatus, Moved
<1>6. \A r : /\ Neat(ForgiveReservation(r)) /\ Neat(ConfirmPendingReservation(r))
            /\ Neat(RejectPendingReservation(r))
  BY <1>5 DEF ForgiveReservation, ConfirmPendingReservation, RejectPendingReservation
<1>7. \A user, r, ready, early, error, status :
        Neat(Attended(user, r, ready, early, error, status))
  BY <1>5, Outcomes DEF Attended
<1>8. \A user, r : Neat(MarkReservationNoShow(user, r)) /\ Neat(CompleteReservation(user, r))
  BY <1>7 DEF MarkReservationNoShow, CompleteReservation
<1> QED
  BY <1>2, <1>4, <1>6, <1>8

LEMMA BookingListOutcomes ==
  /\ \A user, r : Neat(GetReservation(user, r))
  /\ \A user, status, from, to, page : Neat(ListByUserReservations(user, status, from, to, page))
  /\ \A x, page : /\ Neat(ListUpcomingByUser(x, page)) /\ Neat(ListByDogReservations(x, page))
                  /\ Neat(ListByPassReservations(x, page)) /\ Neat(ListAllReservations(x, page))
                  /\ Neat(ListByActivityReservations(x, page))
  /\ \A page : Neat(ListUpcomingAll(page)) /\ Neat(ListPendingReservations(page))
  /\ \A a : Neat(ListActivityRoster(a))
  /\ \A from, to, page : Neat(ListAttendanceReport(from, to, page))
  /\ \A from, to : Neat(ExportAttendanceReport(from, to))
<1>1. /\ \A ids : Neat(ScanViews(ids))
      /\ \A r : Neat(ReadView(r))
      /\ \A ids : Neat(ScanActivities(ids))
  BY Outcomes DEF ScanViews, ReadView, ScanActivities, ScanAs
<1>2. \A user, r : Neat(GetReservation(user, r))
  BY <1>1, Outcomes DEF GetReservation
<1>3. \A user, status, from, to, page : Neat(ListByUserReservations(user, status, from, to, page))
  BY <1>1, Outcomes DEF ListByUserReservations
<1>4. \A x, page : /\ Neat(ListUpcomingByUser(x, page)) /\ Neat(ListByDogReservations(x, page))
                  /\ Neat(ListByPassReservations(x, page)) /\ Neat(ListAllReservations(x, page))
                  /\ Neat(ListByActivityReservations(x, page))
  BY <1>1, Outcomes DEF ListUpcomingByUser, ListByDogReservations, ListByPassReservations,
                        ListAllReservations, ListByActivityReservations
<1>5. \A page : Neat(ListUpcomingAll(page)) /\ Neat(ListPendingReservations(page))
  BY <1>1 DEF ListUpcomingAll, ListPendingReservations
<1>6. \A a : Neat(ListActivityRoster(a))
  BY <1>1, Outcomes DEF ListActivityRoster
<1>7. ASSUME NEW from, NEW to, NEW page PROVE Neat(ListAttendanceReport(from, to, page))
  <2> DEFINE limit == IF page[1] = 0 THEN 100 ELSE page[1]
             refused == limit \notin 0..1000 \/ page[2] < 0 \/ RangeReversed(from, to)
             ids == AttendanceReport(from, to, [limit |-> limit, offset |-> page[2]])
  <2>1. ListAttendanceReport(from, to, page) =
          IF refused THEN Fail("validation") ELSE Ok(Shown("booking", ids))
    BY Zenon DEF ListAttendanceReport
  <2> HIDE DEF refused, ids
  <2> QED
    BY <2>1, Outcomes
<1>8. \A from, to : Neat(ExportAttendanceReport(from, to))
  BY Outcomes DEF ExportAttendanceReport
<1> QED
  BY <1>2, <1>3, <1>4, <1>5, <1>6, <1>7, <1>8

-----------------------------------------------------------------------------
(* The schema, and what a statement makes of it                            *)

(* What an answer names its rows by.                                       *)
AnswerKinds == {"dog", "label", "pass", "activity", "schedule", "booking", "user"}

LEMMA ColumnsOfTables ==
  /\ Columns["dogs"] = DogRow /\ Columns["labels"] = Label /\ Columns["passes"] = PassRow
  /\ Columns["activities"] = ActivityRow /\ Columns["bookings"] = BookingRow
BY DEF Columns

LEMMA Parts ==
  ASSUME NEW tables, Schema(tables)
  PROVE  /\ DOMAIN tables = Tables \cup {"last"} /\ tables.last \in [Tables -> Nat]
         /\ Typed(tables.dogs, DogRow) /\ Typed(tables.labels, Label)
         /\ Typed(tables.passes, PassRow) /\ Typed(tables.activities, ActivityRow)
         /\ Typed(tables.bookings, BookingRow)
         /\ \A p \in Rows(tables.passes) : tables.passes[p].left <= tables.passes[p].total
         /\ References(tables.dogs, tables.labels, tables.passes, tables.activities,
                       tables.bookings)
         /\ \A t \in Tables : \A id \in Rows(tables[t]) : id \in Nat \ {0} /\ id <= tables.last[t]
         /\ None \notin DogRow \cup Label \cup PassRow \cup ActivityRow \cup BookingRow
<1>1. \A t \in Tables : Typed(tables[t], Columns[t])
  BY DEF Schema
<1> QED
  BY <1>1, ColumnsOfTables, ApiAssumption DEF Schema, Tables, Typed, Rows

(* No table gets a row.                                                    *)
LEMMA NoneComes ==
  ASSUME NEW tables, Schema(tables), NEW then,
         DOMAIN then = DOMAIN tables, then.last = tables.last,
         Typed(then.dogs, DogRow), Typed(then.labels, Label), Typed(then.passes, PassRow),
         Typed(then.activities, ActivityRow), Typed(then.bookings, BookingRow),
         \A t \in Tables : Rows(then[t]) \subseteq Rows(tables[t]),
         \A p \in Rows(then.passes) : then.passes[p].left <= then.passes[p].total,
         References(then.dogs, then.labels, then.passes, then.activities, then.bookings)
  PROVE  Schema(then)
<1>1. \A t \in Tables : Typed(then[t], Columns[t])
  BY ColumnsOfTables DEF Tables
<1> QED
  BY <1>1 DEF Schema

(* One row is rewritten.                                                   *)
LEMMA RowRewritten ==
  ASSUME NEW table, NEW columns, Typed(table, columns), None \notin columns,
         NEW id \in Rows(table), NEW row \in columns
  PROVE  LET then == [table EXCEPT ![id] = row]
         IN  /\ Typed(then, columns) /\ Rows(then) = Rows(table) /\ then[id] = row
             /\ \A x \in Rows(table) \ {id} : then[x] = table[x]
BY DEF Typed, Rows

LEMMA DogRewritten ==
  ASSUME NEW tables, Schema(tables), NEW d \in Rows(tables.dogs),
         NEW row \in DogRow, row.links \subseteq Rows(tables.labels)
  PROVE  Schema([tables EXCEPT !.dogs[d] = row])
<1> DEFINE table == [tables.dogs EXCEPT ![d] = row]
           then == [tables EXCEPT !.dogs[d] = row]
<1>1. /\ Typed(table, DogRow) /\ Rows(table) = Rows(tables.dogs) /\ table[d] = row
      /\ \A x \in Rows(tables.dogs) \ {d} : table[x] = tables.dogs[x]
  BY Parts, RowRewritten
<1>2. /\ DOMAIN then = DOMAIN tables /\ then.last = tables.last /\ then.dogs = table
      /\ then.labels = tables.labels /\ then.passes = tables.passes
      /\ then.activities = tables.activities /\ then.bookings = tables.bookings
  BY Parts DEF Tables
<1>3. References(table, tables.labels, tables.passes, tables.activities, tables.bookings)
  BY <1>1, Parts DEF References
<1> HIDE DEF table, then
<1>4. \A t \in Tables : Rows(then[t]) \subseteq Rows(tables[t])
  BY <1>1, <1>2 DEF Tables
<1>5. Schema(then)
  BY <1>1, <1>2, <1>3, <1>4, Parts, NoneComes
<1> QED
  BY <1>5 DEF then

LEMMA LabelRewritten ==
  ASSUME NEW tables, Schema(tables), NEW l \in Rows(tables.labels), NEW row \in Label
  PROVE  Schema([tables EXCEPT !.labels[l] = row])
<1> DEFINE table == [tables.labels EXCEPT ![l] = row]
           then == [tables EXCEPT !.labels[l] = row]
<1>1. Typed(table, Label) /\ Rows(table) = Rows(tables.labels)
  BY Parts, RowRewritten
<1>2. /\ DOMAIN then = DOMAIN tables /\ then.last = tables.last /\ then.labels = table
      /\ then.dogs = tables.dogs /\ then.passes = tables.passes
      /\ then.activities = tables.activities /\ then.bookings = tables.bookings
  BY Parts DEF Tables
<1>3. References(tables.dogs, table, tables.passes, tables.activities, tables.bookings)
  BY <1>1, Parts DEF References
<1> HIDE DEF table, then
<1>4. \A t \in Tables : Rows(then[t]) \subseteq Rows(tables[t])
  BY <1>1, <1>2 DEF Tables
<1>5. Schema(then)
  BY <1>1, <1>2, <1>3, <1>4, Parts, NoneComes
<1> QED
  BY <1>5 DEF then

LEMMA PassRewritten ==
  ASSUME NEW tables, Schema(tables), NEW p \in Rows(tables.passes),
         NEW row \in PassRow, row.left <= row.total
  PROVE  Schema([tables EXCEPT !.passes[p] = row])
<1> DEFINE table == [tables.passes EXCEPT ![p] = row]
           then == [tables EXCEPT !.passes[p] = row]
<1>1. /\ Typed(table, PassRow) /\ Rows(table) = Rows(tables.passes) /\ table[p] = row
      /\ \A x \in Rows(tables.passes) \ {p} : table[x] = tables.passes[x]
  BY Parts, RowRewritten
<1>2. /\ DOMAIN then = DOMAIN tables /\ then.last = tables.last /\ then.passes = table
      /\ then.dogs = tables.dogs /\ then.labels = tables.labels
      /\ then.activities = tables.activities /\ then.bookings = tables.bookings
  BY Parts DEF Tables
<1>3. References(tables.dogs, tables.labels, table, tables.activities, tables.bookings)
  BY <1>1, Parts DEF References
<1>4. \A x \in Rows(table) : table[x].left <= table[x].total
  BY <1>1, Parts
<1> HIDE DEF table, then
<1>5. \A t \in Tables : Rows(then[t]) \subseteq Rows(tables[t])
  BY <1>1, <1>2 DEF Tables
<1>6. Schema(then)
  BY <1>1, <1>2, <1>3, <1>4, <1>5, Parts, NoneComes
<1> QED
  BY <1>6 DEF then

LEMMA ActivityRewritten ==
  ASSUME NEW tables, Schema(tables), NEW a \in Rows(tables.activities),
         NEW row \in ActivityRow, row.dog \in Rows(tables.dogs) \cup {None}
  PROVE  Schema([tables EXCEPT !.activities[a] = row])
<1> DEFINE table == [tables.activities EXCEPT ![a] = row]
           then == [tables EXCEPT !.activities[a] = row]
<1>1. /\ Typed(table, ActivityRow) /\ Rows(table) = Rows(tables.activities) /\ table[a] = row
      /\ \A x \in Rows(tables.activities) \ {a} : table[x] = tables.activities[x]
  BY Parts, RowRewritten
<1>2. /\ DOMAIN then = DOMAIN tables /\ then.last = tables.last /\ then.activities = table
      /\ then.dogs = tables.dogs /\ then.labels = tables.labels
      /\ then.passes = tables.passes /\ then.bookings = tables.bookings
  BY Parts DEF Tables
<1>3. References(tables.dogs, tables.labels, tables.passes, table, tables.bookings)
  BY <1>1, Parts DEF References
<1> HIDE DEF table, then
<1>4. \A t \in Tables : Rows(then[t]) \subseteq Rows(tables[t])
  BY <1>1, <1>2 DEF Tables
<1>5. Schema(then)
  BY <1>1, <1>2, <1>3, <1>4, Parts, NoneComes
<1> QED
  BY <1>5 DEF then

(* A booking changes its status.                                           *)
LEMMA StatusSet ==
  ASSUME NEW tables, Schema(tables), NEW r \in Rows(tables.bookings), NEW status \in Statuses
  PROVE  LET then == SetStatus(tables, r, status)
         IN  /\ Schema(then) /\ then.passes = tables.passes /\ then.dogs = tables.dogs
             /\ then.labels = tables.labels /\ then.activities = tables.activities
             /\ DOMAIN then.bookings = DOMAIN tables.bookings
             /\ then.bookings[r].dog = tables.bookings[r].dog
             /\ \A x \in DOMAIN tables.bookings \ {r} : then.bookings[x] = tables.bookings[x]
<1> DEFINE row == [tables.bookings[r] EXCEPT !.status = status]
           table == [tables.bookings EXCEPT ![r] = row]
           then == SetStatus(tables, r, status)
<1>1. Typed(tables.bookings, BookingRow) /\ tables.bookings[r] \in BookingRow
  BY Parts DEF Typed, Rows
<1>2. /\ row \in BookingRow /\ row.dog = tables.bookings[r].dog
      /\ row.activity = tables.bookings[r].activity /\ row.pass = tables.bookings[r].pass
  BY <1>1 DEF BookingRow
<1> HIDE DEF row
<1>3. /\ Typed(table, BookingRow) /\ Rows(table) = Rows(tables.bookings) /\ table[r] = row
      /\ \A x \in Rows(tables.bookings) \ {r} : table[x] = tables.bookings[x]
  BY <1>1, <1>2, Parts, RowRewritten
<1>4. /\ DOMAIN then = DOMAIN tables /\ then.last = tables.last /\ then.bookings = table
      /\ then.dogs = tables.dogs /\ then.labels = tables.labels
      /\ then.passes = tables.passes /\ then.activities = tables.activities
  BY Parts DEF Tables, SetStatus, row
<1>5. References(tables.dogs, tables.labels, tables.passes, tables.activities, table)
  BY <1>2, <1>3, Parts DEF References
<1>6. DOMAIN table = DOMAIN tables.bookings
      /\ \A x \in DOMAIN tables.bookings \ {r} : table[x] = tables.bookings[x]
  OBVIOUS
<1> HIDE DEF table, then
<1>7. \A t \in Tables : Rows(then[t]) \subseteq Rows(tables[t])
  BY <1>3, <1>4 DEF Tables
<1>8. Schema(then)
  BY <1>3, <1>4, <1>5, <1>7, Parts, NoneComes
<1> QED
  BY <1>2, <1>3, <1>4, <1>6, <1>8 DEF then

(* The identity column numbers the new rows; none of the old is touched.   *)
LEMMA RowsInserted ==
  ASSUME NEW tables, Schema(tables), NEW t \in Tables, NEW rows \in Seq(Columns[t])
  PROVE  LET then == InsertAll(tables, t, rows)
         IN  /\ DOMAIN then = DOMAIN tables /\ then.last \in [Tables -> Nat]
             /\ \A x \in Tables \ {t} : then[x] = tables[x]
             /\ Typed(then[t], Columns[t])
             /\ \A x \in Tables : \A id \in Rows(then[x]) : id <= then.last[x]
             /\ \A id \in Rows(tables[t]) :
                  id \in Rows(then[t]) /\ then[t][id] = tables[t][id]
             /\ \A id \in Rows(then[t]) \ Rows(tables[t]) :
                  \E i \in DOMAIN rows : then[t][id] = rows[i]
<1> DEFINE last == tables.last[t]
           table == [id \in DOMAIN tables[t] |->
                       IF id - last \in DOMAIN rows THEN rows[id - last] ELSE tables[t][id]]
           lasts == [tables.last EXCEPT ![t] = last + Len(rows)]
           then == InsertAll(tables, t, rows)
<1>1. /\ DOMAIN tables = Tables \cup {"last"} /\ tables.last \in [Tables -> Nat]
      /\ "last" \notin Tables /\ last \in Nat /\ Len(rows) \in Nat
      /\ DOMAIN rows = 1..Len(rows) /\ \A i \in DOMAIN rows : rows[i] \in Columns[t]
      /\ Typed(tables[t], Columns[t])
  BY DEF Schema, Tables
<1>2. /\ DOMAIN then = DOMAIN tables /\ then[t] = table
      /\ \A x \in Tables \ {t} : then[x] = tables[x]
  BY <1>1 DEF InsertAll
<1>3. then.last = lasts
  BY <1>1 DEF InsertAll
<1>4. lasts \in [Tables -> Nat] /\ lasts[t] = last + Len(rows)
      /\ \A x \in Tables \ {t} : lasts[x] = tables.last[x]
  BY <1>1
<1>5. Typed(table, Columns[t])
  BY <1>1 DEF Typed
<1>6. \A id \in Rows(tables[t]) : id \in Nat /\ id <= last /\ table[id] = tables[t][id]
                                  /\ id \in Rows(table)
  BY <1>1 DEF Schema, Rows, Typed
<1>7. \A id \in Rows(table) \ Rows(tables[t]) : \E i \in DOMAIN rows : table[id] = rows[i]
  BY DEF Rows
<1>8. \A id \in Rows(table) : id <= last + Len(rows)
  <2> SUFFICES ASSUME NEW id \in Rows(table) PROVE id <= last + Len(rows)
    OBVIOUS
  <2>1. id \in Nat
    BY <1>1 DEF Rows, Typed
  <2>2. CASE id - last \in DOMAIN rows
    BY <1>1, <2>1, <2>2
  <2>3. CASE id - last \notin DOMAIN rows
    <3>1. id \in Rows(tables[t])
      BY <2>3 DEF Rows
    <3> QED
      BY <1>1, <1>6, <3>1
  <2> QED
    BY <2>2, <2>3
<1> HIDE DEF table, lasts, then
<1>9. \A x \in Tables : \A id \in Rows(then[x]) : id <= then.last[x]
  BY <1>2, <1>3, <1>4, <1>8 DEF Schema
<1> QED
  BY <1>2, <1>3, <1>4, <1>5, <1>6, <1>7, <1>9 DEF then

(* New rows that refer to rows there are keep the schema.                  *)
LEMMA Inserted ==
  ASSUME NEW tables, Schema(tables), NEW t \in Tables, NEW rows \in Seq(Columns[t]),
         \A i \in DOMAIN rows :
           /\ t = "dogs" => rows[i].links \subseteq Rows(tables.labels)
           /\ t = "passes" => rows[i].left <= rows[i].total
           /\ t = "activities" => rows[i].dog \in Rows(tables.dogs) \cup {None}
           /\ t = "bookings" => /\ rows[i].dog \in Rows(tables.dogs)
                                /\ rows[i].activity \in Rows(tables.activities)
                                /\ rows[i].pass \in Rows(tables.passes)
  PROVE  Schema(InsertAll(tables, t, rows))
<1> DEFINE then == InsertAll(tables, t, rows)
<1>1. /\ DOMAIN then = DOMAIN tables /\ then.last \in [Tables -> Nat]
      /\ \A x \in Tables \ {t} : then[x] = tables[x]
      /\ Typed(then[t], Columns[t])
      /\ \A x \in Tables : \A id \in Rows(then[x]) : id <= then.last[x]
      /\ \A id \in Rows(tables[t]) : id \in Rows(then[t]) /\ then[t][id] = tables[t][id]
      /\ \A id \in Rows(then[t]) \ Rows(tables[t]) :
           \E i \in DOMAIN rows : then[t][id] = rows[i]
  BY RowsInserted
<1> HIDE DEF then
<1>2. \A x \in Tables : Rows(tables[x]) \subseteq Rows(then[x])
  BY <1>1
<1>3. /\ Rows(tables.dogs) \subseteq Rows(then.dogs)
      /\ Rows(tables.labels) \subseteq Rows(then.labels)
      /\ Rows(tables.activities) \subseteq Rows(then.activities)
      /\ Rows(tables.passes) \subseteq Rows(then.passes)
  BY <1>2 DEF Tables
<1>4. \A x \in Tables : Typed(then[x], Columns[x])
  BY <1>1 DEF Schema
<1>5. \A p \in Rows(then.passes) : then.passes[p].left <= then.passes[p].total
  BY <1>1, Parts DEF Tables
<1>6. \A d \in Rows(then.dogs) : then.dogs[d].links \subseteq Rows(then.labels)
  <2>1. \A d \in Rows(tables.dogs) : tables.dogs[d].links \subseteq Rows(tables.labels)
    BY Parts DEF References
  <2>2. \A d \in Rows(then.dogs) : then.dogs[d].links \subseteq Rows(tables.labels)
    BY <1>1, <2>1 DEF Tables
  <2> QED
    BY <1>3, <2>2
<1>7. \A a \in Rows(then.activities) : then.activities[a].dog \in Rows(then.dogs) \cup {None}
  <2>1. \A a \in Rows(tables.activities) :
          tables.activities[a].dog \in Rows(tables.dogs) \cup {None}
    BY Parts DEF References
  <2>2. \A a \in Rows(then.activities) : then.activities[a].dog \in Rows(tables.dogs) \cup {None}
    BY <1>1, <2>1 DEF Tables
  <2> QED
    BY <1>3, <2>2
<1>8. \A r \in Rows(then.bookings) :
        /\ then.bookings[r].dog \in Rows(then.dogs)
        /\ then.bookings[r].activity \in Rows(then.activities)
        /\ then.bookings[r].pass \in Rows(then.passes)
  <2>1. \A r \in Rows(tables.bookings) :
          /\ tables.bookings[r].dog \in Rows(tables.dogs)
          /\ tables.bookings[r].activity \in Rows(tables.activities)
          /\ tables.bookings[r].pass \in Rows(tables.passes)
    BY Parts DEF References
  <2>2. \A r \in Rows(then.bookings) :
          /\ then.bookings[r].dog \in Rows(tables.dogs)
          /\ then.bookings[r].activity \in Rows(tables.activities)
          /\ then.bookings[r].pass \in Rows(tables.passes)
    BY <1>1, <2>1 DEF Tables
  <2> QED
    BY <1>3, <2>2
<1>9. Schema(then)
  BY <1>1, <1>4, <1>5, <1>6, <1>7, <1>8 DEF Schema, References
<1> QED
  BY <1>9 DEF then

LEMMA OneInserted ==
  ASSUME NEW tables, Schema(tables), NEW t \in Tables, NEW row \in Columns[t],
         t = "dogs" => row.links \subseteq Rows(tables.labels),
         t = "passes" => row.left <= row.total,
         t = "bookings" => /\ row.dog \in Rows(tables.dogs)
                           /\ row.activity \in Rows(tables.activities)
                           /\ row.pass \in Rows(tables.passes),
         t # "activities"
  PROVE  Schema(Insert(tables, t, row))
<1> DEFINE rows == <<row>>
<1>1. rows \in Seq(Columns[t]) /\ \A i \in DOMAIN rows : rows[i] = row
  <2>1. ASSUME NEW S, NEW x \in S
        PROVE  <<x>> \in Seq(S) /\ \A i \in DOMAIN <<x>> : <<x>>[i] = x
    OBVIOUS
  <2> QED
    BY <2>1
<1> HIDE DEF rows
<1>2. Schema(InsertAll(tables, t, rows))
  BY <1>1, Inserted
<1> QED
  BY <1>2 DEF Insert, rows
(* RestoreSession, and a batch of them.                                    *)
LEMMA SessionGivenBack ==
  ASSUME NEW tables, Schema(tables), NEW p \in Rows(tables.passes)
  PROVE  LET then == GiveBack(tables, p)
         IN  /\ Schema(then) /\ then.bookings = tables.bookings /\ then.dogs = tables.dogs
             /\ then.labels = tables.labels /\ then.activities = tables.activities
             /\ DOMAIN then.passes = DOMAIN tables.passes
             /\ then.passes[p].user = tables.passes[p].user
             /\ \A x \in DOMAIN tables.passes \ {p} : then.passes[x] = tables.passes[x]
<1> DEFINE pass == tables.passes[p]
           row == [pass EXCEPT !.left = @ + 1]
           then == [tables EXCEPT !.passes[p].left = @ + 1]
<1>1. pass \in PassRow /\ DOMAIN tables = Tables \cup {"last"}
  <2>1. Typed(tables.passes, PassRow) /\ DOMAIN tables = Tables \cup {"last"}
    BY Parts
  <2> QED
    BY <2>1 DEF Typed, Rows
<1>2. then = [tables EXCEPT !.passes[p] = row]
  OBVIOUS
<1>3. row \in PassRow /\ row.user = pass.user /\ (CanRefund(pass) => row.left <= row.total)
  BY <1>1 DEF PassRow, CanRefund
<1>4. CanRefund(pass) => Schema([tables EXCEPT !.passes[p] = row])
  <2> HIDE DEF row
  <2> QED
    BY <1>3, PassRewritten DEF pass
<1>5. /\ then.bookings = tables.bookings /\ then.dogs = tables.dogs
      /\ then.labels = tables.labels /\ then.activities = tables.activities
      /\ then.passes = [tables.passes EXCEPT ![p] = row]
  BY <1>1 DEF Tables
<1>6. /\ DOMAIN [tables.passes EXCEPT ![p] = row] = DOMAIN tables.passes
      /\ [tables.passes EXCEPT ![p] = row][p] = row
      /\ \A x \in DOMAIN tables.passes \ {p} :
           [tables.passes EXCEPT ![p] = row][x] = tables.passes[x]
  BY DEF Rows
<1> HIDE DEF row, then
<1>7. CASE CanRefund(pass)
  BY <1>2, <1>3, <1>4, <1>5, <1>6, <1>7 DEF GiveBack, then
<1>8. CASE ~CanRefund(pass)
  BY <1>8 DEF GiveBack
<1> QED
  BY <1>7, <1>8

-----------------------------------------------------------------------------
(* A use case leaves the schema and names rows                             *)

(* What a use case leaves and shows.                                       *)
Sane(out) == Schema(out.db) /\ out.rows \subseteq AnswerKinds \X Nat

LEMMA NoneIsNoError ==
  /\ None \notin {"validation", "not_found", "internal", "size_target", "dog_required"}
  /\ None \notin {"invalid_activity_id", "invalid_dog_id", "invalid_pass_id"}
  /\ None \notin {"activity_in_past", "pass_exhausted", "pass_expired", "inactive_dog"}
<1>1. None \notin Errors
  BY ApiAssumption
<1>2. /\ LookupErrors \in ErrorTables /\ ReservationErrors \in ErrorTables
      /\ RegistrationErrors \in ErrorTables /\ ClassErrors \in ErrorTables
  BY DEF ErrorTables
<1>3. /\ {"validation", "not_found"} \subseteq DOMAIN LookupErrors
      /\ {"invalid_activity_id", "invalid_dog_id", "activity_in_past"}
           \subseteq DOMAIN ReservationErrors
      /\ {"invalid_pass_id", "pass_exhausted", "pass_expired"} \subseteq DOMAIN RegistrationErrors
      /\ {"dog_required", "inactive_dog"} \subseteq DOMAIN ClassErrors
  BY DEF LookupErrors, ReservationErrors, RegistrationErrors, ClassErrors
<1> QED
  BY <1>1, <1>2, <1>3 DEF Errors

LEMMA StoredRows ==
  ASSUME Schema(db)
  PROVE  /\ \A t \in Tables : Stored(t) = Rows(db[t]) /\ Stored(t) \subseteq Nat \ {0}
         /\ Stored("dogs") = Rows(db.dogs) /\ Stored("labels") = Rows(db.labels)
         /\ Stored("passes") = Rows(db.passes) /\ Stored("activities") = Rows(db.activities)
         /\ Stored("bookings") = Rows(db.bookings)
         /\ Stored("dogs") \subseteq Nat /\ Stored("labels") \subseteq Nat
         /\ Stored("passes") \subseteq Nat /\ Stored("activities") \subseteq Nat
         /\ Stored("bookings") \subseteq Nat
<1>1. \A t \in Tables : Stored(t) = Rows(db[t])
  BY DEF Stored, Rows
<1>2. \A t \in Tables : \A id \in Rows(db[t]) : id \in Nat \ {0}
  BY Parts
<1> QED
  BY <1>1, <1>2 DEF Tables

LEMMA NextIds ==
  ASSUME Schema(db)
  PROVE  \A t \in Tables : NextId(t) \in Nat
BY Parts DEF NextId

LEMMA StoredColumns ==
  ASSUME Schema(db)
  PROVE  /\ \A d \in Stored("dogs") : db.dogs[d] \in DogRow
         /\ \A l \in Stored("labels") : db.labels[l] \in Label
         /\ \A p \in Stored("passes") : db.passes[p] \in PassRow
         /\ \A a \in Stored("activities") : db.activities[a] \in ActivityRow
         /\ \A r \in Stored("bookings") : db.bookings[r] \in BookingRow
<1>1. /\ Typed(db.dogs, DogRow) /\ Typed(db.labels, Label) /\ Typed(db.passes, PassRow)
      /\ Typed(db.activities, ActivityRow) /\ Typed(db.bookings, BookingRow)
  BY Parts
<1> QED
  BY <1>1 DEF Typed, Stored

LEMMA SaneOutcomes ==
  ASSUME Schema(db)
  PROVE  /\ \A kind \in AnswerKinds, ids \in SUBSET Nat : Sane(Ok(Shown(kind, ids)))
         /\ \A error : Sane(Fail(error))
         /\ \A error, then : Sane(RollBack(error, then))
         /\ \A kind \in AnswerKinds, ids \in SUBSET Nat : \A then :
              Schema(then) => Sane(Saved(Shown(kind, ids), then))
         /\ \A then : Schema(then) => Sane(Saved({}, then))
<1>1. \A kind \in AnswerKinds, ids \in SUBSET Nat : Shown(kind, ids) \subseteq AnswerKinds \X Nat
  BY DEF Shown
<1> QED
  BY <1>1 DEF Sane, Ok, Fail, RollBack, Saved

LEMMA ReadBackSane ==
  ASSUME NEW out, Sane(out), NEW succeeds
  PROVE  Sane(ReadBack(out, succeeds))
BY DEF Sane, ReadBack

LEMMA Cuts ==
  /\ \A ids, page : NewestFirst(ids, page) \subseteq ids
  /\ \A ids, page : OldestFirst(ids, page) \subseteq ids
  /\ \A ids, page : Chronological(ids, page) \subseteq ids
  /\ \A ids, page : ByActivityDate(ids, page) \subseteq ids
BY DEF NewestFirst, OldestFirst, Chronological, ByActivityDate, Cut

-----------------------------------------------------------------------------
(* The dogs                                                                *)

LEMMA DogScanSane ==
  ASSUME Schema(db)
  PROVE  /\ \A ids \in SUBSET Nat : Sane(ScanDogs(ids))
         /\ \A d : Sane(ReadDog(d))
         /\ \A d : ReadDog(d).error = None => d \in Stored("dogs")
         /\ \A d : GetDog(d).error = None => d \in Stored("dogs")
<1>1. \A ids \in SUBSET Nat : Sane(ScanDogs(ids))
  BY SaneOutcomes DEF ScanDogs, AnswerKinds
<1>2. None # "not_found" /\ None # "validation"
  BY NoneIsNoError
<1>3. \A d : ReadDog(d).error = None => d \in Stored("dogs")
  BY <1>2 DEF ReadDog, Fail
<1>4. \A d : Sane(ReadDog(d))
  BY <1>1, StoredRows, SaneOutcomes DEF ReadDog
<1> QED
  BY <1>1, <1>2, <1>3, <1>4 DEF GetDog, Fail

LEMMA DogListsSane ==
  ASSUME Schema(db)
  PROVE  /\ \A ids \in SUBSET Nat : \A page : Sane(ListDogs(ids, page))
         /\ \A page : Sane(ActiveWithOwner(page))
         /\ \A d : Sane(GetDog(d)) 
<1>1. \A ids \in SUBSET Nat : \A page : Sane(ListDogs(ids, page))
  BY DogScanSane, Cuts DEF ListDogs
<1>2. DogsByActive(TRUE) \subseteq Nat
  BY StoredRows DEF DogsByActive, DogsWith
<1>3. \A page : Sane(ActiveWithOwner(page))
  <2> TAKE page
  <2> DEFINE ids == OldestFirst(DogsByActive(TRUE), [limit |-> page[1], offset |-> page[2]])
  <2>1. ids \in SUBSET Nat
    BY <1>2, Cuts
  <2> HIDE DEF ids
  <2>2. Sane(ScanDogs(ids)) /\ Sane(Fail("internal"))
    BY <2>1, DogScanSane, SaneOutcomes
  <2> QED
    BY <2>2 DEF ActiveWithOwner, ids
<1>4. \A d : Sane(GetDog(d))
  BY DogScanSane, SaneOutcomes DEF GetDog
<1> QED
  BY <1>1, <1>3, <1>4

LEMMA DogsNamed ==
  ASSUME Schema(db)
  PROVE  /\ AllDogs \in SUBSET Nat /\ \A x : DogsByOwner(x) \in SUBSET Nat
         /\ \A x : DogsByLink(x) \in SUBSET Nat
         /\ \A x : DogsByBreed(x) \in SUBSET Nat
         /\ \A x : DogsBySex(x) \in SUBSET Nat
         /\ \A x : DogsByNeutered(x) \in SUBSET Nat
         /\ \A x : DogsByHeat(x) \in SUBSET Nat
         /\ \A x : DogsByActive(x) \in SUBSET Nat
         /\ \A x : DogsByAge(x) \in SUBSET Nat
         /\ \A x : DogsBySize(x) \in SUBSET Nat
BY StoredRows
DEF AllDogs, DogsByOwner, DogsByLink, DogsByBreed, DogsBySex, DogsByNeutered, DogsByHeat,
    DogsByActive, DogsByAge, DogsBySize, DogsWith

LEMMA RegisteredDogSane ==
  ASSUME Schema(db), NEW body \in DogBodies
  PROVE  Sane(RegisterDog(body))
<1> DEFINE row == NewDog(body)
<1>1. CASE \/ \E f \in {"breed", "passport", "age", "weight", "sex"} : ~ValidField(f, body[f])
           \/ body.owner = 0 \/ row.owner \notin Users
           \/ ~PassportFree(db.dogs, row, NextId("dogs"))
  <2>1. RegisterDog(body) \in
          {Fail("validation"), Fail("invalid_user_id"), Fail("duplicate_passport")}
    BY <1>1 DEF RegisterDog, CreateDog
  <2> QED
    BY <2>1, SaneOutcomes
<1>2. ASSUME /\ \A f \in {"breed", "passport", "age", "weight", "sex"} : ValidField(f, body[f])
             /\ body.owner # 0 /\ row.owner \in Users
             /\ PassportFree(db.dogs, row, NextId("dogs"))
      PROVE  Sane(RegisterDog(body))
  <2>1. /\ body.breed # None /\ body.passport # None /\ body.age > 0 /\ body.weight > 0
        /\ body.sex \in Sexes
    BY <1>2 DEF ValidField
  <2>2. /\ body.age \in Nat \ {0} /\ body.weight \in Nat \ {0} /\ body.special \in BOOLEAN
        /\ body.breed \in STRING /\ body.passport \in STRING
    BY <2>1, ApiAssumption
  <2>3. row \in DogRow /\ row.links = {}
    BY <1>2, <2>1, <2>2 DEF NewDog, DogRow
  <2>4. RegisterDog(body) = Saved(Shown("dog", {NextId("dogs")}), Insert(db, "dogs", row))
    <3> HIDE DEF row
    <3>1. RegisterDog(body) = CreateDog(row)
      BY <1>2 DEF RegisterDog, row
    <3> QED
      BY <1>2, <3>1 DEF CreateDog
  <2>5. Schema(Insert(db, "dogs", row))
    <3> HIDE DEF row
    <3> QED
      BY <2>3, OneInserted, ColumnsOfTables DEF Tables
  <2>6. {NextId("dogs")} \in SUBSET Nat
    BY NextIds DEF Tables
  <2> QED
    BY <2>4, <2>5, <2>6, SaneOutcomes DEF AnswerKinds
<1> QED
  BY <1>1, <1>2

LEMMA UpdatedDogSane ==
  ASSUME Schema(db), NEW d \in Stored("dogs"), NEW row \in DogRow,
         row.links \subseteq Stored("labels")
  PROVE  Sane(UpdateDog(d, row))
<1>1. Schema([db EXCEPT !.dogs[d] = row])
  BY StoredRows, DogRewritten
<1>2. {d} \in SUBSET Nat
  BY StoredRows
<1> QED
  BY <1>1, <1>2, SaneOutcomes DEF UpdateDog, AnswerKinds

LEMMA StoredLinks ==
  ASSUME Schema(db), NEW d \in Stored("dogs")
  PROVE  db.dogs[d] \in DogRow /\ db.dogs[d].links \subseteq Stored("labels")
BY StoredColumns, StoredRows, Parts DEF References

LEMMA PatchedDogTyped ==
  ASSUME NEW row \in DogRow, NEW patch \in DogPatches, PatchAccepted(row, patch)
  PROVE  Patched(row, patch) \in DogRow /\ Patched(row, patch).links = row.links
<1>1. \A f \in DOMAIN patch :
        CASE f \in {"age", "weight"} -> patch[f] \in Int
          [] f \in {"breed", "passport"} -> patch[f] \in STRING \cup {None}
          [] f \in {"special", "neutered", "heat", "active"} -> patch[f] \in BOOLEAN
          [] OTHER -> f = "sex"
  BY ApiAssumption
<1>2. \A f \in DOMAIN patch : ValidField(f, patch[f])
  BY DEF PatchAccepted
<1>3. \A f \in DOMAIN patch :
        /\ f \in {"age", "weight"} => patch[f] \in Nat \ {0}
        /\ f \in {"breed", "passport"} => patch[f] \in STRING
        /\ f \in {"special", "neutered", "heat", "active"} => patch[f] \in BOOLEAN
        /\ f = "sex" => patch[f] \in Sexes
        /\ f \notin {"owner", "photo", "links"}
  BY <1>1, <1>2 DEF ValidField
<1>4. DOMAIN row = {"owner", "sex", "age", "weight", "special", "breed", "passport", "photo",
                    "neutered", "heat", "active", "links"}
  BY DEF DogRow
<1> DEFINE new == Patched(row, patch)
<1>5. /\ DOMAIN new = DOMAIN row /\ new = [f \in DOMAIN row |-> new[f]]
      /\ \A f \in DOMAIN row : new[f] = IF f \in DOMAIN patch THEN patch[f] ELSE row[f]
  BY DEF Patched
<1> HIDE DEF new
<1>6. /\ new.owner \in Users /\ new.sex \in Sexes /\ new.age \in Nat \ {0}
      /\ new.weight \in Nat \ {0} /\ new.special \in BOOLEAN /\ new.breed \in STRING
      /\ new.passport \in STRING /\ new.photo \in {None, "web"} /\ new.neutered \in BOOLEAN
      /\ new.heat \in BOOLEAN /\ new.active \in BOOLEAN /\ new.links \in SUBSET Nat
      /\ new.links = row.links
  BY <1>3, <1>4, <1>5 DEF DogRow
<1>7. new \in DogRow
  BY <1>4, <1>5, <1>6 DEF DogRow
<1> QED
  BY <1>6, <1>7 DEF new

LEMMA ModifiedDogSane ==
  ASSUME Schema(db), NEW d, NEW patch \in DogPatches
  PROVE  Sane(ModifyDog(d, patch))
<1>1. CASE d = 0 \/ ReadDog(d).error # None
  BY <1>1, DogScanSane, SaneOutcomes DEF ModifyDog, EditDog
<1>2. CASE d # 0 /\ ReadDog(d).error = None
  <2>1. d \in Stored("dogs") /\ {d} \in SUBSET Nat
    BY <1>2, DogScanSane, StoredRows
  <2> DEFINE row == db.dogs[d]
  <2>2. ModifyDog(d, patch) =
          IF EmptyPatch(patch) THEN Ok(Shown("dog", {d}))
          ELSE IF ~PatchAccepted(row, patch) THEN Fail("validation")
          ELSE UpdateDog(d, Patched(row, patch))
    BY <1>2 DEF ModifyDog, EditDog
  <2>3. PatchAccepted(row, patch) => Sane(UpdateDog(d, Patched(row, patch)))
    BY <2>1, StoredLinks, PatchedDogTyped, UpdatedDogSane
  <2> QED
    BY <2>1, <2>2, <2>3, SaneOutcomes DEF AnswerKinds
<1> QED
  BY <1>1, <1>2

LEMMA EditedDogSane ==
  ASSUME Schema(db), NEW d
  PROVE  /\ \A flag \in BOOLEAN : Sane(SetDogNeutered(d, flag)) /\ Sane(SetDogHeat(d, flag))
         /\ \A url \in {None, "web", "unsafe"} : Sane(SetDogPhoto(d, url))
         /\ \A l, kind : Sane(LinkLabel(d, l, kind))
         /\ \A l : Sane(RemoveDogLabel(d, l))
<1>1. CASE d = 0 \/ ReadDog(d).error # None
  BY <1>1, DogScanSane, SaneOutcomes
  DEF SetDogNeutered, SetDogHeat, SetDogPhoto, LinkLabel, RemoveDogLabel, EditDog
<1>2. CASE d # 0 /\ ReadDog(d).error = None
  <2>1. d \in Stored("dogs") /\ {d} \in SUBSET Nat
    BY <1>2, DogScanSane, StoredRows
  <2> DEFINE row == db.dogs[d]
  <2>2. row \in DogRow /\ row.links \subseteq Stored("labels")
    BY <2>1, StoredLinks
  <2>3. Sane(Ok(Shown("dog", {d}))) /\ \A error : Sane(Fail(error))
    BY <2>1, SaneOutcomes DEF AnswerKinds
  <2>4. ASSUME NEW flag \in BOOLEAN
        PROVE  Sane(SetDogNeutered(d, flag)) /\ Sane(SetDogHeat(d, flag))
    <3>1. /\ [row EXCEPT !.neutered = flag] \in DogRow
          /\ [row EXCEPT !.neutered = flag].links = row.links
          /\ [row EXCEPT !.heat = flag] \in DogRow /\ [row EXCEPT !.heat = flag].links = row.links
      BY <2>2 DEF DogRow
    <3>2. /\ SetDogNeutered(d, flag) = UpdateDog(d, [row EXCEPT !.neutered = flag])
          /\ SetDogHeat(d, flag) =
               IF SetHeat(row, flag) THEN UpdateDog(d, [row EXCEPT !.heat = flag])
               ELSE Fail("invalid_heat_for_sex")
      BY <1>2 DEF SetDogNeutered, SetDogHeat, EditDog
    <3>3. /\ Sane(UpdateDog(d, [row EXCEPT !.neutered = flag]))
          /\ Sane(UpdateDog(d, [row EXCEPT !.heat = flag]))
      BY <2>1, <2>2, <3>1, UpdatedDogSane
    <3> QED
      BY <2>3, <3>2, <3>3
  <2>5. ASSUME NEW url \in {None, "web", "unsafe"} PROVE Sane(SetDogPhoto(d, url))
    <3>1. SetDogPhoto(d, url) =
            IF ValidField("photo", url) THEN UpdateDog(d, [row EXCEPT !.photo = url])
            ELSE Fail("photo_url")
      BY <1>2 DEF SetDogPhoto, EditDog
    <3>2. ValidField("photo", url) => url \in {None, "web"}
      BY DEF ValidField
    <3>3. url \in {None, "web"} =>
            /\ [row EXCEPT !.photo = url] \in DogRow /\ [row EXCEPT !.photo = url].links = row.links
      BY <2>2 DEF DogRow
    <3>4. url \in {None, "web"} => Sane(UpdateDog(d, [row EXCEPT !.photo = url]))
      BY <2>1, <2>2, <3>3, UpdatedDogSane
    <3> QED
      BY <2>3, <3>1, <3>2, <3>4
  <2>6. ASSUME NEW l, NEW kind PROVE Sane(LinkLabel(d, l, kind))
    <3> DEFINE new == [row EXCEPT !.links = @ \cup {l}]
    <3>1. CASE l \notin Stored("labels") \/ l \notin kind \/ l = 0
      BY <2>3, <3>1 DEF LinkLabel
    <3>2. CASE l \in Stored("labels") /\ l \in kind /\ l # 0
      <4>1. LinkLabel(d, l, kind) =
              IF l \in row.links THEN Ok(Shown("dog", {d})) ELSE UpdateDog(d, new)
        BY <1>2, <3>2 DEF LinkLabel, EditDog
      <4>2. l \in Nat
        BY <3>2, StoredRows
      <4>3. new \in DogRow /\ new.links \subseteq Stored("labels")
        BY <2>2, <3>2, <4>2 DEF DogRow
      <4> HIDE DEF new
      <4> QED
        BY <2>1, <2>3, <4>1, <4>3, UpdatedDogSane
    <3> QED
      BY <3>1, <3>2
  <2>7. ASSUME NEW l PROVE Sane(RemoveDogLabel(d, l))
    <3> DEFINE new == [row EXCEPT !.links = @ \ {l}]
    <3>1. RemoveDogLabel(d, l) =
            IF l = 0 THEN Fail("validation")
            ELSE IF l \in row.links THEN UpdateDog(d, new) ELSE Ok(Shown("dog", {d}))
      BY <1>2 DEF RemoveDogLabel, EditDog
    <3>2. new \in DogRow /\ new.links \subseteq Stored("labels")
      BY <2>2 DEF DogRow
    <3> HIDE DEF new
    <3> QED
      BY <2>1, <2>3, <3>1, <3>2, UpdatedDogSane
  <2> QED
    BY <2>4, <2>5, <2>6, <2>7
<1> QED
  BY <1>1, <1>2

(* The cascade takes the bookings; the dog of an activity becomes NULL.    *)
LEMMA ErasedDogSane ==
  ASSUME Schema(db), NEW d
  PROVE  Sane(DeleteDogRow(d))
<1> DEFINE bookings == {r \in Stored("bookings") : db.bookings[r].dog = d}
           classes == {a \in Stored("activities") : db.activities[a].dog = d}
           dogTable == [db.dogs EXCEPT ![d] = None]
           bookingTable == [r \in DOMAIN db.bookings |->
                              IF r \in bookings THEN None ELSE db.bookings[r]]
           activityTable == [a \in DOMAIN db.activities |->
                               IF a \in classes THEN [db.activities[a] EXCEPT !.dog = None]
                               ELSE db.activities[a]]
           then == [db EXCEPT !.dogs[d] = None, !.bookings = bookingTable,
                              !.activities = activityTable]
<1>1. DeleteDogRow(d) \in {Fail("validation"), Fail("not_found"), Fail("internal")}
        \/ (DeleteDogRow(d) = Saved({}, then) /\ d \in Stored("dogs"))
  BY DEF DeleteDogRow, EraseDog
<1>2. ASSUME d \in Stored("dogs") PROVE Schema(then)
  <2>1. /\ DOMAIN then = DOMAIN db /\ then.last = db.last /\ then.dogs = dogTable
        /\ then.labels = db.labels /\ then.passes = db.passes
        /\ then.activities = activityTable /\ then.bookings = bookingTable
    BY Parts DEF Tables
  <2>2. /\ Typed(db.dogs, DogRow) /\ Typed(db.bookings, BookingRow)
        /\ Typed(db.activities, ActivityRow)
    BY Parts
  <2>3. /\ Typed(dogTable, DogRow) /\ Rows(dogTable) = Stored("dogs") \ {d}
        /\ \A x \in Rows(dogTable) : dogTable[x] = db.dogs[x]
    BY <1>2, <2>2 DEF Typed, Rows, Stored
  <2>4. /\ Typed(bookingTable, BookingRow) /\ Rows(bookingTable) = Stored("bookings") \ bookings
        /\ \A x \in Rows(bookingTable) : bookingTable[x] = db.bookings[x]
    BY <2>2 DEF Typed, Rows, Stored
  <2>5. \A a \in classes : /\ [db.activities[a] EXCEPT !.dog = None] \in ActivityRow
                           /\ [db.activities[a] EXCEPT !.dog = None].dog = None
    BY StoredColumns DEF ActivityRow
  <2>6. None \notin ActivityRow
    BY ApiAssumption
  <2>7. /\ Typed(activityTable, ActivityRow) /\ Rows(activityTable) = Stored("activities")
        /\ \A a \in Stored("activities") :
             IF a \in classes THEN activityTable[a].dog = None
             ELSE activityTable[a] = db.activities[a]
    <3> HIDE DEF classes
    <3>1. classes \subseteq Stored("activities") /\ classes \subseteq DOMAIN db.activities
      BY DEF classes, Stored
    <3>2. DOMAIN activityTable = DOMAIN db.activities
          /\ \A a \in DOMAIN db.activities :
               activityTable[a] = IF a \in classes THEN [db.activities[a] EXCEPT !.dog = None]
                                  ELSE db.activities[a]
      OBVIOUS
    <3>3. activityTable = [a \in DOMAIN activityTable |-> activityTable[a]]
      OBVIOUS
    <3> HIDE DEF activityTable
    <3>4. Typed(activityTable, ActivityRow)
      BY <2>2, <2>5, <3>2, <3>3 DEF Typed
    <3>5. Rows(activityTable) = Stored("activities")
      BY <2>5, <2>6, <3>1, <3>2 DEF Rows, Stored
    <3> QED
      <4>1. Stored("activities") \subseteq DOMAIN db.activities
        BY DEF Stored
      <4> QED
        BY <2>5, <3>1, <3>2, <3>4, <3>5, <4>1
  <2>8. References(dogTable, db.labels, db.passes, activityTable, bookingTable)
    <3>1. References(db.dogs, db.labels, db.passes, db.activities, db.bookings)
      BY Parts
    <3>2. \A x \in Rows(dogTable) : dogTable[x].links \subseteq Rows(db.labels)
      BY <2>3, <3>1, StoredRows DEF References
    <3>3. \A a \in Rows(activityTable) : activityTable[a].dog \in Rows(dogTable) \cup {None}
      <4> SUFFICES ASSUME NEW a \in Rows(activityTable)
                   PROVE  activityTable[a].dog \in Rows(dogTable) \cup {None}
        OBVIOUS
      <4>1. a \in Stored("activities")
        BY <2>7
      <4>2. CASE a \in classes
        BY <2>7, <4>1, <4>2
      <4>3. CASE a \notin classes
        <5>1. db.activities[a].dog # d /\ activityTable[a] = db.activities[a]
          BY <2>7, <4>1, <4>3
        <5>2. db.activities[a].dog \in Stored("dogs") \cup {None}
          BY <3>1, <4>1, StoredRows DEF References
        <5> HIDE DEF activityTable, dogTable
        <5> QED
          BY <2>3, <5>1, <5>2
      <4> QED
        BY <4>2, <4>3
    <3>4. \A r \in Rows(bookingTable) :
            /\ bookingTable[r].dog \in Rows(dogTable)
            /\ bookingTable[r].activity \in Rows(activityTable)
            /\ bookingTable[r].pass \in Rows(db.passes)
      <4> SUFFICES ASSUME NEW r \in Rows(bookingTable)
                   PROVE  /\ bookingTable[r].dog \in Rows(dogTable)
                          /\ bookingTable[r].activity \in Rows(activityTable)
                          /\ bookingTable[r].pass \in Rows(db.passes)
        OBVIOUS
      <4>1. /\ r \in Stored("bookings") /\ r \notin bookings
            /\ bookingTable[r] = db.bookings[r]
        BY <2>4
      <4>2. db.bookings[r].dog # d
        BY <4>1
      <4> HIDE DEF bookingTable, dogTable, activityTable, bookings
      <4> QED
        BY <2>3, <2>7, <3>1, <4>1, <4>2, StoredRows DEF References
    <3> QED
      BY <3>2, <3>3, <3>4 DEF References
  <2> HIDE DEF then, dogTable, bookingTable, activityTable
  <2>9. \A t \in Tables : Rows(then[t]) \subseteq Rows(db[t])
    BY <2>1, <2>3, <2>4, <2>7, StoredRows DEF Tables
  <2> QED
    BY <2>1, <2>3, <2>4, <2>7, <2>8, <2>9, Parts, NoneComes
<1> QED
  BY <1>1, <1>2, SaneOutcomes

-----------------------------------------------------------------------------
(* The catalogue                                                           *)

LEMMA LabelsSane ==
  ASSUME Schema(db)
  PROVE  /\ \A body \in LabelBodies : Sane(RegisterLabel(body))
         /\ \A l : Sane(GetLabel(l)) /\ Sane(DeleteLabelRow(l))
         /\ \A level : Sane(ListLabels(level))
         /\ \A l : \A patch \in LabelPatches : Sane(ModifyLabel(l, patch))
<1> USE SaneOutcomes
<1>1. \A l : Sane(ReadLabelRow(l)) /\ Sane(GetLabel(l))
  BY StoredRows DEF ReadLabelRow, GetLabel, AnswerKinds
<1>2. \A level : Sane(ListLabels(level))
  <2>1. \A level : LabelsOfLevel(level) \in SUBSET Nat
    BY StoredRows DEF LabelsOfLevel
  <2> QED
    BY <2>1 DEF ListLabels, AnswerKinds
<1>3. ASSUME NEW row \in Label PROVE Sane(CreateLabel(row))
  <2>1. Schema(Insert(db, "labels", row))
    BY OneInserted, ColumnsOfTables DEF Tables
  <2>2. {NextId("labels")} \in SUBSET Nat
    BY NextIds DEF Tables
  <2> QED
    BY <2>1, <2>2 DEF CreateLabel, AnswerKinds
<1>4. ASSUME NEW body \in LabelBodies PROVE Sane(RegisterLabel(body))
  <2>1. body.level # None => body \in Label
    BY DEF LabelBodies, Label
  <2>2. body.level # None => Sane(CreateLabel(body))
    BY <1>3, <2>1
  <2> QED
    BY <2>2 DEF RegisterLabel
<1>5. ASSUME NEW l \in Stored("labels"), NEW row \in Label PROVE Sane(RewriteLabel(l, row))
  <2>1. Schema([db EXCEPT !.labels[l] = row])
    BY StoredRows, LabelRewritten
  <2>2. {l} \in SUBSET Nat
    BY StoredRows
  <2> QED
    BY <2>1, <2>2 DEF RewriteLabel, AnswerKinds
<1>6. ASSUME NEW l, NEW patch \in LabelPatches PROVE Sane(ModifyLabel(l, patch))
  <2>1. CASE GetLabel(l).error # None
    BY <1>1, <2>1 DEF ModifyLabel
  <2>2. CASE GetLabel(l).error = None
    <3>1. l \in Stored("labels")
      BY <2>2, NoneIsNoError DEF GetLabel, ReadLabelRow, Fail
    <3>2. Loaded(db.labels[l]) \in Label
      BY <3>1, StoredColumns DEF Loaded, Label
    <3>3. Patched(Loaded(db.labels[l]), patch) \in Label
      BY <3>2, ApiAssumption
    <3>4. /\ Sane(RewriteLabel(l, Patched(Loaded(db.labels[l]), patch)))
          /\ Sane(Ok(Shown("label", {l}))) /\ Sane(Fail("validation"))
      BY <1>5, <3>1, <3>3, StoredRows DEF AnswerKinds
    <3> QED
      BY <2>2, <3>4 DEF ModifyLabel
  <2> QED
    BY <2>1, <2>2
<1>7. ASSUME NEW l \in Stored("labels"), ~LabelInUse(l)
      PROVE  Schema([db EXCEPT !.labels[l] = None])
  <2> DEFINE table == [db.labels EXCEPT ![l] = None]
             then == [db EXCEPT !.labels[l] = None]
  <2>1. /\ DOMAIN then = DOMAIN db /\ then.last = db.last /\ then.labels = table
        /\ then.dogs = db.dogs /\ then.passes = db.passes
        /\ then.activities = db.activities /\ then.bookings = db.bookings
    BY Parts DEF Tables
  <2>2. Typed(db.labels, Label)
    BY Parts
  <2>3. Typed(table, Label) /\ Rows(table) = Stored("labels") \ {l}
    BY <2>2 DEF Typed, Rows, Stored
  <2>4. \A d \in Stored("dogs") : l \notin db.dogs[d].links
    BY <1>7 DEF LabelInUse
  <2>5. References(db.dogs, table, db.passes, db.activities, db.bookings)
    BY <2>3, <2>4, Parts, StoredRows DEF References
  <2> HIDE DEF table, then
  <2>6. \A t \in Tables : Rows(then[t]) \subseteq Rows(db[t])
    BY <2>1, <2>3, StoredRows DEF Tables
  <2>7. Schema(then)
    BY <2>1, <2>3, <2>5, <2>6, Parts, NoneComes
  <2> QED
    BY <2>7 DEF then
<1>8. \A l : Sane(DeleteLabelRow(l))
  BY <1>7 DEF DeleteLabelRow, EraseLabel
<1> QED
  BY <1>1, <1>2, <1>4, <1>6, <1>8

-----------------------------------------------------------------------------
(* The passes                                                              *)

LEMMA PatchedPassTyped ==
  ASSUME NEW row \in PassRow, NEW patch \in PassPatches,
         \A f \in DOMAIN patch : PassFieldValid(f, patch[f])
  PROVE  LET new == Patched(row, patch)
         IN  new \in PassRow /\ new.left = row.left /\ new.total = row.total
<1>1. \A f \in DOMAIN patch :
        CASE f = "price"   -> patch[f] \in Int
          [] f = "expires" -> patch[f] \in Int
          [] f = "paid"    -> patch[f] \in BOOLEAN
          [] OTHER         -> f = "kind"
  BY ApiAssumption
<1>2. \A f \in DOMAIN patch :
        /\ f = "price" => patch[f] \in Nat
        /\ f = "expires" => patch[f] \in Int
        /\ f = "paid" => patch[f] \in BOOLEAN
        /\ f = "kind" => patch[f] \in PassKinds
        /\ f \notin {"user", "total", "left"}
  BY <1>1 DEF PassFieldValid
<1>3. DOMAIN row = {"user", "total", "left", "price", "kind", "expires", "paid"}
  BY DEF PassRow
<1> DEFINE new == Patched(row, patch)
<1>4. /\ DOMAIN new = DOMAIN row /\ new = [f \in DOMAIN row |-> new[f]]
      /\ \A f \in DOMAIN row : new[f] = IF f \in DOMAIN patch THEN patch[f] ELSE row[f]
  BY DEF Patched
<1> HIDE DEF new
<1>5. /\ new.user \in Users /\ new.total \in Nat /\ new.left \in Nat /\ new.price \in Nat
      /\ new.kind \in PassKinds /\ new.expires \in Int \cup {None} /\ new.paid \in BOOLEAN
      /\ new.left = row.left /\ new.total = row.total
  BY <1>2, <1>3, <1>4 DEF PassRow
<1>6. new \in PassRow
  BY <1>3, <1>4, <1>5 DEF PassRow
<1> QED
  BY <1>5, <1>6 DEF new

LEMMA PassesSane ==
  ASSUME Schema(db)
  PROVE  /\ \A body \in PassBodies : \A user : Sane(RegisterPass(body, user))
         /\ \A p : Sane(GetPass(p))
         /\ \A p, again : \A patch \in PassPatches : Sane(ModifyPass(p, patch, again))
         /\ \A p, again : \A flag \in BOOLEAN : Sane(SetPassPaid(p, flag, again))
         /\ \A page : Sane(ListAllPasses(page))
         /\ \A user, page : Sane(ListByUserPasses(user, page))
         /\ \A flag, page : Sane(ListByPaidPasses(flag, page))
<1> USE SaneOutcomes
<1>1. \A p : Sane(ReadPass(p)) /\ Sane(GetPass(p))
  BY StoredRows DEF ReadPass, GetPass, AnswerKinds
<1>2. \A p : GetPass(p).error = None => p \in Stored("passes")
  BY NoneIsNoError DEF GetPass, ReadPass, Fail
<1>3. \A ids \in SUBSET Nat : \A page : Sane(ListPasses(ids, page))
  BY Cuts DEF ListPasses, AnswerKinds
<1>4. /\ AllPasses \in SUBSET Nat /\ \A user : PassesOwnedBy(user) \in SUBSET Nat
      /\ \A flag : PassesPaid(flag) \in SUBSET Nat
  BY StoredRows DEF AllPasses, PassesOwnedBy, PassesPaid
<1>5. /\ \A page : Sane(ListAllPasses(page))
      /\ \A user, page : Sane(ListByUserPasses(user, page))
      /\ \A flag, page : Sane(ListByPaidPasses(flag, page))
  BY <1>3, <1>4 DEF ListAllPasses, ListByUserPasses, ListByPaidPasses
<1>6. ASSUME NEW body \in PassBodies, NEW user PROVE Sane(RegisterPass(body, user))
  <2> DEFINE row == NewPass(body, user)
  <2>1. CASE \/ user = 0 \/ user \notin Users
             \/ \E f \in DOMAIN body : ~PassFieldValid(f, body[f])
    BY <2>1 DEF RegisterPass, CreatePass, NewPass
  <2>2. ASSUME /\ user # 0 /\ user \in Users
               /\ \A f \in DOMAIN body : PassFieldValid(f, body[f])
        PROVE  Sane(RegisterPass(body, user))
    <3>1. /\ DOMAIN body = {"total", "price", "kind", "expires"}
          /\ body.total \in Int /\ body.price \in Int /\ body.expires \in Int \cup {None}
      BY ApiAssumption
    <3>2. body.total > 0 /\ body.price >= 0 /\ body.kind \in PassKinds
      BY <2>2, <3>1 DEF PassFieldValid
    <3>3. row \in PassRow /\ row.left <= row.total /\ row.user = user
      BY <2>2, <3>1, <3>2 DEF NewPass, PassRow
    <3> HIDE DEF row
    <3>4. RegisterPass(body, user) = Saved(Shown("pass", {NextId("passes")}),
                                           Insert(db, "passes", row))
      <4>1. RegisterPass(body, user) = CreatePass(row)
        BY <2>2 DEF RegisterPass, row
      <4> QED
        BY <2>2, <3>3, <4>1 DEF CreatePass
    <3>5. Schema(Insert(db, "passes", row))
      BY <3>3, OneInserted, ColumnsOfTables DEF Tables
    <3>6. {NextId("passes")} \in SUBSET Nat
      BY NextIds DEF Tables
    <3> QED
      BY <3>4, <3>5, <3>6 DEF AnswerKinds
  <2> QED
    BY <2>1, <2>2
<1>7. ASSUME NEW p \in Stored("passes"), NEW row \in PassRow, row.left <= row.total
      PROVE  Sane(UpdatePass(p, row))
  <2>1. Schema([db EXCEPT !.passes[p] = row])
    BY <1>7, StoredRows, PassRewritten
  <2>2. {p} \in SUBSET Nat
    BY StoredRows
  <2> QED
    BY <2>1, <2>2 DEF UpdatePass, AnswerKinds
<1>8. \A p \in Stored("passes") : /\ db.passes[p] \in PassRow
                                  /\ db.passes[p].left <= db.passes[p].total
  BY StoredColumns, StoredRows, Parts
<1>9. ASSUME NEW p, NEW patch \in PassPatches, NEW again
      PROVE  Sane(ModifyPass(p, patch, again))
  <2>1. CASE GetPass(p).error # None \/ \E f \in DOMAIN patch : ~PassFieldValid(f, patch[f])
    BY <1>1, <2>1 DEF ModifyPass
  <2>2. ASSUME GetPass(p).error = None, \A f \in DOMAIN patch : PassFieldValid(f, patch[f])
        PROVE  Sane(ModifyPass(p, patch, again))
    <3>1. p \in Stored("passes")
      BY <1>2, <2>2
    <3>2. Sane(UpdatePass(p, Patched(db.passes[p], patch)))
      BY <1>7, <1>8, <2>2, <3>1, PatchedPassTyped
    <3>3. Sane(ReadBack(UpdatePass(p, Patched(db.passes[p], patch)), again))
      BY <3>2, ReadBackSane
    <3> QED
      BY <1>1, <2>2, <3>3 DEF ModifyPass
  <2> QED
    BY <2>1, <2>2
<1>10. ASSUME NEW p, NEW flag \in BOOLEAN, NEW again
       PROVE  Sane(SetPassPaid(p, flag, again))
  <2>1. CASE GetPass(p).error # None
    BY <1>1, <2>1 DEF SetPassPaid
  <2>2. CASE GetPass(p).error = None
    <3> DEFINE row == [db.passes[p] EXCEPT !.paid = flag]
    <3>1. p \in Stored("passes")
      BY <1>2, <2>2
    <3>2. row \in PassRow /\ row.left <= row.total
      BY <1>8, <3>1 DEF PassRow
    <3>3. SetPassPaid(p, flag, again) = ReadBack(UpdatePass(p, row), again)
      BY <2>2 DEF SetPassPaid
    <3> HIDE DEF row
    <3>4. Sane(UpdatePass(p, row))
      BY <1>7, <3>1, <3>2
    <3> QED
      BY <3>3, <3>4, ReadBackSane
  <2> QED
    BY <2>1, <2>2
<1> QED
  BY <1>1, <1>5, <1>6, <1>9, <1>10

-----------------------------------------------------------------------------
(* The activities                                                          *)

LEMMA ActivityScanSane ==
  ASSUME Schema(db)
  PROVE  /\ \A ids \in SUBSET Nat : Sane(ScanActivities(ids)) /\ Sane(ScanAs("schedule", ids))
         /\ \A who, a : Sane(GetActivity(who, a))
         /\ \A who, a : GetActivity(who, a).error = None =>
              a \in Stored("activities") /\ VisibleTo(who, a)
<1> USE SaneOutcomes
<1>1. \A ids \in SUBSET Nat : Sane(ScanActivities(ids)) /\ Sane(ScanAs("schedule", ids))
  BY DEF ScanActivities, ScanAs, AnswerKinds
<1>2. \A who, a : Sane(GetActivity(who, a))
  BY <1>1, StoredRows DEF GetActivity, ReadActivity
<1>3. \A who, a : GetActivity(who, a).error = None =>
        a \in Stored("activities") /\ VisibleTo(who, a)
  BY NoneIsNoError DEF GetActivity, ReadActivity, Fail
<1> QED
  BY <1>1, <1>2, <1>3

LEMMA ActivityListsSane ==
  ASSUME Schema(db)
  PROVE  /\ \A who, filter, page : Sane(ListActivities(who, filter, page))
         /\ \A who, page : Sane(ListUpcomingActivities(who, page))
<1>1. /\ \A who : AllActivities(who) \in SUBSET Nat
      /\ \A who, from, to : ActivitiesBetween(who, from, to) \in SUBSET Nat
      /\ \A who, closed, from, to : ActivitiesByClosed(who, closed, from, to) \in SUBSET Nat
      /\ \A who : UpcomingActivities(who) \in SUBSET Nat
  BY StoredRows DEF AllActivities, ActivitiesBetween, ActivitiesByClosed, UpcomingActivities,
                    ActivitiesWith
<1>2. \A ids \in SUBSET Nat : \A page :
        /\ Sane(ScanActivities(Chronological(ids, page)))
        /\ Sane(ScanAs("schedule", Chronological(ids, page)))
  BY Cuts, ActivityScanSane
<1>3. \A who, filter, page : Sane(ListActivities(who, filter, page))
  BY <1>1, <1>2, SaneOutcomes DEF ListActivities
<1>4. \A who, page : Sane(ListUpcomingActivities(who, page))
  BY <1>1, <1>2 DEF ListUpcomingActivities
<1> QED
  BY <1>3, <1>4

LEMMA BodyTyped ==
  ASSUME NEW body \in ActivityBodies, BodyAccepted(body), NEW date \in Int,
         NEW known \in SUBSET Nat, body.dog \in known \cup {None}
  PROVE  /\ NewActivity(body, date) \in ActivityRow
         /\ NewActivity(body, date).dog \in known \cup {None}
<1>1. body.cap \in Nat \ {0} /\ body.hours \in Nat \ {0}
  BY ApiAssumption DEF BodyAccepted
<1>2. body.kind \in Kinds /\ body.size \in SizeTargets \cup {None}
  BY DEF BodyAccepted
<1>3. body.dog \in Nat \cup {None}
  OBVIOUS
<1> QED
  BY <1>1, <1>2, <1>3 DEF NewActivity, ActivityRow

LEMMA SessionsCreated ==
  ASSUME Schema(db), NEW body \in ActivityBodies, BodyAccepted(body),
         NEW dates \in Seq(Int), NEW inserted \in 0..Len(dates)
  PROVE  Sane(CreateSessions(body, dates, inserted))
<1> USE SaneOutcomes
<1> DEFINE rows == [i \in DOMAIN dates |-> NewActivity(body, dates[i])]
           some == SubSeq(rows, 1, inserted)
           done == InsertAll(db, "activities", some)
           ids == NextId("activities") .. done.last["activities"]
<1>1. \/ \E error : CreateSessions(body, dates, inserted) = Fail(error)
      \/ CreateSessions(body, dates, inserted) = RollBack("internal", done)
      \/ /\ CreateSessions(body, dates, inserted) = Saved(Shown("activity", ids), done)
         /\ TargetError(body.dog) = None
  BY DEF CreateSessions
<1>2. ASSUME TargetError(body.dog) = None
      PROVE  Schema(done) /\ ids \in SUBSET Nat
  <2>1. body.dog \in Stored("dogs") \cup {None}
    BY <1>2, NoneIsNoError DEF TargetError
  <2>2. \A i \in DOMAIN dates : /\ rows[i] \in ActivityRow
                                /\ rows[i].dog \in Stored("dogs") \cup {None}
    <3> SUFFICES ASSUME NEW i \in DOMAIN dates
                 PROVE  /\ rows[i] \in ActivityRow
                        /\ rows[i].dog \in Stored("dogs") \cup {None}
      OBVIOUS
    <3>1. dates[i] \in Int /\ Stored("dogs") \in SUBSET Nat
      BY StoredRows
    <3>2. rows[i] = NewActivity(body, dates[i])
      OBVIOUS
    <3> HIDE DEF rows
    <3> QED
      BY <2>1, <3>1, <3>2, BodyTyped
  <2>3. DOMAIN dates = 1..Len(dates) /\ Len(dates) \in Nat /\ inserted \in Nat
        /\ inserted <= Len(dates)
    OBVIOUS
  <2>4. rows \in Seq(ActivityRow) /\ Len(rows) = Len(dates) /\ DOMAIN rows = DOMAIN dates
    BY <2>2, <2>3
  <2> HIDE DEF rows
  <2>5. /\ some \in Seq(ActivityRow) /\ Len(some) = inserted
        /\ \A i \in DOMAIN some : i \in DOMAIN rows /\ some[i] = rows[i]
    BY <2>3, <2>4
  <2>6. \A i \in DOMAIN some : some[i].dog \in Rows(db.dogs) \cup {None}
    BY <2>2, <2>4, <2>5, StoredRows
  <2> HIDE DEF some
  <2>7. Schema(done)
    BY <2>5, <2>6, Inserted, ColumnsOfTables DEF Tables
  <2>8. NextId("activities") \in Nat
    BY NextIds DEF Tables
  <2> QED
    BY <2>7, <2>8
<1> HIDE DEF done, ids
<1> QED
  BY <1>1, <1>2 DEF AnswerKinds

LEMMA ActivitiesRegistered ==
  ASSUME Schema(db), NEW body \in ActivityBodies, NEW inserted \in Nat
  PROVE  /\ inserted <= 1 => Sane(RegisterActivity(body, inserted))
         /\ inserted <= Len(body.dates) => Sane(BatchRegister(body, inserted))
<1>1. body.dates \in Seq(Int) /\ body.date \in Int
  BY ApiAssumption
<1>2. <<body.date>> \in Seq(Int) /\ Len(<<body.date>>) = 1
  BY <1>1
<1>3. ASSUME NEW dates \in Seq(Int), inserted <= Len(dates), BodyAccepted(body)
      PROVE  Sane(CreateSessions(body, dates, inserted))
  BY <1>3, SessionsCreated
<1>4. inserted <= 1 /\ BodyAccepted(body) => Sane(CreateSessions(body, <<body.date>>, inserted))
  BY <1>2, <1>3
<1>5. inserted <= Len(body.dates) /\ BodyAccepted(body) =>
        Sane(CreateSessions(body, body.dates, inserted))
  BY <1>1, <1>3
<1> QED
  BY <1>4, <1>5, SaneOutcomes DEF RegisterActivity, BatchRegister

LEMMA PatchedActivityTyped ==
  ASSUME NEW row \in ActivityRow, NEW patch \in ActivityPatches, PatchValid(patch)
  PROVE  /\ PatchedActivity(row, patch) \in ActivityRow
         /\ PatchedActivity(row, patch).dog = row.dog
<1>1. \A f \in DOMAIN patch :
        CASE f \in {"cap", "hours", "date"} -> patch[f] \in Int
          [] OTHER -> f \in {"kind", "size"}
  BY ApiAssumption
<1>2. \A f \in DOMAIN patch :
        /\ f \in {"cap", "hours"} => patch[f] \in Nat \ {0}
        /\ f = "date" => patch[f] \in Int
        /\ f = "kind" => patch[f] \in Kinds
        /\ f = "size" => patch[f] \in SizeTargets \cup {None}
        /\ f \notin {"dog", "closed"}
  BY <1>1 DEF PatchValid
<1>3. DOMAIN row = {"kind", "dog", "size", "cap", "hours", "date", "closed"}
  BY DEF ActivityRow
<1> DEFINE new == Patched(row, patch)
<1>4. /\ DOMAIN new = DOMAIN row /\ new = [f \in DOMAIN row |-> new[f]]
      /\ \A f \in DOMAIN row : new[f] = IF f \in DOMAIN patch THEN patch[f] ELSE row[f]
  BY DEF Patched
<1> HIDE DEF new
<1>5. /\ new.kind \in Kinds /\ new.dog \in Nat \cup {None} /\ new.size \in SizeTargets \cup {None}
      /\ new.cap \in Nat \ {0} /\ new.hours \in Nat \ {0} /\ new.date \in Int
      /\ new.closed \in BOOLEAN /\ new.dog = row.dog
  BY <1>2, <1>3, <1>4 DEF ActivityRow
<1>6. new \in ActivityRow
  BY <1>3, <1>4, <1>5 DEF ActivityRow
<1>7. [new EXCEPT !.size = None] \in ActivityRow /\ [new EXCEPT !.size = None].dog = row.dog
  BY <1>5, <1>6 DEF ActivityRow
<1> QED
  BY <1>5, <1>6, <1>7 DEF PatchedActivity, new

LEMMA ActivitiesModified ==
  ASSUME Schema(db), NEW who, NEW a, NEW patch \in ActivityPatches
  PROVE  Sane(ModifyActivity(who, a, patch))
<1> USE SaneOutcomes
<1>1. CASE GetActivity(who, a).error # None \/ ~PatchValid(patch)
  BY <1>1, ActivityScanSane DEF ModifyActivity
<1>2. CASE GetActivity(who, a).error = None /\ PatchValid(patch)
  <2> DEFINE row == PatchedActivity(db.activities[a], patch)
  <2>1. a \in Stored("activities") /\ {a} \in SUBSET Nat
    BY <1>2, ActivityScanSane, StoredRows
  <2>2. /\ db.activities[a] \in ActivityRow
        /\ db.activities[a].dog \in Stored("dogs") \cup {None}
    BY <2>1, StoredColumns, StoredRows, Parts DEF References
  <2>3. row \in ActivityRow /\ row.dog \in Stored("dogs") \cup {None}
    BY <1>2, <2>2, PatchedActivityTyped
  <2> HIDE DEF row
  <2>4. Schema([db EXCEPT !.activities[a] = row])
    BY <2>1, <2>3, StoredRows, ActivityRewritten
  <2>5. Sane(UpdateActivity(a, row)) /\ Sane(Ok(Shown("activity", {a})))
    BY <2>1, <2>4 DEF UpdateActivity, AnswerKinds
  <2> QED
    BY <1>2, <2>5 DEF ModifyActivity, row
<1> QED
  BY <1>1, <1>2

LEMMA ActivitiesErased ==
  ASSUME Schema(db), NEW a
  PROVE  Sane(DeleteActivityRow(a))
<1> DEFINE bookings == {r \in Stored("bookings") : db.bookings[r].activity = a}
           activityTable == [db.activities EXCEPT ![a] = None]
           bookingTable == [r \in DOMAIN db.bookings |->
                              IF r \in bookings THEN None ELSE db.bookings[r]]
           then == [db EXCEPT !.activities[a] = None, !.bookings = bookingTable]
<1>1. \/ \E error : DeleteActivityRow(a) = Fail(error)
      \/ DeleteActivityRow(a) = Saved({}, then) /\ a \in Stored("activities")
  BY DEF DeleteActivityRow, EraseActivity
<1>2. ASSUME a \in Stored("activities") PROVE Schema(then)
  <2>1. /\ DOMAIN then = DOMAIN db /\ then.last = db.last /\ then.dogs = db.dogs
        /\ then.labels = db.labels /\ then.passes = db.passes
        /\ then.activities = activityTable /\ then.bookings = bookingTable
    BY Parts DEF Tables
  <2>2. Typed(db.activities, ActivityRow) /\ Typed(db.bookings, BookingRow)
    BY Parts
  <2>3. /\ Typed(activityTable, ActivityRow) /\ Rows(activityTable) = Stored("activities") \ {a}
        /\ \A x \in Rows(activityTable) : activityTable[x] = db.activities[x]
    BY <1>2, <2>2 DEF Typed, Rows, Stored
  <2>4. /\ Typed(bookingTable, BookingRow) /\ Rows(bookingTable) = Stored("bookings") \ bookings
        /\ \A x \in Rows(bookingTable) : bookingTable[x] = db.bookings[x]
    BY <2>2 DEF Typed, Rows, Stored
  <2>5. \A r \in Rows(bookingTable) : db.bookings[r].activity # a /\ r \in Stored("bookings")
    BY <2>4
  <2> HIDE DEF then, activityTable, bookingTable, bookings
  <2>6. References(db.dogs, db.labels, db.passes, activityTable, bookingTable)
    BY <2>3, <2>4, <2>5, Parts, StoredRows DEF References
  <2>7. \A t \in Tables : Rows(then[t]) \subseteq Rows(db[t])
    BY <2>1, <2>3, <2>4, StoredRows DEF Tables
  <2> QED
    BY <2>1, <2>3, <2>4, <2>6, <2>7, Parts, NoneComes
<1> HIDE DEF then
<1> QED
  BY <1>1, <1>2, SaneOutcomes

(* Closing settles the bookings that are confirmed, and nothing else.      *)
LEMMA ConfirmedProcessed ==
  ASSUME Schema(db), NEW a \in Stored("activities"), NEW noShows,
         NEW confirmed \in SUBSET Stored("bookings")
  PROVE  Sane(ProcessConfirmed(a, noShows, confirmed))
<1> DEFINE bad == {r \in confirmed : ~Readable(db.dogs[db.bookings[r].dog])}
           done == {r \in confirmed : \A s \in bad : r < s}
           bookingTable == [r \in DOMAIN db.bookings |->
                              IF r \in done THEN Settled(r, noShows) ELSE db.bookings[r]]
           row == [db.activities[a] EXCEPT !.closed = (bad = {})]
           activityTable == [db.activities EXCEPT ![a] = row]
           then == [db EXCEPT !.bookings = bookingTable,
                              !.activities[a].closed = (bad = {})]
<1>1. ProcessConfirmed(a, noShows, confirmed) =
        IF bad = {} THEN Saved(Shown("activity", {a}), then) ELSE RollBack("internal", then)
  BY DEF ProcessConfirmed
<1>2. Schema(then)
  <2>1. /\ DOMAIN then = DOMAIN db /\ then.last = db.last /\ then.dogs = db.dogs
        /\ then.labels = db.labels /\ then.passes = db.passes
        /\ then.activities = activityTable /\ then.bookings = bookingTable
    <3> HIDE DEF bookingTable, bad
    <3> QED
      BY Parts DEF Tables
  <2>2. Typed(db.activities, ActivityRow) /\ Typed(db.bookings, BookingRow)
    BY Parts
  <2>3. done \subseteq Stored("bookings") /\ (bad = {}) \in BOOLEAN
    OBVIOUS
  <2>4. \A r \in done : /\ Settled(r, noShows) \in BookingRow
                        /\ Settled(r, noShows).dog = db.bookings[r].dog
                        /\ Settled(r, noShows).activity = db.bookings[r].activity
                        /\ Settled(r, noShows).pass = db.bookings[r].pass
    <3> SUFFICES ASSUME NEW r \in Stored("bookings")
                 PROVE  /\ Settled(r, noShows) \in BookingRow
                        /\ Settled(r, noShows).dog = db.bookings[r].dog
                        /\ Settled(r, noShows).activity = db.bookings[r].activity
                        /\ Settled(r, noShows).pass = db.bookings[r].pass
      BY <2>3
    <3>1. db.bookings[r] \in BookingRow
      BY StoredColumns
    <3>2. {"NO_SHOW", "COMPLETED"} \subseteq Statuses
      BY DEF Statuses
    <3> QED
      BY <3>1, <3>2 DEF Settled, BookingRow
  <2> HIDE DEF bad, done
  <2>5. row \in ActivityRow /\ row.dog = db.activities[a].dog
    BY <2>3, StoredColumns DEF ActivityRow
  <2>6. None \notin BookingRow /\ None \notin ActivityRow
    BY ApiAssumption
  <2>7. /\ Typed(bookingTable, BookingRow) /\ Rows(bookingTable) = Stored("bookings")
        /\ \A r \in Stored("bookings") :
             bookingTable[r] = IF r \in done THEN Settled(r, noShows) ELSE db.bookings[r]
    BY <2>2, <2>3, <2>4, <2>6 DEF Typed, Rows, Stored
  <2> HIDE DEF row
  <2>8. /\ Typed(activityTable, ActivityRow) /\ Rows(activityTable) = Stored("activities")
        /\ activityTable[a] = row
        /\ \A x \in Stored("activities") \ {a} : activityTable[x] = db.activities[x]
    BY <2>2, <2>5, <2>6 DEF Typed, Rows, Stored
  <2> HIDE DEF bookingTable, activityTable, then
  <2>9. References(db.dogs, db.labels, db.passes, activityTable, bookingTable)
    <3>1. References(db.dogs, db.labels, db.passes, db.activities, db.bookings)
      BY Parts
    <3>2. \A x \in Stored("activities") : activityTable[x].dog = db.activities[x].dog
      BY <2>5, <2>8
    <3>3. \A r \in Stored("bookings") : /\ bookingTable[r].dog = db.bookings[r].dog
                                        /\ bookingTable[r].activity = db.bookings[r].activity
                                        /\ bookingTable[r].pass = db.bookings[r].pass
      BY <2>4, <2>7
    <3> QED
      BY <2>7, <2>8, <3>1, <3>2, <3>3, StoredRows DEF References
  <2>10. \A t \in Tables : Rows(then[t]) \subseteq Rows(db[t])
    BY <2>1, <2>7, <2>8, StoredRows DEF Tables
  <2> QED
    BY <2>1, <2>7, <2>8, <2>9, <2>10, Parts, NoneComes
<1>3. {a} \in SUBSET Nat
  BY StoredRows
<1> HIDE DEF then, bad
<1> QED
  BY <1>1, <1>2, <1>3, SaneOutcomes DEF AnswerKinds

LEMMA ActivitiesClosed ==
  ASSUME Schema(db), NEW who, NEW a
  PROVE  Sane(BulkComplete(who, a)) /\ \A noShows : Sane(CloseActivity(who, a, noShows))
<1>1. BookingsOf(a, {"CONFIRMED"}) \in SUBSET Stored("bookings")
  BY DEF BookingsOf
<1>2. GetActivity(who, a).error = None =>
        \A noShows : Sane(ProcessConfirmed(a, noShows, BookingsOf(a, {"CONFIRMED"})))
  BY <1>1, ActivityScanSane, ConfirmedProcessed
<1> QED
  BY <1>2, ActivityScanSane, SaneOutcomes DEF BulkComplete, CloseActivity

-----------------------------------------------------------------------------
(* The bookings                                                            *)

LEMMA BookingParents ==
  ASSUME Schema(db), NEW r \in Stored("bookings")
  PROVE  /\ db.bookings[r] \in BookingRow /\ r \in Nat
         /\ db.bookings[r].dog \in Stored("dogs")
         /\ db.bookings[r].activity \in Stored("activities")
         /\ db.bookings[r].pass \in Stored("passes")
<1>1. References(db.dogs, db.labels, db.passes, db.activities, db.bookings)
  BY Parts
<1> QED
  BY <1>1, StoredColumns, StoredRows DEF References

(* What has been checked of a booking that is stored.                      *)
Admitted(user, a, d, p, admin) ==
  /\ a \in Stored("activities") /\ d \in Stored("dogs") /\ p \in Stored("passes")
  /\ db.passes[p].left > 0 /\ Meeting(a, d, admin) \in HoldsSlot
  /\ ~admin => db.dogs[d].owner = user /\ db.passes[p].user = user

ConsumedBy(p) == [db EXCEPT !.passes[p].left = @ - 1]

LEMMA RegistrationOutcomes ==
  ASSUME Schema(db), NEW user, NEW a, NEW d, NEW p, NEW admin \in BOOLEAN
  PROVE  LET out == RegisterInTx(user, a, d, p, admin)
             row == NewBooking(a, d, p, Meeting(a, d, admin))
         IN  \/ \E error : out = Fail(error)
             \/ \E error, then : out = RollBack(error, then)
             \/ /\ Admitted(user, a, d, p, admin)
                /\ out = Saved(Shown("booking", {NextId("bookings")}),
                               Insert(ConsumedBy(p), "bookings", row))
<1> DEFINE out == RegisterInTx(user, a, d, p, admin)
           row == NewBooking(a, d, p, Meeting(a, d, admin))
<1>1. CASE \/ ActivityRefusal(a) # None \/ DogRefusal(user, a, d, admin) # None
           \/ Meeting(a, d, admin) \notin HoldsSlot \/ PassRefusal(user, d, p, admin) # None
  BY <1>1 DEF RegisterInTx
<1>2. ASSUME /\ ActivityRefusal(a) = None /\ DogRefusal(user, a, d, admin) = None
             /\ Meeting(a, d, admin) \in HoldsSlot /\ PassRefusal(user, d, p, admin) = None
      PROVE  \/ \E error, then : out = RollBack(error, then)
             \/ /\ Admitted(user, a, d, p, admin)
                /\ out = Saved(Shown("booking", {NextId("bookings")}),
                               Insert(ConsumedBy(p), "bookings", row))
  <2>1. a \in Stored("activities")
    BY <1>2, NoneIsNoError DEF ActivityRefusal
  <2>2. d \in Stored("dogs") /\ (~admin => db.dogs[d].owner = user)
    BY <1>2, NoneIsNoError DEF DogRefusal
  <2>3. p \in Stored("passes") /\ (~admin => db.passes[p].user = user)
        /\ ~(db.passes[p].left <= 0)
    BY <1>2, NoneIsNoError DEF PassRefusal
  <2>4. db.passes[p].left > 0
    BY <2>3, StoredColumns DEF PassRow
  <2>5. Admitted(user, a, d, p, admin)
    BY <1>2, <2>1, <2>2, <2>3, <2>4 DEF Admitted
  <2>6. out = IF BookedTwice(a, d) THEN RollBack("duplicate_reservation", ConsumedBy(p))
              ELSE Saved(Shown("booking", {NextId("bookings")}),
                         Insert(ConsumedBy(p), "bookings", row))
    BY <1>2 DEF RegisterInTx, ConsumedBy
  <2> HIDE DEF out, row
  <2> QED
    BY <2>5, <2>6
<1> QED
  BY <1>1, <1>2

LEMMA Consumed ==
  ASSUME Schema(db), NEW p \in Stored("passes"), db.passes[p].left > 0
  PROVE  LET then == ConsumedBy(p)
         IN  /\ Schema(then) /\ then.dogs = db.dogs /\ then.labels = db.labels
             /\ then.activities = db.activities /\ then.bookings = db.bookings
             /\ Rows(then.passes) = Stored("passes") /\ then.last = db.last
             /\ DOMAIN then.passes = DOMAIN db.passes
             /\ then.passes[p].user = db.passes[p].user
             /\ \A x \in DOMAIN db.passes \ {p} : then.passes[x] = db.passes[x]
<1> DEFINE pass == db.passes[p]
           row == [pass EXCEPT !.left = @ - 1]
           table == [db.passes EXCEPT ![p] = row]
           then == ConsumedBy(p)
<1>1. /\ pass \in PassRow /\ pass.left <= pass.total /\ p \in Rows(db.passes)
      /\ DOMAIN db = Tables \cup {"last"}
  BY StoredColumns, StoredRows, Parts
<1>2. then = [db EXCEPT !.passes[p] = row]
  BY DEF ConsumedBy
<1>3. row \in PassRow /\ row.user = pass.user /\ row.left <= row.total
  BY <1>1 DEF PassRow
<1>4. /\ then.dogs = db.dogs /\ then.labels = db.labels /\ then.last = db.last
      /\ then.activities = db.activities /\ then.bookings = db.bookings
      /\ then.passes = table
  BY <1>1, <1>2 DEF Tables
<1> HIDE DEF row
<1>5. Schema([db EXCEPT !.passes[p] = row])
  BY <1>1, <1>3, PassRewritten
<1>6. /\ Rows(table) = Stored("passes") /\ table[p] = row /\ DOMAIN table = DOMAIN db.passes
      /\ \A x \in DOMAIN db.passes \ {p} : table[x] = db.passes[x]
  <2>1. Typed(db.passes, PassRow) /\ None \notin PassRow
    BY Parts
  <2>2. Rows(table) = Rows(db.passes) /\ table[p] = row
    BY <1>1, <1>3, <2>1, RowRewritten
  <2> QED
    BY <2>2, StoredRows
<1> HIDE DEF table, then
<1> QED
  BY <1>2, <1>3, <1>4, <1>5, <1>6 DEF then

LEMMA ReasonsTyped ==
  ASSUME Schema(db), NEW a, NEW d \in Stored("dogs")
  PROVE  ReasonsOf(a, d) \subseteq {"sex", "special"} \X Nat
<1>1. SlotHolders(a) \subseteq Stored("dogs")
  BY BookingParents DEF SlotHolders, BookingsOf
<1>2. SlotHolders(a) \subseteq Nat /\ d \in Nat
  BY <1>1, StoredRows
<1> HIDE DEF SlotHolders
<1>3. {<<"sex", o>> : o \in {o \in SlotHolders(a) : Reason(Loading(d), Loading(o)) # None}}
        \subseteq {"sex", "special"} \X Nat
  BY <1>2
<1>4. (IF db.dogs[d].special THEN {<<"special", d>>} ELSE {}) \subseteq {"sex", "special"} \X Nat
  BY <1>2
<1> QED
  BY <1>3, <1>4 DEF ReasonsOf

LEMMA RegistrationSane ==
  ASSUME Schema(db), NEW user, NEW a, NEW d, NEW p, NEW admin \in BOOLEAN
  PROVE  Sane(RegisterInTx(user, a, d, p, admin))
<1> DEFINE row == NewBooking(a, d, p, Meeting(a, d, admin))
           then == Insert(ConsumedBy(p), "bookings", row)
<1>1. ASSUME Admitted(user, a, d, p, admin) PROVE Schema(then)
  <2>1. /\ a \in Stored("activities") /\ d \in Stored("dogs") /\ p \in Stored("passes")
        /\ db.passes[p].left > 0 /\ Meeting(a, d, admin) \in HoldsSlot
    BY <1>1 DEF Admitted
  <2>2. /\ Schema(ConsumedBy(p)) /\ ConsumedBy(p).dogs = db.dogs
        /\ ConsumedBy(p).activities = db.activities
        /\ Rows(ConsumedBy(p).passes) = Stored("passes")
    BY <2>1, Consumed
  <2>3. /\ a \in Nat /\ d \in Nat /\ p \in Nat /\ Meeting(a, d, admin) \in Statuses
        /\ ReasonsOf(a, d) \subseteq {"sex", "special"} \X Nat
    BY <2>1, StoredRows, ReasonsTyped DEF Statuses
  <2>4. /\ row \in BookingRow /\ row.dog = d /\ row.activity = a /\ row.pass = p
    BY <2>3 DEF NewBooking, BookingRow, Now
  <2> HIDE DEF row
  <2>5. /\ row.dog \in Rows(ConsumedBy(p).dogs) /\ row.activity \in Rows(ConsumedBy(p).activities)
        /\ row.pass \in Rows(ConsumedBy(p).passes)
    BY <2>1, <2>2, <2>4, StoredRows
  <2> QED
    BY <2>2, <2>4, <2>5, OneInserted, ColumnsOfTables DEF Tables
<1>2. {NextId("bookings")} \in SUBSET Nat
  BY NextIds DEF Tables
<1>3. Schema(then) => Sane(Saved(Shown("booking", {NextId("bookings")}), then))
  BY <1>2, SaneOutcomes DEF AnswerKinds
<1> QED
  BY <1>1, <1>3, RegistrationOutcomes, SaneOutcomes

LEMMA RegistrationsSane ==
  ASSUME Schema(db)
  PROVE  /\ \A user, a, d, p : Sane(RegisterReservation(user, a, d, p))
         /\ \A a, d, p : Sane(RegisterAdminReservation(a, d, p))
BY RegistrationSane, SaneOutcomes DEF RegisterReservation, RegisterAdminReservation

-----------------------------------------------------------------------------
(* What becomes of a booking                                               *)

LEMMA MovedSane ==
  ASSUME Schema(db), NEW r \in Stored("bookings"), NEW status \in Statuses
  PROVE  /\ Sane(Moved(r, SetStatus(db, r, status)))
         /\ Sane(Moved(r, GiveBack(SetStatus(db, r, status), db.bookings[r].pass)))
<1> DEFINE then == SetStatus(db, r, status)
           p == db.bookings[r].pass
<1>1. {r} \in SUBSET Nat /\ r \in Rows(db.bookings) /\ p \in Rows(db.passes)
  BY StoredRows, BookingParents
<1>2. Schema(then) /\ then.passes = db.passes
  BY <1>1, StatusSet
<1> HIDE DEF then, p
<1>3. Schema(GiveBack(then, p))
  BY <1>1, <1>2, SessionGivenBack
<1>4. Sane(Moved(r, then)) /\ Sane(Moved(r, GiveBack(then, p)))
  BY <1>1, <1>2, <1>3, SaneOutcomes DEF Moved, AnswerKinds
<1> QED
  BY <1>4 DEF then, p

LEMMA CancellationSane ==
  ASSUME Schema(db)
  PROVE  /\ \A user, r : Sane(CancelReservation(user, r))
         /\ \A r : Sane(CancelReservationAdmin(r))
<1>1. ASSUME NEW user, NEW r, NEW admin PROVE Sane(CancelInTx(user, r, admin))
  <2>1. CASE r \notin Stored("bookings")
    BY <2>1, SaneOutcomes DEF CancelInTx
  <2>2. CASE r \in Stored("bookings")
    <3>1. /\ Sane(Moved(r, SetStatus(db, r, "CANCELLED_LATE")))
          /\ Sane(Moved(r, GiveBack(SetStatus(db, r, "CANCELLED_IN_TIME"),
                                    db.bookings[r].pass)))
      BY <2>2, MovedSane DEF Statuses
    <3> QED
      BY <2>2, <3>1, SaneOutcomes DEF CancelInTx
  <2> QED
    BY <2>1, <2>2
<1> QED
  BY <1>1, SaneOutcomes DEF CancelReservation, CancelReservationAdmin

LEMMA SettlementSane ==
  ASSUME Schema(db)
  PROVE  /\ \A r : /\ Sane(ForgiveReservation(r)) /\ Sane(ConfirmPendingReservation(r))
                   /\ Sane(RejectPendingReservation(r))
         /\ \A user, r : /\ Sane(MarkReservationNoShow(user, r))
                         /\ Sane(CompleteReservation(user, r))
<1>1. ASSUME NEW r, NEW status, NEW error, NEW then,
             r \in Stored("bookings") => Sane(Moved(r, then))
      PROVE  Sane(FromStatus(r, status, error, then))
  BY <1>1, SaneOutcomes DEF FromStatus
<1>2. \A r : \A status \in Statuses : r \in Stored("bookings") =>
        /\ Sane(Moved(r, SetStatus(db, r, status)))
        /\ Sane(Moved(r, GiveBack(SetStatus(db, r, status), db.bookings[r].pass)))
  BY MovedSane
<1>3. ASSUME NEW r
      PROVE  /\ Sane(ForgiveReservation(r)) /\ Sane(ConfirmPendingReservation(r))
             /\ Sane(RejectPendingReservation(r))
  <2>1. /\ r \in Stored("bookings") => Sane(Moved(r, SetStatus(db, r, "CONFIRMED")))
        /\ \A status \in {"FORGIVEN", "CANCELLED_IN_TIME"} : r \in Stored("bookings") =>
             Sane(Moved(r, GiveBack(SetStatus(db, r, status), db.bookings[r].pass)))
    BY <1>2 DEF Statuses, HoldsSlot
  <2> QED
    BY <1>1, <2>1 DEF ForgiveReservation, ConfirmPendingReservation, RejectPendingReservation
<1>4. ASSUME NEW user, NEW r, NEW ready, NEW early, NEW error, NEW status \in Statuses
      PROVE  Sane(Attended(user, r, ready, early, error, status))
  <2>1. Sane(FromStatus(r, "CONFIRMED", error, SetStatus(db, r, status)))
    BY <1>1, <1>2
  <2> QED
    BY <2>1, SaneOutcomes DEF Attended
<1>5. \A user, r : Sane(MarkReservationNoShow(user, r)) /\ Sane(CompleteReservation(user, r))
  BY <1>4 DEF MarkReservationNoShow, CompleteReservation, Statuses
<1> QED
  BY <1>3, <1>5

-----------------------------------------------------------------------------
(* The lists of bookings                                                   *)

LEMMA ViewsNamed ==
  /\ \A user, status, from, to : ViewsByUser(user, status, from, to) \subseteq Stored("bookings")
  /\ \A user : UpcomingViewsByUser(user) \subseteq Stored("bookings")
  /\ \A d : ViewsByDog(d) \subseteq Stored("bookings")
  /\ \A p : ViewsByPass(p) \subseteq Stored("bookings")
  /\ \A a : ViewsByActivity(a) \subseteq Stored("bookings")
  /\ \A status : AllViews(status) \subseteq Stored("bookings")
  /\ PendingViews \subseteq Stored("bookings") /\ AllUpcomingViews \subseteq Stored("bookings")
  /\ \A from, to, page : AttendanceReport(from, to, page) \subseteq Stored("bookings")
BY DEF ViewsByUser, UpcomingViewsByUser, ViewsByDog, ViewsByPass, ViewsByActivity, AllViews,
       PendingViews, AllUpcomingViews, AttendanceReport, BookingsWith, Cut

LEMMA BookingListsSane ==
  ASSUME Schema(db)
  PROVE  /\ \A user, r : Sane(GetReservation(user, r))
         /\ \A user, status, from, to, page :
              Sane(ListByUserReservations(user, status, from, to, page))
         /\ \A x, page : /\ Sane(ListUpcomingByUser(x, page))
                        /\ Sane(ListByDogReservations(x, page))
                         /\ Sane(ListByPassReservations(x, page))
                         /\ Sane(ListAllReservations(x, page))
                         /\ Sane(ListByActivityReservations(x, page))
         /\ \A page : Sane(ListUpcomingAll(page)) /\ Sane(ListPendingReservations(page))
         /\ \A a : Sane(ListActivityRoster(a))
         /\ \A from, to, page : Sane(ListAttendanceReport(from, to, page))
         /\ \A from, to : Sane(ExportAttendanceReport(from, to))
<1>1. \A ids \in SUBSET Stored("bookings") :
        Sane(ScanViews(ids)) /\ Sane(Ok(Shown("booking", ids)))
  BY StoredRows, SaneOutcomes DEF ScanViews, AnswerKinds
<1>2. \A ids \in SUBSET Stored("bookings") : \A page :
        /\ Sane(ScanViews(NewestFirst(ids, page))) /\ Sane(ScanViews(OldestFirst(ids, page)))
        /\ Sane(ScanViews(ByActivityDate(ids, page)))
  BY <1>1, Cuts
<1>3. \A user, r : Sane(GetReservation(user, r))
  <2>1. \A r : Sane(ReadView(r))
    BY <1>1, SaneOutcomes DEF ReadView
  <2> QED
    BY <2>1, SaneOutcomes DEF GetReservation
<1>4. \A user, status, from, to, page :
        Sane(ListByUserReservations(user, status, from, to, page))
  BY <1>2, ViewsNamed, SaneOutcomes DEF ListByUserReservations
<1>5. \A x, page : Sane(ListUpcomingByUser(x, page)) /\ Sane(ListByDogReservations(x, page))
  BY <1>2, ViewsNamed, SaneOutcomes DEF ListUpcomingByUser, ListByDogReservations
<1>6. \A x, page : /\ Sane(ListByPassReservations(x, page)) /\ Sane(ListAllReservations(x, page))
                   /\ Sane(ListByActivityReservations(x, page))
  BY <1>2, ViewsNamed, SaneOutcomes
  DEF ListByPassReservations, ListAllReservations, ListByActivityReservations
<1>7. \A page : Sane(ListUpcomingAll(page)) /\ Sane(ListPendingReservations(page))
  BY <1>2, ViewsNamed DEF ListUpcomingAll, ListPendingReservations
<1>8. ASSUME NEW a PROVE Sane(ListActivityRoster(a))
  <2> DEFINE views == OldestFirst(ViewsByActivity(a), [limit |-> 100, offset |-> 0])
             held == {r \in views : db.bookings[r].status \in HoldsSlot}
  <2>1. views \in SUBSET Stored("bookings")
    BY Cuts, ViewsNamed
  <2> HIDE DEF views
  <2>2. Sane(ScanViews(views)) /\ Sane(Ok(Shown("booking", held)))
    BY <1>1, <2>1
  <2>3. a \in Stored("activities") => Sane(ScanActivities({a}))
    BY ActivityScanSane, StoredRows
  <2> HIDE DEF held
  <2>4. \/ \E error : ListActivityRoster(a) = Fail(error)
        \/ a \in Stored("activities") /\ ListActivityRoster(a) = ScanActivities({a})
        \/ ListActivityRoster(a) = ScanViews(views)
        \/ ListActivityRoster(a) = Ok(Shown("booking", held))
    BY DEF ListActivityRoster, views, held
  <2> QED
    BY <2>2, <2>3, <2>4, SaneOutcomes
<1>9. ASSUME NEW from, NEW to, NEW page PROVE Sane(ListAttendanceReport(from, to, page))
  <2> DEFINE limit == IF page[1] = 0 THEN 100 ELSE page[1]
             refused == limit \notin 0..1000 \/ page[2] < 0 \/ RangeReversed(from, to)
             ids == AttendanceReport(from, to, [limit |-> limit, offset |-> page[2]])
  <2>1. ListAttendanceReport(from, to, page) =
          IF refused THEN Fail("validation") ELSE Ok(Shown("booking", ids))
    BY Zenon DEF ListAttendanceReport
  <2>2. ids \in SUBSET Stored("bookings")
    BY ViewsNamed
  <2> HIDE DEF refused, ids
  <2> QED
    BY <1>1, <2>1, <2>2, SaneOutcomes
<1>10. \A from, to : Sane(ExportAttendanceReport(from, to))
  BY <1>1, ViewsNamed, SaneOutcomes DEF ExportAttendanceReport
<1> QED
  BY <1>3, <1>4, <1>5, <1>6, <1>7, <1>8, <1>9, <1>10

-----------------------------------------------------------------------------
(* The requests about users                                                *)
LEMMA UsersSane ==
  ASSUME Schema(db)
  PROVE  /\ \A user : Sane(GetUserRow(user))
         /\ \A page : Sane(ListUsers(page))
         /\ Sane(ListAllEmails)
<1>1. Users \in SUBSET Nat /\ \A user \in Users : {user} \in SUBSET Nat
  BY ApiAssumption
<1>2. \A page : AllUsers(page) \in SUBSET Nat
  BY <1>1, Cuts DEF AllUsers
<1> QED
  BY <1>1, <1>2, SaneOutcomes DEF GetUserRow, ListUsers, ListAllEmails, AnswerKinds

-----------------------------------------------------------------------------
(* The handlers, and the schema after every request                        *)

(* An error the handlers know has the status of their tables, any other    *)
(* is internal.                                                            *)
LEMMA StatusCodes == \A error : StatusOf(error) \in 200..599
<1>1. \A table \in ErrorTables : \A error \in DOMAIN table : table[error] \in 200..599
  <2>1. /\ \A e \in DOMAIN LookupErrors : LookupErrors[e] \in 200..599
        /\ \A e \in DOMAIN ReservationErrors : ReservationErrors[e] \in 200..599
        /\ \A e \in DOMAIN RegistrationErrors : RegistrationErrors[e] \in 200..599
        /\ \A e \in DOMAIN ClosingErrors : ClosingErrors[e] \in 200..599
    BY DEF LookupErrors, ReservationErrors, RegistrationErrors, ClosingErrors
  <2>2. /\ \A e \in DOMAIN UniqueErrors : UniqueErrors[e] \in 200..599
        /\ \A e \in DOMAIN ClassErrors : ClassErrors[e] \in 200..599
        /\ \A e \in DOMAIN CatalogueErrors : CatalogueErrors[e] \in 200..599
        /\ \A e \in DOMAIN Forbidden : Forbidden[e] \in 200..599
    BY DEF UniqueErrors, ClassErrors, CatalogueErrors, Forbidden
  <2> QED
    BY <2>1, <2>2 DEF ErrorTables
<1> SUFFICES ASSUME NEW error PROVE StatusOf(error) \in 200..599
  OBVIOUS
<1>2. CASE \E t \in ErrorTables : error \in DOMAIN t
  <2> DEFINE table == CHOOSE t \in ErrorTables : error \in DOMAIN t
  <2>1. table \in ErrorTables /\ error \in DOMAIN table
    BY <1>2
  <2>2. StatusOf(error) = table[error]
    BY <1>2 DEF StatusOf
  <2> HIDE DEF table
  <2> QED
    BY <1>1, <2>1, <2>2
<1>3. CASE ~\E t \in ErrorTables : error \in DOMAIN t
  BY <1>3 DEF StatusOf
<1> QED
  BY <1>2, <1>3

(* An answer to who asked.                                                 *)
Keeps(who) == DeskTypeOK' /\ answer'.by = who

LEMMA AnswerSane ==
  ASSUME DeskTypeOK, NEW who \in Users, NEW success \in {200, 201, 204}, NEW out, Sane(out),
         Answer(who, success, out)
  PROVE  Keeps(who)
<1>1. StatusOf(out.error) \in 200..599
  BY StatusCodes
<1>2. asked' \in 0..MaxAsked
  BY ApiAssumption DEF DeskTypeOK, Answer
<1>3. answer'.by = who /\ answer'.code \in 200..599 /\ answer'.rows = out.rows /\ db' = out.db
  BY <1>1 DEF Answer
<1> QED
  BY <1>2, <1>3 DEF DeskTypeOK, Sane, AnswerKinds, Keeps

LEMMA OwnedSane ==
  ASSUME Schema(db)
  PROVE  \A who, owner, out : Sane(out) => Sane(Owned(who, owner, out))
BY SaneOutcomes DEF Owned

LEMMA BooleanChoice == \A b : (IF b THEN 200 ELSE 201) \in {200, 201, 204}
OBVIOUS

LEMMA DogHandlersKeep ==
  ASSUME DeskTypeOK, NEW who \in Users,
         \/ DogHandler_Register(who) \/ DogHandler_GetByID(who) \/ DogHandler_ListByOwner(who)
         \/ DogHandler_Modify(who) \/ DogHandler_AddTrait(who) \/ DogHandler_AddTrigger(who)
         \/ DogHandler_RemoveIncompatibility(who) \/ DogHandler_Delete(who)
         \/ DogHandler_SetNeutered(who) \/ DogHandler_SetHeat(who) \/ DogHandler_SetPhoto(who)
  PROVE  Keeps(who)
<1>0. Schema(db)
  BY DEF DeskTypeOK
<1>1. CASE DogHandler_Register(who)
  BY <1>0, <1>1, RegisteredDogSane, AnswerSane DEF DogHandler_Register
<1>2. CASE DogHandler_GetByID(who)
  BY <1>0, <1>2, DogListsSane, OwnedSane, AnswerSane DEF DogHandler_GetByID
<1>3. CASE DogHandler_ListByOwner(who)
  <2>1. \A owner, page : Sane(ListDogsByOwner(owner, page))
    BY <1>0, DogListsSane, DogsNamed, SaneOutcomes DEF ListDogsByOwner
  <2> QED
    BY <1>0, <1>3, <2>1, OwnedSane, AnswerSane DEF DogHandler_ListByOwner
<1>4. CASE DogHandler_Modify(who)
  BY <1>0, <1>4, ModifiedDogSane, AnswerSane DEF DogHandler_Modify
<1>5. CASE DogHandler_AddTrait(who)
  <2>1. \A d, l : Sane(AddDogTrait(d, l))
    BY <1>0, EditedDogSane DEF AddDogTrait
  <2> QED
    BY <1>5, <2>1, AnswerSane, BooleanChoice DEF DogHandler_AddTrait
<1>6. CASE DogHandler_AddTrigger(who)
  <2>1. \A d, l : Sane(AddDogTrigger(d, l))
    BY <1>0, EditedDogSane DEF AddDogTrigger
  <2> QED
    BY <1>6, <2>1, AnswerSane, BooleanChoice DEF DogHandler_AddTrigger
<1>7. CASE DogHandler_RemoveIncompatibility(who)
  BY <1>0, <1>7, EditedDogSane, AnswerSane DEF DogHandler_RemoveIncompatibility
<1>8. CASE DogHandler_Delete(who)
  BY <1>0, <1>8, ErasedDogSane, AnswerSane DEF DogHandler_Delete
<1>9. CASE DogHandler_SetNeutered(who)
  <2>1. PICK d \in DogIds, flag \in BOOLEAN : Answer(who, 200, SetDogNeutered(d, flag))
    BY <1>9 DEF DogHandler_SetNeutered
  <2> QED
    BY <1>0, <2>1, EditedDogSane, AnswerSane
<1>10. CASE DogHandler_SetHeat(who)
  <2>1. PICK d \in DogIds, flag \in BOOLEAN : Answer(who, 200, SetDogHeat(d, flag))
    BY <1>10 DEF DogHandler_SetHeat
  <2> QED
    BY <1>0, <2>1, EditedDogSane, AnswerSane
<1>11. CASE DogHandler_SetPhoto(who)
  <2>1. PICK d \in DogIds, url \in {None, "web", "unsafe"} :
          Answer(who, 200, SetDogPhoto(d, url))
    BY <1>11 DEF DogHandler_SetPhoto
  <2> QED
    BY <1>0, <2>1, EditedDogSane, AnswerSane
<1> QED
  BY <1>1, <1>2, <1>3, <1>4, <1>5, <1>6, <1>7, <1>8, <1>9, <1>10, <1>11

LEMMA DogListsKeep ==
  ASSUME DeskTypeOK, NEW who \in Users,
         \/ DogHandler_List(who) \/ DogHandler_ListActiveWithOwner(who)
         \/ DogHandler_ListByIsActive(who) \/ DogHandler_ListByIncompatibility(who)
         \/ DogHandler_ListByBreed(who) \/ DogHandler_ListBySex(who)
         \/ DogHandler_ListByNeutered(who) \/ DogHandler_ListByHeat(who)
         \/ DogHandler_ListByAgeBracket(who) \/ DogHandler_ListBySizeBracket(who)
  PROVE  Keeps(who)
<1>0. Schema(db)
  BY DEF DeskTypeOK
<1> USE <1>0, DogListsSane, DogsNamed, SaneOutcomes, AnswerSane
<1>1. CASE DogHandler_List(who) \/ DogHandler_ListActiveWithOwner(who)
  BY <1>1 DEF DogHandler_List, DogHandler_ListActiveWithOwner, ListAllDogs, ListActiveDogs
<1>2. CASE DogHandler_ListByIsActive(who)
  BY <1>2 DEF DogHandler_ListByIsActive, ListDogsByActive
<1>3. CASE DogHandler_ListByIncompatibility(who) \/ DogHandler_ListByBreed(who)
  BY <1>3 DEF DogHandler_ListByIncompatibility, ListDogsByLabel, DogHandler_ListByBreed,
              ListDogsByBreed
<1>4. CASE DogHandler_ListBySex(who)
  BY <1>4 DEF DogHandler_ListBySex, ListDogsBySex
<1>5. CASE DogHandler_ListByNeutered(who) \/ DogHandler_ListByHeat(who)
  BY <1>5 DEF DogHandler_ListByNeutered, DogHandler_ListByHeat, ListDogsByNeutered,
              ListDogsByHeat
<1>6. CASE DogHandler_ListByAgeBracket(who) \/ DogHandler_ListBySizeBracket(who)
  BY <1>6 DEF DogHandler_ListByAgeBracket, DogHandler_ListBySizeBracket, ListDogsByAge,
              ListDogsBySize
<1> QED
  BY <1>1, <1>2, <1>3, <1>4, <1>5, <1>6

LEMMA ActivityHandlersKeep ==
  ASSUME DeskTypeOK, NEW who \in Users,
         \/ ActivityHandler_Register(who) \/ ActivityHandler_List(who)
         \/ ActivityHandler_ListUpcoming(who) \/ ActivityHandler_GetByID(who)
         \/ ActivityHandler_Modify(who) \/ ActivityHandler_Delete(who)
         \/ ActivityHandler_Close(who) \/ ActivityHandler_BulkComplete(who)
  PROVE  Keeps(who)
<1>0. Schema(db)
  BY DEF DeskTypeOK
<1> USE <1>0, AnswerSane
<1>1. CASE ActivityHandler_Register(who)
  <2>0. PICK body \in ActivityBodies :
          \E inserted \in 0..(IF body.dates # <<>> THEN Len(body.dates) ELSE 1) :
            Answer(who, 201, IF body.dates # <<>> THEN BatchRegister(body, inserted)
                                                  ELSE RegisterActivity(body, inserted))
    BY <1>1 DEF ActivityHandler_Register
  <2>1. PICK inserted \in 0..(IF body.dates # <<>> THEN Len(body.dates) ELSE 1) :
          Answer(who, 201, IF body.dates # <<>> THEN BatchRegister(body, inserted)
                                                ELSE RegisterActivity(body, inserted))
    BY <2>0
  <2>2. inserted \in Nat /\ body.dates \in Seq(Int)
    BY <2>1, ApiAssumption
  <2>3. Sane(IF body.dates # <<>> THEN BatchRegister(body, inserted)
                                  ELSE RegisterActivity(body, inserted))
    BY <2>2, ActivitiesRegistered
  <2> QED
    BY <2>1, <2>3
<1>2. CASE ActivityHandler_List(who) \/ ActivityHandler_ListUpcoming(who)
  BY <1>2, ActivityListsSane DEF ActivityHandler_List, ActivityHandler_ListUpcoming
<1>3. CASE ActivityHandler_GetByID(who) \/ ActivityHandler_Modify(who)
  BY <1>3, ActivityScanSane, ActivitiesModified, ReadBackSane
  DEF ActivityHandler_GetByID, ActivityHandler_Modify
<1>4. CASE ActivityHandler_Delete(who)
  BY <1>4, ActivitiesErased DEF ActivityHandler_Delete
<1>5. CASE ActivityHandler_Close(who)
  <2>1. PICK a, noShows : Answer(who, 200, CloseActivity(who, a, noShows))
    BY <1>5 DEF ActivityHandler_Close
  <2>2. Sane(CloseActivity(who, a, noShows))
    BY ActivitiesClosed
  <2> QED
    BY <2>1, <2>2
<1>6. CASE ActivityHandler_BulkComplete(who)
  BY <1>6, ActivitiesClosed DEF ActivityHandler_BulkComplete
<1> QED
  BY <1>1, <1>2, <1>3, <1>4, <1>5, <1>6

LEMMA CatalogueHandlersKeep ==
  ASSUME DeskTypeOK, NEW who \in Users,
         \/ IncompatibilityHandler_Register(who) \/ IncompatibilityHandler_List(who)
         \/ IncompatibilityHandler_GetByID(who) \/ IncompatibilityHandler_Modify(who)
         \/ IncompatibilityHandler_Delete(who)
  PROVE  Keeps(who)
<1>1. Schema(db)
  BY DEF DeskTypeOK
<1> QED
  BY <1>1, LabelsSane, AnswerSane
  DEF IncompatibilityHandler_Register, IncompatibilityHandler_List,
      IncompatibilityHandler_GetByID, IncompatibilityHandler_Modify,
      IncompatibilityHandler_Delete

LEMMA PassHandlersKeep ==
  ASSUME DeskTypeOK, NEW who \in Users,
         \/ PassHandler_Register(who) \/ PassHandler_Modify(who) \/ PassHandler_GetByID(who)
         \/ PassHandler_List(who) \/ PassHandler_ListByUser(who) \/ PassHandler_ListByPaid(who)
         \/ PassHandler_SetPaid(who)
  PROVE  Keeps(who)
<1>1. Schema(db)
  BY DEF DeskTypeOK
<1> QED
  BY <1>1, PassesSane, OwnedSane, AnswerSane
  DEF PassHandler_Register, PassHandler_Modify, PassHandler_GetByID, PassHandler_List,
      PassHandler_ListByUser, PassHandler_ListByPaid, PassHandler_SetPaid

LEMMA ReservationHandlersKeep ==
  ASSUME DeskTypeOK, NEW who \in Users,
         \/ ReservationHandler_Register(who) \/ ReservationHandler_RegisterAdmin(who)
         \/ ReservationHandler_Cancel(who) \/ ReservationHandler_CancelAdmin(who)
         \/ ReservationHandler_ConfirmPending(who) \/ ReservationHandler_RejectPending(who)
         \/ ReservationHandler_Forgive(who) \/ ReservationHandler_MarkNoShow(who)
         \/ ReservationHandler_CompleteReservation(who)
  PROVE  Keeps(who)
<1>0. Schema(db)
  BY DEF DeskTypeOK
<1> USE <1>0, OwnedSane, AnswerSane
<1>1. CASE ReservationHandler_Register(who) \/ ReservationHandler_RegisterAdmin(who)
  BY <1>1, RegistrationsSane DEF ReservationHandler_Register, ReservationHandler_RegisterAdmin
<1>2. CASE ReservationHandler_Cancel(who) \/ ReservationHandler_CancelAdmin(who)
  BY <1>2, CancellationSane DEF ReservationHandler_Cancel, ReservationHandler_CancelAdmin
<1>3. CASE \/ ReservationHandler_ConfirmPending(who) \/ ReservationHandler_RejectPending(who)
           \/ ReservationHandler_Forgive(who)
  BY <1>3, SettlementSane
  DEF ReservationHandler_ConfirmPending, ReservationHandler_RejectPending,
      ReservationHandler_Forgive
<1>4. CASE ReservationHandler_MarkNoShow(who) \/ ReservationHandler_CompleteReservation(who)
  BY <1>4, SettlementSane
  DEF ReservationHandler_MarkNoShow, ReservationHandler_CompleteReservation
<1> QED
  BY <1>1, <1>2, <1>3, <1>4

LEMMA ReservationListsKeep ==
  ASSUME DeskTypeOK, NEW who \in Users,
         \/ ReservationHandler_ListByUser(who) \/ ReservationHandler_ListUpcomingByUser(who)
         \/ ReservationHandler_GetByID(who) \/ ReservationHandler_ListByDog(who)
         \/ ReservationHandler_ListByPass(who) \/ ReservationHandler_ListByActivity(who)
         \/ ReservationHandler_ListAll(who) \/ ReservationHandler_ListUpcomingAll(who)
         \/ ReservationHandler_ListPending(who) \/ ReservationHandler_ListActivityRoster(who)
         \/ AttendanceHandler_List(who) \/ AttendanceHandler_DownloadCSV(who)
  PROVE  Keeps(who)
<1>0. Schema(db)
  BY DEF DeskTypeOK
<1> USE <1>0, BookingListsSane, OwnedSane, AnswerSane
<1>1. CASE ReservationHandler_ListByUser(who) \/ ReservationHandler_ListUpcomingByUser(who)
  BY <1>1 DEF ReservationHandler_ListByUser, ReservationHandler_ListUpcomingByUser
<1>2. CASE ReservationHandler_GetByID(who) \/ ReservationHandler_ListByDog(who)
  BY <1>2 DEF ReservationHandler_GetByID, ReservationHandler_ListByDog
<1>3. CASE ReservationHandler_ListByPass(who) \/ ReservationHandler_ListByActivity(who)
  BY <1>3 DEF ReservationHandler_ListByPass, ReservationHandler_ListByActivity
<1>4. CASE \/ ReservationHandler_ListAll(who) \/ ReservationHandler_ListUpcomingAll(who)
           \/ ReservationHandler_ListPending(who) \/ ReservationHandler_ListActivityRoster(who)
  BY <1>4 DEF ReservationHandler_ListAll, ReservationHandler_ListUpcomingAll,
              ReservationHandler_ListPending, ReservationHandler_ListActivityRoster
<1>5. CASE AttendanceHandler_List(who) \/ AttendanceHandler_DownloadCSV(who)
  BY <1>5 DEF AttendanceHandler_List, AttendanceHandler_DownloadCSV
<1> QED
  BY <1>1, <1>2, <1>3, <1>4, <1>5

LEMMA UserHandlersKeep ==
  ASSUME DeskTypeOK, NEW who \in Users,
         \/ UserHandler_GetMe(who) \/ UserHandler_GetByID(who)
         \/ UserHandler_List(who) \/ UserHandler_ListEmails(who)
  PROVE  Keeps(who)
<1>1. Schema(db)
  BY DEF DeskTypeOK
<1> QED
  BY <1>1, UsersSane, OwnedSane, AnswerSane
  DEF UserHandler_GetMe, UserHandler_GetByID, UserHandler_List, UserHandler_ListEmails

LEMMA AdminKeeps ==
  ASSUME DeskTypeOK, NEW who \in Users, Admin(who)
  PROVE  Keeps(who)
BY UserHandlersKeep, PassHandlersKeep, ReservationHandlersKeep, ReservationListsKeep,
   DogHandlersKeep, DogListsKeep, ActivityHandlersKeep, CatalogueHandlersKeep DEF Admin

LEMMA DeskSteps == DeskTypeOK /\ [DeskNext]_deskVars => DeskTypeOK'
<1> SUFFICES ASSUME DeskTypeOK, [DeskNext]_deskVars PROVE DeskTypeOK'
  OBVIOUS
<1>1. CASE UNCHANGED deskVars
  BY <1>1 DEF deskVars, DeskTypeOK
<1>2. ASSUME NEW who \in Users, AnyUser(who) PROVE Keeps(who)
  BY <1>2, UserHandlersKeep, PassHandlersKeep, ReservationHandlersKeep, ReservationListsKeep,
     DogHandlersKeep, ActivityHandlersKeep DEF AnyUser
<1>3. ASSUME NEW who \in Users, Admin(who) PROVE Keeps(who)
  BY <1>3, AdminKeeps
<1>4. ASSUME NEW who \in Users, RequireRole(who) PROVE Keeps(who)
  <2>1. Sane(Fail("forbidden"))
    BY SaneOutcomes DEF DeskTypeOK
  <2> QED
    BY <1>4, <2>1, AnswerSane DEF RequireRole
<1> QED
  BY <1>1, <1>2, <1>3, <1>4 DEF DeskNext, Keeps

LEMMA DeskStarts == DeskInit => DeskTypeOK
BY ApiAssumption DEF DeskInit, DeskTypeOK

(* The schema of the migrations: every request of every user leaves rows   *)
(* of their columns' types whose references are there, at most as many     *)
(* sessions left on a pass as it was sold with, and ids within what the    *)
(* identity has given.                                                     *)
THEOREM SchemaKept == DeskSpec => []DeskTypeOK
BY DeskStarts, DeskSteps, PTL DEF DeskSpec

-----------------------------------------------------------------------------
(* A request answered with an error                                        *)

(* A use case that fails has changed nothing, or one row of an activity or *)
(* a pass whole.                                                           *)
Edited(then) ==
  \E t \in {"activities", "passes"} : \E id \in Rows(db[t]) :
    then[t][id] # None /\ then = [db EXCEPT ![t][id] = then[t][id]]

Whole(out) ==
  out.error # None => out.db = db \/ (out.error = "internal" /\ Edited(out.db))

(* What an answer promises of the tables it leaves.                        *)
Truthful ==
  asked' # asked /\ answer'.code >= 400 => db' = db \/ (answer'.code = 500 /\ EditStored)

(* No error of the handlers has the name of the one they do not know.      *)
LEMMA InternalIs500 == StatusOf("internal") = 500
<1>1. \A table \in ErrorTables : "internal" \notin DOMAIN table
  BY DEF ErrorTables, LookupErrors, ReservationErrors, RegistrationErrors, ClosingErrors,
         UniqueErrors, ClassErrors, CatalogueErrors, Forbidden
<1> QED
  BY <1>1 DEF StatusOf

LEMMA AnswerWhole ==
  \A who, success, out :
    success \in {200, 201, 204} /\ Whole(out) /\ Answer(who, success, out) => Truthful
<1> SUFFICES ASSUME NEW who, NEW success \in {200, 201, 204}, NEW out, Whole(out),
                    Answer(who, success, out), answer'.code >= 400
             PROVE  db' = db \/ (answer'.code = 500 /\ EditStored)
  BY DEF Truthful
<1>1. out.error # None /\ db' = out.db
  BY DEF Answer
<1>2. out.error = "internal" => answer'.code = 500
  BY <1>1, InternalIs500 DEF Answer
<1>3. Edited(db') => EditStored
  BY DEF Edited, EditStored
<1> QED
  BY <1>1, <1>2, <1>3 DEF Whole

LEMMA AnswerTruthful ==
  \A who, success, out :
    success \in {200, 201, 204} /\ Neat(out) /\ Answer(who, success, out) => Truthful
<1>1. \A out : Neat(out) => Whole(out)
  BY DEF Neat, Whole
<1> QED
  BY <1>1, AnswerWhole

(* An UPDATE of a row there was, by a row there may be.                    *)
LEMMA EditIsWhole ==
  ASSUME Schema(db), NEW t \in {"activities", "passes"}, NEW id \in Rows(db[t]), NEW row,
         row # None
  PROVE  Edited([db EXCEPT ![t][id] = row])
<1> DEFINE then == [db EXCEPT ![t][id] = row]
<1>1. t \in DOMAIN db /\ id \in DOMAIN db[t]
  BY Parts DEF Rows, Tables
<1>2. then[t][id] = row
  BY <1>1
<1>3. then = [db EXCEPT ![t][id] = then[t][id]]
  BY <1>2
<1> HIDE DEF then
<1>4. Edited(then)
  BY <1>2, <1>3 DEF Edited
<1> QED
  BY <1>4 DEF then

LEMMA ReadingBack ==
  ASSUME NEW out, NEW succeeds, Whole(out), out.error = None => out.db = db \/ Edited(out.db)
  PROVE  Whole(ReadBack(out, succeeds))
BY DEF ReadBack, Whole

LEMMA ActivityEditsWhole ==
  ASSUME Schema(db), NEW who, NEW a, NEW patch \in ActivityPatches, NEW counted
  PROVE  Whole(ReadBack(ModifyActivity(who, a, patch), counted))
<1> DEFINE out == ModifyActivity(who, a, patch)
           row == PatchedActivity(db.activities[a], patch)
<1>1. Neat(out)
  BY ActivityOutcomes
<1>2. CASE out.db = db
  BY <1>1, <1>2, ReadingBack DEF Neat, Whole
<1>3. CASE out.db # db
  <2>1. /\ GetActivity(who, a).error = None /\ PatchValid(patch)
        /\ out = UpdateActivity(a, row)
    <3>1. \A x, y : GetActivity(x, y).db = db
      BY DEF GetActivity, ReadActivity, ScanActivities, ScanAs, Fail, Ok
    <3> QED
      BY <1>3, <3>1 DEF ModifyActivity, Fail, Ok
  <2>2. out.db = [db EXCEPT !.activities[a] = row]
    BY <1>3, <2>1 DEF UpdateActivity, Saved, Fail
  <2>3. a \in Stored("activities")
    BY <2>1, ActivityScanSane
  <2>4. /\ db.activities[a] \in ActivityRow
        /\ db.activities[a].dog \in Stored("dogs") \cup {None}
    BY <2>3, StoredColumns, StoredRows, Parts DEF References
  <2>5. row \in ActivityRow
    BY <2>1, <2>4, PatchedActivityTyped
  <2>6. row # None
    BY <2>5, ApiAssumption
  <2> HIDE DEF row, out
  <2>7. Edited(out.db)
    BY <2>2, <2>3, <2>6, StoredRows, EditIsWhole
  <2> QED
    BY <1>1, <2>7, ReadingBack DEF Neat, Whole, out
<1> QED
  BY <1>2, <1>3

(* An UPDATE of a pass, read back or not.                                  *)
LEMMA PassUpdateWhole ==
  ASSUME Schema(db), NEW p \in Stored("passes"), NEW row \in PassRow, NEW again
  PROVE  Whole(ReadBack(UpdatePass(p, row), again))
<1>1. row # None
  BY ApiAssumption
<1>2. Edited([db EXCEPT !.passes[p] = row])
  BY <1>1, StoredRows, EditIsWhole
<1> QED
  BY <1>2 DEF UpdatePass, Saved, ReadBack, Whole

LEMMA PassEditsWhole ==
  ASSUME Schema(db), NEW p, NEW again
  PROVE  /\ \A patch \in PassPatches : Whole(ModifyPass(p, patch, again))
         /\ \A flag \in BOOLEAN : Whole(SetPassPaid(p, flag, again))
<1>1. \A out : Neat(out) => Whole(out)
  BY DEF Neat, Whole
<1>2. GetPass(p).error = None => p \in Stored("passes")
  BY NoneIsNoError DEF GetPass, ReadPass, Fail
<1>3. p \in Stored("passes") => db.passes[p] \in PassRow
  BY StoredColumns
<1>4. ASSUME NEW patch \in PassPatches PROVE Whole(ModifyPass(p, patch, again))
  <2>1. CASE GetPass(p).error # None \/ \E f \in DOMAIN patch : ~PassFieldValid(f, patch[f])
    BY <1>1, <2>1, PassOutcomes, Outcomes DEF ModifyPass
  <2>2. ASSUME GetPass(p).error = None, \A f \in DOMAIN patch : PassFieldValid(f, patch[f])
        PROVE  Whole(ModifyPass(p, patch, again))
    <3>1. Patched(db.passes[p], patch) \in PassRow
      BY <1>2, <1>3, <2>2, PatchedPassTyped
    <3>2. Whole(ReadBack(UpdatePass(p, Patched(db.passes[p], patch)), again))
      BY <1>2, <2>2, <3>1, PassUpdateWhole
    <3> QED
      BY <1>1, <2>2, <3>2, PassOutcomes DEF ModifyPass
  <2> QED
    BY <2>1, <2>2
<1>5. ASSUME NEW flag \in BOOLEAN PROVE Whole(SetPassPaid(p, flag, again))
  <2>1. CASE GetPass(p).error # None
    BY <1>1, <2>1, PassOutcomes DEF SetPassPaid
  <2>2. CASE GetPass(p).error = None
    <3>1. [db.passes[p] EXCEPT !.paid = flag] \in PassRow
      BY <1>2, <1>3, <2>2 DEF PassRow
    <3> QED
      BY <1>2, <2>2, <3>1, PassUpdateWhole DEF SetPassPaid
  <2> QED
    BY <2>1, <2>2
<1> QED
  BY <1>4, <1>5

LEMMA OwnedNeat ==
  \A who, owner, out : Neat(out) => Neat(Owned(who, owner, out))
BY Outcomes DEF Owned

LEMMA DogHandlersTruthful ==
  ASSUME NEW who,
         \/ DogHandler_Register(who) \/ DogHandler_GetByID(who) \/ DogHandler_ListByOwner(who)
         \/ DogHandler_Modify(who) \/ DogHandler_AddTrait(who) \/ DogHandler_AddTrigger(who)
         \/ DogHandler_RemoveIncompatibility(who) \/ DogHandler_Delete(who)
         \/ DogHandler_SetNeutered(who) \/ DogHandler_SetHeat(who) \/ DogHandler_SetPhoto(who)
  PROVE  Truthful
<1>1. CASE DogHandler_Register(who)
  BY <1>1, DogOutcomes, AnswerTruthful DEF DogHandler_Register
<1>2. CASE DogHandler_GetByID(who)
  BY <1>2, DogOutcomes, OwnedNeat, AnswerTruthful DEF DogHandler_GetByID
<1>3. CASE DogHandler_ListByOwner(who)
  BY <1>3, DogOutcomes, Outcomes, OwnedNeat, AnswerTruthful
  DEF DogHandler_ListByOwner, ListDogsByOwner
<1>4. CASE DogHandler_Modify(who)
  BY <1>4, DogOutcomes, AnswerTruthful DEF DogHandler_Modify
<1>5. CASE DogHandler_AddTrait(who)
  BY <1>5, DogOutcomes, AnswerTruthful, BooleanChoice DEF DogHandler_AddTrait, AddDogTrait
<1>6. CASE DogHandler_AddTrigger(who)
  BY <1>6, DogOutcomes, AnswerTruthful, BooleanChoice DEF DogHandler_AddTrigger, AddDogTrigger
<1>7. CASE DogHandler_RemoveIncompatibility(who)
  BY <1>7, DogOutcomes, AnswerTruthful DEF DogHandler_RemoveIncompatibility
<1>8. CASE DogHandler_Delete(who)
  BY <1>8, DogOutcomes, AnswerTruthful DEF DogHandler_Delete
<1>9. CASE DogHandler_SetNeutered(who)
  BY <1>9, DogOutcomes, AnswerTruthful DEF DogHandler_SetNeutered
<1>10. CASE DogHandler_SetHeat(who)
  BY <1>10, DogOutcomes, AnswerTruthful DEF DogHandler_SetHeat
<1>11. CASE DogHandler_SetPhoto(who)
  BY <1>11, DogOutcomes, AnswerTruthful DEF DogHandler_SetPhoto
<1> QED
  BY <1>1, <1>2, <1>3, <1>4, <1>5, <1>6, <1>7, <1>8, <1>9, <1>10, <1>11

LEMMA DogListsTruthful ==
  ASSUME NEW who,
         \/ DogHandler_List(who) \/ DogHandler_ListActiveWithOwner(who)
         \/ DogHandler_ListByIsActive(who) \/ DogHandler_ListByIncompatibility(who)
         \/ DogHandler_ListByBreed(who) \/ DogHandler_ListBySex(who)
         \/ DogHandler_ListByNeutered(who) \/ DogHandler_ListByHeat(who)
         \/ DogHandler_ListByAgeBracket(who) \/ DogHandler_ListBySizeBracket(who)
  PROVE  Truthful
<1> USE Outcomes, DogOutcomes, AnswerTruthful
<1>1. CASE DogHandler_List(who) \/ DogHandler_ListActiveWithOwner(who)
  BY <1>1 DEF DogHandler_List, DogHandler_ListActiveWithOwner, ListAllDogs, ListActiveDogs
<1>2. CASE DogHandler_ListByIsActive(who)
  BY <1>2 DEF DogHandler_ListByIsActive, ListDogsByActive
<1>3. CASE DogHandler_ListByIncompatibility(who) \/ DogHandler_ListByBreed(who)
  BY <1>3 DEF DogHandler_ListByIncompatibility, ListDogsByLabel, DogHandler_ListByBreed,
              ListDogsByBreed
<1>4. CASE DogHandler_ListBySex(who)
  BY <1>4 DEF DogHandler_ListBySex, ListDogsBySex
<1>5. CASE DogHandler_ListByNeutered(who) \/ DogHandler_ListByHeat(who)
  BY <1>5 DEF DogHandler_ListByNeutered, DogHandler_ListByHeat, ListDogsByNeutered, ListDogsByHeat
<1>6. CASE DogHandler_ListByAgeBracket(who) \/ DogHandler_ListBySizeBracket(who)
  BY <1>6 DEF DogHandler_ListByAgeBracket, DogHandler_ListBySizeBracket, ListDogsByAge,
              ListDogsBySize
<1> QED
  BY <1>1, <1>2, <1>3, <1>4, <1>5, <1>6

LEMMA ActivityHandlersTruthful ==
  ASSUME Schema(db), NEW who,
         \/ ActivityHandler_Register(who) \/ ActivityHandler_List(who)
         \/ ActivityHandler_ListUpcoming(who) \/ ActivityHandler_GetByID(who)
         \/ ActivityHandler_Modify(who) \/ ActivityHandler_Delete(who)
         \/ ActivityHandler_Close(who) \/ ActivityHandler_BulkComplete(who)
  PROVE  Truthful
<1> USE ActivityOutcomes, AnswerTruthful
<1>1. CASE ActivityHandler_Register(who)
  BY <1>1 DEF ActivityHandler_Register
<1>2. CASE ActivityHandler_List(who) \/ ActivityHandler_ListUpcoming(who)
  BY <1>2 DEF ActivityHandler_List, ActivityHandler_ListUpcoming
<1>3. CASE ActivityHandler_GetByID(who) \/ ActivityHandler_Modify(who)
  BY <1>3, ActivityEditsWhole, AnswerWhole DEF ActivityHandler_GetByID, ActivityHandler_Modify
<1>4. CASE ActivityHandler_Delete(who) \/ ActivityHandler_Close(who)
  BY <1>4 DEF ActivityHandler_Delete, ActivityHandler_Close
<1>5. CASE ActivityHandler_BulkComplete(who)
  BY <1>5 DEF ActivityHandler_BulkComplete
<1> QED
  BY <1>1, <1>2, <1>3, <1>4, <1>5

LEMMA CatalogueHandlersTruthful ==
  ASSUME NEW who,
         \/ IncompatibilityHandler_Register(who) \/ IncompatibilityHandler_List(who)
         \/ IncompatibilityHandler_GetByID(who) \/ IncompatibilityHandler_Modify(who)
         \/ IncompatibilityHandler_Delete(who)
  PROVE  Truthful
BY LabelOutcomes, AnswerTruthful
DEF IncompatibilityHandler_Register, IncompatibilityHandler_List, IncompatibilityHandler_GetByID,
    IncompatibilityHandler_Modify, IncompatibilityHandler_Delete

LEMMA PassHandlersTruthful ==
  ASSUME Schema(db), NEW who,
         \/ PassHandler_Register(who) \/ PassHandler_Modify(who) \/ PassHandler_GetByID(who)
         \/ PassHandler_List(who) \/ PassHandler_ListByUser(who) \/ PassHandler_ListByPaid(who)
         \/ PassHandler_SetPaid(who)
  PROVE  Truthful
BY PassOutcomes, PassEditsWhole, OwnedNeat, AnswerTruthful, AnswerWhole
DEF PassHandler_Register, PassHandler_Modify, PassHandler_GetByID, PassHandler_List,
    PassHandler_ListByUser, PassHandler_ListByPaid, PassHandler_SetPaid

LEMMA ReservationHandlersTruthful ==
  ASSUME NEW who,
         \/ ReservationHandler_Register(who) \/ ReservationHandler_RegisterAdmin(who)
         \/ ReservationHandler_Cancel(who) \/ ReservationHandler_CancelAdmin(who)
         \/ ReservationHandler_ConfirmPending(who) \/ ReservationHandler_RejectPending(who)
         \/ ReservationHandler_Forgive(who) \/ ReservationHandler_MarkNoShow(who)
         \/ ReservationHandler_CompleteReservation(who)
  PROVE  Truthful
<1> USE BookingOutcomes, OwnedNeat, AnswerTruthful
<1>1. CASE ReservationHandler_Register(who) \/ ReservationHandler_RegisterAdmin(who)
  BY <1>1 DEF ReservationHandler_Register, ReservationHandler_RegisterAdmin
<1>2. CASE ReservationHandler_Cancel(who) \/ ReservationHandler_CancelAdmin(who)
  BY <1>2 DEF ReservationHandler_Cancel, ReservationHandler_CancelAdmin
<1>3. CASE \/ ReservationHandler_ConfirmPending(who) \/ ReservationHandler_RejectPending(who)
           \/ ReservationHandler_Forgive(who)
  BY <1>3 DEF ReservationHandler_ConfirmPending, ReservationHandler_RejectPending,
              ReservationHandler_Forgive
<1>4. CASE ReservationHandler_MarkNoShow(who) \/ ReservationHandler_CompleteReservation(who)
  BY <1>4 DEF ReservationHandler_MarkNoShow, ReservationHandler_CompleteReservation
<1> QED
  BY <1>1, <1>2, <1>3, <1>4

LEMMA ReservationListsTruthful ==
  ASSUME NEW who,
         \/ ReservationHandler_ListByUser(who) \/ ReservationHandler_ListUpcomingByUser(who)
         \/ ReservationHandler_GetByID(who) \/ ReservationHandler_ListByDog(who)
         \/ ReservationHandler_ListByPass(who) \/ ReservationHandler_ListByActivity(who)
         \/ ReservationHandler_ListAll(who) \/ ReservationHandler_ListUpcomingAll(who)
         \/ ReservationHandler_ListPending(who) \/ ReservationHandler_ListActivityRoster(who)
         \/ AttendanceHandler_List(who) \/ AttendanceHandler_DownloadCSV(who)
  PROVE  Truthful
<1> USE BookingListOutcomes, OwnedNeat, AnswerTruthful
<1>1. CASE ReservationHandler_ListByUser(who) \/ ReservationHandler_ListUpcomingByUser(who)
  BY <1>1 DEF ReservationHandler_ListByUser, ReservationHandler_ListUpcomingByUser
<1>2. CASE ReservationHandler_GetByID(who) \/ ReservationHandler_ListByDog(who)
  BY <1>2 DEF ReservationHandler_GetByID, ReservationHandler_ListByDog
<1>3. CASE ReservationHandler_ListByPass(who) \/ ReservationHandler_ListByActivity(who)
  BY <1>3 DEF ReservationHandler_ListByPass, ReservationHandler_ListByActivity
<1>4. CASE \/ ReservationHandler_ListAll(who) \/ ReservationHandler_ListUpcomingAll(who)
           \/ ReservationHandler_ListPending(who) \/ ReservationHandler_ListActivityRoster(who)
  BY <1>4 DEF ReservationHandler_ListAll, ReservationHandler_ListUpcomingAll,
              ReservationHandler_ListPending, ReservationHandler_ListActivityRoster
<1>5. CASE AttendanceHandler_List(who) \/ AttendanceHandler_DownloadCSV(who)
  BY <1>5 DEF AttendanceHandler_List, AttendanceHandler_DownloadCSV
<1> QED
  BY <1>1, <1>2, <1>3, <1>4, <1>5

LEMMA UserHandlersTruthful ==
  ASSUME NEW who,
         \/ UserHandler_GetMe(who) \/ UserHandler_GetByID(who)
         \/ UserHandler_List(who) \/ UserHandler_ListEmails(who)
  PROVE  Truthful
<1>1. /\ \A user : Neat(GetUserRow(user))
      /\ \A page : Neat(ListUsers(page))
      /\ Neat(ListAllEmails)
  BY Outcomes DEF GetUserRow, ListUsers, ListAllEmails
<1> QED
  BY <1>1, OwnedNeat, AnswerTruthful
  DEF UserHandler_GetMe, UserHandler_GetByID, UserHandler_List, UserHandler_ListEmails

LEMMA EveryAnswerTruthful == Schema(db) /\ DeskNext => Truthful
<1> SUFFICES ASSUME Schema(db), NEW who, AnyUser(who) \/ Admin(who) \/ RequireRole(who)
             PROVE  Truthful
  BY DEF DeskNext
<1>1. CASE AnyUser(who)
  BY <1>1, UserHandlersTruthful, PassHandlersTruthful, ReservationHandlersTruthful,
     ReservationListsTruthful, DogHandlersTruthful, ActivityHandlersTruthful DEF AnyUser
<1>2. CASE Admin(who)
  BY <1>2, UserHandlersTruthful, PassHandlersTruthful, ReservationHandlersTruthful,
     ReservationListsTruthful, DogHandlersTruthful, DogListsTruthful, ActivityHandlersTruthful,
     CatalogueHandlersTruthful DEF Admin
<1>3. CASE RequireRole(who)
  BY <1>3, Outcomes, AnswerTruthful DEF RequireRole
<1> QED
  BY <1>1, <1>2, <1>3

(* WithinTx (transaction.go:47-75): a request answered with an error, of   *)
(* any handler and at any statement, has changed no table, but for the 500 *)
(* of an edit of one activity or one pass, which is stored whole and could *)
(* not be read back (activity_handler.go:361-365, pass/modify.go:95,       *)
(* set_paid.go:90).                                                        *)
THEOREM RefusalsAreClean == DeskSpec => NothingHalfDone
<1>1. DeskTypeOK /\ [DeskNext]_deskVars =>
        [asked' # asked /\ answer'.code >= 400 =>
           db' = db \/ (answer'.code = 500 /\ EditStored)]_deskVars
  BY EveryAnswerTruthful DEF Truthful, DeskTypeOK
<1> QED
  BY <1>1, SchemaKept, PTL DEF DeskSpec, NothingHalfDone

-----------------------------------------------------------------------------
(* Who sees and changes what                                               *)

(* What an answer to somebody who is no administrator may show and change. *)
OwnOrEveryones(who, tables, rows) ==
  \A s \in rows : OwnerOf(tables, s[1], s[2]) \in {who, None}

Private(who, out) ==
  /\ OwnOrEveryones(who, out.db, out.rows)
  /\ \A r \in DOMAIN db.bookings : out.db.bookings[r] # db.bookings[r] =>
       OwnerOf(out.db, "booking", r) = who
  /\ \A p \in DOMAIN db.passes : out.db.passes[p] # db.passes[p] =>
       OwnerOf(out.db, "pass", p) = who
  /\ out.db.dogs = db.dogs /\ out.db.activities = db.activities /\ out.db.labels = db.labels

LEMMA OwnersByKind ==
  ASSUME NEW tables, NEW id
  PROVE  /\ OwnerOf(tables, "user", id) = id
         /\ OwnerOf(tables, "dog", id) = tables.dogs[id].owner
         /\ OwnerOf(tables, "pass", id) = tables.passes[id].user
         /\ OwnerOf(tables, "schedule", id) = None
         /\ OwnerOf(tables, "booking", id) = tables.dogs[tables.bookings[id].dog].owner
         /\ OwnerOf(tables, "activity", id) =
              IF tables.activities[id].dog = None THEN None
              ELSE tables.dogs[tables.activities[id].dog].owner
BY DEF OwnerOf

(* An answer that only reads.                                              *)
LEMMA ReadingPrivately ==
  ASSUME NEW who
  PROVE  /\ \A error : Private(who, Fail(error))
         /\ \A error, then : Private(who, RollBack(error, then))
         /\ \A rows : OwnOrEveryones(who, db, rows) => Private(who, Ok(rows))
BY DEF Private, OwnOrEveryones, Fail, RollBack, Ok

LEMMA ShownPrivately ==
  ASSUME NEW who
  PROVE  /\ \A ids : (\A id \in ids : db.dogs[id].owner = who) =>
                Private(who, Ok(Shown("dog", ids)))
         /\ \A ids : (\A id \in ids : db.passes[id].user = who) =>
                Private(who, Ok(Shown("pass", ids)))
         /\ \A ids : (\A id \in ids : db.dogs[db.bookings[id].dog].owner = who) =>
                Private(who, Ok(Shown("booking", ids)))
         /\ \A ids : (\A id \in ids : \/ db.activities[id].dog = None
                                      \/ db.dogs[db.activities[id].dog].owner = who) =>
                Private(who, Ok(Shown("activity", ids)))
         /\ \A ids : Private(who, Ok(Shown("schedule", ids)))
         /\ Private(who, Ok(Shown("user", {who})))
<1>1. \A kind, ids : (\A id \in ids : OwnerOf(db, kind, id) \in {who, None}) =>
        OwnOrEveryones(who, db, Shown(kind, ids))
  BY DEF OwnOrEveryones, Shown
<1>2. \A kind, ids : (\A id \in ids : OwnerOf(db, kind, id) \in {who, None}) =>
        Private(who, Ok(Shown(kind, ids)))
  BY <1>1, ReadingPrivately
<1>3. /\ \A ids : (\A id \in ids : db.dogs[id].owner = who) =>
           \A id \in ids : OwnerOf(db, "dog", id) \in {who, None}
      /\ \A ids : (\A id \in ids : db.passes[id].user = who) =>
           \A id \in ids : OwnerOf(db, "pass", id) \in {who, None}
      /\ \A id \in {who} : OwnerOf(db, "user", id) \in {who, None}
  BY OwnersByKind
<1>4. \A ids : (\A id \in ids : db.dogs[db.bookings[id].dog].owner = who) =>
        \A id \in ids : OwnerOf(db, "booking", id) \in {who, None}
  BY OwnersByKind
<1>5. \A ids : (\A id \in ids : \/ db.activities[id].dog = None
                                \/ db.dogs[db.activities[id].dog].owner = who) =>
        \A id \in ids : OwnerOf(db, "activity", id) \in {who, None}
  BY OwnersByKind
<1>6. \A ids : \A id \in ids : OwnerOf(db, "schedule", id) \in {who, None}
  BY OwnersByKind
<1> QED
  BY <1>2, <1>3, <1>4, <1>5, <1>6

(* RequireOwnershipOrAdmin lets nobody else through.                       *)
LEMMA OwnedPrivately ==
  ASSUME NEW who, ~Administrator(who), NEW owner, NEW out,
         owner = who /\ owner # 0 => Private(who, out)
  PROVE  Private(who, Owned(who, owner, out))
BY ReadingPrivately DEF Owned, RequireOwnershipOrAdmin

LEMMA UsersPrivate ==
  ASSUME NEW who
  PROVE  Private(who, GetUserRow(who))
BY ReadingPrivately, ShownPrivately DEF GetUserRow

LEMMA PassesPrivate ==
  ASSUME NEW who, NEW page
  PROVE  Private(who, ListByUserPasses(who, page))
<1> DEFINE ids == NewestFirst(PassesOwnedBy(who), NormalizePagination(page))
<1>1. \A id \in ids : db.passes[id].user = who
  BY Cuts DEF PassesOwnedBy
<1> HIDE DEF ids
<1>2. Private(who, Ok(Shown("pass", ids)))
  BY <1>1, ShownPrivately
<1> QED
  BY <1>2, ReadingPrivately DEF ListByUserPasses, ListPasses, ids

LEMMA DogsPrivate ==
  ASSUME NEW who
  PROVE  /\ \A page : Private(who, ListDogsByOwner(who, page))
         /\ \A d : db.dogs[d].owner = who => Private(who, GetDog(d))
         /\ \A d : GetDog(d).error # None => Private(who, GetDog(d))
<1>1. \A ids : (\A id \in ids : db.dogs[id].owner = who) => Private(who, ScanDogs(ids))
  BY ReadingPrivately, ShownPrivately DEF ScanDogs
<1>2. ASSUME NEW page PROVE Private(who, ListDogsByOwner(who, page))
  <2> DEFINE ids == NewestFirst(DogsByOwner(who), NormalizePagination(page))
  <2>1. \A id \in ids : db.dogs[id].owner = who
    BY Cuts DEF DogsByOwner, DogsWith
  <2> HIDE DEF ids
  <2> QED
    BY <1>1, <2>1, ReadingPrivately DEF ListDogsByOwner, ListDogs, ids
<1>3. \A d : db.dogs[d].owner = who => Private(who, GetDog(d))
  BY <1>1, ReadingPrivately DEF GetDog, ReadDog
<1>4. \A d : GetDog(d).error # None => Private(who, GetDog(d))
  BY ReadingPrivately DEF GetDog, ReadDog, ScanDogs, Ok
<1> QED
  BY <1>2, <1>3, <1>4

LEMMA ActivitiesPrivate ==
  ASSUME NEW who, ~Administrator(who)
  PROVE  /\ \A a : Private(who, GetActivity(who, a))
         /\ \A page : Private(who, ListUpcomingActivities(who, page))
         /\ \A filter, page : Private(who, ListActivities(who, filter, page))
<1>1. \A a : VisibleTo(who, a) => \/ db.activities[a].dog = None
                                  \/ db.dogs[db.activities[a].dog].owner = who
  BY DEF VisibleTo
<1>2. \A ids : (\A a \in ids : VisibleTo(who, a)) => Private(who, ScanActivities(ids))
  BY <1>1, ReadingPrivately, ShownPrivately DEF ScanActivities, ScanAs
<1>3. \A a : Private(who, GetActivity(who, a))
  BY <1>2, ReadingPrivately DEF GetActivity, ReadActivity
<1>4. \A ids, page : (\A a \in ids : VisibleTo(who, a)) =>
        Private(who, ScanActivities(Chronological(ids, page)))
  BY <1>2, Cuts
<1>5. /\ \A closed, from, to : \A a \in ActivitiesByClosed(who, closed, from, to) :
           VisibleTo(who, a)
      /\ \A from, to : \A a \in ActivitiesBetween(who, from, to) : VisibleTo(who, a)
      /\ \A a \in UpcomingActivities(who) : VisibleTo(who, a)
  BY DEF ActivitiesByClosed, ActivitiesBetween, UpcomingActivities, ActivitiesWith
<1>6. \A page : Private(who, ListUpcomingActivities(who, page))
  BY <1>4, <1>5 DEF ListUpcomingActivities
<1>7. \A ids : Private(who, ScanAs("schedule", ids))
  BY ReadingPrivately, ShownPrivately DEF ScanAs
<1>8. \A filter, page : Private(who, ListActivities(who, filter, page))
  BY <1>4, <1>5, <1>7, ReadingPrivately DEF ListActivities
<1> QED
  BY <1>3, <1>6, <1>8

LEMMA BookingListsPrivate ==
  ASSUME NEW who
  PROVE  /\ \A r : Private(who, GetReservation(who, r))
         /\ \A status, from, to, page :
              Private(who, ListByUserReservations(who, status, from, to, page))
         /\ \A page : Private(who, ListUpcomingByUser(who, page))
<1>1. \A ids : (\A r \in ids : db.dogs[db.bookings[r].dog].owner = who) =>
        Private(who, ScanViews(ids))
  BY ReadingPrivately, ShownPrivately DEF ScanViews
<1>2. ASSUME NEW r PROVE Private(who, GetReservation(who, r))
  <2>1. db.dogs[db.bookings[r].dog].owner = who => Private(who, ReadView(r))
    BY <1>1, ReadingPrivately DEF ReadView
  <2>2. ReadView(r).error # None => Private(who, ReadView(r))
    BY ReadingPrivately DEF ReadView, ScanViews, Ok
  <2> QED
    BY <2>1, <2>2, ReadingPrivately DEF GetReservation, DogOfBooking
<1>3. ASSUME NEW status, NEW from, NEW to, NEW page
      PROVE  Private(who, ListByUserReservations(who, status, from, to, page))
  <2> DEFINE ids == NewestFirst(ViewsByUser(who, status, from, to), NormalizePagination(page))
  <2>1. \A r \in ids : db.dogs[db.bookings[r].dog].owner = who
    BY Cuts DEF ViewsByUser, BookingsWith
  <2> HIDE DEF ids
  <2> QED
    BY <1>1, <2>1, ReadingPrivately DEF ListByUserReservations, ids
<1>4. ASSUME NEW page PROVE Private(who, ListUpcomingByUser(who, page))
  <2> DEFINE ids == ByActivityDate(UpcomingViewsByUser(who), NormalizePagination(page))
  <2>1. \A r \in ids : db.dogs[db.bookings[r].dog].owner = who
    BY Cuts DEF UpcomingViewsByUser, BookingsWith
  <2> HIDE DEF ids
  <2> QED
    BY <1>1, <2>1, ReadingPrivately DEF ListUpcomingByUser, ids
<1> QED
  BY <1>2, <1>3, <1>4

-----------------------------------------------------------------------------
(* The session is of a pass of theirs, the booking for a dog of theirs.    *)
LEMMA RegistrationPrivate ==
  ASSUME Schema(db), NEW who, HasRoom("bookings"), NEW a, NEW d, NEW p
  PROVE  Private(who, RegisterReservation(who, a, d, p))
<1> DEFINE out == RegisterInTx(who, a, d, p, FALSE)
           row == NewBooking(a, d, p, Meeting(a, d, FALSE))
           id == NextId("bookings")
           then == Insert(ConsumedBy(p), "bookings", row)
<1>1. ASSUME Admitted(who, a, d, p, FALSE), out = Saved(Shown("booking", {id}), then)
      PROVE  Private(who, out)
  <2>1. /\ d \in Stored("dogs") /\ p \in Stored("passes") /\ db.passes[p].left > 0
        /\ db.dogs[d].owner = who /\ db.passes[p].user = who
    BY <1>1 DEF Admitted
  <2> DEFINE tables == ConsumedBy(p)
  <2>2. /\ Schema(tables) /\ tables.dogs = db.dogs /\ tables.labels = db.labels
        /\ tables.activities = db.activities /\ tables.bookings = db.bookings
        /\ tables.passes[p].user = db.passes[p].user /\ tables.last = db.last
        /\ \A x \in DOMAIN db.passes \ {p} : tables.passes[x] = db.passes[x]
    BY <2>1, Consumed
  <2>3. row.dog = d
    BY DEF NewBooking
  <2> HIDE DEF tables, row
  <2>4. DOMAIN tables = Tables \cup {"last"} /\ DOMAIN tables.last = Tables
        /\ tables.last["bookings"] \in Nat /\ Typed(tables.bookings, BookingRow)
    BY <2>2, Parts DEF Tables
  <2>5. /\ then.dogs = db.dogs /\ then.labels = db.labels /\ then.activities = db.activities
        /\ then.passes = tables.passes
        /\ then.bookings = [x \in DOMAIN db.bookings |->
             IF x - db.last["bookings"] \in {1} THEN <<row>>[x - db.last["bookings"]]
             ELSE db.bookings[x]]
    <3>1. DOMAIN <<row>> = {1}
      OBVIOUS
    <3>2. then = InsertAll(tables, "bookings", <<row>>)
      BY DEF Insert, tables
    <3> HIDE DEF then
    <3> QED
      BY <2>2, <2>4, <3>1, <3>2 DEF InsertAll, Tables
  <2>6. /\ \A x \in DOMAIN db.bookings \ {id} : then.bookings[x] = db.bookings[x]
        /\ id \in DOMAIN db.bookings /\ then.bookings[id] = row
    <3>1. /\ id = db.last["bookings"] + 1 /\ id \in DOMAIN db.bookings
          /\ DOMAIN db.bookings \subseteq Nat /\ db.last["bookings"] \in Nat
      BY <2>2, <2>4 DEF NextId, HasRoom, Typed
    <3>2. <<row>>[1] = row
      OBVIOUS
    <3> HIDE DEF id, then
    <3>3. \A x \in Nat : x - db.last["bookings"] = 1 <=> x = id
      BY <3>1
    <3> QED
      BY <2>5, <3>1, <3>2, <3>3
  <2> HIDE DEF then, id, out
  <2>7. out.db = then /\ out.rows = Shown("booking", {id})
    BY <1>1 DEF Saved
  <2>8. OwnerOf(then, "booking", id) = who /\ OwnerOf(then, "pass", p) = who
    <3>1. /\ OwnerOf(then, "booking", id) = then.dogs[then.bookings[id].dog].owner
          /\ OwnerOf(then, "pass", p) = then.passes[p].user
      BY OwnersByKind
    <3>2. then.dogs[then.bookings[id].dog].owner = who
      BY <2>1, <2>3, <2>5, <2>6
    <3>3. then.passes[p].user = who
      BY <2>1, <2>2, <2>5
    <3> QED
      BY <3>1, <3>2, <3>3
  <2>9. OwnOrEveryones(who, then, Shown("booking", {id}))
    BY <2>8 DEF OwnOrEveryones, Shown
  <2> QED
    BY <2>2, <2>5, <2>6, <2>7, <2>8, <2>9 DEF Private
<1>2. Private(who, out)
  <2> HIDE DEF out
  <2>1. \/ \E error : out = Fail(error)
        \/ \E error, x : out = RollBack(error, x)
        \/ Admitted(who, a, d, p, FALSE) /\ out = Saved(Shown("booking", {id}), then)
    BY RegistrationOutcomes DEF out
  <2> HIDE DEF then, id
  <2> QED
    BY <1>1, <2>1, ReadingPrivately
<1> QED
  BY <1>2, ReadingPrivately DEF RegisterReservation

(* The booking is for a dog of theirs, and so is the pass.                 *)
LEMMA CancellationPrivate ==
  ASSUME Schema(db), NEW who, NEW r
  PROVE  Private(who, CancelReservation(who, r))
<1> DEFINE late == SetStatus(db, r, "CANCELLED_LATE")
           inTime == SetStatus(db, r, "CANCELLED_IN_TIME")
           p == db.bookings[r].pass
           out == CancelInTx(who, r, FALSE)
<1>1. \/ \E error : out = Fail(error)
      \/ /\ r \in Stored("bookings") /\ db.dogs[db.bookings[r].dog].owner = who
         /\ db.passes[p].user = who
         /\ out \in {Moved(r, late), Moved(r, GiveBack(inTime, p))}
  BY DEF CancelInTx, DogOfBooking
<1>2. ASSUME r \in Stored("bookings"), db.dogs[db.bookings[r].dog].owner = who,
             db.passes[p].user = who
      PROVE  Private(who, Moved(r, late)) /\ Private(who, Moved(r, GiveBack(inTime, p)))
  <2>1. r \in Rows(db.bookings) /\ p \in Rows(db.passes)
    BY <1>2, StoredRows, BookingParents
  <2>2. ASSUME NEW then, then.dogs = db.dogs, then.labels = db.labels,
               then.activities = db.activities,
               then.bookings[r].dog = db.bookings[r].dog,
               \A x \in DOMAIN db.bookings \ {r} : then.bookings[x] = db.bookings[x],
               then.passes[p].user = who,
               \A x \in DOMAIN db.passes \ {p} : then.passes[x] = db.passes[x]
        PROVE  Private(who, Moved(r, then))
    <3>1. OwnerOf(then, "booking", r) = who /\ OwnerOf(then, "pass", p) = who
      <4>1. /\ OwnerOf(then, "booking", r) = then.dogs[then.bookings[r].dog].owner
            /\ OwnerOf(then, "pass", p) = then.passes[p].user
        BY OwnersByKind
      <4> QED
        BY <1>2, <2>2, <4>1
    <3>2. OwnOrEveryones(who, then, Shown("booking", {r}))
      BY <3>1 DEF OwnOrEveryones, Shown
    <3>3. Moved(r, then).db = then /\ Moved(r, then).rows = Shown("booking", {r})
      BY DEF Moved, Saved
    <3> HIDE DEF p
    <3> QED
      BY <2>2, <3>1, <3>2, <3>3 DEF Private
  <2>3. \A status \in Statuses : LET then == SetStatus(db, r, status)
          IN  /\ Schema(then) /\ then.passes = db.passes /\ then.dogs = db.dogs
              /\ then.labels = db.labels /\ then.activities = db.activities
              /\ DOMAIN then.bookings = DOMAIN db.bookings
              /\ then.bookings[r].dog = db.bookings[r].dog
              /\ \A x \in DOMAIN db.bookings \ {r} : then.bookings[x] = db.bookings[x]
    BY <2>1, StatusSet
  <2>4. "CANCELLED_LATE" \in Statuses /\ "CANCELLED_IN_TIME" \in Statuses
    BY DEF Statuses
  <2>5. Private(who, Moved(r, late))
    BY <1>2, <2>2, <2>3, <2>4
  <2>6. /\ Schema(inTime) /\ inTime.passes = db.passes /\ inTime.dogs = db.dogs
        /\ inTime.labels = db.labels /\ inTime.activities = db.activities
        /\ inTime.bookings[r].dog = db.bookings[r].dog
        /\ \A x \in DOMAIN db.bookings \ {r} : inTime.bookings[x] = db.bookings[x]
    BY <2>3, <2>4
  <2> DEFINE then == GiveBack(inTime, p)
  <2> HIDE DEF inTime, p
  <2>7. /\ then.bookings = inTime.bookings /\ then.dogs = inTime.dogs
        /\ then.labels = inTime.labels /\ then.activities = inTime.activities
        /\ then.passes[p].user = inTime.passes[p].user
        /\ \A x \in DOMAIN inTime.passes \ {p} : then.passes[x] = inTime.passes[x]
    BY <2>1, <2>6, SessionGivenBack
  <2> HIDE DEF then
  <2>8. Private(who, Moved(r, then))
    BY <1>2, <2>2, <2>6, <2>7
  <2> QED
    BY <2>5, <2>8 DEF then
<1>3. Private(who, out)
  <2> HIDE DEF out, late, inTime, p
  <2> QED
    BY <1>1, <1>2, ReadingPrivately
<1> QED
  BY <1>3, ReadingPrivately DEF CancelReservation

-----------------------------------------------------------------------------
(* A step of the API                                                       *)

OwnOnly ==
  asked' # asked /\ ~Administrator(answer'.by) =>
    /\ \A s \in answer'.rows : OwnerOf(db', s[1], s[2]) \in {answer'.by, None}
    /\ \A s \in Rewritten("booking", "bookings") \cup Rewritten("pass", "passes") :
         OwnerOf(db', s[1], s[2]) = answer'.by
    /\ db'.dogs = db.dogs /\ db'.activities = db.activities
    /\ db'.labels = db.labels

LEMMA AnswerPrivate ==
  ASSUME NEW who, NEW success, NEW out, Answer(who, success, out),
         ~Administrator(who) => Private(who, out)
  PROVE  OwnOnly
<1>1. answer'.by = who /\ answer'.rows = out.rows /\ db' = out.db
  BY DEF Answer
<1>2. SUFFICES ASSUME ~Administrator(who), Private(who, out) PROVE OwnOnly
  BY <1>1 DEF OwnOnly
<1>3. \A s \in answer'.rows : OwnerOf(db', s[1], s[2]) \in {answer'.by, None}
  BY <1>1, <1>2 DEF Private, OwnOrEveryones
<1>4. /\ db'.dogs = db.dogs /\ db'.activities = db.activities /\ db'.labels = db.labels
      /\ \A r \in DOMAIN db.bookings : db'.bookings[r] # db.bookings[r] =>
           OwnerOf(db', "booking", r) = who
      /\ \A p \in DOMAIN db.passes : db'.passes[p] # db.passes[p] =>
           OwnerOf(db', "pass", p) = who
  BY <1>1, <1>2 DEF Private
<1>5. \A s \in Rewritten("booking", "bookings") \cup Rewritten("pass", "passes") :
        OwnerOf(db', s[1], s[2]) = answer'.by
  BY <1>1, <1>4 DEF Rewritten
<1> QED
  BY <1>3, <1>4, <1>5 DEF OwnOnly

LEMMA AnyUserPrivate ==
  ASSUME DeskTypeOK, NEW who \in Users, AnyUser(who)
  PROVE  OwnOnly
<1>1. CASE UserHandler_GetMe(who) \/ UserHandler_GetByID(who)
  BY <1>1, UsersPrivate, OwnedPrivately, AnswerPrivate
  DEF UserHandler_GetMe, UserHandler_GetByID
<1>2. CASE PassHandler_ListByUser(who)
  BY <1>2, PassesPrivate, OwnedPrivately, AnswerPrivate DEF PassHandler_ListByUser
<1>3. CASE ReservationHandler_Register(who)
  <2>1. HasRoom("bookings") /\ Schema(db)
    BY <1>3 DEF ReservationHandler_Register, DeskTypeOK
  <2>2. PICK user, a, d, p :
          Answer(who, 201, Owned(who, user, RegisterReservation(user, a, d, p)))
    BY <1>3 DEF ReservationHandler_Register
  <2>3. ~Administrator(who) => Private(who, Owned(who, user, RegisterReservation(user, a, d, p)))
    BY <2>1, RegistrationPrivate, OwnedPrivately
  <2> QED
    BY <2>2, <2>3, AnswerPrivate
<1>4. CASE ReservationHandler_Cancel(who)
  <2>1. Schema(db)
    BY DEF DeskTypeOK
  <2>2. PICK user, r : Answer(who, 200, Owned(who, user, CancelReservation(user, r)))
    BY <1>4 DEF ReservationHandler_Cancel
  <2>3. ~Administrator(who) => Private(who, Owned(who, user, CancelReservation(user, r)))
    BY <2>1, CancellationPrivate, OwnedPrivately
  <2> QED
    BY <2>2, <2>3, AnswerPrivate
<1>5. CASE ReservationHandler_ListByUser(who)
  <2>1. PICK user, status, from, to, page :
          Answer(who, 200,
                 Owned(who, user, ListByUserReservations(user, status, from, to, page)))
    BY <1>5 DEF ReservationHandler_ListByUser
  <2>2. ~Administrator(who) =>
          Private(who, Owned(who, user, ListByUserReservations(user, status, from, to, page)))
    BY BookingListsPrivate, OwnedPrivately
  <2> QED
    BY <2>1, <2>2, AnswerPrivate
<1>6. CASE ReservationHandler_ListUpcomingByUser(who) \/ ReservationHandler_GetByID(who)
  BY <1>6, BookingListsPrivate, OwnedPrivately, AnswerPrivate
  DEF ReservationHandler_ListUpcomingByUser, ReservationHandler_GetByID
<1>7. CASE DogHandler_GetByID(who)
  <2>1. PICK d : Answer(who, 200, IF GetDog(d).error # None THEN GetDog(d)
                                  ELSE Owned(who, db.dogs[d].owner, GetDog(d)))
    BY <1>7 DEF DogHandler_GetByID
  <2>2. ~Administrator(who) => Private(who, Owned(who, db.dogs[d].owner, GetDog(d)))
    BY DogsPrivate, OwnedPrivately
  <2>3. GetDog(d).error # None => Private(who, GetDog(d))
    BY DogsPrivate
  <2> QED
    BY <2>1, <2>2, <2>3, AnswerPrivate
<1>8. CASE DogHandler_ListByOwner(who)
  BY <1>8, DogsPrivate, OwnedPrivately, AnswerPrivate DEF DogHandler_ListByOwner
<1>9. CASE ActivityHandler_List(who)
  BY <1>9, ActivitiesPrivate, AnswerPrivate DEF ActivityHandler_List
<1>10. CASE ActivityHandler_ListUpcoming(who) \/ ActivityHandler_GetByID(who)
  BY <1>10, ActivitiesPrivate, AnswerPrivate
  DEF ActivityHandler_ListUpcoming, ActivityHandler_GetByID
<1> QED
  BY <1>1, <1>2, <1>3, <1>4, <1>5, <1>6, <1>7, <1>8, <1>9, <1>10 DEF AnyUser

LEMMA EveryAnswerPrivate ==
  ASSUME DeskTypeOK, DeskNext
  PROVE  OwnOnly
<1>1. PICK who \in Users : \/ AnyUser(who)
                           \/ Administrator(who) /\ Admin(who)
                           \/ ~Administrator(who) /\ RequireRole(who)
  BY DEF DeskNext
<1>2. CASE AnyUser(who)
  BY <1>2, AnyUserPrivate
<1>3. CASE Administrator(who) /\ Admin(who)
  <2>1. answer'.by = who
    BY <1>3, AdminKeeps DEF Keeps
  <2> QED
    BY <1>3, <2>1 DEF OwnOnly
<1>4. CASE RequireRole(who)
  BY <1>4, ReadingPrivately, AnswerPrivate DEF RequireRole
<1> QED
  BY <1>1, <1>2, <1>3, <1>4

(* RequireOwnershipOrAdmin (middleware.go:138-152), the ownership checks   *)
(* of register.go:211 and cancel.go:196: a user who is no administrator is *)
(* shown and changes only what is theirs, for every table, every id, every *)
(* filter and every body. (The unfiltered list of activities is open to    *)
(* all, which is what the code makes of it.)                               *)
THEOREM OwnRowsShown == DeskSpec => OwnRowsOnly
<1>1. DeskTypeOK /\ [DeskNext]_deskVars =>
        [asked' # asked /\ ~Administrator(answer'.by) =>
           /\ \A s \in answer'.rows : OwnerOf(db', s[1], s[2]) \in {answer'.by, None}
           /\ \A s \in Rewritten("booking", "bookings") \cup Rewritten("pass", "passes") :
                OwnerOf(db', s[1], s[2]) = answer'.by
           /\ db'.dogs = db.dogs /\ db'.activities = db.activities
           /\ db'.labels = db.labels]_deskVars
  BY EveryAnswerPrivate DEF OwnOnly
<1> QED
  BY <1>1, SchemaKept, PTL DEF DeskSpec, OwnRowsOnly

-----------------------------------------------------------------------------
(* Edits and requests side by side                                         *)

LEMMA EachSideSteps == MCSpec => KennelSpec /\ DeskSpec
<1>1. MCInit => KennelInit /\ DeskInit
  BY DEF MCInit
<1>2. [MCNext]_Both => [KennelNext]_kennelVars /\ [DeskNext]_deskVars
  BY DEF MCNext, Both
<1> QED
  BY <1>1, <1>2, PTL DEF MCSpec, KennelSpec, DeskSpec

(* Type correctness of the edits of dogs and labels and of the API.        *)
THEOREM DeskTyped == MCSpec => []MCTypeOK
<1>1. KennelTypeOK /\ DeskTypeOK => MCTypeOK
  BY DEF MCTypeOK
<1> QED
  BY <1>1, EachSideSteps, KennelTyped, SchemaKept, PTL
=============================================================================
