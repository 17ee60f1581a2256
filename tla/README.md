# DogPaw: a formal model of the booking system

DogPaw is the back office of a dog school. Owners buy *passes* (a number of
sessions), book their dogs into *activities* with limited places, cancel and get
their session back or not; admins approve, reject, forgive, settle attendance,
close activities and edit everything. The backend is Go over PostgreSQL (`src/cmd`,
`src/internal`, `src/migrations`), the frontend a React client (`src/frontend`).

This directory models it on two levels. Where concurrent requests meet, a use case is
modelled statement by statement, under the isolation PostgreSQL gives it. Where the
question is what a route may show, refuse and change, a request is one step over small
tables. TLC checks the models on small instances; TLAPS proves the most important
results for every number of handlers, dogs, passes, activities and bookings.

## Inventory

| Component | State | Operations | What makes it correct |
|---|---|---|---|
| Booking use cases `internal/usecase/reservation` | `reservations`, the counter of `passes`, `pass_movements` | register (owner, admin), cancel (owner, admin), forgive, confirm, reject, complete, mark no-show | capacity; one active booking per dog; compatibility; a session per charged booking; the state machine; an answer to every request |
| Booking queries | none | by id, user, dog, pass, activity; all, upcoming, pending; roster; attendance report | each caller sees the rows meant for them |
| Pass use cases `internal/usecase/pass` | `passes` | register, modify, set paid, lists | edits and bookings never overwrite one another |
| Activity use cases `internal/usecase/activity` | `activities` | register, batch register, modify, close, bulk complete, delete, lists | a closed activity is settled; a booking enters only what it was checked against |
| Dog use cases `internal/usecase/dog` | `dogs`, the labels they carry | register, modify, heat, neutered, photo, traits and triggers, delete, lists | edits compose; stored rows can be read back; no booking outlives its dog |
| Dog compatibility `domain/dog.go`, `incompatibility.go` | none | `ConflictsWith`, sex and neutering, what register makes of them | symmetric; another booking never turns a refusal into an admission |
| Incompatibility catalogue `usecase/incompatibility` | `incompatibilities` | create, patch, delete, list | a label in use stays |
| Repositories, `Transactor` | the tables | queries, guarded UPDATEs, FOR UPDATE, WithinTx | atomic commit, version check, lock order |
| Schema `src/migrations` | keys, CHECKs, cascades, a partial unique index | | hold at every commit |
| Sessions `usecase/auth`, `domain/user.go` | `users.token_version`, `is_active`, password; cookies | login, refresh, logout, change password | a changed password or a deactivation ends sessions |
| Users `usecase/user` | `users` | update, (de)activate, get, lists | one edit does not undo another |
| Login lockout | `login_attempts` | check, record, reset, clean up | attempts pass the threshold only as far as they run in parallel |
| Invitations | `invitations`, `users` | create, register with invitation | a token makes one account |
| HTTP handlers, middleware | none | who may ask, what is refused, which error becomes which code | owners see their own; nothing is done by halves |
| Server, rate limiter, shutdown `cmd/api` | token buckets, goroutines | start, serve, drain, exit | shutdown ends; the burst is bounded |
| Frontend HTTP client | the refresh in flight | request, download, refresh, retry | one retry; no redirect that only the interleaving of calls explains |
| Frontend views, generated API documentation | none | | |

**How they interact.** Handlers call use cases; a use case runs its statements
inside `Transactor.WithinTx`, which carries the `*sql.Tx` in the context so that a
nested use case (`Close` calls `Complete` and `MarkNoShow`) joins the transaction
already open. The backend shares three things in memory: token buckets, the goroutines
of the process, and nothing else; requests meet in the rows. They are kept apart by
different means, and by none in some places:

- `SELECT ... FOR UPDATE` on the activity and the pass (register), on the
  reservation and the pass (the transitions), on the dog (its edits), on the
  invitation (registration);
- compare-and-set UPDATEs (`reservations` by status, `passes` by `updated_at`);
- unique indexes, foreign keys and cascades;
- *no guard at all*: activities, users and labels are written back whole from an
  unlocked read; the guard of `ActivityRepository.Delete` is a separate SELECT; the
  count of login attempts, the check of the password and the record of the outcome
  are three transactions.

**What is hard.** READ COMMITTED re-reads between two statements of one request; a
clock frozen when the request starts and compared after it has waited for locks;
waits hidden in an INSERT (unique index, foreign key); lost connections between any
two statements; full-row writes from stale reads; lock orders that differ per use
case; cascades that remove rows under a use case that holds none of their locks;
answers that reach the browser late or twice; a shutdown that overtakes the
requests it waits for. `PROJECT.json` lists every such hazard at its line with the
properties that cover it.

## Modules

Bookings, passes and activities, statement by statement:

| Module | Models |
|---|---|
| `Database` | tables, row locks, uncommitted writes, commit and rollback (`transaction.go`, migrations) |
| `Booking`, `BookingProperties` | the booking use cases and the two pass edits; what they guarantee |
| `PassLedger` | the abstract promise: a pass has sessions left; a booking takes one and gives it back at most once |
| `ActivityLifecycle`, `LifecycleProperties` | close, bulk complete, modify and delete of activities, delete and edit of dogs, composed with `Booking` on the same tables |
| `BookingInvariant`, `BookingProofs`, `AdmissionProofs`, `LifecycleProofs` | the inductive invariants, their proofs and what follows |
| `MCBooking`, `MCLifecycle` | small instances |

Accounts and processes:

| Module | Models |
|---|---|
| `Sessions`, `SessionProofs`, `MCSessions` | the user row, the two JWT cookies, the browsers that hold them; login, refresh, logout, password change, update, (de)activation, the check of `AuthRequired` |
| `Backend` | the goroutines and addresses the next three share |
| `RateLimiter` | token buckets, reservations cancelled out of order, eviction |
| `LoginLockout` | counting, verifying, recording, resetting, the clean-up |
| `Invitations` | creating invitations, the registration transaction, lost answers |
| `Enrolment` | the abstract promise of an invitation: one step makes the account |
| `MCFrontDoor`, `FrontDoorProofs` | the three, one of them moving per behaviour; proofs about each |
| `Server` | start-up, listener, requests, clean-up goroutine, signal, drain, exit code |
| `RefreshClient` | the browser's 401, shared refresh, retry and redirect |
| `MCProcess`, `ProcessProofs` | the two, one of them moving per behaviour; proofs about both |

The API, a request at a time, and the edits of dogs and labels:

| Module | Models |
|---|---|
| `Compatibility` | what a dog's row may hold, traits and triggers, sex and neutering, the verdict of register |
| `Kennel`, `KennelProofs` | edits of dogs under their lock and edits of the catalogue without one, statement by statement |
| `Desk` | what handlers share: who asks, tables, pages of a list, outcomes, error codes, rollback |
| `DogDesk`, `ActivityDesk`, `LabelDesk`, `PassDesk` | the requests about dogs, activities, labels and passes: queries, use cases, handlers |
| `BookingDesk`, `BookingHandlers` | the requests about bookings; their lists and handlers |
| `Api`, `ApiProperties` | the routes and who may call them; what holds of every answer |
| `MCDesk`, `ApiProofs` | kennel and API, one of them moving per behaviour; proofs about the API |

### State and actions against the code

**Booking engine.** A *handler* `t` serves one request at a time. `pc[t]` names the SQL
statement it executes next, `req[t]` the use case's input including the `now` frozen in
it, `mem[t]` the Go locals that survive between statements, `wres[t]` and `wpass[t]` the
rows written but not committed, and `lock` the owner of every row lock.

- A plain SELECT reads the committed tables (no handler reads back a row it has
  written, so its own uncommitted writes need not be overlaid).
- `SELECT ... FOR UPDATE` and UPDATE wait until the row is free or its own, read the
  committed row and take the lock.
- `Commit` publishes all writes and releases all locks in one step. Every early
  `return err` is `Rollback`; `Abort` is the same at any point: panic, context
  cancelled, connection lost, process killed. Requests hold no other state, so a crash
  of the whole process is the abort of each of its handlers.
- `passes.updated_at`, the optimistic-lock column, is a counter `ver`: an UPDATE with
  a stale value affects no row and the use case fails.
- `res` keeps the last row of every booking; a row removed by a cascade is in `gone`
  and exists for no reader. The ledger can so still speak of what the booking took.
- `forced` and `reviewed` are history: which bookings an admin made or approved.
- Two dogs are related by `Blocks` or `Reviews`, constants here: register only uses
  the resulting decision, and `Compatibility` computes it.
- `Settle` is the whole nested `Complete` or `MarkNoShow` of one booking: between its
  FOR UPDATE and its UPDATE it only reads the activity and the dog, and it holds the
  row it decides about.
- A trailing statement that is followed only by COMMIT is one step with it
  (`UpdatePass`, `UpdateActivity`, `WriteModified`, `EditDog`, the cascades).

**Sessions, lockout, invitations.** A handler is again a program counter, the row it
read and what it will write. Tokens are claims (user, version, kind): signing and
hashing are equality. An answer that sets cookies is in flight until its browser takes
it, in any order. `epoch` and `since` are history: how often the password of an account was
changed, and which of its passwords a token descends from; `banned` are the accounts whose
last written status was a deactivation. A row of `login_attempts` carries its age in ticks;
`admitted` counts what the limiter let through in the last tick, the last two, and so on.
Time may pass between a reservation and its cancellation; one that has waited its debt out
returns nothing (`Passed`). A check that fails in the database leaves no verdict and is recorded
all the same (`FailCheck`). The lockout counts e-mails as they are typed, as the code does;
accounts are looked up by the trimmed, lower-case form (`user_repository.go:88`), so the
threshold holds for each way of typing.
`Invitations` may lose the answer of a COMMIT: the client then asks again with a token that is used up.

**Processes.** In `Server` an action is what a goroutine does up to its next blocking
call; the two shutdown contexts are deadlines that may fire. In `RefreshClient` an action
is what runs between two `await`s; the server is what it answers, rightly or not. A 401 may
come to a request with a valid token (`AuthRequired` gives it on every error of its look at the
users), and `/auth/refresh` may refuse a living session (its limiter's 429, a 5xx, a 401 on
whatever error, a lost answer). `mishap` is history: the server has misjudged the session so, or
a token ran out in the middle of a retry.

**Kennel.** A clerk edits a dog in the order of the use case: begin and lock the row, read
its labels, check the change, write row and links whole, commit. For a label: read it,
count the triggers that target it, write or delete.

**Desk.** One request is one step: the handler checks the path, body and owner, the use
case runs on the tables `db`, and `answer` records to whom which code and which rows
were given. A use case that writes several times may fail between two writes; `RollBack`
then discards what was written. After an edit of an activity or a pass is stored the code reads
once more for its answer; that may fail (`ReadBack`) and then answers 500. The rows of the list of
activities without a filter are shown as kind "schedule", the rest as what they are. How requests
interleave is left to the modules above.
Lists keep their filters, their order by id and their pages; rows that `scan` cannot
rebuild fail the whole query, as in the code.

Definitions with "(mutant)" in their comment are faults that are *not* in the code;
`PROJECT.json` swaps them in to show that each property notices.

## Runs

`tlc -config X.cfg M`; every run is exhaustive within its bounds.

| Run (module) | Question and answer |
|---|---|
| `Refunds` (`MCBooking`) | 3 handlers, a pass of 2 sessions, 2 bookings. Do racing register, cancel, forgive, confirm, reject and aborts keep the ledger, the movement log and the state machine, without deadlock, and implement `PassLedger`? Yes. |
| `Slots` (`MCBooking`) | 3 dogs of 2 owners, 2 places. Are capacity, one booking per dog, compatibility and pass ownership safe? Yes. |
| `Progress` (`MCBooking`) | Bookings, refunds and unlocked edits of one pass, under fair scheduling. Does an edit overwrite a booking? No. Is every request answered? Yes. |
| `Closing` (`MCLifecycle`) | Close, bulk, complete and no-show with late registrations. Is a closed activity settled once, after the fact, without deadlock? Yes, for bookings that were confirmed before. The run leaves confirmations and edits of the activity out, and a request is shorter than an activity (`Lag <= Duration`); with them see `LifecycleDoubts.cfg`. |
| `Changes` (`MCLifecycle`) | Activities shrink and vanish, dogs are deactivated and deleted under registrations. Does a booking outlive its activity or dog, or enter another than it was checked against? No. |
| `Sessions` (`MCSessions`) | One handler at a time writes user rows, any number read. Does a changed password end the earlier sessions, and does a deactivated account stay out? Yes; with two writers no (`UndoneBan`, `SessionDoubts.cfg`). |
| `FrontDoor` (`MCFrontDoor`) | Is the burst of a bucket bounded, is the lockout threshold passed only by attempts in parallel, does the clean-up change no verdict, is an invitation used once, and is registration the one step of `Enrolment`? Yes. |
| `Process` (`MCProcess`) | Does the process end after a signal, with code 0 only when every request was answered? Does every call of the page but a download settle, with at most one retry, and a redirect only when the session is dead, when the server refused a request or a refresh of a session it honours, or when a token ran out in the middle of a retry? Yes. |
| `Desk` (`MCDesk`) | Do edits of a dog compose, does a label in use stay, does an owner see and change only their own rows, and does a request that fails do nothing by halves? Yes. One list is an exception, in the property too: the activities without a filter are shown to everybody (A). A request that fails has changed nothing, or it is a 500 and its one edit is stored whole. |
| `CountThenDelete` (`MCLifecycle`) | `ActivityRepository.Delete` "refuses" while a slot is held. Violated: a registration commits between its two statements. |
| `UndoneBan` (`MCSessions`) | Deactivation is for off-boarding. Violated: a profile edit that read the row before writes `is_active` back. |
| `UnreadableDog` (`MCDesk`) | Every write path enforces that only a female is in heat. Violated: a patch of the sex alone; the row can then not be read. |

Beside the runs there are configurations for the disagreements below. TLC stops at the
first property that fails: to see another, leave only that one in the file.

| Configuration | Module | Fails |
|---|---|---|
| `DeskDoubts.cfg` | `MCDesk` | `ClassesStayPrivate` (A), `ViewsReadable` (B), `ActivitiesReadable` (H) |
| `LifecycleDoubts.cfg` | `MCLifecycle` | `ClosedStaysClosed`: a PATCH that read the activity before it was closed writes `closed = FALSE` back, although `activity.go` says only `Close()` changes it; `ClosedMeansSettled` with confirm: a pending booking is confirmed after Close, although bulk completion takes a closed activity for settled |
| `SessionDoubts.cfg` | `MCSessions` | with two writers, `PasswordEndsSessions`; `StaysAuthenticated`: the late answer of a refresh replaces the cookies of a password change |
| `FrontDoorDoubts.cfg` | `MCFrontDoor` | `RetryAfterUnlocks`: whoever waits for `Retry-After` may be refused again; `OneExtraAttempt`; `AddressHistoryKept`: a login erases failures of its e-mail that count for the address |
| `ExpiredRefund.cfg` | `MCBooking` | `NoOwnerRefundOnExpiredPass`: `pass.go` leaves that policy to the use case, and no use case has it |
| `ProcessDoubts.cfg` | `MCProcess` | `KeeperDrained`: the shutdown goes on, and closes the pool, while the clean-up goroutine has not ended; `SessionTrulyDead`: a living session is taken to the login; `DownloadsSettle`: a download may be sent again for ever |

### Bounds

- Two or three handlers: every race in the code is between two requests on one row;
  the deadlocks the properties exclude could involve three, so `Refunds` gives them
  room (and `NoDeadlock` is proved for any number). Handlers are interchangeable
  (`TxSymmetry`, `BrowserSymmetry`, `FrontDoorSymmetry`), except in runs with liveness,
  where symmetry is not sound.
- Two bookings per instance are enough for one to be re-made after a cancellation
  and for two to compete for a place or a session; `Slots` has three.
- `Times`: instants before, inside the late window, started and ended where the run
  needs them. A request lasts at most `Lag` ticks, so its frozen `now` may be one phase
  behind the clock.
- `MaxVersion`: no edit *starts* on a pass row written that often. `MaxChanges`: as many
  password changes. Requests already running may still write.
- `FrontDoor`: e-mail and address windows and thresholds of one or two, two parallel
  handlers, two rows of a table that begins empty; retention as in the code longer than
  both windows. A bucket of two, so that a debt, its cancellation and an eviction all occur.
- `Process`: two requests besides the listener, both limiters, three calls of which one
  is a download and one the silent `/me`. What the server answers and how often the access
  cookie expires is not bounded. A call counts its sends up to three (`MaxSends`), one more than
  it may make; a download does not count them.
- `Desk`: `MaxEdits` = 3 edits of one dog and three labels by two clerks (two of one
  dog race, a third follows); `MaxAsked` = 2 requests (a write and what is then seen of
  it). Its clock stands still with dates on both sides of it: time passing is the
  business of the booking runs. Its filters include none at all. Its tables have rows whose reading back works; the
  rows for which it does not are what `DeskDoubts` is about.
- Where one of several parts moves per behaviour, the parts share no variable: their
  product would add no behaviour of either.

### Fairness

- `FairSpec` (`Progress`): strong fairness of the statements of each handler. PostgreSQL
  queues the waiters of a row lock in order, so a statement whose row becomes free
  again and again is granted; a goroutine that is not waiting is scheduled. No fairness
  of `Begin`, `Abort` or `Tick`: no client has to call, and no answer relies on a crash.
- `ServerSpec`: `main` and the clean-up goroutine run when they can and timers fire. No
  request is assumed to end: the drain deadline is what ends waiting for it.
- `RefreshClient!Spec`: the event loop runs and `fetch` settles, with an answer or an
  exception.

## Proofs

Each module with constants states what it asks of them, no more than the code gives:

- `KeysAssumption` (ids of different tables differ, passes have sessions, bookings are
  finite in number), `BookingAssumption` (NULL is not a row, conflicts are symmetric),
  `LifecycleAssumption` (nor is it an activity; capacities and dates are numbers);
- `KennelAssumption`, `KennelTyping` (the first rows are well formed, a patch of a label
  keeps it one, the flags of a patch of a dog are Booleans);
- `ApiAssumption` (the first tables keep the schema; bodies and patches have the fields and
  the types that a JSON body decodes to, whatever their values; `None` is no row and no error);
- `SessionsAssumption` (editors are handlers, admins are users, there is a user, and the
  first accounts are well formed), `InvitationAssumption` (`None` is no row and no handler,
  an invitation lasts a while);
- `LimiterAssumption` (a bucket is evicted only after a time in which it fills up, which is
  what `router.go` picks the ten minutes for), `LockoutAssumption` (windows and thresholds
  are positive, handlers are finite in number);
- `ServerAssumption` (a number of requests), `ClientAssumption` (downloads and silent calls are
  calls, and none is both).

| Theorem | States |
|---|---|
| `InvariantHolds` (`BookingProofs`) | `Spec => []BookingInv` |
| `TypeCorrect` | `Spec => []TypeOK`: no counter below zero, also in the copies handlers work on |
| `LedgerExact` | `Spec => []SessionLedger` |
| `LedgerRefined` | `Spec => ImplementsPassLedger` |
| `MovementsExplained` | `Spec => []MovementsMatchBookings` |
| `StatusesFollowTheMachine` | `Spec => StatusMachine` |
| `EditsAreNotLost` | `Spec => PassEditsSurvive` |
| `NobodyDeadlocks` | `Spec => []NoDeadlock` |
| `AdmissionsHold` (`AdmissionProofs`) | `Spec => []AdmissionInv` |
| `CapacityHolds`, `OneBookingPerDog`, `StrangersAreVetted`, `OwnersPay` | the four properties of `Slots` |
| `AttendanceIsPast` | `Spec => []AttendanceAfterTheFact` |
| `LabelsStay` (`KennelProofs`) | `KennelSpec => []LabelsInUseStay` |
| `DogEditsCompose` | `KennelSpec => EditsCompose` |
| `KennelTyped` | `KennelSpec => []KennelTypeOK` |
| `ConflictsSymmetric`, `BlockersSymmetric` | a conflict does not depend on who registers first |
| `RefusalIsMonotone` | more dogs booked never turn a refusal of register into an admission |
| `BracketsAgree` | the columns the lists filter by hold the brackets the domain computes |
| `HeatRuleKept` | a patch of the sex alone is the only one that can break the rule about heat |
| `RefusalsAreClean` (`ApiProofs`) | `DeskSpec => NothingHalfDone` |
| `SchemaKept`, `DeskTyped` | `DeskSpec => []DeskTypeOK`, `MCSpec => []MCTypeOK` |
| `OwnRowsShown` | `DeskSpec => OwnRowsOnly` |
| `LifecycleHolds` (`LifecycleProofs`) | `LifecycleSpec => []LifecycleInv` |
| `LifecycleTyped`, `NoOrphans` | `LifecycleSpec => []LifecycleTypeOK`, `[]NoOrphanBookings` |
| `AdmissionsAreCurrent`, `StatusesFollow` | `LifecycleSpec => AdmissionRespectsActivity`, `StatusMachine` |
| `ClosedKeepsOnlyLatecomers` | `LifecycleSpec /\ Watching => []OnlyLatecomers`: for every set of operations, a booking that is CONFIRMED in a closed activity came after the close had begun |
| `ClosesDoNotDeadlock` | `LifecycleSpec => []NoCloseDeadlock`, under the hypotheses below |
| `SessionsTyped` (`SessionProofs`) | `Spec => []SessionsTypeOK` |
| `EarlierSessionsEnd`, `OffboardedKeptOut` | `Spec /\ Watching =>` a changed password ends the sessions, and a deactivated account stays out, of every account whose row no write has set back; for any number of writers |
| `InvitationsTyped`, `UsedOnce`, `EmailsUnique` (`FrontDoorProofs`) | `Spec => []InvitationsTypeOK`, `[]InvitationUsedOnce`, `[]OneAccountPerEmail` |
| `EnrolmentRefined` | `Spec => ImplementsEnrolment` |
| `LimiterTyped`, `BurstBounded` | `LimiterSpec => []LimiterTypeOK`, `[]BurstBound` |
| `LockoutTyped`, `ThresholdKept`, `CleanupInvisible` | `LockoutSpec => []LockoutTypeOK`, `[]ThresholdHolds`, `CleanupChangesNoVerdict` |
| `FrontDoorTyped` | `FrontDoorSpec => []FrontDoorTypeOK` |
| `ProcessTyped`, `NothingLeftBehind` (`ProcessProofs`) | `ProcessSpec => []ProcessTypeOK`, `[]GracefulExit` |
| `KeeperNeverEnds` | `ProcessSpec => []KeeperStays`: no shutdown ever sees the clean-up goroutine return |
| `OneRetry`, `LoginIsEarned` | `ProcessSpec => []RetriesOnce`, `[]RedirectIsEarned` |

**Sessions (`BookingInv`).** `SessionLedger` is not inductive: at COMMIT the new counter
comes from a row the handler wrote earlier, and nothing in the ledger says that it still
fits the table. `BookingInv` says so for each statement: from its FOR UPDATE on, a
transition holds the row it remembers (`HoldsItsBooking`); the pass row in memory, then in
the transaction, differs from the committed one by exactly the session of this booking,
under its lock (`HoldsItsPass`, `WrotePass`); COMMIT publishes one new booking or one move
(`WroteBooking`, `WritesApart`); an unlocked edit read the current counter or will be
refused (`EditIsFresh`). A step of `t` leaves the other handlers sound if it keeps the rows
they hold (`OthersStaySound`); one that publishes nothing then only has to keep `t` sound
(`LocalPreserves`, `WritingPreserves`), and a rollback always does. Only COMMIT and an edit
publish: `BookingPublished` and `PassPublished` say what, and `CommitKeepsLedger` adds it up.
The point a reader may not expect is `HeldSessionIsRefundable`: `CanRefund` is checked by the
code and silently skips the refund when false; the ledger itself proves it is never false for
a booking that was charged, so the ledger has to be part of the invariant that proves it.

**Refinement and movements.** `CommitOutcome` reduces a COMMIT to three cases: one booking
more is charged, one charged booking is returned, or no session moves. Each is a step of
`PassLedger`, and each comes with its one row of `pass_movements`.

**Deadlock (`LocksInOrder`).** By the statement a handler is at, it holds an activity only
as a registration, a booking only as a transition, a pass only near the end, a dog never.
`Distance` orders the statements so that every wait, those hidden in the INSERT included,
is for a transaction nearer to its COMMIT; the nearest of any set waits for none of it.

**Places (`AdmissionInv`).** While a registration holds the activity row, nobody else adds a
booking to that activity, and what others do can only free places and remove dogs. So what
it read stays an upper bound until its COMMIT: `FoundRoom` (the count), `SawAll` (the dogs it
met), `OwnerVetted` (the decision it took), `PaysForItself` (whose pass). `DecidedInTime`
carries the comparison with a frozen clock over to the later one: time only grows.

**Kennel (`KennelInv`).** Whoever is about to write a dog holds its lock and remembers it as
it is stored; whoever is about to link a label is refused by the foreign key if the label is
gone, and whoever deletes one by the key that protects links. The columns keep their types
next to it: a patch checks the sex it names, and the flags come typed.

**API (`ApiProofs`).** Three arguments, each bottom up: statements, queries and use cases, the
handler, the request. *Nothing by halves:* an outcome that carries an error carries the
tables as they were (`Neat`), which a use case of several writes owes to its rollback; where a
read follows the commit, it carries them as they were or with that one edit (`Whole`).
*The schema* is its own inductive invariant, but a long one: that a counter stays within what
the pass was sold with, or a reference within the rows there are, needs every part of it. What
a statement does to it is said once per kind of statement (`RowRewritten`, `RowsInserted`,
`StatusSet`, `SessionGivenBack`, `ErasedDogSane` for the cascade); each use case then is `Sane`.
The ids in an answer are ids of rows, which the third argument needs. *Own rows:* `Private`
says of an outcome whose rows it shows and has written. It leans on the schema, because the
owner of a booking is the owner of its dog, so that dog has to be there; and on what a
registration has compared by the time it writes (`Admitted`), as a cancellation does of dog and
pass (`CancellationPrivate`). The list of activities without a filter
loses its predicate (A) and is why the property names "schedule" apart.

**Activities and dogs (`LifecycleInv`).** Deletes, edits and closes take other locks than a
registration does, and none in places, so `BookingInv` does not carry over. What is left is
smaller and holds for every set of operations: a registration holds the activity's row from
before its checks to its COMMIT, so what it found there stays true (`StaysBookable`), although
other bookings may leave; a DELETE of a dog waits for whoever has inserted a booking of it, and
the INSERT for whoever deletes the dog (`WaitsForCommit`); a row that is written but not
committed is locked, and nobody else has written it (`WritesFit`, `WritesApart`). The frame is
`TablesSpare`: a step leaves another handler fit when it spares the rows that one relies on.

**Closing (`SettledInv`).** A close lists the confirmed bookings without a lock and settles them
one by one. A booking confirmed after that stays CONFIRMED in a closed activity, by a late
registration, an admin's confirmation, or an edit that writes an old copy of the row back. The
theorem says that this is all: `late` is a history variable, which `Watching` adds to a behaviour
without restricting it, of the bookings that became CONFIRMED when the activity was closed, was
being closed by a handler that had its list, or was about to be written back closed (`Late`). What
a close has listed it settles or has settled, unless it left by itself (`Settles`). So a closed
activity keeps latecomers only, whatever the operations and however long they last.
`ClosedMeansSettled` is stronger, and the code breaks it: TLC finds no latecomer in `Closing`,
where there are neither confirmations nor edits and `Lag <= Duration`, and one in
`LifecycleDoubts.cfg`.

**Deadlock of closes (`InOrder`).** With `Lag <= Duration` a close, which only takes what is
over, and a registration, which only takes what has not begun, are never under way together
(`TimelyInv`). A close holds only bookings
below those it still has to settle (`InOrder`), so its `Rank` falls with every one of them, and
every wait is for a transaction of smaller rank. Of any set of transactions the one of
least rank (the naturals are well founded) waits for none of the set.
The hypotheses are not for the prover's sake; TLC refutes the theorem without each of them.
With `modifyActivity` a date moves to the future under a close, and a late booking waits for one
that waits for the close; a `deleteActivity` holds the activity and cascades to bookings that
a close holds; `deleteDog` closes the circle with cancel and register. PostgreSQL ends each
circle by killing one transaction, the model's `Abort`.

**Sessions (`SessionsInv`).** User rows are written whole from an unlocked read, by any number
of handlers. A write *sets a row back* (`SetsBack`) when the version or the activity it stores is
not that of the row but for what the request itself is about; `overwritten`, again a history that
`Watching` adds, collects the accounts this has happened to. For all the others the version of the
row counts the password changes and a token or a copy in memory carries the version that its
credential had (`Faithful`, `Current`), however the writers interleave. So the lost update is the
only way to keep a session alive past a password change or a deactivation. That it happens is the
run `UndoneBan` and `SessionDoubts.cfg`; the run `Sessions` shows the unconditional properties for
one writer.

**Registration (`Registration`).** From FOR UPDATE to COMMIT a handler has the invitation to
itself and its copy in memory is the row (`Working`); the unique index keeps the e-mails apart
of rows that are not yet committed (`InsertedApart`). So COMMIT is the one step of `Enrolment`
and every other step is none, with the accounts of the abstract state read off the tables.

**Limiter (`LimiterInv`).** The bound on what was admitted is not inductive: what a bucket still
holds counts too. `Fits` says for every stretch of time that admissions and tokens left are at
most the burst and what the rate allows in it, and that an idle bucket has admitted nothing
since; an evicted bucket has then filled up, and `FitsFull` says the same of none. A
cancellation returns at most what its reservation took (`Reserved`), and nothing when its time
has come meanwhile (`Returnable`).

**Lockout (`LockoutInv`).** `ThresholdHolds` counts a try from its check to the end of its row's
window, and so it is inductive once the table is finite: a try becomes a row, rows only leave,
and a new try is let in by a check that found fewer than `EmailMax` rows, next to at most the
other handlers.

**Server and page (`ServerInv`, `KeeperStays`, `ClientInv`).** Once main is past the drain
either the exit code is 1 or there is no request and no listener to bring one. The keeper waits
for a channel that only its own return closes. In the page, what a caller may still do depends
on how often it has sent and whether the shared refresh it waits for is still pending; a redirect
goes back to a refusal, and every refusal of a living session is a `mishap`.

**Only model-checked:** liveness (`EveryRequestReturns`, `ShutdownCompletes`, `CallsSettle`):
fairness and ENABLED are out of the prover's reach; and what the violation runs refute. No
module with a theorem declares a RECURSIVE operator. `ClosesDoNotDeadlock` alone has hypotheses
about the operations; the three theorems with `Watching` have a history variable instead.

## Where the code and its words disagree

Three are runs (`CountThenDelete`, `UndoneBan`, `UnreadableDog`); those of the
configurations above are in their table, except these, met while modelling the API:

- **A.** `ActivityRepository.List` appends the visibility predicate to a SELECT without a
  WHERE (`activity_repository.go:215-222`): it becomes part of the LEFT JOIN's ON, and an
  owner's unfiltered `GET /activities` shows everybody's individual classes, contrary to its
  comment and to `usecase/activity/list.go:30-35`.
- **B.** `scanReservationView` (`reservation_repository.go:535-618`) rebuilds the activity
  without its dog: every view of a booking in an individual class fails validation.
- **C.** `ListByDateRange` compares `a.date < to` where `list.go:37-39` says `to` is inclusive;
  with `from` alone nothing is found.
- **E.** The comment of `SexNeuteredConflict` (`dog.go:343-347`) promises the same reason from
  both sides; an intact and a castrated male give two.
- **F.** `GET /dogs/active` without `limit` is empty: `list_with_owner.go:39-44` leaves the
  bounds to a repository that has none.
- **G.** Deleting a dog with an individual class of its own violates a CHECK and answers 500,
  where `dog_repository.go:592-595` speaks of cascades.
- **H.** A PATCH of `size_target` with another field on an individual class is stored and the
  activity can then not be read.

- **I.** `http-client.ts:26-28` says that 401s after a refresh "mean the session is truly dead".
  The page of a living session is sent to the login when the refresh is not `ok` for any reason
  (line 40: the 429 of the limiter at `router.go:359`, a 5xx, the 401 of `auth_handler.go:226-229`
  on every error, a lost answer) and when `AuthRequired` answers 401 to a database error
  (`middleware.go:45-48`). `ProcessDoubts.cfg` shows it (`SessionTrulyDead`).
- **J.** `getBlob` (`http-client.ts:201-207`) tries again after every refresh that succeeded; it has
  no `_retried`. Against a server that refreshes and then refuses, it never ends
  (`DownloadsSettle`).

Smaller ones: lists ordered by a column that is not unique have no tie-break, so pages may
overlap; the roster reads one page of all statuses; a modified activity is committed before its
slots are counted (`activity_handler.go:361-365`) and a modified pass before it is read back
(`pass/modify.go:95`, `set_paid.go:90`), and a failure then answers 500 for an edit that is stored; a patch may give a label both a code and a
target; patches of one label overwrite one another; `isEmptyPatch` of dogs and activities forget
fields; a photo with an invalid URL, a pass of another owner and an invalid booking answer other
codes than the handlers' documentation says; an admin who reads a booking under the path of a
user who does not own it gets 404.

## Not modelled, and why

- **Views and generated documentation** (`src/frontend` apart from the HTTP client,
  `src/docs`): no rule of their own. `docs.go` alone is a fifth of the Go lines.
- **Headers, CORS, body limit**: no state, and nothing later depends on them.
- **Cryptography** (bcrypt, JWT signing): primitives, taken as equality.
- **Wording, JSON shapes, formatting, the CSV's layout, SQL text**: data no property
  tells apart. Names of labels behave as their codes.
- **Down migrations and seed data**: not part of the running program.
- **Methods without a caller**: `UserRepository.Delete`, revoking and listing invitations.
- A deleted dog's bookings are cascaded away without a refund: the code promises none, so
  nothing is stated about it. The circles of locks that deletions can close are ended by
  PostgreSQL; `NoDeadlock` and `NoCloseDeadlock` are about the operations without them.

## What could follow

An API instance in which time passes; the requests of the API as an abstraction of the
statement-by-statement modules, so that the latter implement the former; and proofs that the
deadlocks which deletions can close are the only ones.
