# TLA+ models of the municipal transport backend

The repository is a NestJS service over Postgres (Prisma), S3 and Redis that
keeps the trips, trucks, surveys and problem reports of a municipal fleet. This
directory holds TLA+ modules of its core, TLC configurations that model-check
them on small instances, and proofs, checked by TLAPS, that hold for every
instance.

    tlc  -config TripSafety.cfg MCTripHistory      # one run
    tlapm TripHistoryProofs.tla                    # one module of proofs

## 1. The system

| Component | State | Operations | Talks to |
|---|---|---|---|
| Trip history (`trip-history.service.ts`) | `TripHistory`, `TripHistoryPoint` rows; signature images in S3 | startTrip, addPoints, finishTrip, updateByAdmin, remove | Trucks (status, mileage), daily surveys, destinations, employees, S3, Google Roads |
| Truck documents (`truck.service.ts`) | `TruckDocument` rows; files in S3 | uploadDocument, removeDocument | S3, trucks |
| Trucks (`truck.service.ts`) | `Truck`, `TruckAssignment`, `TruckPlateChangeLog` rows | create, update, remove, assignUser, setUsersOfTruck, registerPlateChange, getOutOfServiceAlerts | users, and everything that names a truck |
| Problem reports (`report.service.ts`) | `ProblemReport`, `ProblemReportTimeline` rows; screenshots in S3 | create, respondToReport | S3, notification gateway, users |
| Daily maintenance (`daily-maintenance-record.service.ts`) | one survey per driver, truck and day; its items | create, update, updateStatusAdmin, remove | writes truck mileage; startTrip reads it |
| Monthly maintenance (`monthly-maintenance-record.service.ts`) | one record per truck and month; its items | upsertAdmin, updateStatusAdmin, removeAdmin | trucks |
| Destinations, employees, occupations | lists of names, per manager | create, findOrCreateActiveByName, update, remove | trips, users |
| Registration and verification (`auth.service.ts`) | `User` rows; codes and limits in Redis | register, sendVerificationCode, verifyCode, updateVerificationEmail | Redis, mail |
| Sessions (`auth.service.ts`, `jwt.strategy.ts`) | passwords; blacklist, marks and links in Redis | login, refreshToken, logout, forgotPassword, resetPassword, validate | Redis, users |
| Users (`user.service.ts`) | `User` rows: role, manager, e-mail, password | adminCreate, adminUpdateUser, changePassword, adminResetPassword, remove | Redis, everything that names a user |
| Service requests (`service-request.service.ts`) | rows; attachments in S3 | create, updateStatus | S3, gateway |
| Truck expiry notices (`truck-expiry.service.ts`) | a timer and a cron job | checkExpiries | gateway, trucks |
| Notification gateway (`report-notifications.gateway.ts`) | rooms of connected sockets | connect, emit, disconnect | reports, requests, expiry |
| Google Roads client | none | snapToRoads | external API |

One Node process runs the handlers, and every `await` lets another handler run.
What is hard, and hard to test, is therefore nearly always the same: a handler
reads a row, awaits something, and acts on what it read. The rest comes from
work that spans two stores (S3 and Postgres) with no transaction over both, from
a process that may stop between the two, and from calls whose answer is lost.
`PROJECT.json` lists each such place under `hazards`.

What makes each component correct:

* trips: a signature that a trip names exists; a trip nobody edited tells one
  story (completed, signed, with an `endKm`, all or none); it was started after
  a survey; points and trucks of trips exist; no uploaded image is forgotten;
* documents: the file a row names exists; replaced files are collected, and only
  those; what stays behind has a reason that can be named;
* reports: the timeline explains the status; everybody concerned is told;
* surveys: one per driver, truck and day; the truck takes the reading;
* monthly records: one per truck and month, whose status tells what was reported;
* lists of names: an equal name in one list is explained by two handlers that
  overlapped; trips and users name entries that exist, and trips active ones;
* verification: an account is verified where its code was mailed; the last code
  works; a limit is passed once; a verified account is the one login finds;
* sessions: those of an earlier password and those logged out end, the present
  ones last, a link that was used and deleted stays dead (two resets that look at
  one link before either deletes it both write a password);
* trucks: the drivers asked for are the drivers there; the change log tells the
  status and a breakdown is shown, though overlapping changes may commit in
  another order than their entries are dated;
* users: an administrator stays one, a driver has a manager who manages;
* notices: rooms follow roles; requests and expiring documents are announced,
  also across restarts; attachments are not lost and not left.

## 2. Modules

| Module | What it is |
|---|---|
| `ObjectStore` | Abstract: the life of a stored file, key by key: unused, stored, linked, unlinked, deleted. |
| `TripHistory` | Trips. Implements `ObjectStore` (`SignaturesFollowStore`). |
| `TruckDocuments` | Documents of trucks. Implements `ObjectStore` (`DocumentsFollowStore`). |
| `ProblemReports` | Reports, their timeline and their notices. |
| `Fleet` | The handlers in flight, for the trucks and their two kinds of records. |
| `MaintenanceRecords` | Rows, ids and statuses, which daily and monthly records share. |
| `DailyMaintenance` | Daily surveys and truck mileage. |
| `MonthlyMaintenance` | Monthly records and the merging of their items. |
| `Catalogue` | Destinations, employees and occupations, with the starts and edits of trips and the registrations that choose from them. |
| `Verification` | How an account proves its address: codes, limits, changes of address. |
| `Sessions` | Passwords, tokens, the blacklist and the marks that end sessions. |
| `Trucks` | Drivers of trucks, under read committed, and the log of changes. |
| `Gateway` | Sockets and rooms; the process and the users that the next four share. |
| `ServiceRequests` | Requests and attachments. Implements `ObjectStore` (`AttachmentsFollowStore`). |
| `TruckExpiry` | The checks that announce expiring documents. |
| `Users` | Roles and managers, as administrators edit and remove users. |
| `Notices` | `Gateway`, `ServiceRequests`, `TruckExpiry` and `Users` composed in one process. |
| `MC...` | Small instances of each, for TLC. |
| `TripHistoryProofs`, `TruckDocumentsProofs`, `ProblemReportsProofs`, `CatalogueProofs`, `VerificationProofs`, `SessionsProofs`, `NoticesProofs` | Theorems about the module each is named for (`Notices` with the four it composes). |
| `FleetProofs` | Theorems about `Trucks`, `MonthlyMaintenance` and `DailyMaintenance`. |

All component modules have the same shape. `req[r]` is a handler in flight: its
`pc` names the awaited call it is about to make, and its other fields hold what
it has read or been given. There is one action per awaited call that reads or
writes something another handler may change; reads of rows that cannot change
between two calls, and checks that only reject, are merged into the next. What a
`$transaction` writes becomes visible in one step, its commit. What it does
before is an action of its own where another handler can tell: the rows that
`setUsersOfTruck` deletes are those it saw when deleteMany began, and
`registerPlateChange` dates its entry, and holds the rows it names, before it
commits. A request that is refused at once leaves
nothing behind and has no action; one that is refused later, or whose database
call fails outside a `try`, is `Reject`. `Crash` restarts the process.

Data is abstracted to what the properties tell apart: ids, keys, drivers and
days are model values; kilometres are small naturals; the length of a route is
any value its points allow; a list of GPS points is its length; a checklist is
there or empty. Rounding to three decimals is kept (`Rounded`, with `Grain`
readings to the third decimal), since a property depends on it.

Operators named `Bug...` are deliberately wrong versions of the operator that
follows them: a missing guard, a lost catch block, a dropped index. With one of
them in place of the right one, the property listed beside it in `PROJECT.json`
is violated. They show that each property does depend on the code.

How actions correspond to code (the lines are in `PROJECT.json`, `map`):

* `startTrip`: `StartRead` (truck by plate, ACTIVE, mileage) - `StartCheckSurvey`
  (a survey of that truck and day) - `StartCreate`.
* `addPoints`: `AddPointsRead` - `AddPointsInsert`.
* `finishTrip`: `FinishRead` - `FinishMeasure` (points, route, `endKm`) -
  `FinishUpload` or `FinishUploadFails` - `FinishCommit`, or `FinishAbort` and
  `FinishCleanup` (the catch block).
* `updateByAdmin`: `UpdateRead` (all checks) - `UpdateWrite`; `remove`:
  `RemoveRead` - `RemoveRow` - `RemoveCollect`.
* `uploadDocument`: `UploadRead` - `UploadPut` - `UploadReadExisting` -
  `UploadUpsert` - `Collect`, with the failures `UploadPutFails`,
  `UploadUpsertFails` - `UploadCleanup`; `removeDocument`: `RemoveRead` -
  `RemoveRow` - `Collect`.
* report `create`: `CreateBegin` - `CreateUpload` - `CreateInsert` - `CreateLog`
  - `CreateAnnounce`; `respondToReport`: `RespondRead` - `RespondCommit` -
  `RespondAnnounce`.
* survey `create`: `CreateRead` - `CreateCheck` - `CreateCommit`; `update`:
  `UpdateRead` - `UpdateCommit`; `UpdateStatus`; `DailyRemoveRead` -
  `DailyRemoveRow`.
* lists: `create` is `CreateLook` - `Insert`; a custom name of `startTrip` is
  `StartCustom` - `Insert` or `Reactivate`, a selected one `StartSelected`, and
  `StartInsert` the trip; `update` is `UpdateRead` - `UpdateLook` -
  `UpdateWrite`; `remove` is `RemoveCount` - `Delete`; `register` is
  `RegisterLook` - `RegisterInsert`; `updateByAdmin` is `EditRead` - `EditWrite`.
* `enforceVerificationRateLimit`: `CheckLimit` - `SetLimit`, inside
  `sendVerificationCode` (`SendRead` - limit - `SendMail` - `SendStore`) and
  `updateVerificationEmail` (`ChangeRead` - limit - `ChangeWrite` -
  `ChangeClear` - and then the code is sent); `verifyCode`: `VerifyRead` -
  `VerifyEnter` - `VerifyWrite` - `VerifyForget`.
* `login`: `LoginRead` - `Sign`; every guarded request starts with
  `GuardBlacklist`, which `Refresh`, `Change` or `Logout` follow with the check
  of the mark (`PassesMark`); a password is written by `ChangeWrite`,
  `AdminWrite` or `ResetRead` - `ResetWrite` - `ResetForget`, all with `SetMark`.
* `setUsersOfTruck`: `SetRead` - `SetDelete` (deleteMany begins) - `SetLock` (it
  has the rows it waits for) - `SetCommit`; `registerPlateChange`: `ChangeBegin`
  (and the user) - `ChangeRead` (the truck's status) - `ChangeInsert` (the row
  locks, and the date of the entry) - `ChangeCommit`; `assignUser`: `Assign`;
  `getOutOfServiceAlerts`: `Alerts`, one of which is shown.
* `handleConnection`: `Connect` - `Query` - `Join`, or `TurnAway`;
  `handleDisconnect`: `Disconnect`.
* service request `create`: `CreateRead` - `CreatePut` - `CreateInsert` -
  `CreateAnnounce`, with `CreatePutFails` and `CreateInsertFails` - `CreateUndo`.
* `checkExpiries`: `TimerFires` or `Midnight` - `CheckRead` or `CheckFails`.
* `adminUpdateUser`: `EditRead` - `EditLook` (the manager) - `EditWrite`; `remove`:
  `RemoveRead` - `RemoveDelete`, which is `UserRemoved` in `Notices`.
* monthly `upsertAdmin`: `UpsertRead` - `UpsertCommit` (with `Dedupe`, `Derive`);
  `StatusRead` - `StatusWrite`; `MonthlyRemoveRead` - `MonthlyRemoveRow`.

What other components do to the state of a module is in its `OtherServices`
(or in single actions such as `DailyTruckRemoved`), as freely as those components
may do it: `TripHistory` lets any status and mileage be written to a truck and
any survey be filed or deleted at any time.

## 3. Runs

| Run | Checks | Instance and why it is enough |
|---|---|---|
| `TripSafety` | `TypeOK`, `UneditedTripCoherent`, `SignaturesFollowStore` | two handlers, one trip, edits that reopen it, all faults but a lost commit: the pairs of handlers that can disagree about one image; readings without rounding |
| `TripRows` | `RowsReferToRows`, `StartedAfterSurvey`, `SignatureSettled` | two trucks and a day that come and go, trips moved between trucks, lost commits; fair handlers, no crash and an S3 that answers for the last property, which follows one key |
| `DocsSafety` | `TypeOK`, `StraysExplained`, `DocumentsFollowStore` | three handlers and four keys on one document: two replacements and a removal over a file that was there before |
| `ReportSafety` | `TypeOK` (with `NoDanglingScreenshot`), `StatusExplained`, `EveryoneTold` | two handlers with all faults, three timeline entries: a creation and two responses that overlap; fair handlers for the last property |
| `DailySafety` | `DailyTypeOK` (with `SurveyOnce`), `NewSurveySetsMileage` | two handlers, two trucks, two surveys, mileages written by others in between |
| `MonthlySafety` | `MonthlyTypeOK` (with `MonthOnce`), `StatusTellsReport`, `WorstKept` | two handlers, three ids over two trucks and months; three lists: none, a key that gets worse, and a key with two items as bad as each other beside another key. What merging does to any list is proved (section 4) |
| `CatalogueSafety` | `TypeOK` (with `ReferencesHold`), `DuplicatesExplained`, `ChosenIsListed` | two handlers, two entries of any kind, one word in two spellings, two managers, a trip and a user: two entries are what it takes to be duplicates, or to be chosen together |
| `VerificationSafety` | `TypeOK`, `VerifiedWhereMailed`, `LastCodeWorks`, `LimitPassedOnce`, `LoginFindsAccount` | two handlers, two users, one address in two spellings (two addresses to all that does not lower them), two codes, all faults |
| `SessionsSafety` | `TypeOK`, `OldSessionsEnd`, `PresentSessionsLast`, `EndedForGood` (tokens logged out, links used) | two handlers, one user, two signatures, two changes of the password, three seconds of which a token lasts two, Redis that goes down and up |
| `TrucksSafety` | `TypeOK`, `DriversAsAsked`, `LogTellsStatus`, `BreakdownAlerted` | two handlers, two users, one truck, a clock of two instants and two log entries: what it takes for two changes, and a third after them, to be dated in either order or alike and committed in the other. `OneOfThem` follows drivers and logs one at a time, since they share nothing but the existence of trucks and users |
| `NoticesSafety` | `TypeOK`, `RoomsFollowRoles`, `CreatesSettled` (requests announced, attachments named), `NoticesGiven`, `DriversManaged`, `AdminsKept`, `AttachmentsFollowStore` | two users and two edits of them, one socket, two handlers of service requests with two keys, one document and a midnight; `OneOfThem` follows sockets, requests and checks one at a time, each with the process and the users, since those are all they share |

Deadlock is not checked: when every id, key or place in a bounded table is used
and no request is in flight, the instance stops, as a server without clients.

One run checks a sentence that the code says of itself and does not keep:

* `DailyDefaults`: "Filtrar propiedades undefined". `PartialType` copies the
  property initializers of the create DTO (`currentMileage = 0`,
  `dailyMaintenanceItems = []`, `inspectionDate = new Date()`), so no field is
  ever undefined in a PATCH: leaving the reading out sets it, and the truck's
  mileage, to 0.

Other sentences that hold only when nothing overlaps are stated by properties
that name the exception, or told here:

* "El viaje debe estar en estado DRIVER_FILLING para finalizarse": two finishes
  (say, a retry) both pass the check, and the second overwrites;
* "El kilometraje final no puede ser menor al kilometraje inicial": `finishTrip`
  rounds `endKm` to three decimals while `startKm` has any number of them, which
  `UneditedTripCoherent` allows for (`NotBelow`); `updateByAdmin` compares the two
  with a row that a finish or another edit changes before it writes;
* `addPoints` inserts after an await whatever the status has become, so points
  read as allowed reach a COMPLETED trip ("El viaje ya no acepta puntos GPS");
* the survey's `create` compares its reading with a mileage read before the
  transaction, and `NewSurveySetsMileage` speaks only of the case in which the
  mileage is still that one;
* "Debes enviar una nota o cambiar el estado del reporte": two administrators
  resolve a report at once, and the second response changes nothing;
* "No se puede eliminar a un usuario administrador", and the same for editing:
  `AdminsKept` names the handler that read the user before he was one;
* "El usuario gestor debe tener rol ADMIN o DIRECTION": `DriversManaged` lists
  how a driver comes to have no such manager, among them being his own;
* an occupation that users have is not deleted: one whose users were counted as
  none is, and a user who registers with it in between loses it silently, since
  the foreign key sets his `occupationId` to null.

Histories. Where a property has exceptions, a history variable records them when
they happen, and the property says there are no others: `strays` (files given
up), `unchecked` (names or roles that were not looked at), `moved`, `stopped`
and `asked` (trucks), `owed`, `proven` and `respelled` (codes and addresses),
`out`, `unmarked` and `spent` (sessions), `missed`, `edited`, `failed` and
`loose` (notices and users). None of them occurs in a guard.

Bounds are the constants `MaxKm`, `MaxPoints`, `MaxEntries`, `MaxLogs`, `MaxTime`,
`MaxChanges`, `MaxIssued`, `MaxDay`, `MaxEntries` of `MCTrucks` (the rows of a
log that are followed up), the id and key sets (`TripIds`, `Keys`,
`RecordIds`, ...) and the sets of bodies (`Edits`, `Patches`, `Lists`). Two MC
modules add a `CONSTRAINT`, each called `OneOfThem` and explained above. Each
model is symmetric in its handlers, ids and keys where the configuration says
so; the runs of liveness use no symmetry.

Fairness: weak fairness of `Proceed(r)` only, that is, an awaited call returns
and the event loop resumes its handler. Nothing is assumed of clients, nor that
any particular request ever arrives. `SignatureSettled` is checked without
crashes and lost S3 calls, since the code has no collector that would repair
what they leave. `EveryoneTold` is checked with all faults: only a message whose
own handler failed (history variable `lost`) is excused. The other services need
none: what must happen in the end is stated as a safety property of whoever is
still to do it (`CreatesSettled`, `NoticesGiven`, `LastCodeWorks`).

Time. `Sessions` has a clock in seconds, since tokens and marks compare seconds,
and `TruckExpiry` one in days. `Trucks` has the milliseconds of `createdAt`: any
number of changes may fall in one. The default `now()` is the beginning of the
transaction if the database fills it in, and the call of `create` if its client
does, so an entry may bear any instant between the two. One clock dates them all,
and it does not go back. The expiry of codes, limits and links is an action
that may come at any time: no property depends on how long they last.

One fault is excluded from the claims about files: `lostCommit`, a write that
commits while its answer is lost. The catch blocks of `finishTrip`,
`uploadDocument` and the service requests' `create` then delete a file that a
row names. `TripHistory` has the fault, so adding it to `Faults` in
`TripSafety.cfg` shows that behaviour; the other two, whose catch blocks are the
same, leave it out.

## 4. Proofs

The theorems hold for every set of requests, rows, keys, users, names and
bodies, every bound and every choice of faults. They rest on the assumptions of
the modules (`...Constants`, and `NoMark`, `NoRole`, `NoKind`): bounds
are naturals, bodies and faults are of their types, `Requests` is finite in
`ProblemReports`, and `NULL` is none of the values it stands in for. TLC
evaluates each of them in a run. The signatures of trips need one more, that the
database reports the outcome of a transaction. Every safety invariant, every
action property and every refinement that a run checks is proved.

| Module | Theorem: what it states |
|---|---|
| `TripHistoryProofs` | `TypeCorrect`: `TypeOK`, and handlers hold what they need; `SignaturesSafe`: `NoDanglingSignature`; `SignaturesImplementStore`: `SignaturesFollowStore` (both with `"lostCommit" \notin Faults`); `UneditedTripsCoherent`; `RowsStayReferenced`: `RowsReferToRows`; `TripsStartAfterSurvey`: `StartedAfterSurvey` |
| `TruckDocumentsProofs` | `TypeCorrect`; `DocumentsSafe`: `NoDanglingDocument`; `StraysAreExplained`; `DocumentsImplementStore`: `DocumentsFollowStore` |
| `ProblemReportsProofs` | `TypeCorrect`, with `NoDanglingScreenshot`; `StatusIsExplained` |
| `CatalogueProofs` | `TypeCorrect`, with `ReferencesHold`; `DuplicatesAreExplained`; `ChosenAreListed` |
| `VerificationProofs` | `TypeCorrect`; `VerifiedOnlyWhereMailed`; `LastCodeAccepted`; `LimitsPassedOnce`; `LoginFinds` |
| `SessionsProofs` | `TypeCorrect`; `OldSessionsTurnedAway`; `PresentSessionsKept`; `EndedStaysEnded` |
| `NoticesProofs` | `TypeCorrect`; `RoomsAreThoseOfRoles`; `CreatesAreSettled`; `NoticesAreGiven`; `DriversAreManaged`; `AdminsAreKept` (an action property); `AttachmentsImplementStore`: `AttachmentsFollowStore` |
| `FleetProofs` | of `Trucks`: `TypeCorrect`, `DriversAreAsAsked`, `LogIsTrue`, `BreakdownsAreAlerted`; of `MonthlyMaintenance`: `MonthlyTypeCorrect`: `MonthlyTypeOK`, with `MonthOnce`, `MonthlyStatusIsTold`, `MonthlyWorstIsKept`; of `DailyMaintenance`: `DailyTypeCorrect`: `DailyTypeOK`, with `SurveyOnce`, `DailySurveySetsMileage` (an action property) |

`FleetProofs` extends three modules that share `Fleet` and `MaintenanceRecords` but
are not composed: a theorem there is about one of `Spec` (of `Trucks`),
`MonthlySpec` and `DailySpec`.

The argument is everywhere the same: an inductive invariant, kept by each
action in a lemma of its own, that says what a waiting handler knows. Where the
row a handler read can change while it waits, its knowledge is true *or* a
history variable tells that somebody overlapped; this is what a property that
names its exceptions needs and does not say.

* `TripHistory`. `NoDanglingSignature` does not say why a clean-up deletes no
  image in use. `SignatureInv` adds who may name or delete a key. A finish that
  has uploaded holds its key alone, no row has ever named it, and its image is
  there until the commit is decided (`FinishKeyPrivate`). A remove holds a key
  that was named, and if a row still names it, it is the row about to be deleted
  (`RemoveKeyOwned`). No two trips share a key (`SignatureOnce`), and keys are
  issued before they are stored or named (`KeysAccounted`). Steps are first
  classified by what they do to keys (`Passive`, `Uploads`, `Spoils`, ...); the
  invariant and the refinement are proved of these kinds and not of each action.
  `UneditedTripCoherent` needs `MeasuredKm`: a finish holds a reading that is not
  below the trip's `startKm`, or below by the rounding only, unless an
  administrator touched the trip since. `StartedAfterSurvey` needs
  `SurveyedByNow`: a startTrip that is past its check has seen a survey of its
  truck and day. `RowsReferToRows` needs the types; the foreign keys do the rest.
* `TruckDocuments`. `DocumentInv` is the same with documents that are replaced:
  an uploaded file is its handler's alone (`UploadPrivate`); an old one belongs
  to the slot, was named, and is no longer when it is about to be deleted
  (`OldOwned`). `StraysExplained` is proved over it.
* `ProblemReports`. `ReportInv` adds that entries come in the order of their ids
  (`InOrder`), so that the entry written last is the last change; that an answer
  logs a change exactly when it writes a status (`Ready`); and that the bound
  leaves an entry for every handler that will write one (`EntriesSuffice`, the
  reason why `Requests` is finite).
* `Catalogue`. `CatalogueInv` adds, per handler, of what kind the entries it
  holds are (`HeldOfKind`), that a name it did not find is only in entries
  written since (`LookLasts`), and that what a start has chosen is as it was
  read or was written since (`ChoiceLasts`).
* `Verification`. `AccountInv` adds that a code lies, or is held by a handler,
  under the address it was mailed to (`CodesMailed`), which is why it cannot
  verify another; that limits are kept under lower-case addresses; and that an
  address is in lower case unless the history says it was stored as typed.
* `Sessions`. `SessionInv` adds how long marks and blacklist entries last
  (`KeysLast`): as long as the tokens they end. A session of an earlier password
  is either late or not after the mark (`StaleMarked`), and so is what a handler
  is about to sign (`StaleHeld`): the comparisons of seconds, of the guard
  and of the mark, are decided there. `PresentKept` and `LinksSpent` are the
  same for sessions that must last and links that must end.
* `Notices`. The invariant is that of its four parts side by side. Each is
  proved of its own module's actions, and a step of the process or of a user is
  the conjunction of what it does to each part. `EditReady` is what an edit
  knows of the role and of the manager it read; `CreatesReady` what a request
  holds of its attachment. `AdminsKept` follows from the former for one step.
* `Trucks`. Of `setUsersOfTruck` under read committed, `SeenLasts` says that the
  rows deleteMany saw are all there are, or that the handler was raced;
  `ReadLasts` the same of the status that registerPlateChange read. Entries are
  not committed in the order of their dates: `PassedTold` says that a change
  under way knows the reason of every entry that is dated after it (it was
  committed while this one was under way), and `LogDated` that no entry is dated
  ahead of the clock, so that a change that begins has none to know of. With
  them `LogTellsStatus` and `BreakdownAlerted` are inductive: when a change
  commits, its entry is one of the latest, or the one that was stays so
  (`LatestAdded`) and is then of a change that overlapped this one.
* `MonthlyMaintenance` and `DailyMaintenance`. `MonthlyInv` and `DailyInv` add
  what handlers hold (`UpsertReady`, `SurveyReady`) and type rows as a whole: a
  row that does not exist is the empty one. Each write is one lemma, "a row
  becomes another that the keys of its table admit" (`SurveysWritten`), and each
  removal another (`MonthsGo`, `SurveysGo`).

`MonthlyWorstIsKept` and `MonthlyStatusIsTold` rest on what `Dedupe` computes of a
list of any length, `DedupeKeepsWorst` and `DedupeReports`. The maps that the
loop of dedupeMonthlyItems goes through are shown to exist (`MapsExist`), to keep
the worst of the items so far (`Tells`), and to keep that when one is added
(`AddTells`). The induction theorems of the library take an operator, which the
provers cannot instantiate; `Induction` states the principle for a set instead,
and is proved from the least element of a set of naturals (`Least`), which the
library's well-founded order on them has.

`NoDanglingSignature`, `NoDanglingDocument` and the inductive invariants are
proved and are not checked by runs of their own: the refinements imply the first
two, since `ObjectStore` lets no linked file be deleted.

Only model-checked: `SignatureSettled` and `EveryoneTold`, since liveness under
fairness is out of the prover's reach, and the violation `DailyDefaults`.

## 5. Not modelled, and the plan

Not modelled:

* queries, exports and statistics, which change nothing, and the cache of signed
  URLs in Redis that serves them;
* access control: the models contain the requests it lets through. Guards of
  roles only reject; the throttler of logins counts in a library's memory;
* how `GoogleRoadsService` cuts a route into chunks: it keeps no state, and the
  length of a route is any value in `TripHistory`;
* the mileage of a truck across its trips and surveys: `TripHistory` and
  `DailyMaintenance` each let the other write it at any time, since the code
  promises no order between them;
* wording, logging and the text of mails; the deletion of a driver's account as
  trips see it (their `driverId` is set to null); JSON `null` in PATCH bodies
  other than `managedById`; phone numbers and RUTs, whose indexes only reject;
* `UserService.update` and `create`, which no route calls.

Next: the theorems cover every invariant, action property and refinement of the
runs. What is left to prove are the steps that liveness rests on: that a handler
which proceeds comes nearer to its end (a bound on the calls it still makes),
from which the fairness of `Proceed` would give `SignatureSettled` and
`EveryoneTold`, checked by TLC; and which of the ways to give up a signature, a
document or an attachment remain when `Faults` is empty.
