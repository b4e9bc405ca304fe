------------------------------- MODULE Trucks -------------------------------
(***************************************************************************)
(* The trucks of the fleet: who drives them and whether they run.          *)
(* TruckService.assignUser, setUsersOfTruck, registerPlateChange and       *)
(* getOutOfServiceAlerts, with create, update and remove of trucks and     *)
(* what UserService does to the users those rows name.                     *)
(*                                                                         *)
(* A request is a handler in flight.  Transactions run under Postgres'     *)
(* read committed: a statement sees what was committed when it began, and  *)
(* waits for the rows another transaction has deleted or updated.  Checks  *)
(* of permission are left out: they reject, and an administrator passes    *)
(* them all.  Reads that only reject what a later call of the same handler *)
(* rejects as well are part of that call.                                  *)
(***************************************************************************)
EXTENDS Naturals, Fleet

CONSTANTS
  Users,      \* values of the User id sequence
  MaxLogs     \* bound: instants of the clock entries of a log are dated by

ASSUME TrucksConstants ==
  /\ MaxLogs \in Nat
  /\ NULL \notin Users \cup Trucks \cup {"ACTIVE", "INACTIVE", "gone"}
  /\ \A users \in SUBSET Users : users # NULL

VARIABLES
  role,       \* User.role by id, "gone" when the row was deleted
  status,     \* Truck.status by id, likewise, NULL until it is created
  assigned,   \* TruckAssignment rows
  log,        \* TruckPlateChangeLog rows of each truck
  clock,      \* the latest instant a change began or dated its entry
  asked,      \* history: the drivers asked for, NULL while that is unclear
  unchecked,  \* history: users whose role was changed, or never checked
  moved,      \* history: trucks whose status the last log entry need not tell
  stopped     \* history: who may have reported the last breakdown of a truck

vars == <<role, status, assigned, log, clock, req, asked, unchecked, moved,
          stopped>>
histories == <<asked, unchecked, moved, stopped>>

(* Of the roles only the driver's matters to a truck.                      *)
UserRole == {"DRIVER", "OTHER"}
TruckStatus == {"ACTIVE", "INACTIVE"}
PlateChangeReason == {"AVERIA", "LOGISTICA"}

Assignment == Users \X Trucks
Entry == [createdAt : 1..MaxLogs, reason : PlateChangeReason, user : Users,
          newStatus : TruckStatus]

Pc == {"idle", "delete", "lock", "insert",           \* setUsersOfTruck
       "read", "change", "commit"}                   \* registerPlateChange

(* status: the one read.  seen: the rows deleteMany saw and still has to   *)
(* delete.  raced: what the handler rests on was written since it was read.*)
(* createdAt: when the transaction began, and then the date of its entry.  *)
(* passed: the reasons of the changes of the truck committed since it began*)
Handler == [pc : Pc, truck : Optional(Trucks), user : Optional(Users),
            users : SUBSET Users, seen : SUBSET Users,
            reason : Optional(PlateChangeReason),
            status : Optional(TruckStatus), createdAt : 0..MaxLogs,
            raced : BOOLEAN, passed : SUBSET PlateChangeReason]

Idle == [pc |-> "idle", truck |-> NULL, user |-> NULL, users |-> {},
         seen |-> {}, reason |-> NULL, status |-> NULL, createdAt |-> 0,
         raced |-> FALSE, passed |-> {}]

Return(r) == Become(r, Idle)

UserExists(u) == role[u] \in UserRole
TruckExists(t) == status[t] \in TruckStatus
DriversOf(t) == {u \in Users : <<u, t>> \in assigned}

Init ==
  /\ role \in [Users -> UserRole]
  /\ status = [t \in Trucks |-> NULL]
  /\ assigned = {}
  /\ log = [t \in Trucks |-> {}]
  /\ clock = 0
  /\ req = [r \in Requests |-> Idle]
  /\ asked = [t \in Trucks |-> {}]
  /\ unchecked = {}
  /\ moved = {}
  /\ stopped = [t \in Trucks |-> {}]

-----------------------------------------------------------------------------
(* assignUser                                                              *)

(* The handlers Q find what they rest on written by somebody else.         *)
Race(Q) == [q \in Requests |-> [req[q] EXCEPT !.raced = @ \/ q \in Q]]

Replacing(t) == {q \in Requests : req[q].pc \in {"lock", "insert"}
                                    /\ req[q].truck = t}

(* The row's primary key and foreign keys decide.                          *)
Assign(u, t) ==
  /\ UserExists(u)
  /\ TruckExists(t)
  /\ <<u, t>> \notin assigned
  /\ assigned' = assigned \cup {<<u, t>>}
  /\ req' = Race(Replacing(t))
  /\ asked' = [asked EXCEPT ![t] = IF @ = NULL THEN NULL ELSE @ \cup {u}]
  /\ unchecked' = unchecked \cup {u}
  /\ UNCHANGED <<role, status, log, clock, moved, stopped>>

-----------------------------------------------------------------------------
(* setUsersOfTruck                                                         *)

MayDrive(u) == role[u] = "DRIVER"

SetRead(r, t, users) ==
  /\ At(r, "idle")
  /\ TruckExists(t)
  /\ \A u \in users : MayDrive(u)
  /\ Become(r, [Idle EXCEPT !.pc = "delete", !.truck = t, !.users = users])
  /\ UNCHANGED <<role, status, assigned, log, clock, histories>>

(* deleteMany begins: it will delete the rows it sees now.                 *)
SetDelete(r) ==
  /\ At(r, "delete")
  /\ Become(r, [req[r] EXCEPT !.pc = "lock", !.seen = DriversOf(req[r].truck)])
  /\ UNCHANGED <<role, status, assigned, log, clock, histories>>

(* It waits for those of them that another transaction has deleted.        *)
SetLock(r) ==
  /\ At(r, "lock")
  /\ \A q \in Replacing(req[r].truck) :
       At(q, "insert") => req[q].seen \cap req[r].seen = {}
  /\ Become(r, [req[r] EXCEPT !.pc = "insert"])
  /\ UNCHANGED <<role, status, assigned, log, clock, histories>>

Rows(users, t) == {<<u, t>> : u \in users}

(* Wrong: the new drivers are added and the old ones kept.                 *)
BugReplaced(h) == assigned \cup Rows(h.users, h.truck)

Replaced(h) ==
  (assigned \ Rows(h.seen, h.truck)) \cup Rows(h.users, h.truck)

(* Rows a replacement has deleted are not there for the others to delete.  *)
Outrun(h) ==
  [q \in Requests |->
     IF q \in Replacing(h.truck)
     THEN [req[q] EXCEPT !.raced = TRUE, !.seen = @ \ h.seen]
     ELSE req[q]]

(* createMany skips duplicates, and the transaction commits.  Rows that    *)
(* were inserted since deleteMany began stay.                              *)
SetCommit(r) ==
  LET h == req[r] IN
  /\ At(r, "insert")
  /\ h.users # {} => TruckExists(h.truck)
  /\ \A u \in h.users : UserExists(u)
  /\ assigned' = Replaced(h)
  /\ req' = [Outrun(h) EXCEPT ![r] = Idle]
  /\ asked' = [asked EXCEPT ![h.truck] = IF h.raced THEN NULL ELSE h.users]
  /\ UNCHANGED <<role, status, log, clock, unchecked, moved, stopped>>

-----------------------------------------------------------------------------
(* registerPlateChange                                                     *)

Changing(t) == {q \in Requests : req[q].pc \in {"read", "change", "commit"}
                                    /\ req[q].truck = t}

(* The transaction begins, and finds the user.                             *)
ChangeBegin(r, u, t, reason, instant) ==
  /\ At(r, "idle")
  /\ UserExists(u)
  /\ status[t] # NULL
  /\ clock <= instant
  /\ clock' = instant
  /\ Become(r, [Idle EXCEPT !.pc = "read", !.user = u, !.truck = t,
                            !.reason = reason, !.createdAt = instant])
  /\ UNCHANGED <<role, status, assigned, log, histories>>

ChangeRead(r) ==
  /\ At(r, "read")
  /\ TruckExists(req[r].truck)
  /\ Become(r, [req[r] EXCEPT !.pc = "change", !.status = status[req[r].truck],
                              !.raced = FALSE])
  /\ UNCHANGED <<role, status, assigned, log, clock, histories>>

NewStatus(h) == IF h.reason = "AVERIA" THEN "INACTIVE" ELSE h.status

(* The status is written only when it differs from the one read.           *)
Writes(h) == NewStatus(h) # h.status

(* An entry not yet committed holds the truck and the user it names: they  *)
(* cannot be deleted.  A status not yet committed holds the truck against  *)
(* every other write of it, but not against the insert of an entry.        *)
Naming(t) == {q \in Requests : At(q, "commit") /\ req[q].truck = t}
Signing(u) == {q \in Requests : At(q, "commit") /\ req[q].user = u}
Holding(t) == {q \in Naming(t) : Writes(req[q])}

(* update, which waits for the truck, and create.  The truck is held from  *)
(* the former on, and in between this handler does nothing another one     *)
(* sees.  Nobody sees the rows before the commit.  createdAt is left to    *)
(* now(): an instant between the beginning of the transaction, which it is *)
(* to the database, and this call, which it may be to its client.          *)
ChangeInsert(r, createdAt) ==
  /\ At(r, "change")
  /\ TruckExists(req[r].truck)
  /\ UserExists(req[r].user)
  /\ Writes(req[r]) => Holding(req[r].truck) = {}
  /\ req[r].createdAt <= createdAt
  /\ clock' = IF clock < createdAt THEN createdAt ELSE clock
  /\ Become(r, [req[r] EXCEPT !.pc = "commit", !.createdAt = createdAt])
  /\ UNCHANGED <<role, status, assigned, log, histories>>

(* Wrong: a breakdown is logged and the truck runs on.                     *)
BugStatusAfter(h) == status[h.truck]

StatusAfter(h) == IF Writes(h) THEN NewStatus(h) ELSE status[h.truck]

EntryOf(h) == [createdAt |-> h.createdAt, reason |-> h.reason, user |-> h.user,
               newStatus |-> NewStatus(h)]

(* What the commit of h is to the other changes of its truck.              *)
Overtaken(h) ==
  [q \in Requests |->
     IF q \in Changing(h.truck)
     THEN [req[q] EXCEPT !.raced = @ \/ Writes(h),
                         !.passed = @ \cup {h.reason}]
     ELSE req[q]]

(* h logs a status that another handler replaced after h had read it, or   *)
(* writes a status that an entry made meanwhile need not know of.          *)
Misled(h) == IF Writes(h) THEN "LOGISTICA" \in h.passed ELSE h.raced

(* Of breakdowns that overlap any may be the last.                         *)
Reporters(h) ==
  IF "AVERIA" \notin h.passed THEN {h.user}
  ELSE IF stopped[h.truck] = {} THEN {}
  ELSE stopped[h.truck] \cup {h.user}

ChangeCommit(r) ==
  LET h == req[r]
      t == h.truck IN
  /\ At(r, "commit")
  /\ status' = [status EXCEPT ![t] = StatusAfter(h)]
  /\ log' = [log EXCEPT ![t] = @ \cup {EntryOf(h)}]
  /\ req' = [Overtaken(h) EXCEPT ![r] = Idle]
  /\ moved' = IF Misled(h) THEN moved \cup {t}
              ELSE IF h.passed = {} THEN moved \ {t} ELSE moved
  /\ stopped' = [stopped EXCEPT ![t] =
       IF h.reason = "AVERIA" /\ StatusAfter(h) = "INACTIVE"
       THEN Reporters(h) ELSE @]
  /\ UNCHANGED <<role, assigned, clock, asked, unchecked>>

(* Wrong: the first breakdown is shown, not the latest.                    *)
BugLatest(entries) ==
  {e \in entries : \A f \in entries : e.createdAt <= f.createdAt}

(* orderBy createdAt desc: which of them comes first.  Entries of the same *)
(* millisecond come in any order.                                          *)
Latest(entries) ==
  {e \in entries : \A f \in entries : f.createdAt <= e.createdAt}

(* getOutOfServiceAlerts: the latest breakdown of each truck standing still*)
Breakdowns(t) ==
  {e \in log[t] : e.reason = "AVERIA" /\ e.newStatus = "INACTIVE"}

Alerts(t) == IF status[t] = "INACTIVE" THEN Latest(Breakdowns(t)) ELSE {}

-----------------------------------------------------------------------------
(* Trucks                                                                  *)

TruckCreate(t) ==
  /\ status[t] = NULL
  /\ status' = [status EXCEPT ![t] = "ACTIVE"]
  /\ UNCHANGED <<role, assigned, log, clock, req, histories>>

(* update, with a status in the body.                                      *)
TruckUpdate(t, new) ==
  /\ TruckExists(t)
  /\ Holding(t) = {}
  /\ status' = [status EXCEPT ![t] = new]
  /\ req' = Race(Changing(t))
  /\ moved' = moved \cup {t}
  /\ stopped' = [stopped EXCEPT ![t] = {}]
  /\ UNCHANGED <<role, assigned, log, clock, asked, unchecked>>

(* Wrong: the assignments stay.                                            *)
BugTruckFree(t) == TruckExists(t)

TruckFree(t) == TruckExists(t) /\ DriversOf(t) = {}

(* The foreign key of an assignment restricts, that of the log cascades.   *)
TruckRemove(t) ==
  /\ TruckFree(t)
  /\ Naming(t) = {}
  /\ status' = [status EXCEPT ![t] = "gone"]
  /\ log' = [log EXCEPT ![t] = {}]
  /\ asked' = [asked EXCEPT ![t] = NULL]
  /\ moved' = moved \ {t}
  /\ stopped' = [stopped EXCEPT ![t] = {}]
  /\ UNCHANGED <<role, assigned, clock, req, unchecked>>

-----------------------------------------------------------------------------
(* Users.  All of them exist at the start: a later one is in no row, nor   *)
(* does any handler hold his id.                                           *)

(* u drives a truck, or is about to.                                       *)
Concerned(u) ==
  \/ \E t \in Trucks : <<u, t>> \in assigned
  \/ \E r \in Requests : u \in req[r].users

(* adminUpdateUser, with a role in the body.                               *)
UserUpdate(u, as) ==
  /\ UserExists(u)
  /\ role' = [role EXCEPT ![u] = as]
  /\ unchecked' = IF Concerned(u) THEN unchecked \cup {u} ELSE unchecked
  /\ UNCHANGED <<status, assigned, log, clock, req, asked, moved, stopped>>

EntriesBy(u, t) == {e \in log[t] : e.user = u}

UserRemove(u) ==
  /\ UserExists(u)
  /\ \A t \in Trucks : <<u, t>> \notin assigned
  /\ Signing(u) = {}
  /\ role' = [role EXCEPT ![u] = "gone"]
  /\ log' = [t \in Trucks |-> log[t] \ EntriesBy(u, t)]
  /\ unchecked' = unchecked \ {u}
  /\ moved' = moved \cup {t \in Trucks : EntriesBy(u, t) # {}}
  /\ stopped' = [t \in Trucks |-> IF u \in stopped[t] THEN {} ELSE stopped[t]]
  /\ UNCHANGED <<status, assigned, clock, req, asked>>

-----------------------------------------------------------------------------
(* A check rejects, a constraint or a query fails, the process restarts:   *)
(* the open transaction is rolled back.                                    *)
Fail(r) ==
  /\ ~At(r, "idle")
  /\ Return(r)
  /\ UNCHANGED <<role, status, assigned, log, clock, histories>>

Step(r) ==
  \/ \E t \in Trucks, users \in SUBSET Users : SetRead(r, t, users)
  \/ SetDelete(r)
  \/ SetLock(r)
  \/ SetCommit(r)
  \/ \E u \in Users, t \in Trucks, reason \in PlateChangeReason,
          instant \in 1..MaxLogs : ChangeBegin(r, u, t, reason, instant)
  \/ ChangeRead(r)
  \/ \E createdAt \in 1..MaxLogs : ChangeInsert(r, createdAt)
  \/ ChangeCommit(r)
  \/ Fail(r)

Next ==
  \/ \E r \in Requests : Step(r)
  \/ \E u \in Users, t \in Trucks : Assign(u, t)
  \/ \E t \in Trucks : TruckCreate(t) \/ TruckRemove(t)
  \/ \E t \in Trucks, new \in TruckStatus : TruckUpdate(t, new)
  \/ \E u \in Users, as \in UserRole : UserUpdate(u, as)
  \/ \E u \in Users : UserRemove(u)

Spec == Init /\ [][Next]_vars

-----------------------------------------------------------------------------
(* Types, and the foreign keys of assignments and log entries.             *)
TypeOK ==
  /\ role \in [Users -> UserRole \cup {"gone"}]
  /\ status \in [Trucks -> TruckStatus \cup {NULL, "gone"}]
  /\ assigned \subseteq Assignment
  /\ log \in [Trucks -> SUBSET Entry]
  /\ clock \in 0..MaxLogs
  /\ req \in [Requests -> Handler]
  /\ asked \in [Trucks -> Optional(SUBSET Users)]
  /\ unchecked \subseteq Users
  /\ moved \subseteq Trucks
  /\ stopped \in [Trucks -> SUBSET Users]
  /\ \A row \in assigned : UserExists(row[1]) /\ TruckExists(row[2])
  /\ \A t \in Trucks : \A e \in log[t] : TruckExists(t) /\ UserExists(e.user)

(* A truck has the drivers the last replacement asked for and those        *)
(* assigned since.  Two replacements that overlap may leave their union: it*)
(* is unclear then, until the next replacement that overlaps none.         *)
(* And they are drivers, unless assignUser put them there or their role    *)
(* was changed after setUsersOfTruck looked at it.                         *)
DriversAsAsked ==
  /\ \A t \in Trucks :
       TruckExists(t) /\ asked[t] # NULL => DriversOf(t) = asked[t]
  /\ \A row \in assigned : role[row[1]] = "DRIVER" \/ row[1] \in unchecked

(* The latest entry of a truck's log, or one of them when they were made in*)
(* the same millisecond, tells its status, whatever changes overlap and in *)
(* whatever order they commit, unless update wrote the status, the entries *)
(* of a user went with him, or a change that writes the status overlapped  *)
(* one that does not: the latter logged the status it had read before, or  *)
(* dated its entry after that of the former and committed first.           *)
LogTellsStatus ==
  \A t \in Trucks : log[t] # {} /\ t \notin moved =>
    \E e \in Latest(log[t]) : e.newStatus = status[t]

(* A truck that stands still for a breakdown is alerted of with the user   *)
(* who reported it last, or one of those whose reports overlapped, as long *)
(* as he exists: the order of createdAt and that of the commits may differ,*)
(* but only for such reports.  Of reports dated to the same millisecond any*)
(* may come first.                                                         *)
BreakdownAlerted ==
  \A t \in Trucks : stopped[t] # {} =>
    \E e \in Alerts(t) : e.user \in stopped[t]
=============================================================================
