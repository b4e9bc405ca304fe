-------------------------- MODULE ProblemReports --------------------------
(***************************************************************************)
(* Problem reports and their timelines: ReportService.create and           *)
(* respondToReport (updateStatus is respondToReport without a note), over  *)
(* the ProblemReport and ProblemReportTimeline rows, the screenshots in S3 *)
(* and the messages the gateway emits.                                     *)
(*                                                                         *)
(* A request is a handler in flight, with one action per awaited call that *)
(* reads or writes what another request can change.  Titles, texts and the *)
(* words of a note are left out; file validation only rejects a request.   *)
(***************************************************************************)
EXTENDS Naturals, FiniteSets

CONSTANTS
  Requests,    \* handlers that can be in flight together
  Users, Admins,
  ReportIds,   \* values of the ProblemReport id sequence
  Keys,        \* S3 keys buildScreenshotKey can produce
  MaxEntries,  \* bound: timeline entries ever written
  Responses,   \* bodies of PATCH /reports/:id/respond that are considered
  Faults,      \* what may go wrong outside the handlers
  NULL

AllFaults == {"crash",    \* the Node process restarts
              "dbError",  \* a query fails for no reason of its own
              "lostPut"}  \* S3 stores the file but the upload throws

Status == {"OPEN", "IN_REVIEW", "RESOLVED"}
Event == {"CREATED", "STATUS_CHANGED", "NOTE_ADDED", "NOTE_AND_STATUS_CHANGED"}
Optional(S) == S \cup {NULL}

(* RespondProblemReportDto: whether there is a note, and the status if any.*)
Response == [note : BOOLEAN, status : Optional(Status)]

ASSUME ReportConstants ==
  /\ IsFiniteSet(Requests)
  /\ Admins \subseteq Users
  /\ MaxEntries \in Nat
  /\ Responses \subseteq Response
  /\ Faults \subseteq AllFaults
  /\ NULL \notin Keys \cup Users \cup ReportIds \cup Status

VARIABLES
  users,    \* User rows that exist
  report,   \* ProblemReport rows, by id
  created,  \* ids the sequence has given out
  timeline, \* the ProblemReportTimeline rows of each report
  entries,  \* how many timeline rows were ever written
  objects,  \* keys present in the bucket
  issued,   \* keys buildScreenshotKey has produced
  told,     \* messages emitted: <<p, 0>> for report:created, <<p, n>> for
            \* the report:updated of timeline row n
  req,      \* the handlers in flight
  erased,   \* history: reports that lost timeline rows with a user
  lost      \* history: messages whose handler failed before emitting them

rows == <<users, report, created, timeline, entries, erased>>
bucket == <<objects, issued>>
messages == <<told, lost>>
vars == <<rows, bucket, messages, req>>

NoReport == [status |-> "NONE", reporter |-> NULL, screenshot |-> NULL]
Report == [status : Status \cup {"NONE"}, reporter : Optional(Users),
           screenshot : Optional(Keys)]
Entry == [id : 1..MaxEntries, event : Event, actor : Users,
          previous : Status, new : Status]

ReportExists(p) == report[p].status # "NONE"

Pc == {"idle", "upload", "insert", "log", "announceNew",   \* create
       "commit", "announce"}                               \* respondToReport

Idle == [pc |-> "idle", actor |-> NULL, report |-> NULL, key |-> NULL,
         event |-> NULL, read |-> NULL, next |-> NULL, entry |-> 0]

(* read is the status respondToReport found, next the one it will record.  *)
Handler == [pc : Pc, actor : Optional(Users), report : Optional(ReportIds),
            key : Optional(Keys), event : Optional(Event),
            read : Optional(Status), next : Optional(Status),
            entry : 0..MaxEntries]

At(r, pc) == req[r].pc = pc
Become(r, handler) == req' = [req EXCEPT ![r] = handler]
Goto(r, pc) == Become(r, [req[r] EXCEPT !.pc = pc])
Return(r) == Become(r, Idle)

Init ==
  /\ users = Users
  /\ report = [p \in ReportIds |-> NoReport]
  /\ created = {}
  /\ timeline = [p \in ReportIds |-> {}]
  /\ entries = 0
  /\ objects = {}
  /\ issued = {}
  /\ told = {}
  /\ lost = {}
  /\ req = [r \in Requests |-> Idle]
  /\ erased = {}

-----------------------------------------------------------------------------
(* POST /reports                                                           *)

CreateBegin(r, u, withFile) ==
  /\ At(r, "idle")
  /\ u \in users
  /\ Become(r, [Idle EXCEPT !.actor = u,
                            !.pc = IF withFile THEN "upload" ELSE "insert"])
  /\ UNCHANGED <<rows, bucket, messages>>

CreateUpload(r) ==
  /\ At(r, "upload")
  /\ \E k \in Keys \ issued :
       /\ issued' = issued \cup {k}
       /\ objects' = objects \cup {k}
       /\ Become(r, [req[r] EXCEPT !.pc = "insert", !.key = k])
  /\ UNCHANGED <<rows, messages>>

CreateUploadFails(r) ==
  /\ At(r, "upload")
  /\ \E k \in Keys \ issued :
       /\ issued' = issued \cup {k}
       /\ \/ UNCHANGED objects
          \/ "lostPut" \in Faults /\ objects' = objects \cup {k}
  /\ Return(r)
  /\ UNCHANGED <<rows, messages>>

CreateInsert(r, p) ==
  /\ At(r, "insert")
  /\ p \notin created
  /\ req[r].actor \in users
  /\ report' = [report EXCEPT ![p] = [status |-> "OPEN",
                                      reporter |-> req[r].actor,
                                      screenshot |-> req[r].key]]
  /\ created' = created \cup {p}
  /\ Become(r, [req[r] EXCEPT !.pc = "log", !.report = p])
  /\ UNCHANGED <<users, timeline, entries, erased, bucket, messages>>

(* A timeline row under the next id; its foreign keys are the report and   *)
(* the actor.                                                              *)
Accepts(p, u) == ReportExists(p) /\ u \in users

Log(p, event, u, previous, new) ==
  /\ entries' = entries + 1
  /\ timeline' = [timeline EXCEPT ![p] = @ \cup
       {[id |-> entries + 1, event |-> event, actor |-> u,
         previous |-> previous, new |-> new]}]

(* Wrong: the CREATED entry without its foreign keys.                      *)
BugLogUnchecked(r) ==
  /\ At(r, "log")
  /\ Log(req[r].report, "CREATED", req[r].actor, "OPEN", "OPEN")
  /\ Goto(r, "announceNew")
  /\ UNCHANGED <<users, report, created, erased, bucket, messages>>

(* A call of its own, after the insert: with the status that returned.     *)
CreateLog(r) ==
  /\ At(r, "log")
  /\ Accepts(req[r].report, req[r].actor)
  /\ Log(req[r].report, "CREATED", req[r].actor, "OPEN", "OPEN")
  /\ Goto(r, "announceNew")
  /\ UNCHANGED <<users, report, created, erased, bucket, messages>>

(* Wrong: the administrators are never told.                               *)
BugCreateSilent(r) ==
  /\ At(r, "announceNew")
  /\ Return(r)
  /\ UNCHANGED <<rows, bucket, messages>>

CreateAnnounce(r) ==
  /\ At(r, "announceNew")
  /\ told' = told \cup {<<req[r].report, 0>>}
  /\ Return(r)
  /\ UNCHANGED <<rows, bucket, lost>>

-----------------------------------------------------------------------------
(* PATCH /reports/:id/respond and, without a note, /reports/:id/status     *)

EventOf(note, changes) ==
  CASE note /\ changes -> "NOTE_AND_STATUS_CHANGED"
    [] note /\ ~changes -> "NOTE_ADDED"
    [] OTHER -> "STATUS_CHANGED"

RespondRead(r, a, p, dto) ==
  LET read == report[p].status
      next == IF dto.status = NULL THEN read ELSE dto.status
  IN
  /\ At(r, "idle")
  /\ a \in users
  /\ ReportExists(p)
  /\ (next = read) => dto.note
  /\ Become(r, [Idle EXCEPT !.pc = "commit", !.actor = a, !.report = p,
                            !.event = EventOf(dto.note, next # read),
                            !.read = read, !.next = next])
  /\ UNCHANGED <<rows, bucket, messages>>

(* Wrong: the status is always written, as it was read if not changed.     *)
BugStatusWritten(row, q) == q.next

(* The row's status is written only by a response that changes the status  *)
(* it read; any other only touches updatedAt.                              *)
StatusWritten(row, q) == IF q.next # q.read THEN q.next ELSE row.status

(* The transaction locks the row with its update, then adds the entry,     *)
(* with the status read before as the previous one.                        *)
RespondCommit(r) ==
  LET q == req[r]  p == q.report IN
  /\ At(r, "commit")
  /\ Accepts(p, q.actor)
  /\ report' = [report EXCEPT ![p].status = StatusWritten(report[p], q)]
  /\ Log(p, q.event, q.actor, q.read, q.next)
  /\ Become(r, [q EXCEPT !.pc = "announce", !.entry = entries + 1])
  /\ UNCHANGED <<users, created, erased, bucket, messages>>

(* report:updated goes to the reporter.                                    *)
RespondAnnounce(r) ==
  /\ At(r, "announce")
  /\ told' = told \cup {<<req[r].report, req[r].entry>>}
  /\ Return(r)
  /\ UNCHANGED <<rows, bucket, lost>>

-----------------------------------------------------------------------------
(* The message a handler still has to emit for what it has written.        *)
Owed(r) ==
  IF req[r].pc \in {"log", "announceNew", "announce"}
  THEN {<<req[r].report, req[r].entry>>} ELSE {}

(* A query throws, and with no catch block the request ends: a row it      *)
(* needs is gone, or the database fails.                                   *)
Reject(r) ==
  /\ \/ At(r, "insert") /\ req[r].actor \notin users
     \/ req[r].pc \in {"log", "commit"} /\ ~Accepts(req[r].report, req[r].actor)
     \/ "dbError" \in Faults /\ req[r].pc \in {"insert", "log", "commit"}
  /\ lost' = lost \cup Owed(r)
  /\ Return(r)
  /\ UNCHANGED <<rows, bucket, told>>

Crash ==
  /\ "crash" \in Faults
  /\ \E r \in Requests : ~At(r, "idle")
  /\ lost' = lost \cup UNION {Owed(r) : r \in Requests}
  /\ req' = [r \in Requests |-> Idle]
  /\ UNCHANGED <<rows, bucket, told>>

(* DELETE /users/:id: the user's reports, their timelines and the user's   *)
(* entries in other timelines cascade; the screenshots stay in S3.  Only a *)
(* user that is not an ADMIN when read can be removed; roles are left out, *)
(* since a user removed while being promoted may have answered reports.    *)
UserRemove(u) ==
  LET gone == {p \in ReportIds : report[p].reporter = u} IN
  /\ u \in users
  /\ users' = users \ {u}
  /\ report' = [p \in ReportIds |-> IF p \in gone THEN NoReport ELSE report[p]]
  /\ timeline' = [p \in ReportIds |-> IF p \in gone THEN {}
                                      ELSE {e \in timeline[p] : e.actor # u}]
  /\ erased' = erased \cup
       {p \in ReportIds : \E e \in timeline[p] : e.actor = u}
  /\ UNCHANGED <<created, entries, bucket, messages, req>>

(* Bound: a request comes only while there is an entry left for it.        *)
EntryLeft == entries + Cardinality({r \in Requests : ~At(r, "idle")}) < MaxEntries

Arrive(r) ==
  /\ EntryLeft
  /\ \/ \E u \in Users, withFile \in BOOLEAN : CreateBegin(r, u, withFile)
     \/ \E a \in Admins, p \in ReportIds, dto \in Responses :
          RespondRead(r, a, p, dto)

Proceed(r) ==
  \/ CreateUpload(r) \/ CreateUploadFails(r)
  \/ \E p \in ReportIds : CreateInsert(r, p)
  \/ CreateLog(r) \/ CreateAnnounce(r)
  \/ RespondCommit(r) \/ RespondAnnounce(r)
  \/ Reject(r)

Next ==
  \/ \E r \in Requests : Arrive(r) \/ Proceed(r)
  \/ \E u \in Users : UserRemove(u)
  \/ Crash

Spec == Init /\ [][Next]_vars

(* Awaited calls return; requests need not come.                           *)
FairSpec == Spec /\ \A r \in Requests : WF_vars(Proceed(r))

-----------------------------------------------------------------------------
(* Properties                                                              *)

(* A report never shows a screenshot the bucket does not have, although    *)
(* the upload may fail and the row is inserted after it.                   *)
NoDanglingScreenshot ==
  \A p \in ReportIds : report[p].screenshot # NULL =>
    report[p].screenshot \in objects

(* Rows, handlers and messages stay in their types, and a report that does *)
(* not exist has no timeline, although its reporter can be removed between *)
(* the insert of a report and that of its CREATED entry; and a screenshot  *)
(* that a report names is there.                                           *)
TypeOK ==
  /\ users \subseteq Users
  /\ report \in [ReportIds -> Report]
  /\ created \subseteq ReportIds
  /\ timeline \in [ReportIds -> SUBSET Entry]
  /\ entries \in 0..MaxEntries
  /\ \A p \in ReportIds :
       /\ ReportExists(p) => report[p].reporter \in users
       /\ timeline[p] # {} => ReportExists(p)
  /\ objects \subseteq Keys /\ issued \subseteq Keys
  /\ told \cup lost \subseteq ReportIds \X (0..MaxEntries)
  /\ req \in [Requests -> Handler]
  /\ erased \subseteq ReportIds
  /\ NoDanglingScreenshot

Changes(e) == e.event \in {"STATUS_CHANGED", "NOTE_AND_STATUS_CHANGED"}

(* The status a timeline accounts for: that of its last change, its rows   *)
(* in the order of their ids.                                              *)
LastStatus(s) ==
  LET changes == {e \in s : Changes(e)} IN
  IF changes = {} THEN "OPEN"
  ELSE (CHOOSE e \in changes : \A f \in changes : f.id <= e.id).new

(* The timeline explains the status: whatever responses overlap, and       *)
(* whatever stale status they read, a report has the status its last       *)
(* status-changing entry recorded.                                         *)
StatusExplained ==
  \A p \in ReportIds : ReportExists(p) /\ p \notin erased =>
    report[p].status = LastStatus(timeline[p])

(* The administrators are told of every report and its reporter of every   *)
(* response, unless the report is removed meanwhile or the very handler    *)
(* that owes the message fails: other requests, crashes before it came and *)
(* removals of other users do not silence it.                              *)
Announced(p, n) == <<p, n>> \in told \cup lost \/ ~ReportExists(p)

EveryoneTold ==
  \A p \in ReportIds :
    /\ ReportExists(p) ~> Announced(p, 0)
    /\ \A n \in 1..MaxEntries :
         (\E e \in timeline[p] : e.id = n /\ e.event # "CREATED")
           ~> Announced(p, n)

=============================================================================
