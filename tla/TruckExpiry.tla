---------------------------- MODULE TruckExpiry ----------------------------
(***************************************************************************)
(* TruckExpiryService: the administrators are told of the documents that   *)
(* expire in seven days or in one.  The check runs at midnight in Santiago,*)
(* and five seconds after the process started.  It reads the clock when it *)
(* starts and the trucks when its query is answered.  The actions here say *)
(* nothing of the variables of Gateway, in whose process they run, nor of  *)
(* ServiceRequests'.                                                       *)
(*                                                                         *)
(* A document is one of the four dates of one truck; days are numbered.    *)
(***************************************************************************)
EXTENDS Gateway

CONSTANTS
  Documents,
  Dates,     \* the days a document may expire on
  MaxDay     \* bound: the clock stops here

ASSUME ExpiryConstants ==
  Dates \subseteq Nat /\ MaxDay \in Nat /\ NULL \notin Nat

VARIABLES
  day,       \* today, in Santiago
  expires,   \* the dates in the trucks' rows
  timer,     \* is the start-up check still to come?
  checks,    \* the checks whose query is not answered: their days
  notices,   \* what was emitted: document, date and days left
  edited,    \* history: documents whose date no check of today has seen
  failed     \* history: did a check of today fail?

expiry == <<day, expires, timer, checks, notices, edited, failed>>

Days == 0 .. MaxDay

DaysAhead == {7, 1}

(* The notificationId of a document, on the day a check takes for today.   *)
Due(today) ==
  {n \in Documents \X Dates \X DaysAhead :
     expires[n[1]] = n[2] /\ n[2] = today + n[3]}

(* At the start no truck has a date, and today's check is still to come.   *)
ExpiryInit ==
  /\ day = 0
  /\ expires = [d \in Documents |-> NULL]
  /\ timer = TRUE
  /\ checks = {}
  /\ notices = {}
  /\ edited = {}
  /\ failed = FALSE

-----------------------------------------------------------------------------
(* checkExpiries, up to its query.                                         *)
Checking == checks \cup {day}

TimerFires ==
  /\ timer
  /\ timer' = FALSE
  /\ checks' = Checking
  /\ UNCHANGED <<day, expires, notices, edited, failed>>

(* Midnight starts a check where there is a process to run it.             *)
Midnight ==
  /\ day < MaxDay
  /\ day' = day + 1
  /\ checks' = IF up THEN checks \cup {day'} ELSE checks
  /\ edited' = {}
  /\ failed' = FALSE
  /\ UNCHANGED <<expires, timer, notices>>

(* The query is answered and the notices are emitted at once.              *)
CheckRead(today) ==
  /\ today \in checks
  /\ checks' = checks \ {today}
  /\ notices' = notices \cup Due(today)
  /\ edited' = IF today = day THEN {} ELSE edited
  /\ UNCHANGED <<day, expires, timer, failed>>

(* The scheduler logs the error of a check it started.  Nobody catches the *)
(* error of the start-up check, and the process ends: what may happen then *)
(* is a Crash, which Notices lets come at any time.                        *)
CheckFails(today) ==
  /\ today \in checks
  /\ checks' = checks \ {today}
  /\ failed' = (failed \/ today = day)
  /\ UNCHANGED <<day, expires, timer, notices, edited>>

(* TruckService.update writes the date; it starts no check.                *)
DateSet(d, date) ==
  /\ up
  /\ expires[d] # date
  /\ expires' = [expires EXCEPT ![d] = date]
  /\ edited' = edited \cup {d}
  /\ UNCHANGED <<day, timer, checks, notices, failed>>

ExpiryDown ==
  /\ timer' = FALSE
  /\ checks' = {}
  /\ UNCHANGED <<day, expires, notices, edited, failed>>

(* Wrong: no check at the start, only at midnight.                         *)
BugStartTimer == FALSE

StartTimer == TRUE

(* onModuleInit                                                            *)
ExpiryUp ==
  /\ timer' = StartTimer
  /\ UNCHANGED <<day, expires, checks, notices, edited, failed>>

ExpiryNext ==
  \/ TimerFires
  \/ Midnight
  \/ \E today \in Days : CheckRead(today) \/ CheckFails(today)
  \/ \E d \in Documents, date \in Optional(Dates) : DateSet(d, date)

-----------------------------------------------------------------------------
ExpiryTypeOK ==
  /\ day \in Days
  /\ expires \in [Documents -> Optional(Dates)]
  /\ timer \in BOOLEAN
  /\ checks \subseteq Days
  /\ notices \subseteq Documents \X Dates \X {7, 1}
  /\ edited \subseteq Documents
  /\ failed \in BOOLEAN

(* A process with no check of today to come has told of every document     *)
(* that expires in seven days or in one, also when it was down at midnight *)
(* or crashed with a check in flight.  A date written after today's last   *)
(* check waits for a restart, and so does a check that failed.             *)
NoticesGiven ==
  up /\ ~timer /\ day \notin checks /\ ~failed =>
    \A d \in Documents \ edited :
      expires[d] \in {day + 1, day + 7} =>
        <<d, expires[d], expires[d] - day>> \in notices
=============================================================================
