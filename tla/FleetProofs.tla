---------------------------- MODULE FleetProofs ----------------------------
(***************************************************************************)
(* What holds of the trucks, of their monthly records and of their daily   *)
(* surveys, for any number of requests, users, trucks, rows and items.     *)
(*                                                                         *)
(* The three specifications share no more than variables: req all of them, *)
(* record and created the latter two.  Each theorem is about one of them.  *)
(***************************************************************************)
EXTENDS Trucks, MonthlyMaintenance, DailyMaintenance, WellFoundedInduction, TLAPS

-----------------------------------------------------------------------------
(* Trucks                                                                  *)

(* What a handler needs for the call it waits for.                         *)
Equipped(h) ==
  /\ h.pc # "idle" => h.truck \in Trucks /\ status[h.truck] # NULL
  /\ h.pc \in {"read", "change", "commit"} =>
       /\ h.user \in Users
       /\ h.reason \in PlateChangeReason
       /\ h.createdAt \in 1..MaxLogs /\ h.createdAt <= clock
  /\ h.pc \in {"change", "commit"} => h.status \in TruckStatus
  /\ h.pc = "commit" => TruckExists(h.truck) /\ UserExists(h.user)

(* The rows deleteMany saw are all there are, unless the handler was raced.*)
SeenLasts(h) ==
  h.pc \in {"lock", "insert"} /\ ~h.raced => DriversOf(h.truck) \subseteq h.seen

(* Who is asked for drives, or has changed his role since.                 *)
UsersDrive(h) ==
  \A u \in h.users : role[u] \in {"DRIVER", "gone"} \/ u \in unchecked

(* The status read is that of the truck, unless it was written since.      *)
ReadLasts(h) ==
  h.pc \in {"change", "commit"} /\ ~h.raced /\ TruckExists(h.truck)
    => status[h.truck] = h.status

(* A change knows of the changes whose entries are younger than it is.     *)
PassedTold(h) ==
  h.pc \in {"read", "change", "commit"} =>
    \A e \in log[h.truck] : h.createdAt < e.createdAt => e.reason \in h.passed

Sound(h) == SeenLasts(h) /\ UsersDrive(h) /\ ReadLasts(h) /\ PassedTold(h)

(* No entry is dated ahead, and a breakdown says that the truck stands.    *)
LogDated ==
  \A t \in Trucks : \A e \in log[t] :
    e.createdAt <= clock /\ (e.reason = "AVERIA" => e.newStatus = "INACTIVE")

(* Nobody was asked to drive a truck that was never there.                 *)
NotYetAsked == \A t \in Trucks : status[t] = NULL => asked[t] = {}

TruckInv ==
  /\ TypeOK
  /\ \A r \in Requests : Equipped(req[r])
  /\ \A r \in Requests : Sound(req[r])
  /\ DriversAsAsked /\ NotYetAsked
  /\ LogDated /\ LogTellsStatus /\ BreakdownAlerted

-----------------------------------------------------------------------------
(* Handlers                                                                *)

LEMMA IdleTyped == Idle \in Handler
BY TrucksConstants DEF Idle, Handler, Pc, Optional

LEMMA IdleSound ==
  /\ Equipped(Idle) /\ Sound(Idle)
  /\ Equipped(Idle)' /\ Sound(Idle)'
BY DEF Idle, Equipped, Sound, SeenLasts, UsersDrive, ReadLasts, PassedTold

(* Replacing one handler leaves the others as they are.                    *)
LEMMA BecomeStep ==
  ASSUME NEW r \in Requests, NEW h \in Handler,
         req \in [Requests -> Handler], Become(r, h)
  PROVE  /\ req' \in [Requests -> Handler]
         /\ req'[r] = h
         /\ \A q \in Requests \ {r} : req'[q] = req[q]
BY DEF Become

(* What f holds is what h holds, but for what h was told of the others.    *)
SameBut(f, h) ==
  /\ f.pc = h.pc /\ f.truck = h.truck /\ f.user = h.user /\ f.users = h.users
  /\ f.seen = h.seen /\ f.reason = h.reason /\ f.status = h.status
  /\ f.createdAt = h.createdAt

LEMMA RaceStep ==
  ASSUME req \in [Requests -> Handler], NEW Q
  PROVE  /\ Race(Q) \in [Requests -> Handler]
         /\ \A q \in Requests :
              /\ SameBut(Race(Q)[q], req[q])
              /\ Race(Q)[q].passed = req[q].passed
              /\ q \in Q => Race(Q)[q].raced
              /\ Race(Q)[q].raced \/ Race(Q)[q] = req[q]
<1>1. ASSUME NEW q \in Requests
      PROVE  /\ Race(Q)[q] \in Handler
             /\ SameBut(Race(Q)[q], req[q])
             /\ Race(Q)[q].passed = req[q].passed
             /\ q \in Q => Race(Q)[q].raced
             /\ Race(Q)[q].raced \/ Race(Q)[q] = req[q]
  <2> DEFINE b == req[q].raced \/ q \in Q
             f == [req[q] EXCEPT !.raced = b]
  <2>1. req[q] \in Handler /\ b \in BOOLEAN /\ req[q].raced \in BOOLEAN
    BY DEF Handler
  <2>2. Race(Q)[q] = f
    BY DEF Race
  <2>3. (q \in Q => b) /\ (b \/ b = req[q].raced)
    BY <2>1
  <2> HIDE DEF b
  <2>4. /\ f \in Handler /\ SameBut(f, req[q]) /\ f.raced = b
        /\ f.passed = req[q].passed
    BY <2>1 DEF Handler, SameBut
  <2>5. b = req[q].raced => f = req[q]
    BY <2>1 DEF Handler
  <2> QED
    BY <2>2, <2>3, <2>4, <2>5
<1> QED
  BY <1>1 DEF Race

-----------------------------------------------------------------------------
(* The latest entries of a log                                             *)

(* An entry that is added is one of the latest, or those that were stay.   *)
LEMMA LatestAdded ==
  ASSUME NEW entries \in SUBSET Entry, NEW e \in Entry
  PROVE  /\ (\A f \in entries : f.createdAt <= e.createdAt)
              => e \in Latest(entries \cup {e})
         /\ \A m \in Latest(entries) :
              \/ e \in Latest(entries \cup {e})
              \/ e.createdAt < m.createdAt /\ m \in Latest(entries \cup {e})
<1>1. \A f \in entries \cup {e} : f.createdAt \in Nat
  BY TrucksConstants DEF Entry
<1>2. ASSUME \A f \in entries : f.createdAt <= e.createdAt
      PROVE  e \in Latest(entries \cup {e})
  BY <1>1, <1>2 DEF Latest
<1>3. ASSUME NEW m \in Latest(entries)
      PROVE  \/ e \in Latest(entries \cup {e})
             \/ e.createdAt < m.createdAt /\ m \in Latest(entries \cup {e})
  <2>1. m \in entries
    BY <1>3, Zenon DEF Latest
  <2>2. \A f \in entries : f.createdAt <= m.createdAt
    BY <1>3, Zenon DEF Latest
  <2>3. CASE m.createdAt <= e.createdAt
    <3>1. \A f \in entries : f.createdAt <= e.createdAt
      BY <1>1, <2>1, <2>2, <2>3
    <3> QED
      BY <1>2, <3>1
  <2>4. CASE e.createdAt < m.createdAt
    <3>1. \A f \in entries \cup {e} : f.createdAt <= m.createdAt
      BY <1>1, <2>1, <2>2, <2>4
    <3> QED
      BY <2>1, <2>4, <3>1 DEF Latest
  <2> QED
    BY <1>1, <2>1, <2>3, <2>4
<1> QED
  BY <1>2, <1>3

(* A latest entry stays so while it is there and none is added.            *)
LEMMA LatestKept ==
  ASSUME NEW entries, NEW fewer \in SUBSET entries, NEW e \in fewer,
         e \in Latest(entries)
  PROVE  e \in Latest(fewer)
BY DEF Latest

-----------------------------------------------------------------------------
(* Steps of one handler that write no row                                  *)

QuietRows == UNCHANGED <<role, status, assigned, log, histories>>

ClockRuns == clock' \in 0..MaxLogs /\ clock <= clock'

LEMMA ClockStands ==
  ASSUME TypeOK, UNCHANGED clock
  PROVE  ClockRuns
BY TrucksConstants DEF TypeOK, ClockRuns

LEMMA SoundKept ==
  ASSUME NEW h \in Handler, QuietRows, TypeOK, ClockRuns
  PROVE  /\ Equipped(h) => Equipped(h)'
         /\ Sound(h) => Sound(h)'
<1>1. ASSUME Equipped(h) PROVE Equipped(h)'
  <2>1. h.createdAt <= clock => h.createdAt <= clock'
    BY TrucksConstants DEF TypeOK, Handler, ClockRuns
  <2> QED
    BY <1>1, <2>1 DEF QuietRows, Equipped, TruckExists, UserExists
<1>2. ASSUME Sound(h) PROVE Sound(h)'
  BY <1>2
     DEF QuietRows, histories, Sound, SeenLasts, UsersDrive, ReadLasts,
         PassedTold, DriversOf, TruckExists
<1> QED
  BY <1>1, <1>2

LEMMA RowsKept ==
  ASSUME TruckInv, QuietRows, ClockRuns, req' \in [Requests -> Handler]
  PROVE  /\ TypeOK'
         /\ DriversAsAsked' /\ NotYetAsked'
         /\ LogDated' /\ LogTellsStatus' /\ BreakdownAlerted'
<1> USE DEF TruckInv
<1>1. TypeOK'
  BY DEF TypeOK, QuietRows, histories, ClockRuns, UserExists, TruckExists
<1>2. DriversAsAsked' /\ NotYetAsked'
  BY DEF QuietRows, histories, DriversAsAsked, NotYetAsked, TruckExists,
         DriversOf
<1>3. LogDated'
  <2>1. \A t \in Trucks : \A e \in log[t] : e.createdAt \in Nat
    BY TrucksConstants DEF TypeOK, Entry
  <2>2. clock \in Nat /\ clock' \in Nat /\ clock <= clock'
    BY TrucksConstants DEF TypeOK, ClockRuns
  <2> QED
    BY <2>1, <2>2 DEF QuietRows, LogDated
<1>4. LogTellsStatus' /\ BreakdownAlerted'
  BY DEF QuietRows, histories, LogTellsStatus, BreakdownAlerted, Alerts,
         Breakdowns
<1> QED
  BY <1>1, <1>2, <1>3, <1>4

LEMMA OwnStep ==
  ASSUME TruckInv, NEW r \in Requests, NEW h \in Handler, Become(r, h),
         Equipped(h)', Sound(h)', QuietRows, ClockRuns
  PROVE  TruckInv'
<1> USE DEF TruckInv
<1>1. /\ req' \in [Requests -> Handler]
      /\ req'[r] = h
      /\ \A q \in Requests \ {r} : req'[q] = req[q]
  BY BecomeStep DEF TypeOK
<1>2. ASSUME NEW q \in Requests
      PROVE  (Equipped(req[q]) /\ Sound(req[q]))'
  <2>1. CASE q = r
    BY <1>1, <2>1
  <2>2. CASE q # r
    <3>1. PICK f \in Handler : f = req[q] /\ Equipped(f) /\ Sound(f)
      BY DEF TypeOK
    <3>2. req'[q] = f
      BY <1>1, <2>2, <3>1
    <3>3. Equipped(f)' /\ Sound(f)'
      BY <3>1, SoundKept
    <3> QED
      BY <3>2, <3>3
  <2> QED
    BY <2>1, <2>2
<1> QED
  BY <1>1, <1>2, RowsKept

LEMMA QuietStep ==
  ASSUME TruckInv, NEW r \in Requests, NEW h \in Handler, Become(r, h),
         Equipped(h), Sound(h), QuietRows, UNCHANGED clock
  PROVE  TruckInv'
<1>1. TypeOK /\ ClockRuns
  BY ClockStands DEF TruckInv
<1>2. Equipped(h)' /\ Sound(h)'
  BY <1>1, SoundKept
<1> QED
  BY <1>1, <1>2, OwnStep

LEMMA FailStep ==
  ASSUME TruckInv, NEW r \in Requests, Fail(r)
  PROVE  TruckInv'
BY IdleTyped, IdleSound, QuietStep DEF Fail, Return, QuietRows

LEMMA SetReadStep ==
  ASSUME TruckInv, NEW r \in Requests, NEW t \in Trucks,
         NEW users \in SUBSET Users, SetRead(r, t, users)
  PROVE  TruckInv'
<1> DEFINE h == [Idle EXCEPT !.pc = "delete", !.truck = t, !.users = users]
<1>1. h \in Handler
  BY IdleTyped DEF Handler, Pc, Optional
<1>2. /\ Become(r, h)
      /\ h.pc = "delete" /\ h.truck = t /\ h.users = users
      /\ QuietRows /\ UNCHANGED clock
      /\ TruckExists(t) /\ \A u \in users : MayDrive(u)
      /\ h.raced = FALSE
  BY DEF SetRead, Idle, QuietRows
<1> HIDE DEF h
<1>3. Equipped(h) /\ Sound(h)
  BY <1>2, TrucksConstants
     DEF Equipped, Sound, SeenLasts, UsersDrive, ReadLasts, PassedTold,
         MayDrive, TruckExists, TruckStatus
<1> QED
  BY <1>1, <1>2, <1>3, QuietStep

LEMMA SetDeleteStep ==
  ASSUME TruckInv, NEW r \in Requests, SetDelete(r)
  PROVE  TruckInv'
<1>1. PICK f \in Handler : f = req[r] /\ Equipped(f) /\ Sound(f)
  BY DEF TruckInv, TypeOK
<1> DEFINE seen == DriversOf(f.truck)
           h == [f EXCEPT !.pc = "lock", !.seen = seen]
<1>2. /\ f.pc = "delete" /\ Become(r, h) /\ QuietRows
      /\ UNCHANGED clock
  BY <1>1 DEF SetDelete, At, QuietRows
<1>3. seen \in SUBSET Users
  BY DEF DriversOf
<1>4. \A u \in Users : u \in DriversOf(f.truck) => u \in seen
  OBVIOUS
<1> HIDE DEF seen
<1>5. h \in Handler
  BY <1>3 DEF Handler, Pc
<1>6. /\ h.pc = "lock" /\ h.seen = seen
      /\ h.truck = f.truck /\ h.users = f.users
  BY DEF Handler
<1> HIDE DEF h
<1>7. Equipped(h) /\ Sound(h)
  BY <1>1, <1>2, <1>4, <1>6
     DEF Equipped, Sound, SeenLasts, UsersDrive, ReadLasts, PassedTold,
         DriversOf
<1> QED
  BY <1>2, <1>5, <1>7, QuietStep

LEMMA SetLockStep ==
  ASSUME TruckInv, NEW r \in Requests, SetLock(r)
  PROVE  TruckInv'
<1>1. PICK f \in Handler : f = req[r] /\ Equipped(f) /\ Sound(f)
  BY DEF TruckInv, TypeOK
<1> DEFINE h == [f EXCEPT !.pc = "insert"]
<1>2. /\ f.pc = "lock" /\ Become(r, h) /\ QuietRows
      /\ UNCHANGED clock
  BY <1>1 DEF SetLock, At, QuietRows
<1>3. /\ h \in Handler /\ h.pc = "insert" /\ h.seen = f.seen
      /\ h.truck = f.truck /\ h.users = f.users /\ h.raced = f.raced
  BY DEF Handler, Pc
<1> HIDE DEF h
<1>4. Equipped(h) /\ Sound(h)
  BY <1>1, <1>2, <1>3
     DEF Equipped, Sound, SeenLasts, UsersDrive, ReadLasts, PassedTold
<1> QED
  BY <1>2, <1>3, <1>4, QuietStep

LEMMA ChangeBeginStep ==
  ASSUME TruckInv, NEW r \in Requests, NEW u \in Users, NEW t \in Trucks,
         NEW reason \in PlateChangeReason, NEW instant \in 1..MaxLogs,
         ChangeBegin(r, u, t, reason, instant)
  PROVE  TruckInv'
<1> DEFINE g == [Idle EXCEPT !.pc = "read", !.user = u, !.truck = t,
                             !.reason = reason, !.createdAt = instant]
<1>1. /\ status[t] # NULL /\ QuietRows /\ Become(r, g)
      /\ clock <= instant /\ clock' = instant
  BY DEF ChangeBegin, QuietRows
<1>2. /\ g.pc = "read" /\ g.user = u /\ g.truck = t
      /\ g.reason = reason /\ g.createdAt = instant /\ g.users = {}
  BY DEF Idle
<1>3. PICK h \in Handler : h = g
  <2>1. instant \in 0..MaxLogs
    BY TrucksConstants
  <2>2. g \in Handler
    BY <2>1, IdleTyped DEF Handler, Pc, Optional
  <2> QED
    BY <2>2
<1> HIDE DEF g
<1>4. ClockRuns /\ instant \in Nat
  BY <1>1, TrucksConstants DEF ClockRuns
<1>5. Equipped(h)'
  BY <1>1, <1>2, <1>3, <1>4 DEF Equipped, QuietRows
<1>6. PassedTold(h)'
  <2>1. \A e \in log[t] : e.createdAt \in Nat /\ e.createdAt <= clock
    BY TrucksConstants DEF TruckInv, TypeOK, Entry, LogDated
  <2>2. clock \in Nat
    BY TrucksConstants DEF TruckInv, TypeOK
  <2>3. \A e \in log'[t] : ~(instant < e.createdAt)
    BY <1>1, <1>4, <2>1, <2>2 DEF QuietRows
  <2> QED
    BY <1>2, <1>3, <2>3 DEF PassedTold
<1>7. SeenLasts(h)' /\ UsersDrive(h)' /\ ReadLasts(h)'
  BY <1>2, <1>3 DEF SeenLasts, UsersDrive, ReadLasts
<1> QED
  BY <1>1, <1>3, <1>4, <1>5, <1>6, <1>7, OwnStep DEF Sound

LEMMA ChangeReadStep ==
  ASSUME TruckInv, NEW r \in Requests, ChangeRead(r)
  PROVE  TruckInv'
<1>1. PICK f \in Handler : f = req[r] /\ Equipped(f) /\ Sound(f)
  BY DEF TruckInv, TypeOK
<1> DEFINE h == [f EXCEPT !.pc = "change", !.status = status[f.truck],
                          !.raced = FALSE]
<1>2. /\ f.pc = "read" /\ TruckExists(f.truck) /\ Become(r, h)
      /\ QuietRows /\ UNCHANGED clock
  BY <1>1 DEF ChangeRead, At, QuietRows
<1>3. /\ h \in Handler /\ h.pc = "change" /\ h.status = status[f.truck]
      /\ h.user = f.user /\ h.truck = f.truck /\ h.users = f.users
      /\ h.reason = f.reason /\ h.createdAt = f.createdAt
      /\ h.passed = f.passed
  BY <1>2 DEF Handler, Pc, Optional, TruckExists
<1> HIDE DEF h
<1>4. Equipped(h) /\ Sound(h)
  BY <1>1, <1>2, <1>3
     DEF Equipped, Sound, SeenLasts, UsersDrive, ReadLasts, PassedTold,
         TruckExists
<1> QED
  BY <1>2, <1>3, <1>4, QuietStep

LEMMA ChangeInsertStep ==
  ASSUME TruckInv, NEW r \in Requests, NEW createdAt \in 1..MaxLogs,
         ChangeInsert(r, createdAt)
  PROVE  TruckInv'
<1>1. PICK f \in Handler : f = req[r] /\ Equipped(f) /\ Sound(f)
  BY DEF TruckInv, TypeOK
<1> DEFINE g == [f EXCEPT !.pc = "commit", !.createdAt = createdAt]
<1>2. /\ f.pc = "change" /\ TruckExists(f.truck) /\ UserExists(f.user)
      /\ f.createdAt <= createdAt /\ Become(r, g) /\ QuietRows
      /\ clock' = IF clock < createdAt THEN createdAt ELSE clock
  BY <1>1 DEF ChangeInsert, At, QuietRows
<1>3. /\ g.pc = "commit" /\ g.createdAt = createdAt
      /\ g.user = f.user /\ g.truck = f.truck /\ g.users = f.users
      /\ g.reason = f.reason /\ g.status = f.status /\ g.raced = f.raced
      /\ g.passed = f.passed
  BY DEF Handler
<1>4. PICK h \in Handler : h = g
  <2>1. createdAt \in 0..MaxLogs
    BY TrucksConstants
  <2>2. g \in Handler
    BY <2>1 DEF Handler, Pc
  <2> QED
    BY <2>2
<1> HIDE DEF g
<1>5. createdAt \in Nat /\ clock \in 0..MaxLogs
  BY TrucksConstants DEF TruckInv, TypeOK
<1>6. ClockRuns /\ createdAt <= clock'
  BY <1>2, <1>5, TrucksConstants DEF ClockRuns
<1>7. Equipped(h)'
  BY <1>1, <1>2, <1>3, <1>4, <1>6
     DEF Equipped, QuietRows, TruckExists, UserExists
<1>8. PassedTold(h)'
  <2>1. f.truck \in Trucks /\ f.createdAt \in Nat
    BY <1>1, <1>2, TrucksConstants DEF Equipped
  <2>2. \A e \in log[f.truck] :
          /\ e.createdAt \in Nat
          /\ f.createdAt < e.createdAt => e.reason \in f.passed
    BY <1>1, <1>2, <2>1, TrucksConstants
       DEF TruckInv, TypeOK, Entry, Sound, PassedTold
  <2>3. \A e \in log[f.truck] :
          createdAt < e.createdAt => e.reason \in f.passed
    BY <1>2, <1>5, <2>1, <2>2
  <2> QED
    BY <1>2, <1>3, <1>4, <2>3 DEF PassedTold, QuietRows
<1>9. SeenLasts(h)' /\ UsersDrive(h)' /\ ReadLasts(h)'
  BY <1>1, <1>2, <1>3, <1>4
     DEF Sound, SeenLasts, UsersDrive, ReadLasts, QuietRows, histories,
         TruckExists
<1> QED
  BY <1>2, <1>4, <1>6, <1>7, <1>8, <1>9, OwnStep DEF Sound

-----------------------------------------------------------------------------
(* Who drives what                                                         *)

LEMMA AssignStep ==
  ASSUME TruckInv, NEW u \in Users, NEW t \in Trucks, Assign(u, t)
  PROVE  TruckInv'
<1> USE DEF TruckInv
<1>1. /\ UserExists(u) /\ TruckExists(t)
      /\ assigned' = assigned \cup {<<u, t>>}
      /\ req' = Race(Replacing(t))
      /\ asked' = [asked EXCEPT ![t] = IF @ = NULL THEN NULL ELSE @ \cup {u}]
      /\ unchecked' = unchecked \cup {u}
      /\ UNCHANGED <<role, status, log, clock, moved, stopped>>
  BY DEF Assign
<1>2. /\ req' \in [Requests -> Handler]
      /\ \A q \in Requests :
           /\ SameBut(req'[q], req[q]) /\ req'[q].passed = req[q].passed
           /\ q \in Replacing(t) => req'[q].raced
           /\ req'[q].raced \/ req'[q] = req[q]
  BY <1>1, RaceStep DEF TypeOK
<1>3. \A s \in Trucks :
        DriversOf(s)' = IF s = t THEN DriversOf(s) \cup {u} ELSE DriversOf(s)
  BY <1>1 DEF DriversOf
<1>4. TypeOK'
  BY <1>1, <1>2
     DEF TypeOK, Assignment, Optional, UserExists, TruckExists
<1>5. ASSUME NEW q \in Requests
      PROVE  (Equipped(req[q]) /\ Sound(req[q]))'
  <2>1. PICK h \in Handler : h = req[q] /\ Equipped(h) /\ Sound(h)
    BY DEF TypeOK
  <2>2. PICK f \in Handler : f = req'[q]
    BY <1>2
  <2>3. /\ SameBut(f, h) /\ (f.raced \/ f = h) /\ f.passed = h.passed
        /\ f.pc \in {"lock", "insert"} /\ f.truck = t => f.raced
    BY <1>2, <2>1, <2>2 DEF SameBut, Replacing
  <2>4. Equipped(f)'
    BY <1>1, <2>1, <2>3 DEF Equipped, SameBut, TruckExists, UserExists
  <2>5. SeenLasts(f)'
    BY <1>3, <2>1, <2>3 DEF Sound, SeenLasts, Equipped
  <2>6. UsersDrive(f)' /\ ReadLasts(f)' /\ PassedTold(f)'
    BY <1>1, <2>1, <2>3
       DEF Sound, UsersDrive, ReadLasts, PassedTold, SameBut, TruckExists
  <2> QED
    BY <2>2, <2>4, <2>5, <2>6 DEF Sound
<1>6. DriversAsAsked'
  <2>1. ASSUME NEW s \in Trucks, TruckExists(s)', asked'[s] # NULL
        PROVE  DriversOf(s)' = asked'[s]
    BY <1>1, <1>3, <2>1 DEF TypeOK, DriversAsAsked, TruckExists
  <2>2. ASSUME NEW row \in assigned'
        PROVE  role'[row[1]] = "DRIVER" \/ row[1] \in unchecked'
    BY <1>1, <2>2 DEF DriversAsAsked
  <2> QED
    BY <2>1, <2>2 DEF DriversAsAsked
<1>7. NotYetAsked'
  BY <1>1, TrucksConstants
     DEF NotYetAsked, TypeOK, TruckExists, TruckStatus
<1>8. LogDated' /\ LogTellsStatus' /\ BreakdownAlerted'
  BY <1>1 DEF LogDated, LogTellsStatus, BreakdownAlerted, Alerts, Breakdowns
<1> QED
  BY <1>4, <1>5, <1>6, <1>7, <1>8

LEMMA RowsOf ==
  ASSUME NEW users \in SUBSET Users, NEW t \in Trucks
  PROVE  /\ Rows(users, t) \subseteq Assignment
         /\ \A row \in Rows(users, t) : row[1] \in users /\ row[2] = t
BY DEF Rows, Assignment

(* What the others hold when h has replaced the drivers: as SameBut, but of*)
(* the rows they saw.                                                      *)
Told(f, h) ==
  /\ f.pc = h.pc /\ f.truck = h.truck /\ f.user = h.user /\ f.users = h.users
  /\ f.reason = h.reason /\ f.status = h.status
  /\ f.createdAt = h.createdAt /\ f.passed = h.passed

LEMMA OutrunStep ==
  ASSUME req \in [Requests -> Handler], NEW h \in Handler
  PROVE  /\ Outrun(h) \in [Requests -> Handler]
         /\ \A q \in Requests :
              /\ Told(Outrun(h)[q], req[q])
              /\ q \in Replacing(h.truck) => Outrun(h)[q].raced
              /\ q \notin Replacing(h.truck) => Outrun(h)[q] = req[q]
<1>1. ASSUME NEW q \in Requests
      PROVE  /\ Outrun(h)[q] \in Handler
             /\ Told(Outrun(h)[q], req[q])
             /\ q \in Replacing(h.truck) => Outrun(h)[q].raced
             /\ q \notin Replacing(h.truck) => Outrun(h)[q] = req[q]
  <2> DEFINE seen == req[q].seen \ h.seen
             f == [req[q] EXCEPT !.raced = TRUE, !.seen = seen]
  <2>1. req[q] \in Handler /\ seen \in SUBSET Users
    BY DEF Handler
  <2>2. Outrun(h)[q] = IF q \in Replacing(h.truck) THEN f ELSE req[q]
    BY DEF Outrun
  <2> HIDE DEF seen
  <2>3. f \in Handler /\ f.raced
    BY <2>1 DEF Handler
  <2>4. Told(f, req[q]) /\ Told(req[q], req[q])
    BY <2>1 DEF Handler, Told
  <2> HIDE DEF f
  <2> QED
    BY <2>1, <2>2, <2>3, <2>4
<1>2. Outrun(h) = [q \in Requests |-> Outrun(h)[q]]
  BY Zenon DEF Outrun
<1> QED
  BY <1>1, <1>2

LEMMA SetCommitStep ==
  ASSUME TruckInv, NEW r \in Requests, SetCommit(r)
  PROVE  TruckInv'
<1> USE DEF TruckInv
<1>1. PICK h \in Handler : h = req[r] /\ Equipped(h) /\ Sound(h)
  BY DEF TypeOK
<1> DEFINE t == h.truck
<1>2. /\ h.pc = "insert"
      /\ h.users # {} => TruckExists(t)
      /\ \A u \in h.users : UserExists(u)
      /\ assigned' = (assigned \ Rows(h.seen, t)) \cup Rows(h.users, t)
      /\ asked' = [asked EXCEPT ![t] = IF h.raced THEN NULL ELSE h.users]
  BY <1>1 DEF SetCommit, Replaced, At
<1>3. req' = [Outrun(h) EXCEPT ![r] = Idle]
  BY <1>1 DEF SetCommit
<1>4. UNCHANGED <<role, status, log, clock, unchecked, moved, stopped>>
  BY DEF SetCommit
<1>5. t \in Trucks /\ status[t] # NULL /\ h.users \in SUBSET Users
      /\ h.seen \in SUBSET Users
  BY <1>1, <1>2 DEF Equipped, Handler
<1>6. \A s \in Trucks :
        DriversOf(s)' = IF s = t THEN (DriversOf(s) \ h.seen) \cup h.users
                        ELSE DriversOf(s)
  BY <1>2, <1>5 DEF DriversOf, Rows
<1>7. \A row \in assigned' :
        row \in assigned \/ (row[1] \in h.users /\ row[2] = t)
  <2>1. \A row \in Rows(h.users, t) : row[1] \in h.users /\ row[2] = t
    BY <1>5, RowsOf
  <2> QED
    BY <1>2, <2>1
<1>8. /\ req' \in [Requests -> Handler] /\ req'[r] = Idle
      /\ \A q \in Requests \ {r} :
           /\ Told(req'[q], req[q])
           /\ q \in Replacing(t) => req'[q].raced
           /\ q \notin Replacing(t) => req'[q] = req[q]
  <2>1. req \in [Requests -> Handler]
    BY DEF TypeOK
  <2>2. /\ Outrun(h) \in [Requests -> Handler]
        /\ \A q \in Requests :
             /\ Told(Outrun(h)[q], req[q])
             /\ q \in Replacing(t) => Outrun(h)[q].raced
             /\ q \notin Replacing(t) => Outrun(h)[q] = req[q]
    BY <2>1, OutrunStep
  <2>3. /\ req' \in [Requests -> Handler] /\ req'[r] = Idle
        /\ \A q \in Requests \ {r} : req'[q] = Outrun(h)[q]
    BY <1>3, <2>2, IdleTyped
  <2> QED
    BY <2>2, <2>3
<1>9. TypeOK'
  <2>1. assigned' \subseteq Assignment
    <3>1. Rows(h.users, t) \subseteq Assignment
      BY <1>5, RowsOf
    <3> QED
      BY <1>2, <3>1 DEF TypeOK
  <2>2. asked' \in [Trucks -> Optional(SUBSET Users)]
    BY <1>2, <1>5 DEF TypeOK, Optional
  <2>3. \A row \in assigned' : UserExists(row[1])' /\ TruckExists(row[2])'
    BY <1>2, <1>4, <1>7 DEF TypeOK, UserExists, TruckExists
  <2> QED
    BY <1>2, <1>4, <1>8, <2>1, <2>2, <2>3 DEF TypeOK, UserExists, TruckExists
<1>10. ASSUME NEW q \in Requests \ {r}
      PROVE  (Equipped(req[q]) /\ Sound(req[q]))'
  <2>1. PICK g \in Handler : g = req[q] /\ Equipped(g) /\ Sound(g)
    BY DEF TypeOK
  <2>2. PICK f \in Handler : f = req'[q]
    BY <1>8
  <2>3. /\ Told(f, g)
        /\ f.raced \/ f = g
        /\ f.pc \in {"lock", "insert"} /\ f.truck = t => f.raced
    BY <1>8, <2>1, <2>2 DEF Replacing, Told
  <2>4. Equipped(f)'
    BY <1>2, <1>4, <2>1, <2>3 DEF Told, Equipped, TruckExists, UserExists
  <2>5. SeenLasts(f)'
    BY <1>6, <2>1, <2>3 DEF Told, Sound, SeenLasts, Equipped
  <2>6. UsersDrive(f)' /\ ReadLasts(f)' /\ PassedTold(f)'
    BY <1>2, <1>4, <2>1, <2>3
       DEF Told, Sound, UsersDrive, ReadLasts, PassedTold, TruckExists
  <2> QED
    BY <2>2, <2>4, <2>5, <2>6 DEF Sound
<1>11. DriversAsAsked'
  <2>1. ASSUME NEW s \in Trucks, TruckExists(s)', asked'[s] # NULL
        PROVE  DriversOf(s)' = asked'[s]
    <3>1. CASE s = t
      <4>1. ~h.raced /\ asked'[s] = h.users
        BY <1>2, <1>5, <2>1, <3>1 DEF TypeOK
      <4> QED
        BY <1>1, <1>2, <1>6, <3>1, <4>1 DEF Sound, SeenLasts
    <3>2. CASE s # t
      BY <1>2, <1>4, <1>6, <2>1, <3>2 DEF TypeOK, DriversAsAsked, TruckExists
    <3> QED
      BY <3>1, <3>2
  <2>2. ASSUME NEW row \in assigned'
        PROVE  role'[row[1]] = "DRIVER" \/ row[1] \in unchecked'
    BY <1>1, <1>2, <1>4, <1>7, <2>2
       DEF DriversAsAsked, Sound, UsersDrive, UserExists, UserRole
  <2> QED
    BY <2>1, <2>2 DEF DriversAsAsked
<1>12. NotYetAsked'
  BY <1>2, <1>4, <1>5 DEF NotYetAsked, TypeOK
<1>13. LogDated' /\ LogTellsStatus' /\ BreakdownAlerted'
  BY <1>4 DEF LogDated, LogTellsStatus, BreakdownAlerted, Alerts, Breakdowns
<1> QED
  BY <1>8, <1>9, <1>10, <1>11, <1>12, <1>13, IdleSound

-----------------------------------------------------------------------------
(* registerPlateChange                                                     *)

(* What the others hold when h has committed.                              *)
LEMMA OvertakenStep ==
  ASSUME req \in [Requests -> Handler], NEW h \in Handler,
         h.reason \in PlateChangeReason
  PROVE  /\ Overtaken(h) \in [Requests -> Handler]
         /\ \A q \in Requests :
              /\ SameBut(Overtaken(h)[q], req[q])
              /\ req[q].passed \subseteq Overtaken(h)[q].passed
              /\ ~Overtaken(h)[q].raced => ~req[q].raced
              /\ q \notin Changing(h.truck) => Overtaken(h)[q] = req[q]
              /\ q \in Changing(h.truck) =>
                   /\ h.reason \in Overtaken(h)[q].passed
                   /\ Writes(h) => Overtaken(h)[q].raced
<1>1. ASSUME NEW q \in Requests
      PROVE  /\ Overtaken(h)[q] \in Handler
             /\ SameBut(Overtaken(h)[q], req[q])
             /\ req[q].passed \subseteq Overtaken(h)[q].passed
             /\ ~Overtaken(h)[q].raced => ~req[q].raced
             /\ q \notin Changing(h.truck) => Overtaken(h)[q] = req[q]
             /\ q \in Changing(h.truck) =>
                  /\ h.reason \in Overtaken(h)[q].passed
                  /\ Writes(h) => Overtaken(h)[q].raced
  <2> DEFINE b == req[q].raced \/ Writes(h)
             reasons == req[q].passed \cup {h.reason}
             f == [req[q] EXCEPT !.raced = b, !.passed = reasons]
  <2>1. /\ req[q] \in Handler /\ b \in BOOLEAN
        /\ reasons \in SUBSET PlateChangeReason
    BY DEF Handler, Writes
  <2>2. Overtaken(h)[q] = IF q \in Changing(h.truck) THEN f ELSE req[q]
    BY DEF Overtaken
  <2>3. /\ ~b => ~req[q].raced /\ ~Writes(h)
        /\ req[q].passed \subseteq reasons /\ h.reason \in reasons
    OBVIOUS
  <2> HIDE DEF b, reasons
  <2>4. f \in Handler /\ f.raced = b /\ f.passed = reasons
    BY <2>1 DEF Handler
  <2>5. SameBut(f, req[q]) /\ SameBut(req[q], req[q])
    BY <2>1 DEF Handler, SameBut
  <2> HIDE DEF f
  <2> QED
    BY <2>1, <2>2, <2>3, <2>4, <2>5
<1>2. Overtaken(h) = [q \in Requests |-> Overtaken(h)[q]]
  BY Zenon DEF Overtaken
<1> QED
  BY <1>1, <1>2

LEMMA ChangeCommitStep ==
  ASSUME TruckInv, NEW r \in Requests, ChangeCommit(r)
  PROVE  TruckInv'
<1> USE DEF TruckInv
<1>1. PICK h \in Handler : h = req[r] /\ Equipped(h) /\ Sound(h)
  BY DEF TypeOK
<1>2. /\ h.pc = "commit" /\ h.truck \in Trucks /\ h.user \in Users
      /\ h.reason \in PlateChangeReason /\ h.status \in TruckStatus
      /\ h.createdAt \in 1..MaxLogs /\ h.createdAt <= clock
      /\ TruckExists(h.truck) /\ UserExists(h.user)
  BY <1>1 DEF ChangeCommit, At, Equipped
<1>3. PICK t \in Trucks : t = h.truck
  BY <1>2
<1>4. PICK e \in Entry :
        /\ e = EntryOf(h)
        /\ e.createdAt = h.createdAt /\ e.reason = h.reason
        /\ e.user = h.user /\ e.newStatus = NewStatus(h)
  <2>1. NewStatus(h) \in TruckStatus
    BY <1>2 DEF NewStatus, TruckStatus
  <2>2. /\ EntryOf(h) \in Entry
        /\ EntryOf(h).createdAt = h.createdAt /\ EntryOf(h).reason = h.reason
        /\ EntryOf(h).user = h.user /\ EntryOf(h).newStatus = NewStatus(h)
    BY <1>2, <2>1 DEF Entry, EntryOf
  <2> QED
    BY <2>2
<1>5. /\ status' = [status EXCEPT ![t] = StatusAfter(h)]
      /\ log' = [log EXCEPT ![t] = @ \cup {e}]
      /\ req' = [Overtaken(h) EXCEPT ![r] = Idle]
      /\ moved' = IF Misled(h) THEN moved \cup {t}
                  ELSE IF h.passed = {} THEN moved \ {t} ELSE moved
      /\ stopped' = [stopped EXCEPT ![t] =
           IF h.reason = "AVERIA" /\ StatusAfter(h) = "INACTIVE"
           THEN Reporters(h) ELSE @]
      /\ UNCHANGED <<role, assigned, clock, asked, unchecked>>
  BY <1>1, <1>3, <1>4 DEF ChangeCommit
<1>6. /\ StatusAfter(h) \in TruckStatus /\ StatusAfter(h) # NULL
      /\ Writes(h) => /\ StatusAfter(h) = "INACTIVE"
                      /\ NewStatus(h) = "INACTIVE"
      /\ ~Writes(h) => StatusAfter(h) = status[t]
      /\ ~Writes(h) /\ ~h.raced => NewStatus(h) = status[t]
  BY <1>1, <1>2, <1>3, TrucksConstants
     DEF StatusAfter, NewStatus, Writes, TruckStatus, TruckExists, Sound,
         ReadLasts
<1>7. /\ status' \in [Trucks -> TruckStatus \cup {NULL, "gone"}]
      /\ status'[t] = StatusAfter(h)
      /\ \A s \in Trucks \ {t} : status'[s] = status[s]
      /\ \A s \in Trucks : TruckExists(s)' = TruckExists(s)
  BY <1>2, <1>3, <1>5, <1>6 DEF TypeOK, TruckExists
<1>8. /\ req' \in [Requests -> Handler] /\ req'[r] = Idle
      /\ \A q \in Requests \ {r} :
           /\ SameBut(req'[q], req[q])
           /\ req[q].passed \subseteq req'[q].passed
           /\ ~req'[q].raced => ~req[q].raced
           /\ q \notin Changing(t) => req'[q] = req[q]
           /\ q \in Changing(t) => /\ h.reason \in req'[q].passed
                                   /\ Writes(h) => req'[q].raced
  <2>1. req \in [Requests -> Handler]
    BY DEF TypeOK
  <2>2. /\ Overtaken(h) \in [Requests -> Handler]
        /\ \A q \in Requests :
             /\ SameBut(Overtaken(h)[q], req[q])
             /\ req[q].passed \subseteq Overtaken(h)[q].passed
             /\ ~Overtaken(h)[q].raced => ~req[q].raced
             /\ q \notin Changing(t) => Overtaken(h)[q] = req[q]
             /\ q \in Changing(t) => /\ h.reason \in Overtaken(h)[q].passed
                                     /\ Writes(h) => Overtaken(h)[q].raced
    BY <1>2, <1>3, <2>1, OvertakenStep
  <2>3. /\ req' \in [Requests -> Handler] /\ req'[r] = Idle
        /\ \A q \in Requests \ {r} : req'[q] = Overtaken(h)[q]
    BY <1>5, <2>2, IdleTyped
  <2> QED
    BY <2>2, <2>3
<1>9. log' \in [Trucks -> SUBSET Entry]
      /\ log'[t] = log[t] \cup {e}
      /\ \A s \in Trucks \ {t} : log'[s] = log[s]
  BY <1>5 DEF TypeOK
<1> DEFINE by == IF h.reason = "AVERIA" /\ StatusAfter(h) = "INACTIVE"
                 THEN Reporters(h) ELSE stopped[t]
<1>10. /\ stopped' \in [Trucks -> SUBSET Users] /\ stopped'[t] = by
       /\ \A s \in Trucks \ {t} : stopped'[s] = stopped[s]
  <2>1. by \in SUBSET Users
    BY <1>2, <1>3 DEF TypeOK, Reporters
  <2>2. stopped' = [stopped EXCEPT ![t] = by]
    BY <1>5
  <2>3. stopped \in [Trucks -> SUBSET Users]
    BY DEF TypeOK
  <2> HIDE DEF by
  <2> QED
    BY <2>1, <2>2, <2>3
<1>11. TypeOK'
  <2>1. \A s \in Trucks : \A f \in log'[s] :
          TruckExists(s)' /\ UserExists(f.user)'
    BY <1>2, <1>3, <1>4, <1>5, <1>7, <1>9 DEF TypeOK, UserExists
  <2>2. \A row \in assigned' : UserExists(row[1])' /\ TruckExists(row[2])'
    BY <1>5, <1>7 DEF TypeOK, UserExists, Assignment
  <2>3. moved' \subseteq Trucks
    BY <1>5 DEF TypeOK
  <2> QED
    BY <1>5, <1>7, <1>8, <1>9, <1>10, <2>1, <2>2, <2>3 DEF TypeOK
<1>12. ASSUME NEW q \in Requests \ {r}
       PROVE  (Equipped(req[q]) /\ Sound(req[q]))'
  <2>1. PICK g \in Handler : g = req[q] /\ Equipped(g) /\ Sound(g)
    BY DEF TypeOK
  <2>2. PICK f \in Handler : f = req'[q]
    BY <1>8
  <2>3. /\ SameBut(f, g) /\ g.passed \subseteq f.passed
        /\ ~f.raced => ~g.raced
        /\ f.pc \in {"lock", "insert"} => f = g
        /\ f.pc \in {"read", "change", "commit"} /\ f.truck = t =>
             /\ h.reason \in f.passed
             /\ Writes(h) => f.raced
    BY <1>8, <2>1, <2>2 DEF SameBut, Changing
  <2>4. Equipped(f)'
    BY <1>5, <1>6, <1>7, <2>1, <2>3 DEF Equipped, SameBut, UserExists
  <2>5. SeenLasts(f)' /\ UsersDrive(f)'
    BY <1>5, <2>1, <2>3 DEF Sound, SeenLasts, UsersDrive, SameBut, DriversOf
  <2>6. ReadLasts(f)'
    BY <1>6, <1>7, <2>1, <2>3 DEF Sound, ReadLasts, Equipped, SameBut
  <2>7. PassedTold(f)'
    <3>1. ASSUME f.pc \in {"read", "change", "commit"},
                 NEW m \in log'[f.truck], f.createdAt < m.createdAt
          PROVE  m.reason \in f.passed
      <4>1. f.truck \in Trucks /\ f.truck = g.truck /\ f.pc = g.pc
            /\ f.createdAt = g.createdAt
        BY <2>1, <2>3, <3>1 DEF Equipped, SameBut
      <4>2. CASE m \in log[f.truck]
        BY <2>1, <2>3, <3>1, <4>1, <4>2 DEF Sound, PassedTold
      <4>3. CASE m \notin log[f.truck]
        BY <1>4, <1>9, <2>3, <3>1, <4>1, <4>3
      <4> QED
        BY <4>2, <4>3
    <3> QED
      BY <3>1 DEF PassedTold
  <2> QED
    BY <2>2, <2>4, <2>5, <2>6, <2>7 DEF Sound
<1>13. DriversAsAsked' /\ NotYetAsked'
  BY <1>5, <1>6, <1>7 DEF DriversAsAsked, NotYetAsked, DriversOf
<1>14. LogDated'
  BY <1>2, <1>4, <1>5, <1>9 DEF LogDated, NewStatus
<1>15. /\ log[t] \in SUBSET Entry
       /\ \A f \in log[t] :
            /\ f.createdAt \in Nat
            /\ f.createdAt <= e.createdAt \/ f.reason \in h.passed
  <2>1. \A f \in log[t] : f.createdAt \in Nat /\ e.createdAt \in Nat
    BY TrucksConstants DEF TypeOK, Entry
  <2> QED
    BY <1>1, <1>2, <1>3, <1>4, <2>1 DEF Sound, PassedTold, TypeOK
<1> HIDE DEF by
<1>16. LogTellsStatus'
  <2>1. ASSUME t \notin moved'
        PROVE  \E m \in Latest(log'[t]) : m.newStatus = status'[t]
    <3>1. ~Misled(h)
      BY <1>5, <2>1
    <3>2. e.newStatus = status'[t]
      BY <1>4, <1>6, <1>7, <3>1 DEF Misled
    <3>3. CASE h.passed = {}
      BY <1>9, <1>15, <3>2, <3>3, LatestAdded
    <3>4. CASE log[t] = {}
      BY <1>9, <1>15, <3>2, <3>4, LatestAdded
    <3>5. CASE h.passed # {} /\ log[t] # {}
      <4>1. t \notin moved
        BY <1>5, <2>1, <3>1, <3>5
      <4>2. PICK m \in Latest(log[t]) : m.newStatus = status[t]
        BY <3>5, <4>1 DEF LogTellsStatus
      <4>3. CASE e \in Latest(log'[t])
        BY <3>2, <4>3
      <4>4. CASE e \notin Latest(log'[t])
        <5>1. m \in Latest(log'[t]) /\ e.createdAt < m.createdAt
          BY <1>9, <1>15, <4>2, <4>4, LatestAdded
        <5>2. m \in log[t] /\ m.reason \in PlateChangeReason
          BY <1>15, <4>2 DEF Latest, Entry
        <5>3. m.reason \in h.passed
          BY <1>15, <4>2, <5>1, <5>2, TrucksConstants DEF Entry
        <5>4. CASE Writes(h)
          <6>1. m.reason = "AVERIA"
            BY <3>1, <5>2, <5>3, <5>4 DEF Misled, PlateChangeReason
          <6>2. m.newStatus = "INACTIVE"
            BY <5>2, <6>1 DEF LogDated
          <6> QED
            BY <1>6, <1>7, <5>1, <5>4, <6>2
        <5>5. CASE ~Writes(h)
          BY <1>6, <1>7, <4>2, <5>1, <5>5
        <5> QED
          BY <5>4, <5>5
      <4> QED
        BY <4>3, <4>4
    <3> QED
      BY <3>3, <3>4, <3>5
  <2>2. \A s \in Trucks \ {t} : s \notin moved' => s \notin moved
    BY <1>5
  <2> QED
    BY <1>7, <1>9, <2>1, <2>2 DEF LogTellsStatus
<1>17. BreakdownAlerted'
  <2>1. ASSUME stopped'[t] # {}
        PROVE  \E m \in Alerts(t)' : m.user \in stopped'[t]
    <3>1. CASE h.reason = "AVERIA" /\ StatusAfter(h) = "INACTIVE"
      <4>1. e.newStatus = "INACTIVE" /\ e.reason = "AVERIA"
        BY <1>4, <3>1 DEF NewStatus
      <4>2. /\ Breakdowns(t)' = Breakdowns(t) \cup {e}
            /\ Breakdowns(t) \in SUBSET Entry
        BY <1>9, <1>15, <4>1 DEF Breakdowns
      <4>3. Alerts(t)' = Latest(Breakdowns(t) \cup {e})
        BY <1>7, <3>1, <4>2 DEF Alerts, Latest
      <4>4. stopped'[t] = Reporters(h)
        BY <1>10, <3>1 DEF by
      <4>5. e.user \in stopped'[t]
        BY <1>3, <1>4, <2>1, <4>4 DEF Reporters
      <4>6. CASE "AVERIA" \notin h.passed
        <5>1. \A f \in Breakdowns(t) : f.createdAt <= e.createdAt
          BY <1>15, <4>6 DEF Breakdowns
        <5> QED
          BY <4>2, <4>3, <4>5, <5>1, LatestAdded
      <4>7. CASE "AVERIA" \in h.passed
        <5>1. stopped[t] # {} /\ stopped[t] \subseteq stopped'[t]
          BY <1>3, <2>1, <4>4, <4>7 DEF Reporters
        <5>2. PICK m \in Alerts(t) : m.user \in stopped[t]
          BY <5>1 DEF BreakdownAlerted
        <5>3. m \in Latest(Breakdowns(t))
          BY <5>2 DEF Alerts
        <5>4. e \in Alerts(t)' \/ m \in Alerts(t)'
          BY <4>2, <4>3, <5>3, LatestAdded
        <5> QED
          BY <4>5, <5>1, <5>2, <5>4
      <4> QED
        BY <4>6, <4>7
    <3>2. CASE ~(h.reason = "AVERIA" /\ StatusAfter(h) = "INACTIVE")
      <4>1. stopped'[t] = stopped[t]
        BY <1>10, <3>2 DEF by
      <4>2. PICK m \in Alerts(t) : m.user \in stopped[t]
        BY <2>1, <4>1 DEF BreakdownAlerted
      <4>3. status[t] = "INACTIVE"
        BY <4>2 DEF Alerts
      <4>4. ~Writes(h) \/ h.reason = "AVERIA"
        BY DEF Writes, NewStatus
      <4>5. h.reason # "AVERIA" /\ StatusAfter(h) = status[t]
        BY <1>6, <3>2, <4>3, <4>4
      <4>6. Breakdowns(t)' = Breakdowns(t)
        BY <1>4, <1>9, <4>5 DEF Breakdowns
      <4>7. Alerts(t)' = Alerts(t)
        BY <1>7, <4>5, <4>6 DEF Alerts, Latest
      <4> QED
        BY <4>1, <4>2, <4>7
    <3> QED
      BY <3>1, <3>2
  <2>2. ASSUME NEW s \in Trucks \ {t}, stopped'[s] # {}
        PROVE  \E m \in Alerts(s)' : m.user \in stopped'[s]
    <3>1. Alerts(s)' = Alerts(s) /\ stopped'[s] = stopped[s]
      BY <1>7, <1>9, <1>10, <2>2 DEF Alerts, Latest, Breakdowns
    <3> QED
      BY <2>2, <3>1 DEF BreakdownAlerted
  <2> QED
    BY <2>1, <2>2 DEF BreakdownAlerted
<1> QED
  BY <1>8, <1>11, <1>12, <1>13, <1>14, <1>16, <1>17, IdleSound

-----------------------------------------------------------------------------
(* Trucks and users                                                        *)

LEMMA TruckCreateStep ==
  ASSUME TruckInv, NEW t \in Trucks, TruckCreate(t)
  PROVE  TruckInv'
<1> USE DEF TruckInv
<1>1. /\ status[t] = NULL
      /\ status' = [status EXCEPT ![t] = "ACTIVE"]
      /\ UNCHANGED <<role, assigned, log, clock, req, asked, unchecked, moved,
                     stopped>>
  BY DEF TruckCreate, histories
<1>2. log[t] = {} /\ \A row \in assigned : row[2] # t
  BY <1>1, TrucksConstants DEF TypeOK, TruckExists, TruckStatus
<1>3. TypeOK'
  <2>1. /\ status' \in [Trucks -> TruckStatus \cup {NULL, "gone"}]
        /\ \A s \in Trucks : TruckExists(s) => TruckExists(s)'
    BY <1>1 DEF TypeOK, TruckExists, TruckStatus
  <2>2. \A row \in assigned : UserExists(row[1])' /\ TruckExists(row[2])'
    BY <1>1, <2>1 DEF TypeOK, UserExists, Assignment
  <2>3. \A s \in Trucks : \A f \in log[s] :
          TruckExists(s)' /\ UserExists(f.user)'
    BY <1>1, <2>1 DEF TypeOK, UserExists
  <2> QED
    BY <1>1, <2>1, <2>2, <2>3 DEF TypeOK
<1>4. \A q \in Requests : Equipped(req[q])'
  BY <1>1, TrucksConstants
     DEF TypeOK, Equipped, TruckExists, TruckStatus, UserExists
<1>5. \A q \in Requests : Sound(req[q])'
  BY <1>1
     DEF TypeOK, Equipped, Sound, SeenLasts, UsersDrive, ReadLasts,
         PassedTold, TruckExists, DriversOf
<1>6. DriversAsAsked' /\ NotYetAsked'
  <2>1. DriversOf(t) = {} /\ asked[t] = {}
    BY <1>1, <1>2 DEF DriversOf, NotYetAsked
  <2>2. \A s \in Trucks \ {t} : TruckExists(s)' = TruckExists(s)
    BY <1>1 DEF TypeOK, TruckExists
  <2> QED
    BY <1>1, <2>1, <2>2, TrucksConstants
       DEF TypeOK, DriversAsAsked, NotYetAsked, DriversOf
<1>7. LogDated' /\ LogTellsStatus'
  BY <1>1, <1>2 DEF TypeOK, LogDated, LogTellsStatus
<1>8. BreakdownAlerted'
  <2>1. stopped[t] = {}
    BY <1>1, TrucksConstants DEF BreakdownAlerted, Alerts
  <2>2. \A s \in Trucks \ {t} : Alerts(s)' = Alerts(s)
    BY <1>1 DEF TypeOK, Alerts, Breakdowns
  <2> QED
    BY <1>1, <2>1, <2>2 DEF BreakdownAlerted
<1> QED
  BY <1>1, <1>3, <1>4, <1>5, <1>6, <1>7, <1>8

LEMMA TruckUpdateStep ==
  ASSUME TruckInv, NEW t \in Trucks, NEW new \in TruckStatus,
         TruckUpdate(t, new)
  PROVE  TruckInv'
<1> USE DEF TruckInv
<1>1. /\ TruckExists(t)
      /\ status' = [status EXCEPT ![t] = new]
      /\ req' = Race(Changing(t))
      /\ moved' = moved \cup {t}
      /\ stopped' = [stopped EXCEPT ![t] = {}]
      /\ UNCHANGED <<role, assigned, log, clock, asked, unchecked>>
  BY DEF TruckUpdate
<1>2. /\ req' \in [Requests -> Handler]
      /\ \A q \in Requests :
           /\ SameBut(req'[q], req[q]) /\ req'[q].passed = req[q].passed
           /\ q \in Changing(t) => req'[q].raced
           /\ req'[q].raced \/ req'[q] = req[q]
  BY <1>1, RaceStep DEF TypeOK
<1>3. /\ status' \in [Trucks -> TruckStatus \cup {NULL, "gone"}]
      /\ status'[t] = new /\ new # NULL
      /\ \A s \in Trucks \ {t} : status'[s] = status[s]
      /\ \A s \in Trucks : TruckExists(s)' = TruckExists(s)
  BY <1>1, TrucksConstants DEF TypeOK, TruckExists, TruckStatus
<1>4. /\ stopped' \in [Trucks -> SUBSET Users] /\ stopped'[t] = {}
      /\ \A s \in Trucks \ {t} : stopped'[s] = stopped[s]
  BY <1>1 DEF TypeOK
<1>5. TypeOK'
  <2>1. \A row \in assigned : UserExists(row[1])' /\ TruckExists(row[2])'
    BY <1>1, <1>3 DEF TypeOK, UserExists, Assignment
  <2>2. \A s \in Trucks : \A f \in log[s] :
          TruckExists(s)' /\ UserExists(f.user)'
    BY <1>1, <1>3 DEF TypeOK, UserExists
  <2> QED
    BY <1>1, <1>2, <1>3, <1>4, <2>1, <2>2 DEF TypeOK
<1>6. ASSUME NEW q \in Requests
      PROVE  (Equipped(req[q]) /\ Sound(req[q]))'
  <2>1. PICK h \in Handler : h = req[q] /\ Equipped(h) /\ Sound(h)
    BY DEF TypeOK
  <2>2. PICK f \in Handler : f = req'[q]
    BY <1>2
  <2>3. /\ SameBut(f, h) /\ (f.raced \/ f = h) /\ f.passed = h.passed
        /\ f.pc \in {"change", "commit"} /\ f.truck = t => f.raced
    BY <1>2, <2>1, <2>2 DEF SameBut, Changing
  <2>4. Equipped(f)'
    BY <1>1, <1>3, <2>1, <2>3 DEF Equipped, SameBut, UserExists
  <2>5. SeenLasts(f)' /\ UsersDrive(f)'
    BY <1>1, <2>1, <2>3 DEF Sound, SeenLasts, UsersDrive, SameBut, DriversOf
  <2>6. ReadLasts(f)' /\ PassedTold(f)'
    BY <1>1, <1>3, <2>1, <2>3
       DEF Sound, ReadLasts, PassedTold, Equipped, SameBut
  <2> QED
    BY <2>2, <2>4, <2>5, <2>6 DEF Sound
<1>7. DriversAsAsked' /\ NotYetAsked'
  BY <1>1, <1>3 DEF DriversAsAsked, NotYetAsked, DriversOf
<1>8. LogDated' /\ LogTellsStatus' /\ BreakdownAlerted'
  BY <1>1, <1>3, <1>4
     DEF LogDated, LogTellsStatus, BreakdownAlerted, Alerts, Breakdowns
<1> QED
  BY <1>5, <1>6, <1>7, <1>8

LEMMA TruckRemoveStep ==
  ASSUME TruckInv, NEW t \in Trucks, TruckRemove(t)
  PROVE  TruckInv'
<1> USE DEF TruckInv
<1>1. /\ TruckExists(t) /\ DriversOf(t) = {}
      /\ status' = [status EXCEPT ![t] = "gone"]
      /\ log' = [log EXCEPT ![t] = {}]
      /\ asked' = [asked EXCEPT ![t] = NULL]
      /\ moved' = moved \ {t}
      /\ stopped' = [stopped EXCEPT ![t] = {}]
      /\ Naming(t) = {}
      /\ UNCHANGED <<role, assigned, clock, req, unchecked>>
  BY DEF TruckRemove, TruckFree
<1>2. /\ status' \in [Trucks -> TruckStatus \cup {NULL, "gone"}]
      /\ status'[t] = "gone" /\ ~TruckExists(t)'
      /\ \A s \in Trucks \ {t} : status'[s] = status[s]
      /\ \A s \in Trucks \ {t} : TruckExists(s)' = TruckExists(s)
  BY <1>1 DEF TypeOK, TruckExists, TruckStatus
<1>3. /\ log' \in [Trucks -> SUBSET Entry] /\ log'[t] = {}
      /\ \A s \in Trucks \ {t} : log'[s] = log[s]
  BY <1>1 DEF TypeOK
<1>4. /\ stopped' \in [Trucks -> SUBSET Users] /\ stopped'[t] = {}
      /\ \A s \in Trucks \ {t} : stopped'[s] = stopped[s]
      /\ asked' \in [Trucks -> Optional(SUBSET Users)] /\ asked'[t] = NULL
      /\ \A s \in Trucks \ {t} : asked'[s] = asked[s]
  BY <1>1 DEF TypeOK, Optional
<1>5. TypeOK'
  <2>1. \A row \in assigned : row[2] \in Trucks \ {t}
    BY <1>1 DEF TypeOK, Assignment, DriversOf
  <2>2. \A row \in assigned : UserExists(row[1])' /\ TruckExists(row[2])'
    BY <1>1, <1>2, <2>1 DEF TypeOK, UserExists
  <2>3. \A s \in Trucks : \A f \in log'[s] :
          TruckExists(s)' /\ UserExists(f.user)'
    BY <1>1, <1>2, <1>3 DEF TypeOK, UserExists
  <2> QED
    BY <1>1, <1>2, <1>3, <1>4, <2>2, <2>3 DEF TypeOK
<1>6. ASSUME NEW h \in Handler, Equipped(h), Sound(h),
             h.pc = "commit" => h.truck # t
      PROVE  Equipped(h)' /\ Sound(h)'
  <2>1. Equipped(h)'
    BY <1>1, <1>2, <1>6, TrucksConstants DEF Equipped, UserExists
  <2>2. SeenLasts(h)' /\ UsersDrive(h)'
    BY <1>1, <1>6 DEF Sound, SeenLasts, UsersDrive, DriversOf
  <2>3. ReadLasts(h)' /\ PassedTold(h)'
    BY <1>2, <1>3, <1>6 DEF Sound, ReadLasts, PassedTold, Equipped
  <2> QED
    BY <2>1, <2>2, <2>3 DEF Sound
<1>7. ASSUME NEW q \in Requests
      PROVE  (Equipped(req[q]) /\ Sound(req[q]))'
  <2>1. PICK h \in Handler : h = req[q] /\ Equipped(h) /\ Sound(h)
    BY DEF TypeOK
  <2>2. h.pc = "commit" => h.truck # t
    BY <1>1, <2>1 DEF Naming, At
  <2>3. Equipped(h)' /\ Sound(h)'
    BY <1>6, <2>1, <2>2
  <2> QED
    BY <1>1, <2>1, <2>3
<1>8. DriversAsAsked' /\ NotYetAsked'
  BY <1>1, <1>2, <1>4, TrucksConstants
     DEF DriversAsAsked, NotYetAsked, DriversOf
<1>9. LogDated' /\ LogTellsStatus'
  <2>1. ASSUME NEW s \in Trucks, log'[s] # {}, s \notin moved'
        PROVE  \E e \in Latest(log'[s]) : e.newStatus = status'[s]
    BY <1>1, <1>2, <1>3, <2>1 DEF LogTellsStatus
  <2>2. LogDated'
    BY <1>1, <1>3 DEF LogDated
  <2> QED
    BY <2>1, <2>2 DEF LogTellsStatus
<1>10. BreakdownAlerted'
  <2>1. \A s \in Trucks \ {t} : Alerts(s)' = Alerts(s)
    BY <1>2, <1>3 DEF Alerts, Breakdowns
  <2> QED
    BY <1>4, <2>1 DEF BreakdownAlerted
<1> QED
  BY <1>5, <1>7, <1>8, <1>9, <1>10

LEMMA UserUpdateStep ==
  ASSUME TruckInv, NEW u \in Users, NEW as \in UserRole, UserUpdate(u, as)
  PROVE  TruckInv'
<1> USE DEF TruckInv
<1>1. /\ UserExists(u)
      /\ role' = [role EXCEPT ![u] = as]
      /\ unchecked' = IF Concerned(u) THEN unchecked \cup {u} ELSE unchecked
      /\ UNCHANGED <<status, assigned, log, clock, req, asked, moved, stopped>>
  BY DEF UserUpdate
<1>2. /\ role' \in [Users -> UserRole \cup {"gone"}]
      /\ \A v \in Users \ {u} : role'[v] = role[v]
      /\ \A v \in Users : UserExists(v)' = UserExists(v)
  BY <1>1 DEF TypeOK, UserExists
<1>3. /\ unchecked \subseteq unchecked' /\ unchecked' \subseteq Users
      /\ Concerned(u) => u \in unchecked'
  BY <1>1 DEF TypeOK
<1>4. TypeOK'
  <2>1. \A row \in assigned : UserExists(row[1])' /\ TruckExists(row[2])'
    BY <1>1, <1>2 DEF TypeOK, TruckExists, Assignment
  <2>2. \A s \in Trucks : \A f \in log[s] :
          TruckExists(s)' /\ UserExists(f.user)'
    BY <1>1, <1>2 DEF TypeOK, TruckExists, Entry
  <2> QED
    BY <1>1, <1>2, <1>3, <2>1, <2>2 DEF TypeOK
<1>5. ASSUME NEW q \in Requests
      PROVE  (Equipped(req[q]) /\ Sound(req[q]))'
  <2>1. PICK h \in Handler : h = req[q] /\ Equipped(h) /\ Sound(h)
    BY DEF TypeOK
  <2>2. /\ Equipped(h)'
        /\ SeenLasts(h)' /\ ReadLasts(h)' /\ PassedTold(h)'
    BY <1>1, <1>2, <2>1
       DEF Equipped, Sound, SeenLasts, ReadLasts, PassedTold, DriversOf,
           TruckExists
  <2>3. UsersDrive(h)'
    <3>1. \A v \in h.users : v \in Users
      BY DEF Handler
    <3>2. u \in h.users => u \in unchecked'
      BY <1>3, <2>1 DEF Concerned
    <3> QED
      BY <1>2, <1>3, <2>1, <3>1, <3>2 DEF Sound, UsersDrive
  <2> QED
    BY <1>1, <2>1, <2>2, <2>3 DEF Sound
<1>6. DriversAsAsked' /\ NotYetAsked'
  <2>1. ASSUME NEW row \in assigned
        PROVE  role'[row[1]] = "DRIVER" \/ row[1] \in unchecked'
    <3>1. row[1] \in Users /\ row[2] \in Trucks /\ row = <<row[1], row[2]>>
      BY DEF TypeOK, Assignment
    <3>2. row[1] = u => u \in unchecked'
      BY <1>3, <3>1 DEF Concerned
    <3> QED
      BY <1>2, <1>3, <3>1, <3>2 DEF DriversAsAsked
  <2> QED
    BY <1>1, <2>1 DEF DriversAsAsked, NotYetAsked, DriversOf, TruckExists
<1>7. LogDated' /\ LogTellsStatus' /\ BreakdownAlerted'
  BY <1>1 DEF LogDated, LogTellsStatus, BreakdownAlerted, Alerts, Breakdowns
<1> QED
  BY <1>4, <1>5, <1>6, <1>7

LEMMA UserRemoveStep ==
  ASSUME TruckInv, NEW u \in Users, UserRemove(u)
  PROVE  TruckInv'
<1> USE DEF TruckInv
<1>1. /\ UserExists(u) /\ \A t \in Trucks : <<u, t>> \notin assigned
      /\ role' = [role EXCEPT ![u] = "gone"]
      /\ log' = [t \in Trucks |-> log[t] \ EntriesBy(u, t)]
      /\ unchecked' = unchecked \ {u}
      /\ moved' = moved \cup {t \in Trucks : EntriesBy(u, t) # {}}
      /\ stopped' = [t \in Trucks |->
                       IF u \in stopped[t] THEN {} ELSE stopped[t]]
      /\ Signing(u) = {}
      /\ UNCHANGED <<status, assigned, clock, req, asked>>
  BY DEF UserRemove
<1>2. /\ role' \in [Users -> UserRole \cup {"gone"}]
      /\ role'[u] = "gone"
      /\ \A v \in Users \ {u} : role'[v] = role[v]
      /\ \A v \in Users \ {u} : UserExists(v)' = UserExists(v)
  BY <1>1 DEF TypeOK, UserExists
<1>3. /\ log' \in [Trucks -> SUBSET Entry]
      /\ \A t \in Trucks : log'[t] = {e \in log[t] : e.user # u}
  BY <1>1 DEF TypeOK, EntriesBy
<1>4. TypeOK'
  <2>1. \A row \in assigned : UserExists(row[1])' /\ TruckExists(row[2])'
    <3> TAKE row \in assigned
    <3>1. row[1] \in Users /\ row[2] \in Trucks /\ row = <<row[1], row[2]>>
      BY DEF TypeOK, Assignment
    <3> QED
      BY <1>1, <1>2, <3>1 DEF TypeOK, TruckExists
  <2>2. \A s \in Trucks : \A f \in log'[s] :
          TruckExists(s)' /\ UserExists(f.user)'
    BY <1>1, <1>2, <1>3 DEF TypeOK, TruckExists, Entry
  <2>3. stopped' \in [Trucks -> SUBSET Users]
    BY <1>1 DEF TypeOK
  <2> QED
    BY <1>1, <1>2, <1>3, <2>1, <2>2, <2>3 DEF TypeOK
<1>5. ASSUME NEW q \in Requests
      PROVE  (Equipped(req[q]) /\ Sound(req[q]))'
  <2>1. PICK h \in Handler : h = req[q] /\ Equipped(h) /\ Sound(h)
    BY DEF TypeOK
  <2>2. SeenLasts(h)' /\ ReadLasts(h)' /\ PassedTold(h)'
    BY <1>1, <1>3, <2>1
       DEF Equipped, Sound, SeenLasts, ReadLasts, PassedTold, DriversOf,
           TruckExists
  <2>3. UsersDrive(h)'
    BY <1>1, <1>2, <2>1 DEF Sound, UsersDrive, Handler
  <2>4. Equipped(h)'
    <3>1. h.pc = "commit" => h.user # u
      BY <1>1, <2>1 DEF Signing, At
    <3> QED
      BY <1>1, <1>2, <2>1, <3>1 DEF Equipped, TruckExists
  <2> QED
    BY <1>1, <2>1, <2>2, <2>3, <2>4 DEF Sound
<1>6. DriversAsAsked' /\ NotYetAsked'
  <2>1. ASSUME NEW row \in assigned
        PROVE  role'[row[1]] = "DRIVER" \/ row[1] \in unchecked'
    <3>1. row[1] \in Users /\ row[2] \in Trucks /\ row = <<row[1], row[2]>>
      BY DEF TypeOK, Assignment
    <3>2. row[1] # u
      BY <1>1, <3>1
    <3> QED
      BY <1>1, <1>2, <3>1, <3>2 DEF DriversAsAsked
  <2> QED
    BY <1>1, <2>1 DEF DriversAsAsked, NotYetAsked, DriversOf, TruckExists
<1>7. LogDated' /\ LogTellsStatus'
  <2>1. ASSUME NEW t \in Trucks, log'[t] # {}, t \notin moved'
        PROVE  \E e \in Latest(log'[t]) : e.newStatus = status'[t]
    <3>1. t \notin moved /\ log'[t] = log[t]
      BY <1>1, <2>1
    <3> QED
      BY <1>1, <2>1, <3>1 DEF LogTellsStatus
  <2>2. LogDated'
    BY <1>1, <1>3 DEF LogDated
  <2> QED
    BY <2>1, <2>2 DEF LogTellsStatus
<1>8. BreakdownAlerted'
  <2>1. ASSUME NEW t \in Trucks, stopped'[t] # {}
        PROVE  \E e \in Alerts(t)' : e.user \in stopped'[t]
    <3>1. stopped'[t] = stopped[t] /\ u \notin stopped[t]
      BY <1>1, <2>1
    <3>2. PICK e \in Alerts(t) : e.user \in stopped[t]
      BY <2>1, <3>1 DEF BreakdownAlerted
    <3>3. status[t] = "INACTIVE" /\ e \in Latest(Breakdowns(t))
      BY <3>2 DEF Alerts
    <3>4. e \in Breakdowns(t)' /\ Breakdowns(t)' \in SUBSET Breakdowns(t)
      BY <1>3, <3>1, <3>2, <3>3 DEF Breakdowns, Latest
    <3>5. e \in Latest(Breakdowns(t)')
      BY <3>3, <3>4, LatestKept
    <3>6. e \in Alerts(t)'
      BY <1>1, <3>3, <3>5 DEF Alerts, Latest
    <3> QED
      BY <3>1, <3>2, <3>6
  <2> QED
    BY <2>1 DEF BreakdownAlerted
<1> QED
  BY <1>4, <1>5, <1>6, <1>7, <1>8

-----------------------------------------------------------------------------
(* The theorems                                                            *)

LEMMA InvInit == Init => TruckInv
<1> SUFFICES ASSUME Init PROVE TruckInv
  OBVIOUS
<1>1. TypeOK
  BY IdleTyped, TrucksConstants DEF Init, TypeOK, Optional
<1>2. \A r \in Requests : Equipped(req[r]) /\ Sound(req[r])
  BY IdleSound DEF Init
<1>3. DriversAsAsked /\ NotYetAsked
  BY DEF Init, DriversAsAsked, NotYetAsked, DriversOf
<1>4. LogDated /\ LogTellsStatus /\ BreakdownAlerted
  BY DEF Init, LogDated, LogTellsStatus, BreakdownAlerted
<1> QED
  BY <1>1, <1>2, <1>3, <1>4 DEF TruckInv

LEMMA InvStep == TruckInv /\ [Next]_vars => TruckInv'
<1> SUFFICES ASSUME TruckInv, [Next]_vars PROVE TruckInv'
  OBVIOUS
<1>1. ASSUME NEW r \in Requests, Step(r) PROVE TruckInv'
  <2>1. ASSUME NEW t \in Trucks, NEW users \in SUBSET Users,
               SetRead(r, t, users)
        PROVE  TruckInv'
    BY <2>1, SetReadStep
  <2>2. CASE SetDelete(r)
    BY <2>2, SetDeleteStep
  <2>3. CASE SetLock(r)
    BY <2>3, SetLockStep
  <2>4. CASE SetCommit(r)
    BY <2>4, SetCommitStep
  <2>5. ASSUME NEW u \in Users, NEW t \in Trucks,
               NEW reason \in PlateChangeReason, NEW instant \in 1..MaxLogs,
               ChangeBegin(r, u, t, reason, instant)
        PROVE  TruckInv'
    BY <2>5, ChangeBeginStep
  <2>6. CASE ChangeRead(r)
    BY <2>6, ChangeReadStep
  <2>7. ASSUME NEW createdAt \in 1..MaxLogs, ChangeInsert(r, createdAt)
        PROVE  TruckInv'
    BY <2>7, ChangeInsertStep
  <2>8. CASE ChangeCommit(r)
    BY <2>8, ChangeCommitStep
  <2>9. CASE Fail(r)
    BY <2>9, FailStep
  <2> QED
    BY <1>1, <2>1, <2>2, <2>3, <2>4, <2>5, <2>6, <2>7, <2>8, <2>9 DEF Step
<1>2. ASSUME NEW u \in Users, NEW t \in Trucks, Assign(u, t)
      PROVE  TruckInv'
  BY <1>2, AssignStep
<1>3. ASSUME NEW t \in Trucks, TruckCreate(t) PROVE TruckInv'
  BY <1>3, TruckCreateStep
<1>4. ASSUME NEW t \in Trucks, TruckRemove(t) PROVE TruckInv'
  BY <1>4, TruckRemoveStep
<1>5. ASSUME NEW t \in Trucks, NEW new \in TruckStatus, TruckUpdate(t, new)
      PROVE  TruckInv'
  BY <1>5, TruckUpdateStep
<1>6. ASSUME NEW u \in Users, NEW as \in UserRole, UserUpdate(u, as)
      PROVE  TruckInv'
  BY <1>6, UserUpdateStep
<1>7. ASSUME NEW u \in Users, UserRemove(u) PROVE TruckInv'
  BY <1>7, UserRemoveStep
<1>8. ASSUME UNCHANGED vars PROVE TruckInv'
  <2>1. QuietRows /\ UNCHANGED req /\ UNCHANGED clock
    BY <1>8 DEF vars, QuietRows, histories
  <2>2. ClockRuns /\ req' \in [Requests -> Handler]
    BY <2>1, ClockStands DEF TruckInv, TypeOK
  <2>3. ASSUME NEW r \in Requests
        PROVE  (Equipped(req[r]) /\ Sound(req[r]))'
    <3>1. PICK h \in Handler : h = req[r] /\ Equipped(h) /\ Sound(h)
      BY DEF TruckInv, TypeOK
    <3>2. Equipped(h)' /\ Sound(h)'
      BY <2>1, <2>2, <3>1, SoundKept DEF TruckInv
    <3> QED
      BY <2>1, <3>1, <3>2
  <2> QED
    BY <2>1, <2>2, <2>3, RowsKept DEF TruckInv
<1> QED
  BY <1>1, <1>2, <1>3, <1>4, <1>5, <1>6, <1>7, <1>8 DEF Next

LEMMA InvHolds == Spec => []TruckInv
BY InvInit, InvStep, PTL DEF Spec

(* Assignments and log entries name trucks and users that exist: remove of *)
(* a truck takes its log and is refused while it has drivers, remove of a  *)
(* user takes his entries and is refused while he drives.                  *)
THEOREM TypeCorrect == Spec => []TypeOK
<1>1. TruckInv => TypeOK
  BY DEF TruckInv
<1> QED
  BY <1>1, InvHolds, PTL

(* A truck's drivers are those setUsersOfTruck was last asked for and those*)
(* assigned since, unless two replacements overlapped; and they were       *)
(* drivers when they were asked for.                                       *)
THEOREM DriversAreAsAsked == Spec => []DriversAsAsked
<1>1. TruckInv => DriversAsAsked
  BY DEF TruckInv
<1> QED
  BY <1>1, InvHolds, PTL

(* The latest entry of a truck's log tells its status, however many changes*)
(* overlap and whether or not they commit in the order of createdAt, but   *)
(* for update, the removal of a user who made entries, and a change that   *)
(* writes the status overlapping one that does not.                        *)
THEOREM LogIsTrue == Spec => []LogTellsStatus
<1>1. TruckInv => LogTellsStatus
  BY DEF TruckInv
<1> QED
  BY <1>1, InvHolds, PTL

(* A truck that a breakdown stopped is alerted of, with the user who       *)
(* reported it last or one whose report overlapped that one, in whatever   *)
(* order they commit, until its status is set or such a user is removed.   *)
THEOREM BreakdownsAreAlerted == Spec => []BreakdownAlerted
<1>1. TruckInv => BreakdownAlerted
  BY DEF TruckInv
<1> QED
  BY <1>1, InvHolds, PTL

-----------------------------------------------------------------------------
(* Monthly records                                                         *)

(* A set of naturals that is not empty has a least element.                *)
LEMMA Least ==
  ASSUME NEW T, T \subseteq Nat, T # {}
  PROVE  \E x \in T : \A y \in T : x <= y
<1> DEFINE R == {ss \in Nat \X Nat : ss[1] < ss[2]}
<1>1. IsWellFoundedOn(R, Nat)
  BY NatLessThanWellFounded DEF OpToRel
<1> HIDE DEF R
<1>2. PICK x \in T : \A y \in T : ~(<<y, x>> \in R)
  BY <1>1, WFMin
<1>3. x \in Nat /\ \A y \in T : y \in Nat
  OBVIOUS
<1>4. \A y \in T : ~(y < x)
  BY <1>2, <1>3 DEF R
<1> QED
  BY <1>3, <1>4

(* So what holds of 0, and of n + 1 where it holds of n, holds of all of   *)
(* 0..len: S is the set of those it holds of.                              *)
LEMMA Induction ==
  ASSUME NEW len \in Nat, NEW S, 0 \in S,
         \A n \in 0..len : n \in S /\ n < len => n + 1 \in S
  PROVE  \A n \in 0..len : n \in S
<1> DEFINE T == {n \in 0..len : n \notin S}
<1> SUFFICES ASSUME T # {} PROVE FALSE
  OBVIOUS
<1>1. T \subseteq Nat
  OBVIOUS
<1> HIDE DEF T
<1>2. PICK x \in T : \A y \in T : x <= y
  BY <1>1, Least
<1>3. x \in 0..len /\ x \notin S
  BY <1>2 DEF T
<1>4. x - 1 \in 0..len /\ x - 1 < len /\ x = (x - 1) + 1
  BY <1>3
<1>5. x - 1 \notin T
  BY <1>2, <1>4
<1>6. x - 1 \in S
  BY <1>4, <1>5 DEF T
<1> QED
  BY <1>3, <1>4, <1>6

-----------------------------------------------------------------------------
(* The merging of items                                                    *)

(* f lists the maps of dedupeMonthlyItems, one for each prefix of items.   *)
Maps(items, f, n) ==
  f = [m \in 0..n |-> IF m = 0 THEN <<>> ELSE Add(f[m - 1], items[m])]

(* The maps exist: the loop over the items comes to an end.                *)
LEMMA MapsExist ==
  ASSUME NEW items, NEW len \in Nat
  PROVE  \E f : Maps(items, f, len)
<1> DEFINE S == {n \in 0..len : \E f : Maps(items, f, n)}
<1>1. 0 \in S
  <2> DEFINE f == [m \in 0..0 |-> <<>>]
  <2>1. f = [m \in 0..0 |-> IF m = 0 THEN <<>> ELSE Add(f[m - 1], items[m])]
    OBVIOUS
  <2>2. Maps(items, f, 0)
    BY <2>1 DEF Maps
  <2> QED
    BY <2>2
<1>2. ASSUME NEW n \in 0..len, n \in S, n < len PROVE n + 1 \in S
  <2>1. PICK f : Maps(items, f, n)
    BY <1>2
  <2> DEFINE g == [m \in 0..(n + 1) |->
                     IF m = n + 1 THEN Add(f[n], items[n + 1]) ELSE f[m]]
  <2>2. \A m \in 0..n : g[m] = f[m]
    OBVIOUS
  <2>3. \A m \in 0..n :
          f[m] = IF m = 0 THEN <<>> ELSE Add(f[m - 1], items[m])
    BY <2>1 DEF Maps
  <2>4. g[n + 1] = Add(g[n], items[n + 1])
    BY <2>2
  <2>5. \A m \in 0..n : m # 0 => m - 1 \in 0..n
    OBVIOUS
  <2>6. \A m \in 0..n :
          g[m] = IF m = 0 THEN <<>> ELSE Add(g[m - 1], items[m])
    BY <2>2, <2>3, <2>5
  <2>7. \A m \in 0..(n + 1) : m \in 0..n \/ m = n + 1
    OBVIOUS
  <2>8. \A m \in 0..(n + 1) :
          g[m] = IF m = 0 THEN <<>> ELSE Add(g[m - 1], items[m])
    <3> SUFFICES ASSUME NEW m \in 0..(n + 1)
                 PROVE g[m] = IF m = 0 THEN <<>>
                              ELSE Add(g[m - 1], items[m])
      OBVIOUS
    <3>1. CASE m \in 0..n
      BY <2>6, <3>1
    <3>2. CASE m = n + 1
      <4>1. m # 0 /\ m - 1 = n
        BY <3>2
      <4> HIDE DEF g
      <4> QED
        BY <2>4, <3>2, <4>1
    <3> QED
      BY <2>7, <3>1, <3>2
  <2>9. g = [m \in 0..(n + 1) |->
               IF m = 0 THEN <<>> ELSE Add(g[m - 1], items[m])]
    BY <2>8
  <2>10. Maps(items, g, n + 1)
    BY <2>9 DEF Maps
  <2>11. n + 1 \in 0..len
    BY <1>2
  <2> HIDE DEF g
  <2> QED
    BY <2>10, <2>11
<1> HIDE DEF S
<1>3. \A n \in 0..len : n \in S
  BY <1>1, <1>2, Induction
<1> QED
  BY <1>3 DEF S

(* Dedupe is the last of them.                                             *)
LEMMA DedupeIs ==
  ASSUME NEW items \in Seq(Item)
  PROVE  \E f : Maps(items, f, Len(items)) /\ Dedupe(items) = f[Len(items)]
<1> DEFINE f == CHOOSE f : f = [m \in 0..Len(items) |->
               IF m = 0 THEN <<>> ELSE Add(f[m - 1], items[m])]
<1>1. Len(items) \in Nat
  OBVIOUS
<1>2. \E g : Maps(items, g, Len(items))
  BY <1>1, MapsExist
<1>3. f = [m \in 0..Len(items) |->
             IF m = 0 THEN <<>> ELSE Add(f[m - 1], items[m])]
  BY <1>2 DEF Maps
<1>4. Dedupe(items) = f[Len(items)]
  BY DEF Dedupe
<1> QED
  BY <1>3, <1>4 DEF Maps

(* What a map of the first n items tells of them: one item per key, as bad *)
(* as the worst of the key, with notes of the key, those of a worst item   *)
(* if it has any.                                                          *)
Tells(map, items, n) ==
  /\ DOMAIN map = {items[i].key : i \in 1..n}
  /\ \A k \in DOMAIN map :
       /\ map[k] \in Item /\ map[k].key = k
       /\ \E i \in 1..n : items[i].key = k /\ items[i].status = map[k].status
       /\ \E i \in 1..n : items[i].key = k /\ items[i].notes = map[k].notes
       /\ \A i \in 1..n : items[i].key = k =>
            Severity(items[i].status) <= Severity(map[k].status)
       /\ \A i \in 1..n :
            /\ items[i].key = k /\ items[i].notes # NULL
            /\ Severity(items[i].status) = Severity(map[k].status)
            => map[k].notes # NULL

LEMMA SeverityTyped ==
  \A w : Severity(w) \in 0..3
BY DEF Severity

(* What one Merge gives: one of the two as to status, one of them as to    *)
(* notes, as bad as either, and with the notes of what is as bad.          *)
LEMMA MergeTells ==
  ASSUME NEW a \in Item, NEW b \in Item, a.key = b.key
  PROVE  LET c == Merge(a, b) IN
         /\ c \in Item /\ c.key = a.key
         /\ c.status = a.status \/ c.status = b.status
         /\ c.notes = a.notes \/ c.notes = b.notes
         /\ Severity(a.status) <= Severity(c.status)
         /\ Severity(b.status) <= Severity(c.status)
         /\ /\ Severity(a.status) = Severity(c.status)
            /\ a.notes # NULL
            => c.notes # NULL
         /\ /\ Severity(b.status) = Severity(c.status)
            /\ b.notes # NULL
            => c.notes # NULL
<1>1. /\ Severity(a.status) \in 0..3
      /\ Severity(b.status) \in 0..3
  BY SeverityTyped
<1>2. CASE Severity(b.status) > Severity(a.status)
  <2>1. Merge(a, b) = [b EXCEPT !.notes = IF @ = NULL THEN a.notes ELSE @]
    BY <1>2 DEF Merge, Or
  <2> QED
    BY <1>1, <1>2, <2>1 DEF Item
<1>3. CASE Severity(b.status) = Severity(a.status)
  <2>1. Merge(a, b) = [a EXCEPT !.notes = IF @ = NULL THEN b.notes ELSE @]
    BY <1>1, <1>3 DEF Merge, Or
  <2> QED
    BY <1>1, <1>3, <2>1 DEF Item
<1>4. CASE Severity(b.status) < Severity(a.status)
  <2>1. Merge(a, b) = a
    BY <1>1, <1>4 DEF Merge
  <2> QED
    BY <1>1, <1>4, <2>1
<1> QED
  BY <1>1, <1>2, <1>3, <1>4

(* One more item: the map tells of it too.                                 *)
LEMMA AddTells ==
  ASSUME NEW items \in Seq(Item), NEW n \in Nat, n < Len(items),
         NEW map, Tells(map, items, n)
  PROVE  Tells(Add(map, items[n + 1]), items, n + 1)
<1> DEFINE item == items[n + 1]
           new == Add(map, item)
<1>1. item \in Item /\ n + 1 \in 1..Len(items)
  OBVIOUS
<1>2. \A i \in 1..(n + 1) : i \in 1..n \/ i = n + 1
  OBVIOUS
<1>3. \A i \in 1..n : i \in 1..(n + 1)
  OBVIOUS
<1>4. n + 1 \in 1..(n + 1)
  OBVIOUS
<1>5. /\ DOMAIN new = DOMAIN map \cup {item.key}
      /\ \A k \in DOMAIN new :
           new[k] = IF k # item.key THEN map[k]
                    ELSE IF k \in DOMAIN map THEN Merge(map[k], item)
                    ELSE item
  BY DEF Add
<1>6. DOMAIN new = {items[i].key : i \in 1..(n + 1)}
  BY <1>2, <1>3, <1>4, <1>5 DEF Tells
<1> HIDE DEF new
<1>7. ASSUME NEW k \in DOMAIN new
      PROVE  /\ new[k] \in Item /\ new[k].key = k
             /\ \E i \in 1..(n + 1) :
                  items[i].key = k /\ items[i].status = new[k].status
             /\ \E i \in 1..(n + 1) :
                  items[i].key = k /\ items[i].notes = new[k].notes
             /\ \A i \in 1..(n + 1) : items[i].key = k =>
                  Severity(items[i].status) <= Severity(new[k].status)
             /\ \A i \in 1..(n + 1) :
                  /\ items[i].key = k /\ items[i].notes # NULL
                  /\ Severity(items[i].status)
                       = Severity(new[k].status)
                  => new[k].notes # NULL
  <2>1. CASE k # item.key
    <3>1. k \in DOMAIN map /\ new[k] = map[k]
      BY <1>5, <2>1
    <3> HIDE DEF item
    <3>2. item = items[n + 1]
      BY DEF item
    <3> QED
      BY <1>2, <1>3, <2>1, <3>1, <3>2 DEF Tells
  <2>2. CASE k = item.key /\ k \notin DOMAIN map
    <3>1. new[k] = item
      BY <1>5, <2>2
    <3>2. \A i \in 1..n : items[i].key # k
      BY <2>2 DEF Tells
    <3>3. Severity(item.status) <= Severity(item.status)
      BY SeverityTyped
    <3> HIDE DEF item
    <3>4. item = items[n + 1]
      BY DEF item
    <3> QED
      BY <1>1, <1>2, <1>4, <2>2, <3>1, <3>2, <3>3, <3>4
  <2>3. CASE k = item.key /\ k \in DOMAIN map
    <3>1. new[k] = Merge(map[k], item)
      BY <1>5, <2>3
    <3>2. map[k] \in Item /\ map[k].key = item.key
      BY <2>3 DEF Tells
    <3> DEFINE a == map[k]
               c == new[k]
    <3> HIDE DEF item
    <3>3. item = items[n + 1]
      BY DEF item
    <3>4. /\ c \in Item /\ c.key = a.key
          /\ c.status = a.status \/ c.status = item.status
          /\ c.notes = a.notes \/ c.notes = item.notes
          /\ Severity(a.status) <= Severity(c.status)
          /\ Severity(item.status) <= Severity(c.status)
          /\ /\ Severity(a.status) = Severity(c.status)
             /\ a.notes # NULL
             => c.notes # NULL
          /\ /\ Severity(item.status) = Severity(c.status)
             /\ item.notes # NULL
             => c.notes # NULL
      BY <1>1, <3>1, <3>2, MergeTells
    <3>5. /\ \E i \in 1..n : items[i].key = k /\ items[i].status = a.status
          /\ \E i \in 1..n : items[i].key = k /\ items[i].notes = a.notes
          /\ \A i \in 1..n : items[i].key = k =>
               Severity(items[i].status) <= Severity(a.status)
          /\ \A i \in 1..n :
               /\ items[i].key = k /\ items[i].notes # NULL
               /\ Severity(items[i].status) = Severity(a.status)
               => a.notes # NULL
      BY <2>3 DEF Tells
    <3>6. a.key = k
      BY <2>3 DEF Tells
    <3> HIDE DEF a, c
    <3>7. /\ \E i \in 1..(n + 1) : items[i].key = k /\ items[i].status = c.status
          /\ \E i \in 1..(n + 1) : items[i].key = k /\ items[i].notes = c.notes
      BY <1>3, <1>4, <2>3, <3>3, <3>4, <3>5
    <3>8. ASSUME NEW i \in 1..(n + 1), items[i].key = k
          PROVE  /\ Severity(items[i].status) <= Severity(c.status)
                 /\ /\ items[i].notes # NULL
                    /\ Severity(items[i].status) = Severity(c.status)
                    => c.notes # NULL
      <4>1. CASE i = n + 1
        BY <3>3, <3>4, <4>1
      <4>2. CASE i \in 1..n
        <5>1. /\ Severity(items[i].status) \in 0..3
              /\ Severity(a.status) \in 0..3
              /\ Severity(c.status) \in 0..3
          BY SeverityTyped
        <5>2. Severity(items[i].status) <= Severity(a.status)
          BY <3>5, <3>8, <4>2
        <5>3. Severity(items[i].status) <= Severity(c.status)
          BY <3>4, <5>1, <5>2
        <5>4. ASSUME items[i].notes # NULL,
                     Severity(items[i].status) = Severity(c.status)
              PROVE  c.notes # NULL
          <6>1. /\ Severity(items[i].status) = Severity(a.status)
                /\ Severity(a.status) = Severity(c.status)
            BY <3>4, <5>1, <5>2, <5>4
          <6>2. a.notes # NULL
            BY <3>5, <3>8, <4>2, <5>4, <6>1
          <6> QED
            BY <3>4, <6>1, <6>2
        <5> QED
          BY <5>3, <5>4
      <4> QED
        BY <1>2, <4>1, <4>2
    <3>9. c = new[k]
      BY DEF c
    <3> QED
      BY <3>4, <3>6, <3>7, <3>8, <3>9
  <2> QED
    BY <2>1, <2>2, <2>3
<1> QED
  BY <1>6, <1>7 DEF Tells, new

(* What dedupeMonthlyItems returns tells of the whole list.                *)
LEMMA DedupeTells ==
  ASSUME NEW items \in Seq(Item)
  PROVE  Tells(Dedupe(items), items, Len(items))
<1> DEFINE len == Len(items)
<1>1. PICK f : Maps(items, f, len) /\ Dedupe(items) = f[len]
  BY DedupeIs
<1>2. len \in Nat
  OBVIOUS
<1>3. \A n \in 0..len :
        f[n] = IF n = 0 THEN <<>> ELSE Add(f[n - 1], items[n])
  BY <1>1 DEF Maps
<1> HIDE DEF len
<1> DEFINE S == {n \in 0..len : Tells(f[n], items, n)}
<1>4. 0 \in S
  <2>1. f[0] = <<>> /\ 0 \in 0..len
    BY <1>2, <1>3
  <2>2. 1..0 = {} /\ DOMAIN <<>> = {}
    OBVIOUS
  <2>3. Tells(f[0], items, 0)
    BY <2>1, <2>2 DEF Tells
  <2> QED
    BY <2>1, <2>3
<1>5. ASSUME NEW n \in 0..len, n \in S, n < len PROVE n + 1 \in S
  <2>1. n \in Nat /\ n < Len(items) /\ n + 1 \in 0..len
    BY <1>2, <1>5 DEF len
  <2>2. n + 1 # 0 /\ (n + 1) - 1 = n
    OBVIOUS
  <2>3. f[n + 1] = Add(f[n], items[n + 1])
    BY <1>3, <2>1, <2>2
  <2>4. Tells(f[n], items, n)
    BY <1>5
  <2>5. Tells(f[n + 1], items, n + 1)
    BY <2>1, <2>3, <2>4, AddTells
  <2> QED
    BY <2>1, <2>5
<1> HIDE DEF S
<1>6. \A n \in 0..len : n \in S
  BY <1>2, <1>4, <1>5, Induction
<1>7. len \in S
  BY <1>2, <1>6
<1> QED
  BY <1>1, <1>7 DEF S, len

(* For any list of items, dedupeMonthlyItems keeps the worst of each key   *)
(* and its notes.                                                          *)
LEMMA DedupeKeepsWorst ==
  ASSUME NEW items \in Seq(Item)
  PROVE  WorstKeptOf(items)
<1> DEFINE map == Dedupe(items)
           n == Len(items)
<1>1. Tells(map, items, n)
  BY DedupeTells
<1>2. DOMAIN items = 1..n /\ \A i \in 1..n : items[i] \in Item
  OBVIOUS
<1> HIDE DEF map, n
<1>3. DOMAIN map = {items[i].key : i \in DOMAIN items}
  BY <1>1, <1>2 DEF Tells
<1>4. ASSUME NEW k \in DOMAIN map
      PROVE  /\ \E x \in Worst(items, k) : x.status = map[k].status
             /\ map[k].notes \in {x.notes : x \in Same(items, k)}
             /\ (\E x \in Worst(items, k) : x.notes # NULL) =>
                  map[k].notes # NULL
  <2>1. \A x : x \in Same(items, k) <=>
                 \E i \in 1..n : items[i].key = k /\ x = items[i]
    BY <1>2 DEF Same
  <2>2. \A x \in Same(items, k) :
          Severity(x.status) <= Severity(map[k].status)
    BY <1>1, <2>1 DEF Tells
  <2>3. PICK x \in Same(items, k) : x.status = map[k].status
    BY <1>1, <2>1 DEF Tells
  <2>4. x \in Worst(items, k)
    <3>1. ASSUME NEW y \in Same(items, k)
          PROVE  Severity(x.status) >= Severity(y.status)
      BY <2>2, <2>3, SeverityTyped
    <3> QED
      BY <3>1 DEF Worst
  <2>5. map[k].notes \in {y.notes : y \in Same(items, k)}
    BY <1>1, <2>1 DEF Tells
  <2>6. ASSUME NEW y \in Worst(items, k), y.notes # NULL
        PROVE  map[k].notes # NULL
    <3>1. /\ y \in Same(items, k)
          /\ Severity(y.status) >= Severity(x.status)
      BY DEF Worst
    <3>2. Severity(y.status) = Severity(map[k].status)
      BY <2>2, <2>3, <3>1, SeverityTyped
    <3> QED
      BY <1>1, <2>1, <2>6, <3>1, <3>2 DEF Tells
  <2> QED
    BY <2>3, <2>4, <2>5, <2>6
<1> QED
  BY <1>3, <1>4 DEF WorstKeptOf, map

-----------------------------------------------------------------------------
(* Monthly records                                                         *)

Merged == UNION {[D -> Item] : D \in SUBSET ItemKeys}

Month == [status : Status, truck : Trucks, month : Months, items : Merged]

Upserting == [pc : {"idle", "upsert", "status", "delete"},
              id : RecordIds \cup {NULL}, truck : Trucks \cup {NULL},
              month : Months \cup {NULL}, status : Status \cup {NULL},
              items : Lists \cup {<<>>}]

(* A handler that waits for a call holds the values the call needs.        *)
UpsertReady(h) ==
  /\ h.pc = "upsert" =>
       h.truck \in Trucks /\ h.month \in Months /\ h.items \in Lists
  /\ h.pc = "status" => h.id \in RecordIds /\ h.status \in Status
  /\ h.pc = "delete" => h.id \in RecordIds

UpsertsInv ==
  /\ req \in [Requests -> Upserting]
  /\ \A r \in Requests : UpsertReady(req[r])

(* TypeOK and StatusTellsReport are inductive once rows are typed as a     *)
(* whole: a row that does not exist is the empty one.                      *)
MonthsInv ==
  /\ record \in [RecordIds -> Month \cup {NoMonth}]
  /\ created \subseteq RecordIds
  /\ trucks \subseteq Trucks
  /\ MonthlyTypeOK
  /\ StatusTellsReport

MonthlyInv == UpsertsInv /\ MonthsInv

(* The merged items are items by key, and tell of a problem where the list *)
(* does.                                                                   *)
LEMMA DedupeReports ==
  ASSUME NEW items \in Seq(Item)
  PROVE  /\ Dedupe(items) \in Merged
         /\ Derive(Dedupe(items)) \in Status
         /\ Derive(Dedupe(items)) = "PENDING" <=>
              \E i \in DOMAIN items : Problematic(items[i])
<1> DEFINE map == Dedupe(items)
           n == Len(items)
<1>1. Tells(map, items, n)
  BY DedupeTells
<1>2. DOMAIN items = 1..n /\ \A i \in 1..n : items[i] \in Item
  OBVIOUS
<1>3. DOMAIN map \subseteq ItemKeys
  BY <1>1, <1>2 DEF Tells, Item
<1>4. map = [k \in DOMAIN map |-> map[k]]
  <2>1. PICK f : Maps(items, f, n) /\ map = f[n]
    BY DedupeIs
  <2>2. n \in 0..n
    OBVIOUS
  <2>3. f[n] = IF n = 0 THEN <<>> ELSE Add(f[n - 1], items[n])
    BY <2>1, <2>2 DEF Maps
  <2> QED
    <3>1. CASE n = 0
      <4>1. map = <<>>
        BY <2>1, <2>3, <3>1
      <4> HIDE DEF map
      <4>2. DOMAIN map = {} /\ <<>> = [k \in {} |-> map[k]]
        BY <4>1
      <4> QED
        BY <4>1, <4>2
    <3>2. CASE n # 0
      <4>1. map = Add(f[n - 1], items[n])
        BY <2>1, <2>3, <3>2
      <4> HIDE DEF map
      <4> QED
        BY <4>1 DEF Add
    <3> QED
      BY <3>1, <3>2
<1>5. map \in Merged
  <2>1. \A k \in DOMAIN map : map[k] \in Item
    BY <1>1 DEF Tells
  <2> HIDE DEF map
  <2>2. map \in [DOMAIN map -> Item]
    BY <1>4, <2>1
  <2> QED
    BY <1>3, <2>2 DEF Merged
<1>6. (\E k \in DOMAIN map : Problematic(map[k])) <=>
        \E i \in DOMAIN items : Problematic(items[i])
  <2>1. ASSUME NEW k \in DOMAIN map, Problematic(map[k])
        PROVE  \E i \in DOMAIN items : Problematic(items[i])
    BY <1>1, <1>2, <2>1 DEF Tells, Problematic
  <2>2. ASSUME NEW i \in DOMAIN items, Problematic(items[i])
        PROVE  \E k \in DOMAIN map : Problematic(map[k])
    <3>1. items[i].key \in DOMAIN map
      BY <1>1, <1>2 DEF Tells
    <3>2. Severity(items[i].status) <= Severity(map[items[i].key].status)
      BY <1>1, <1>2, <3>1 DEF Tells
    <3>3. map[items[i].key].status \in Word
      BY <1>1, <3>1 DEF Tells, Item
    <3>4. map[items[i].key].status \in {"regular", "malo"}
      BY <2>2, <3>2, <3>3 DEF Problematic, Severity, Word
    <3> QED
      BY <3>1, <3>4 DEF Problematic
  <2> QED
    BY <2>1, <2>2
<1> QED
  BY <1>5, <1>6 DEF Derive, Status

LEMMA MonthlyStarts ==
  ASSUME MonthlyInit
  PROVE  MonthlyInv
<1>1. UpsertsInv
  BY DEF MonthlyInit, UpsertsInv, Upserting, UpsertReady, MonthlyIdle
<1>2. \A id \in RecordIds : record[id] = NoMonth /\ ~Exists(id)
  BY DEF MonthlyInit, Exists, NoMonth
<1>3. MonthlyTypeOK /\ StatusTellsReport
  BY <1>2 DEF MonthlyInit, MonthlyTypeOK, MonthOnce,
              StatusTellsReport
<1> QED
  BY <1>1, <1>3 DEF MonthlyInit, MonthlyInv, MonthsInv

(* A row either is of a truck and a month or is the empty one.             *)
LEMMA RowIs ==
  ASSUME MonthsInv, NEW id \in RecordIds
  PROVE  /\ Exists(id) => record[id] \in Month
         /\ ~Exists(id) => record[id] = NoMonth
<1>1. record[id] \in Month \cup {NoMonth}
  BY DEF MonthsInv
<1>2. \A x \in Month : x.status # "NONE"
  BY DEF Month, Status
<1>3. NoMonth.status = "NONE"
  BY DEF NoMonth
<1> QED
  BY <1>1, <1>2, <1>3 DEF Exists

(* Replacing one handler leaves the others as they are.                    *)
LEMMA UpsertMoves ==
  ASSUME UpsertsInv, NEW r \in Requests, NEW h \in Upserting, UpsertReady(h),
         req' = [req EXCEPT ![r] = h]
  PROVE  UpsertsInv'
BY DEF UpsertsInv, UpsertReady

LEMMA UpsertRests ==
  ASSUME UpsertsInv, NEW r \in Requests, MonthlyReturn(r)
  PROVE  UpsertsInv'
<1>1. MonthlyIdle \in Upserting /\ UpsertReady(MonthlyIdle)
  BY DEF MonthlyIdle, Upserting, UpsertReady
<1> QED
  BY <1>1, UpsertMoves DEF MonthlyReturn, Become

(* Steps that leave the rows alone.                                        *)
LEMMA MonthsFrame ==
  ASSUME MonthsInv, UNCHANGED MonthlyRows
  PROVE  MonthsInv'
BY DEF MonthsInv, MonthlyRows, MonthlyTypeOK, MonthOnce,
       StatusTellsReport, Exists

LEMMA UpsertCommitStep ==
  ASSUME MonthlyInv,
         NEW r \in Requests, NEW id \in RecordIds, UpsertCommit(r, id)
  PROVE  MonthlyInv'
<1> DEFINE h == req[r]
           map == Dedupe(h.items)
<1>1. /\ h.pc = "upsert" /\ h.truck \in trucks
      /\ id \in Targets(h.truck, h.month)
      /\ record' = [record EXCEPT ![id] =
           IF Exists(id)
           THEN [@ EXCEPT !.status = Derive(map), !.items = map]
           ELSE [status |-> Derive(map), truck |-> h.truck,
                 month |-> h.month, items |-> map]]
      /\ created' = created \cup {id}
      /\ reported' = IF \E i \in DOMAIN h.items : Problematic(h.items[i])
                     THEN reported \cup {id} ELSE reported \ {id}
      /\ byHand' = byHand \ {id}
      /\ MonthlyReturn(r)
      /\ trucks' = trucks
  BY DEF UpsertCommit, At, TruckThere
<1>2. UpsertsInv'
  BY <1>1, UpsertRests DEF MonthlyInv
<1>3. h.truck \in Trucks /\ h.month \in Months /\ h.items \in Seq(Item)
  BY <1>1, MonthlyConstants DEF MonthlyInv, UpsertsInv, UpsertReady
<1>4. /\ map \in Merged
      /\ Derive(map) \in Status
      /\ Derive(map) = "PENDING" <=>
           \E i \in DOMAIN h.items : Problematic(h.items[i])
  BY <1>3, DedupeReports
<1> DEFINE told == \E i \in DOMAIN h.items : Problematic(h.items[i])
           verdict == Derive(map)
<1> HIDE DEF map, told, verdict
<1>5. /\ map \in Merged /\ verdict \in Status
      /\ verdict = "PENDING" <=> told
      /\ reported' = IF told THEN reported \cup {id} ELSE reported \ {id}
  BY <1>1, <1>4 DEF told, verdict, map
<1>6. /\ record' \in [RecordIds -> Month \cup {NoMonth}]
      /\ record'[id] \in Month
      /\ record'[id].status = verdict
      /\ record'[id].truck = h.truck /\ record'[id].month = h.month
      /\ \A j \in RecordIds \ {id} : record'[j] = record[j]
  <2>1. record \in [RecordIds -> Month \cup {NoMonth}]
    BY DEF MonthlyInv, MonthsInv
  <2>2. CASE Exists(id)
    <3>1. record[id] \in Month
      BY <2>2, RowIs DEF MonthlyInv
    <3>2. record[id].truck = h.truck /\ record[id].month = h.month
      BY <1>1, <2>2 DEF Targets, MonthlyInv, MonthsInv, MonthlyTypeOK
    <3>3. record' = [record EXCEPT ![id] =
                        [record[id] EXCEPT !.status = verdict, !.items = map]]
      BY <1>1, <2>2 DEF verdict, map
    <3> DEFINE new == [record[id] EXCEPT !.status = verdict, !.items = map]
    <3>4. /\ new \in Month /\ new.status = verdict
          /\ new.truck = h.truck /\ new.month = h.month
      <4>1. /\ new \in Month /\ new.status = verdict
            /\ new.truck = record[id].truck /\ new.month = record[id].month
        BY <1>5, <3>1 DEF Month
      <4> HIDE DEF new
      <4> QED
        BY <3>2, <4>1
    <3>5. record' = [record EXCEPT ![id] = new]
      BY <3>3
    <3> HIDE DEF h, new
    <3> QED
      BY <2>1, <3>4, <3>5
  <2>3. CASE ~Exists(id)
    <3>3. record' = [record EXCEPT ![id] =
            [status |-> verdict, truck |-> h.truck, month |-> h.month,
             items |-> map]]
      BY <1>1, <2>3 DEF verdict, map
    <3>4. [status |-> verdict, truck |-> h.truck, month |-> h.month,
           items |-> map]
            \in Month
      BY <1>3, <1>5 DEF Month
    <3> HIDE DEF h
    <3> QED
      BY <2>1, <3>3, <3>4
  <2> QED
    BY <2>2, <2>3
<1>7. \A j \in RecordIds \ {id} : Exists(j) =>
        record[j].truck # h.truck \/ record[j].month # h.month
  <2>1. MonthOnce /\ \A j \in RecordIds : Exists(j) => j \in created
    BY DEF MonthlyInv, MonthsInv, MonthlyTypeOK
  <2> QED
    BY <1>1, <2>1 DEF Targets, MonthOnce
<1>8. /\ \A j \in RecordIds : Exists(j)' <=> j = id \/ Exists(j)
      /\ \A j \in RecordIds : Exists(j)' => record'[j].truck \in trucks'
  <2>1. verdict # "NONE"
    BY <1>5 DEF Status
  <2>2. record'[id].status = verdict /\ record'[id].truck = h.truck
    BY <1>6
  <2>3. \A j \in RecordIds : Exists(j) => record[j].truck \in trucks
    BY DEF MonthlyInv, MonthsInv, MonthlyTypeOK
  <2> QED
    BY <1>1, <1>6, <2>1, <2>2, <2>3 DEF Exists
<1> HIDE DEF h
<1>9. MonthOnce'
  BY <1>6, <1>7, <1>8 DEF MonthlyInv, MonthsInv, MonthlyTypeOK, MonthOnce
<1>10. \A j \in RecordIds : Exists(j)' => record'[j] \in Month
  BY <1>6, <1>8, RowIs DEF MonthlyInv, Exists, NoMonth
<1>11. /\ created' \subseteq RecordIds /\ trucks' \subseteq Trucks
       /\ reported' \subseteq created' /\ byHand' \subseteq created'
       /\ \A j \in RecordIds : Exists(j)' => j \in created'
  BY <1>1, <1>5, <1>8 DEF MonthlyInv, MonthsInv, MonthlyTypeOK
<1>12. MonthlyTypeOK'
  BY <1>8, <1>9, <1>10, <1>11 DEF MonthlyTypeOK, Month, Merged
<1>13. StatusTellsReport'
  <2> SUFFICES ASSUME NEW j \in RecordIds, Exists(j)', j \notin byHand'
               PROVE  record'[j].status = "PENDING" <=> j \in reported'
    BY DEF StatusTellsReport
  <2>1. CASE j = id
    BY <1>5, <1>6, <2>1
  <2>2. CASE j # id
    <3>1. Exists(j) /\ j \notin byHand /\ record'[j] = record[j]
      BY <1>1, <1>6, <1>8, <2>2
    <3>2. record[j].status = "PENDING" <=> j \in reported
      BY <3>1 DEF MonthlyInv, MonthsInv, StatusTellsReport
    <3> QED
      BY <1>5, <2>2, <3>1, <3>2
  <2> QED
    BY <2>1, <2>2
<1> QED
  BY <1>2, <1>6, <1>11, <1>12, <1>13 DEF MonthlyInv, MonthsInv

LEMMA StatusWriteStep ==
  ASSUME MonthlyInv, NEW r \in Requests, StatusWrite(r)
  PROVE  MonthlyInv'
<1> DEFINE id == req[r].id
           verdict == req[r].status
<1>1. /\ req[r].pc = "status" /\ Exists(id)
      /\ record' = [record EXCEPT ![id].status = verdict]
      /\ byHand' = byHand \cup {id}
      /\ MonthlyReturn(r)
      /\ UNCHANGED <<created, trucks, reported>>
  BY DEF StatusWrite, At
<1>2. UpsertsInv'
  BY <1>1, UpsertRests DEF MonthlyInv
<1>3. id \in RecordIds /\ verdict \in Status
  BY <1>1 DEF MonthlyInv, UpsertsInv, UpsertReady
<1> HIDE DEF id, verdict
<1>4. record[id] \in Month
  BY <1>1, <1>3, RowIs DEF MonthlyInv
<1> DEFINE new == [record[id] EXCEPT !.status = verdict]
<1>5. /\ new \in Month /\ new.status \in Status
      /\ new.truck = record[id].truck /\ new.month = record[id].month
      /\ new.items = record[id].items
  BY <1>3, <1>4 DEF Month
<1>6. record' = [record EXCEPT ![id] = new]
  BY <1>1
<1> HIDE DEF new
<1>7. /\ record' \in [RecordIds -> Month \cup {NoMonth}]
      /\ record'[id] = new
      /\ \A j \in RecordIds \ {id} : record'[j] = record[j]
  BY <1>3, <1>5, <1>6 DEF MonthlyInv, MonthsInv
<1>8. /\ \A j \in RecordIds : Exists(j)' <=> Exists(j)
      /\ \A j \in RecordIds : record'[j].truck = record[j].truck
      /\ \A j \in RecordIds : record'[j].month = record[j].month
      /\ \A j \in RecordIds : record'[j].items = record[j].items
      /\ \A j \in RecordIds :
           Exists(j)' => record'[j].status \in Status
  <2>1. \A j \in RecordIds :
          Exists(j) => record[j].status \in Status
    BY DEF MonthlyInv, MonthsInv, MonthlyTypeOK
  <2>2. "NONE" \notin Status
    BY DEF Status
  <2> QED
    BY <1>1, <1>5, <1>7, <2>1, <2>2 DEF Exists
<1>9. id \in created
  BY <1>1, <1>3 DEF MonthlyInv, MonthsInv, MonthlyTypeOK
<1>10. MonthOnce'
  BY <1>8 DEF MonthlyInv, MonthsInv, MonthlyTypeOK, MonthOnce
<1>11. MonthlyTypeOK'
  BY <1>1, <1>8, <1>9, <1>10 DEF MonthlyInv, MonthsInv, MonthlyTypeOK
<1>12. StatusTellsReport'
  BY <1>1, <1>7, <1>8 DEF MonthlyInv, MonthsInv, StatusTellsReport
<1> QED
  BY <1>1, <1>2, <1>7, <1>11, <1>12 DEF MonthlyInv, MonthsInv

(* Rows that go, one by its id or all of a truck's.                        *)
LEMMA MonthsGo ==
  ASSUME MonthsInv, NEW gone \in SUBSET RecordIds,
         record' = [id \in RecordIds |->
                       IF id \in gone THEN NoMonth ELSE record[id]],
         UNCHANGED <<created, reported, byHand>>,
         trucks' \subseteq Trucks,
         \A id \in RecordIds \ gone :
           Exists(id) => record[id].truck \in trucks'
  PROVE  MonthsInv'
<1>1. \A id \in RecordIds : Exists(id)' =>
        id \notin gone /\ Exists(id) /\ record'[id] = record[id]
  BY DEF Exists, NoMonth
<1>2. record' \in [RecordIds -> Month \cup {NoMonth}]
  BY DEF MonthsInv
<1>3. MonthlyTypeOK'
  BY <1>1 DEF MonthsInv, MonthlyTypeOK, MonthOnce
<1>4. StatusTellsReport'
  BY <1>1 DEF MonthsInv, StatusTellsReport
<1> QED
  BY <1>2, <1>3, <1>4 DEF MonthsInv

LEMMA MonthRemoveStep ==
  ASSUME MonthlyInv, NEW r \in Requests, MonthlyRemoveRow(r)
  PROVE  MonthlyInv'
<1> DEFINE id == req[r].id
<1>1. /\ req[r].pc = "delete"
      /\ record' = [record EXCEPT ![id] = NoMonth]
      /\ MonthlyReturn(r)
      /\ UNCHANGED <<created, trucks, reported, byHand>>
  BY DEF MonthlyRemoveRow, At
<1>2. UpsertsInv'
  BY <1>1, UpsertRests DEF MonthlyInv
<1> HIDE DEF id
<1>3. record' = [j \in RecordIds |->
                    IF j \in {id} THEN NoMonth ELSE record[j]]
  BY <1>1 DEF MonthlyInv, MonthsInv
<1>4. {id} \cap RecordIds \in SUBSET RecordIds
  OBVIOUS
<1>5. record' = [j \in RecordIds |->
                    IF j \in {id} \cap RecordIds THEN NoMonth
                    ELSE record[j]]
  BY <1>3
<1>6. /\ trucks' \subseteq Trucks
      /\ \A j \in RecordIds : Exists(j) => record[j].truck \in trucks'
  BY <1>1 DEF MonthlyInv, MonthsInv, MonthlyTypeOK
<1> QED
  BY <1>1, <1>2, <1>4, <1>5, <1>6, MonthsGo DEF MonthlyInv

LEMMA MonthlyTruckRemovedStep ==
  ASSUME MonthlyInv, NEW v \in Trucks, MonthlyTruckRemoved(v)
  PROVE  MonthlyInv'
<1> DEFINE gone == {id \in RecordIds : record[id].truck = v}
<1>1. /\ trucks' = trucks \ {v}
      /\ record' = [id \in RecordIds |->
           IF record[id].truck = v THEN NoMonth ELSE record[id]]
      /\ UNCHANGED <<created, req, reported, byHand>>
  BY DEF MonthlyTruckRemoved
<1>2. UpsertsInv'
  BY <1>1 DEF MonthlyInv, UpsertsInv, UpsertReady
<1>3. record' = [id \in RecordIds |->
                    IF id \in gone THEN NoMonth ELSE record[id]]
  BY <1>1
<1>4. /\ trucks' \subseteq Trucks
      /\ \A id \in RecordIds \ gone :
           Exists(id) => record[id].truck \in trucks'
  BY <1>1 DEF MonthlyInv, MonthsInv, MonthlyTypeOK
<1>5. gone \in SUBSET RecordIds
  OBVIOUS
<1> HIDE DEF gone
<1> QED
  BY <1>1, <1>2, <1>3, <1>4, <1>5, MonthsGo DEF MonthlyInv

LEMMA UpsertReadStep ==
  ASSUME MonthlyInv, NEW r \in Requests, NEW v \in Trucks, NEW month \in Months,
         NEW items \in Lists, UpsertRead(r, v, month, items)
  PROVE  MonthlyInv'
<1> DEFINE h == [MonthlyIdle EXCEPT !.pc = "upsert", !.truck = v,
                                     !.month = month, !.items = items]
<1>1. req' = [req EXCEPT ![r] = h] /\ UNCHANGED MonthlyRows
  BY DEF UpsertRead, Become
<1>2. h \in Upserting /\ UpsertReady(h)
  BY DEF MonthlyIdle, Upserting, UpsertReady
<1> HIDE DEF h
<1> QED
  BY <1>1, <1>2, UpsertMoves, MonthsFrame DEF MonthlyInv

LEMMA StatusReadStep ==
  ASSUME MonthlyInv, NEW r \in Requests, NEW id \in RecordIds,
         NEW verdict \in Status, StatusRead(r, id, verdict)
  PROVE  MonthlyInv'
<1> DEFINE h == [MonthlyIdle EXCEPT !.pc = "status", !.id = id,
                                     !.status = verdict]
<1>1. req' = [req EXCEPT ![r] = h] /\ UNCHANGED MonthlyRows
  BY DEF StatusRead, Become
<1>2. h \in Upserting /\ UpsertReady(h)
  BY DEF MonthlyIdle, Upserting, UpsertReady
<1> HIDE DEF h
<1> QED
  BY <1>1, <1>2, UpsertMoves, MonthsFrame DEF MonthlyInv

LEMMA MonthRemoveReadStep ==
  ASSUME MonthlyInv, NEW r \in Requests, NEW id \in RecordIds,
         MonthlyRemoveRead(r, id)
  PROVE  MonthlyInv'
<1> DEFINE h == [MonthlyIdle EXCEPT !.pc = "delete", !.id = id]
<1>1. req' = [req EXCEPT ![r] = h] /\ UNCHANGED MonthlyRows
  BY DEF MonthlyRemoveRead, Become
<1>2. h \in Upserting /\ UpsertReady(h)
  BY DEF MonthlyIdle, Upserting, UpsertReady
<1> HIDE DEF h
<1> QED
  BY <1>1, <1>2, UpsertMoves, MonthsFrame DEF MonthlyInv

LEMMA MonthlyStepHolds ==
  ASSUME MonthlyInv, [MonthlyNext]_monthlyVars
  PROVE  MonthlyInv'
<1>1. ASSUME NEW r \in Requests, MonthlyHandle(r)
      PROVE  MonthlyInv'
  <2>1. ASSUME MonthlyReject(r)
        PROVE  MonthlyInv'
    BY <2>1, UpsertRests, MonthsFrame DEF MonthlyReject, MonthlyInv
  <2> QED
    BY <1>1, <2>1, UpsertReadStep, UpsertCommitStep, StatusReadStep,
       StatusWriteStep, MonthRemoveReadStep, MonthRemoveStep DEF MonthlyHandle
<1>2. ASSUME UNCHANGED monthlyVars
      PROVE  MonthlyInv'
  <2>1. UNCHANGED MonthlyRows /\ req' = req
    BY <1>2 DEF monthlyVars, MonthlyRows
  <2>2. UpsertsInv'
    BY <2>1 DEF MonthlyInv, UpsertsInv, UpsertReady
  <2> QED
    BY <2>1, <2>2, MonthsFrame DEF MonthlyInv
<1> QED
  BY <1>1, <1>2, MonthlyTruckRemovedStep DEF MonthlyNext

(* One record per truck and month, whatever upserts, reviews and deletions *)
(* overlap, and every record of a truck that exists.                       *)
THEOREM MonthlyTypeCorrect == MonthlySpec => []MonthlyTypeOK
<1>1. MonthlyInv => MonthlyTypeOK
  BY DEF MonthlyInv, MonthsInv
<1> QED
  BY <1>1, MonthlyStarts, MonthlyStepHolds, PTL DEF MonthlySpec

(* A record that no administrator reviewed since its last upsert is PENDING*)
(* exactly when that upsert reported a problem, before items were merged.  *)
THEOREM MonthlyStatusIsTold == MonthlySpec => []StatusTellsReport
<1>1. MonthlyInv => StatusTellsReport
  BY DEF MonthlyInv, MonthsInv
<1> QED
  BY <1>1, MonthlyStarts, MonthlyStepHolds, PTL DEF MonthlySpec

(* Of any list that waits to be written, of whatever length, the merging   *)
(* of repeated items keeps the worst of each key, with its notes.          *)
THEOREM MonthlyWorstIsKept == MonthlySpec => []WorstKept
<1>1. MonthlyInv => WorstKept
  BY DedupeKeepsWorst, MonthlyConstants DEF MonthlyInv, UpsertsInv, UpsertReady,
         WorstKept, At
<1> QED
  BY <1>1, MonthlyStarts, MonthlyStepHolds, PTL DEF MonthlySpec

-----------------------------------------------------------------------------
(* Daily surveys                                                           *)

(* A handler that waits for a call holds the values the call needs: the    *)
(* defaults have filled what the client left out, but for truck and driver.*)
BodyFilled(b) == b.day \in Days /\ b.km \in Km /\ b.checklist \in BOOLEAN

SurveyReady(h) ==
  /\ h.pc \in {"check", "create"} =>
       h.body.truck \in Trucks /\ h.body.driver \in Drivers /\ BodyFilled(h.body)
  /\ h.pc = "update" =>
       h.id \in RecordIds /\ h.truck \in Trucks /\ BodyFilled(h.body)
  /\ h.pc = "delete" => h.id \in RecordIds

SurveyorsInv ==
  /\ req \in [Requests -> DailyHandler]
  /\ \A r \in Requests : SurveyReady(req[r])

SurveysInv ==
  /\ record \in [RecordIds -> Record \cup {NoSurvey}]
  /\ created \subseteq RecordIds
  /\ mileage \in [Trucks -> Optional(Km)]
  /\ drivers \subseteq Drivers
  /\ SurveyOnce

(* The types alone are not inductive: an update writes what its handler    *)
(* holds, and only SurveyReady tells that these are a day, a reading and a *)
(* checklist.                                                              *)
DailyInv == SurveyorsInv /\ SurveysInv

LEMMA DailyIdleTyped ==
  DailyIdle \in DailyHandler /\ SurveyReady(DailyIdle)
         /\ NoBody \in Body
BY DailyConstants DEF DailyIdle, DailyHandler, Body, NoBody,
       Optional, Km, SurveyReady

LEMMA DailyStarts ==
  ASSUME DailyInit
  PROVE  DailyInv
<1>1. SurveyorsInv
  BY DailyIdleTyped DEF DailyInit, SurveyorsInv
<1>2. \A id \in RecordIds : record[id] = NoSurvey /\ ~Exists(id)
  BY DEF DailyInit, Exists, NoSurvey
<1>3. SurveyOnce
  BY <1>2 DEF SurveyOnce
<1>4. 0 \in Optional(Km)
  BY DailyConstants DEF Optional, Km
<1> QED
  BY <1>1, <1>3, <1>4 DEF DailyInit, DailyInv, SurveysInv

(* Replacing one handler leaves the others as they are.                    *)
LEMMA SurveyorMoves ==
  ASSUME SurveyorsInv, NEW r \in Requests, NEW h \in DailyHandler, SurveyReady(h),
         req' = [req EXCEPT ![r] = h]
  PROVE  SurveyorsInv'
<1>1. req' \in [Requests -> DailyHandler]
  BY DEF SurveyorsInv
<1>2. \A s \in Requests : req'[s] = IF s = r THEN h ELSE req[s]
  BY DEF SurveyorsInv
<1>3. (\A s \in Requests : SurveyReady(req[s]))'
  BY <1>2 DEF SurveyorsInv, SurveyReady, BodyFilled
<1> QED
  BY <1>1, <1>3 DEF SurveyorsInv

LEMMA SurveyorRests ==
  ASSUME SurveyorsInv, NEW r \in Requests, DailyReturn(r)
  PROVE  SurveyorsInv'
BY DailyIdleTyped, SurveyorMoves DEF DailyReturn, Become

(* Steps that leave the rows alone.                                        *)
LEMMA SurveysFrame ==
  ASSUME SurveysInv, UNCHANGED <<record, created, mileage, drivers>>
  PROVE  SurveysInv'
BY DEF SurveysInv, SurveyOnce, Exists, HasMileage, SameKey

(* A survey either is one or is the empty row.                             *)
LEMMA SurveyIs ==
  ASSUME SurveysInv, NEW id \in RecordIds
  PROVE  /\ Exists(id) => record[id] \in Record
         /\ ~Exists(id) => record[id] = NoSurvey
<1>1. record[id] \in Record \cup {NoSurvey}
  BY DEF SurveysInv
<1>2. \A x \in Record : x.status # "NONE"
  BY DEF Record, Status
<1>3. NoSurvey.status = "NONE"
  BY DEF NoSurvey
<1> QED
  BY <1>1, <1>2, <1>3 DEF Exists

(* What the defaults make of a body.                                       *)
LEMMA FilledBody ==
  ASSUME NEW b \in Body, NEW today \in Days
  PROVE  /\ Filled(b, today) \in Body
         /\ BodyFilled(Filled(b, today))
         /\ Filled(b, today).truck = b.truck
         /\ Filled(b, today).driver = b.driver
<1>1. 0 \in Km
  BY DailyConstants DEF Km
<1> QED
  BY <1>1 DEF Body, Filled, Given, Optional, BodyFilled

-----------------------------------------------------------------------------
(* Steps of the handlers that only read                                    *)

LEMMA DailyCreateReadStep ==
  ASSUME DailyInv, NEW r \in Requests, NEW b \in Creations,
         NEW today \in Days, CreateRead(r, b, today)
  PROVE  DailyInv'
<1> DEFINE body == Filled(b, today)
           h == [DailyIdle EXCEPT !.pc = "check", !.seen = mileage[body.truck],
                                   !.asked = b, !.body = body]
<1>1. b \in Body
  BY DailyConstants
<1>2. body \in Body /\ BodyFilled(body)
  BY <1>1, FilledBody
<1>3. /\ body.truck # NULL /\ mileage[body.truck] # NULL
      /\ body.driver \in drivers
      /\ req' = [req EXCEPT ![r] = h]
      /\ UNCHANGED <<record, created, mileage, drivers>>
  BY DEF CreateRead, HasMileage, Become
<1> HIDE DEF body
<1>4. body.truck \in Trucks
  BY <1>2, <1>3 DEF Body, Optional
<1>5. body.driver \in Drivers
  BY <1>3 DEF DailyInv, SurveysInv
<1>6. mileage[body.truck] \in Km
  BY <1>3, <1>4 DEF DailyInv, SurveysInv, Optional
<1>7. h.pc = "check" /\ h.body = body
  BY DEF DailyIdle
<1>8. h \in DailyHandler
  BY <1>1, <1>2, <1>6 DEF DailyHandler, DailyIdle, Optional
<1> HIDE DEF h
<1>9. SurveyReady(h)
  BY <1>2, <1>4, <1>5, <1>7 DEF SurveyReady
<1> QED
  BY <1>3, <1>8, <1>9, SurveyorMoves, SurveysFrame DEF DailyInv

LEMMA DailyCreateCheckStep ==
  ASSUME DailyInv, NEW r \in Requests, CreateCheck(r)
  PROVE  DailyInv'
<1> DEFINE h == [req[r] EXCEPT !.pc = "create"]
<1>1. req[r] \in DailyHandler /\ SurveyReady(req[r])
  BY DEF DailyInv, SurveyorsInv
<1>2. /\ req[r].pc = "check"
      /\ req' = [req EXCEPT ![r] = h]
      /\ UNCHANGED <<record, created, mileage, drivers>>
  BY DEF CreateCheck, At, Become
<1>3. h \in DailyHandler /\ h.pc = "create" /\ h.body = req[r].body
  BY <1>1 DEF DailyHandler
<1> HIDE DEF h
<1>4. SurveyReady(h)
  BY <1>1, <1>2, <1>3 DEF SurveyReady
<1> QED
  BY <1>2, <1>3, <1>4, SurveyorMoves, SurveysFrame DEF DailyInv

LEMMA DailyUpdateReadStep ==
  ASSUME DailyInv, NEW r \in Requests, NEW id \in RecordIds,
         NEW b \in Patches, NEW today \in Days, UpdateRead(r, id, b, today)
  PROVE  DailyInv'
<1> DEFINE body == Filled(b, today)
           h == [DailyIdle EXCEPT !.pc = "update", !.id = id,
                                   !.truck = record[id].truck, !.asked = b,
                                   !.body = body]
<1>1. b \in Body
  BY DailyConstants
<1>2. body \in Body /\ BodyFilled(body)
  BY <1>1, FilledBody
<1>3. /\ Exists(id)
      /\ req' = [req EXCEPT ![r] = h]
      /\ UNCHANGED <<record, created, mileage, drivers>>
  BY DEF UpdateRead, Become
<1> HIDE DEF body
<1>4. record[id] \in Record
  BY <1>3, SurveyIs DEF DailyInv
<1>5. record[id].truck \in Trucks
  BY <1>4 DEF Record
<1>6. 0 \in Km
  BY DailyConstants DEF Km
<1>7. h.pc = "update" /\ h.body = body /\ h.id = id /\ h.truck = record[id].truck
  BY DEF DailyIdle
<1>8. h \in DailyHandler
  BY <1>1, <1>2, <1>5, <1>6 DEF DailyHandler, DailyIdle, Optional
<1> HIDE DEF h
<1>9. SurveyReady(h)
  BY <1>2, <1>5, <1>7 DEF SurveyReady
<1> QED
  BY <1>3, <1>8, <1>9, SurveyorMoves, SurveysFrame DEF DailyInv

LEMMA DailyRemoveReadStep ==
  ASSUME DailyInv, NEW r \in Requests, NEW id \in RecordIds,
         DailyRemoveRead(r, id)
  PROVE  DailyInv'
<1> DEFINE h == [DailyIdle EXCEPT !.pc = "delete", !.id = id]
<1>1. /\ req' = [req EXCEPT ![r] = h]
      /\ UNCHANGED <<record, created, mileage, drivers>>
  BY DEF DailyRemoveRead, Become
<1>2. 0 \in Km
  BY DailyConstants DEF Km
<1>3. h \in DailyHandler /\ h.pc = "delete" /\ h.id = id
  BY <1>2, DailyIdleTyped DEF DailyIdle, DailyHandler, Optional
<1> HIDE DEF h
<1>4. SurveyReady(h)
  BY <1>3 DEF SurveyReady
<1> QED
  BY <1>1, <1>3, <1>4, SurveyorMoves, SurveysFrame DEF DailyInv

LEMMA DailyRejectStep ==
  ASSUME DailyInv, NEW r \in Requests, DailyReject(r)
  PROVE  DailyInv'
<1>1. DailyReturn(r) /\ UNCHANGED <<record, created, mileage, drivers>>
  BY DEF DailyReject
<1> QED
  BY <1>1, SurveyorRests, SurveysFrame DEF DailyInv

-----------------------------------------------------------------------------
(* Steps that write                                                        *)

(* One row becomes another that the keys of the table admit, or goes; the  *)
(* mileage of a truck that exists is written.                              *)
LEMMA SurveysWritten ==
  ASSUME SurveysInv, NEW id \in RecordIds,
         NEW row \in Record \cup {NoSurvey},
         row.status # "NONE" => Admits(row, RecordIds \ {id}),
         record' = [record EXCEPT ![id] = row],
         created' \subseteq RecordIds,
         mileage' \in [Trucks -> Optional(Km)],
         \A v \in Trucks : mileage[v] # NULL => mileage'[v] # NULL,
         drivers' = drivers
  PROVE  SurveysInv'
<1>1. record' \in [RecordIds -> Record \cup {NoSurvey}]
  BY DEF SurveysInv
<1>2. \A i \in RecordIds : record'[i] = IF i = id THEN row ELSE record[i]
  BY DEF SurveysInv
<1>3. \A i \in RecordIds \ {id} : record[i].status # "NONE" =>
        /\ mileage[record[i].truck] # NULL /\ record[i].driver \in drivers
        /\ \A j \in RecordIds \ {i} :
             record[j].status # "NONE" => ~SameKey(record[i], record[j])
  BY DEF SurveysInv, SurveyOnce, Exists, HasMileage
<1>4. \A i \in RecordIds : record[i].status # "NONE" => record[i].truck \in Trucks
  BY SurveyIs DEF Exists, Record
<1>5. row.status # "NONE" =>
        /\ row.truck \in Trucks /\ mileage[row.truck] # NULL
        /\ row.driver \in drivers
        /\ \A i \in RecordIds \ {id} :
             record[i].status # "NONE" => ~SameKey(record[i], row)
  BY DEF Admits, Exists, HasMileage
<1>6. \A x, y : SameKey(x, y) <=> SameKey(y, x)
  BY DEF SameKey
<1>7. ASSUME NEW i \in RecordIds, record'[i].status # "NONE"
      PROVE  /\ mileage'[record'[i].truck] # NULL /\ record'[i].driver \in drivers'
             /\ \A j \in RecordIds \ {i} : record'[j].status # "NONE" =>
                  ~SameKey(record'[i], record'[j])
  <2>1. CASE i = id
    <3>1. row.status # "NONE" /\ record'[i] = row
      BY <1>2, <1>7, <2>1
    <3>2. \A j \in RecordIds \ {i} : record'[j] = record[j]
      BY <1>2, <2>1
    <3> QED
      BY <1>5, <1>6, <2>1, <3>1, <3>2
  <2>2. CASE i # id
    <3>1. record'[i] = record[i] /\ record[i].status # "NONE"
      BY <1>2, <1>7, <2>2
    <3>2. ASSUME NEW j \in RecordIds \ {i}, record'[j].status # "NONE"
          PROVE  ~SameKey(record[i], record'[j])
      <4>1. CASE j = id
        BY <1>2, <1>5, <2>2, <3>1, <3>2, <4>1
      <4>2. CASE j # id
        BY <1>2, <1>3, <2>2, <3>1, <3>2, <4>2
      <4> QED
        BY <4>1, <4>2
    <3> QED
      BY <1>3, <1>4, <2>2, <3>1, <3>2
  <2> QED
    BY <2>1, <2>2
<1>8. SurveyOnce'
  BY <1>7 DEF SurveyOnce, Exists, HasMileage, SameKey
<1> QED
  BY <1>1, <1>8 DEF SurveysInv

(* The rows of a removed truck or user go with it.                         *)
LEMMA SurveysGo ==
  ASSUME SurveysInv, NEW Gone \in SUBSET RecordIds,
         record' = [id \in RecordIds |->
                      IF id \in Gone THEN NoSurvey ELSE record[id]],
         created' = created,
         mileage' \in [Trucks -> Optional(Km)],
         drivers' \subseteq Drivers,
         \A id \in RecordIds \ Gone : record[id].status # "NONE" =>
           mileage'[record[id].truck] # NULL /\ record[id].driver \in drivers'
  PROVE  SurveysInv'
<1>1. record' \in [RecordIds -> Record \cup {NoSurvey}]
  BY DEF SurveysInv
<1>2. NoSurvey.status = "NONE"
  BY DEF NoSurvey
<1>3. \A i \in RecordIds : record'[i].status # "NONE" =>
        i \notin Gone /\ record'[i] = record[i] /\ record[i].status # "NONE"
  BY <1>2
<1>4. \A i \in RecordIds : record[i].status # "NONE" =>
        \A j \in RecordIds \ {i} : record[j].status # "NONE" =>
          ~SameKey(record[i], record[j])
  BY DEF SurveysInv, SurveyOnce, Exists
<1>5. \A i \in RecordIds : record'[i].status # "NONE" =>
        /\ mileage'[record'[i].truck] # NULL /\ record'[i].driver \in drivers'
        /\ \A j \in RecordIds \ {i} : record'[j].status # "NONE" =>
             ~SameKey(record'[i], record'[j])
  BY <1>3, <1>4
<1>6. SurveyOnce'
  BY <1>5 DEF SurveyOnce, Exists, HasMileage, SameKey
<1> QED
  BY <1>1, <1>6 DEF SurveysInv

LEMMA DailyCreateCommitStep ==
  ASSUME DailyInv, NEW r \in Requests, NEW id \in RecordIds,
         CreateCommit(r, id)
  PROVE  DailyInv'
<1> DEFINE q == req[r]
           row == NewRecord(q)
           km == MileageAfter(q)
           v == q.body.truck
<1>1. q \in DailyHandler /\ SurveyReady(q)
  BY DEF DailyInv, SurveyorsInv
<1>2. /\ q.pc = "create" /\ Admits(row, RecordIds)
      /\ record' = [record EXCEPT ![id] = row]
      /\ created' = created \cup {id}
      /\ mileage' = [mileage EXCEPT ![v] = km]
      /\ DailyReturn(r) /\ drivers' = drivers
  BY DEF CreateCommit, At
<1>3. v \in Trucks /\ q.body.driver \in Drivers /\ BodyFilled(q.body)
  BY <1>1, <1>2 DEF SurveyReady
<1>4. Reading(q) \in Km
  BY <1>1, <1>3 DEF Reading, DailyHandler, BodyFilled
<1>5. row \in Record
  BY <1>3, <1>4 DEF NewRecord, Record, Status, BodyFilled
<1>6. row.truck = v
  BY DEF NewRecord
<1>7. mileage[v] # NULL
  BY <1>2, <1>6 DEF Admits, HasMileage
<1>8. mileage \in [Trucks -> Optional(Km)]
  BY DEF DailyInv, SurveysInv
<1>9. km \in Km /\ km # NULL
  BY <1>3, <1>4, <1>7, <1>8, DailyConstants DEF MileageAfter, Km, Optional
<1> HIDE DEF q, row, km, v
<1>10. mileage' \in [Trucks -> Optional(Km)]
  BY <1>2, <1>8, <1>9 DEF Optional
<1>11. \A w \in Trucks : mileage[w] # NULL => mileage'[w] # NULL
  BY <1>2, <1>8, <1>9
<1>12. Admits(row, RecordIds \ {id})
  BY <1>2 DEF Admits
<1>13. created' \subseteq RecordIds
  BY <1>2 DEF DailyInv, SurveysInv
<1>14. SurveysInv'
  BY <1>2, <1>5, <1>10, <1>11, <1>12, <1>13, SurveysWritten DEF DailyInv
<1> QED
  BY <1>2, <1>14, SurveyorRests DEF DailyInv

LEMMA DailyUpdateCommitStep ==
  ASSUME DailyInv, NEW r \in Requests, UpdateCommit(r)
  PROVE  DailyInv'
<1> DEFINE q == req[r]
           id == q.id
           row == Patched(record[id], q.body)
           km == q.body.km
<1>1. q \in DailyHandler /\ SurveyReady(q)
  BY DEF DailyInv, SurveyorsInv
<1>2. /\ q.pc = "update" /\ Exists(id)
      /\ Admits(row, RecordIds \ {id})
      /\ record' = [record EXCEPT ![id] = Patched(@, q.body)]
      /\ mileage' = IF HasMileage(q.truck)
                    THEN [mileage EXCEPT ![q.truck] = km] ELSE mileage
      /\ DailyReturn(r) /\ UNCHANGED <<created, drivers>>
  BY DEF UpdateCommit, At
<1>3. id \in RecordIds /\ q.truck \in Trucks /\ BodyFilled(q.body)
  BY <1>1, <1>2 DEF SurveyReady
<1>4. record[id] \in Record
  BY <1>2, <1>3, SurveyIs DEF DailyInv
<1>5. row.truck \in Trucks /\ row.driver \in drivers
  BY <1>2 DEF Admits
<1>6. row \in Record
  BY <1>3, <1>4, <1>5
     DEF Patched, Record, BodyFilled, DailyInv, SurveysInv
<1>7. record' = [record EXCEPT ![id] = row]
  BY <1>2
<1>8. mileage \in [Trucks -> Optional(Km)]
  BY DEF DailyInv, SurveysInv
<1>9. km \in Km /\ km # NULL
  BY <1>3, DailyConstants DEF BodyFilled, Km
<1> HIDE DEF q, row, km, id
<1>10. mileage' \in [Trucks -> Optional(Km)]
  BY <1>2, <1>8, <1>9 DEF Optional
<1>11. \A w \in Trucks : mileage[w] # NULL => mileage'[w] # NULL
  BY <1>2, <1>8, <1>9
<1>12. created' \subseteq RecordIds
  BY <1>2 DEF DailyInv, SurveysInv
<1>13. SurveysInv'
  BY <1>2, <1>3, <1>6, <1>7, <1>10, <1>11, <1>12, SurveysWritten DEF DailyInv
<1> QED
  BY <1>2, <1>13, SurveyorRests DEF DailyInv

LEMMA DailyUpdateStatusStep ==
  ASSUME DailyInv, NEW id \in RecordIds, NEW verdict \in Status,
         UpdateStatus(id, verdict)
  PROVE  DailyInv'
<1> DEFINE row == [record[id] EXCEPT !.status = verdict]
<1>1. /\ Exists(id) /\ record' = [record EXCEPT ![id] = row]
      /\ UNCHANGED <<created, mileage, drivers, req>>
  BY DEF UpdateStatus
<1>2. record[id] \in Record
  BY <1>1, SurveyIs DEF DailyInv
<1>3. /\ row \in Record /\ row.truck = record[id].truck
      /\ row.driver = record[id].driver /\ row.day = record[id].day
  BY <1>2 DEF Record
<1> HIDE DEF row
<1>4. /\ mileage[record[id].truck] # NULL /\ record[id].driver \in drivers
      /\ \A j \in RecordIds \ {id} :
           record[j].status # "NONE" => ~SameKey(record[id], record[j])
  BY <1>1 DEF DailyInv, SurveysInv, SurveyOnce, Exists, HasMileage
<1>5. Admits(row, RecordIds \ {id})
  BY <1>2, <1>3, <1>4
     DEF Admits, Exists, HasMileage, SameKey, Record
<1>6. /\ created' \subseteq RecordIds
      /\ mileage' \in [Trucks -> Optional(Km)]
      /\ \A v \in Trucks : mileage[v] # NULL => mileage'[v] # NULL
  BY <1>1 DEF DailyInv, SurveysInv
<1>7. SurveysInv'
  BY <1>1, <1>3, <1>5, <1>6, SurveysWritten DEF DailyInv
<1> QED
  BY <1>1, <1>7 DEF DailyInv, SurveyorsInv, SurveyReady

LEMMA DailyRemoveRowStep ==
  ASSUME DailyInv, NEW r \in Requests, DailyRemoveRow(r)
  PROVE  DailyInv'
<1> DEFINE id == req[r].id
<1>1. /\ req[r].pc = "delete"
      /\ record' = [record EXCEPT ![id] = NoSurvey]
      /\ DailyReturn(r) /\ UNCHANGED <<created, mileage, drivers>>
  BY DEF DailyRemoveRow, At
<1>2. id \in RecordIds
  BY <1>1 DEF DailyInv, SurveyorsInv, SurveyReady
<1> HIDE DEF id
<1>3. NoSurvey.status = "NONE"
  BY DEF NoSurvey
<1>4. /\ created' \subseteq RecordIds
      /\ mileage' \in [Trucks -> Optional(Km)]
      /\ \A v \in Trucks : mileage[v] # NULL => mileage'[v] # NULL
  BY <1>1 DEF DailyInv, SurveysInv
<1>5. SurveysInv'
  BY <1>1, <1>2, <1>3, <1>4, SurveysWritten DEF DailyInv
<1> QED
  BY <1>1, <1>5, SurveyorRests DEF DailyInv

LEMMA DailyMileageWrittenStep ==
  ASSUME DailyInv, NEW v \in Trucks, NEW km \in Elsewhere,
         MileageWritten(v, km)
  PROVE  DailyInv'
<1>1. /\ mileage' = [mileage EXCEPT ![v] = km]
      /\ UNCHANGED <<record, created, drivers, req>>
  BY DEF MileageWritten
<1>2. km \in Km /\ km # NULL
  BY DailyConstants DEF Km
<1>3. mileage \in [Trucks -> Optional(Km)]
  BY DEF DailyInv, SurveysInv
<1>4. mileage' \in [Trucks -> Optional(Km)]
  BY <1>1, <1>2, <1>3 DEF Optional
<1>5. \A w \in Trucks : mileage[w] # NULL => mileage'[w] # NULL
  BY <1>1, <1>2, <1>3
<1>6. \A i \in RecordIds : record[i].status # "NONE" =>
        record[i].truck \in Trucks /\ mileage[record[i].truck] # NULL
  BY SurveyIs
     DEF DailyInv, SurveysInv, SurveyOnce, Exists, HasMileage,
         Record
<1>7. SurveyOnce'
  BY <1>1, <1>5, <1>6
     DEF DailyInv, SurveysInv, SurveyOnce, Exists, HasMileage,
         SameKey
<1>8. SurveysInv'
  BY <1>1, <1>4, <1>7 DEF DailyInv, SurveysInv
<1> QED
  BY <1>1, <1>8 DEF DailyInv, SurveyorsInv, SurveyReady

LEMMA DailyTruckRemovedStep ==
  ASSUME DailyInv, NEW v \in Trucks, DailyTruckRemoved(v)
  PROVE  DailyInv'
<1> DEFINE Gone == {id \in RecordIds : record[id].truck = v}
<1>1. /\ mileage' = [mileage EXCEPT ![v] = NULL]
      /\ record' = [id \in RecordIds |->
                      IF id \in Gone THEN NoSurvey ELSE record[id]]
      /\ UNCHANGED <<created, drivers, req>>
  BY DEF DailyTruckRemoved
<1>2. /\ mileage' \in [Trucks -> Optional(Km)]
      /\ drivers' \subseteq Drivers
  BY <1>1 DEF DailyInv, SurveysInv, Optional
<1>3. \A i \in RecordIds : record[i].status # "NONE" =>
        record[i].truck \in Trucks /\ mileage[record[i].truck] # NULL
        /\ record[i].driver \in drivers
  BY SurveyIs
     DEF DailyInv, SurveysInv, SurveyOnce, Exists, HasMileage,
         Record
<1>4. \A i \in RecordIds \ Gone : record[i].status # "NONE" =>
        mileage'[record[i].truck] # NULL /\ record[i].driver \in drivers'
  BY <1>1, <1>3 DEF DailyInv, SurveysInv
<1>5. Gone \in SUBSET RecordIds
  OBVIOUS
<1> HIDE DEF Gone
<1>6. SurveysInv'
  BY <1>1, <1>2, <1>4, <1>5, SurveysGo DEF DailyInv
<1> QED
  BY <1>1, <1>6 DEF DailyInv, SurveyorsInv, SurveyReady

LEMMA DailyUserRemovedStep ==
  ASSUME DailyInv, NEW d \in Drivers, UserRemoved(d)
  PROVE  DailyInv'
<1> DEFINE Gone == {id \in RecordIds : record[id].driver = d}
<1>1. /\ drivers' = drivers \ {d}
      /\ record' = [id \in RecordIds |->
                      IF id \in Gone THEN NoSurvey ELSE record[id]]
      /\ UNCHANGED <<created, mileage, req>>
  BY DEF UserRemoved
<1>2. /\ mileage' \in [Trucks -> Optional(Km)]
      /\ drivers' \subseteq Drivers
  BY <1>1 DEF DailyInv, SurveysInv
<1>3. \A i \in RecordIds : record[i].status # "NONE" =>
        mileage[record[i].truck] # NULL /\ record[i].driver \in drivers
  BY DEF DailyInv, SurveysInv, SurveyOnce, Exists, HasMileage
<1>4. \A i \in RecordIds \ Gone : record[i].status # "NONE" =>
        mileage'[record[i].truck] # NULL /\ record[i].driver \in drivers'
  BY <1>1, <1>3
<1>5. Gone \in SUBSET RecordIds
  OBVIOUS
<1> HIDE DEF Gone
<1>6. SurveysInv'
  BY <1>1, <1>2, <1>4, <1>5, SurveysGo DEF DailyInv
<1> QED
  BY <1>1, <1>6 DEF DailyInv, SurveyorsInv, SurveyReady

LEMMA DailyStepHolds ==
  ASSUME DailyInv, [DailyNext]_(dailyVars)
  PROVE  DailyInv'
<1>1. CASE UNCHANGED dailyVars
  <2>1. UNCHANGED <<record, created, mileage, drivers, req>>
    BY <1>1 DEF dailyVars
  <2> QED
    BY <2>1, SurveysFrame DEF DailyInv, SurveyorsInv, SurveyReady
<1>2. ASSUME NEW r \in Requests, DailyHandle(r) PROVE DailyInv'
  BY <1>2, DailyCreateReadStep, DailyCreateCheckStep, DailyCreateCommitStep,
     DailyUpdateReadStep, DailyUpdateCommitStep, DailyRemoveReadStep,
     DailyRemoveRowStep, DailyRejectStep
     DEF DailyHandle
<1>3. ASSUME OtherServices PROVE DailyInv'
  BY <1>3, DailyMileageWrittenStep, DailyTruckRemovedStep, DailyUserRemovedStep
     DEF OtherServices
<1> QED
  BY <1>1, <1>2, <1>3, DailyUpdateStatusStep DEF DailyNext

(* The step of a create that adds the survey.                              *)
LEMMA DailyMileageStep ==
  ASSUME DailyInv, DailyNext, NEW r \in Requests, NEW id \in RecordIds,
         req[r].pc = "create", req'[r].pc = "idle",
         id \in created', id \notin created,
         mileage[req[r].body.truck] = req[r].seen
  PROVE  mileage'[record'[id].truck] = record'[id].km
<1>1. PICK s \in Requests, i \in RecordIds : CreateCommit(s, i)
  BY DEF DailyNext, DailyHandle, OtherServices, CreateRead,
         CreateCheck, UpdateRead, UpdateCommit, DailyRemoveRead,
         DailyRemoveRow, DailyReject, UpdateStatus, MileageWritten,
         DailyTruckRemoved, UserRemoved
<1>2. /\ record' = [record EXCEPT ![i] = NewRecord(req[s])]
      /\ created' = created \cup {i}
      /\ mileage' = [mileage EXCEPT ![req[s].body.truck] =
                                      MileageAfter(req[s])]
      /\ req' = [req EXCEPT ![s] = DailyIdle]
      /\ req[s].pc = "create"
  BY <1>1 DEF CreateCommit, DailyReturn, Become, At
<1>3. i = id
  BY <1>2
<1>4. s = r
  BY <1>2 DEF DailyInv, SurveyorsInv
<1>5. req[r].body.truck \in Trucks
  BY DEF DailyInv, SurveyorsInv, SurveyReady
<1>6. record'[id] = NewRecord(req[r])
  BY <1>2, <1>3, <1>4 DEF DailyInv, SurveysInv
<1>7. mileage'[req[r].body.truck] = MileageAfter(req[r])
  BY <1>2, <1>4, <1>5 DEF DailyInv, SurveysInv
<1> QED
  BY <1>6, <1>7 DEF NewRecord, MileageAfter

(* One survey per driver, truck and day, of a truck and a driver that      *)
(* exist, whatever creates, updates and deletions overlap.                 *)
THEOREM DailyTypeCorrect == DailySpec => []DailyTypeOK
<1>1. DailyInv => DailyTypeOK
  BY DEF DailyInv, SurveysInv, SurveyorsInv, DailyTypeOK
<1> QED
  BY <1>1, DailyStarts, DailyStepHolds, PTL DEF DailySpec

(* A new survey and its truck agree on the mileage, for any reading, unless*)
(* the mileage changed between the read of create and its transaction.     *)
THEOREM DailySurveySetsMileage == DailySpec => NewSurveySetsMileage
<1> DEFINE Sets == \A r \in Requests, id \in RecordIds :
             /\ At(r, "create") /\ req'[r].pc = "idle"
             /\ id \in created' \ created
             /\ mileage[req[r].body.truck] = req[r].seen
             => mileage'[record'[id].truck] = record'[id].km
<1>1. DailyInv /\ [DailyNext]_(dailyVars) => [Sets]_(dailyVars)
  BY DailyMileageStep DEF At
<1>2. (NewSurveySetsMileage) <=> [][Sets]_(dailyVars)
  BY DEF NewSurveySetsMileage
<1> HIDE DEF Sets
<1> QED
  BY <1>1, <1>2, DailyStarts, DailyStepHolds, PTL DEF DailySpec
=============================================================================
