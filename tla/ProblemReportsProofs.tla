------------------------ MODULE ProblemReportsProofs ------------------------
(***************************************************************************)
(* What holds of ProblemReports for any number of requests, users, reports *)
(* and keys, any set of responses and every choice of faults.              *)
(***************************************************************************)
EXTENDS ProblemReports, FiniteSetTheorems, TLAPS

(* What a handler holds when it comes to the call it waits for.  Whether   *)
(* the entry it will log is a change of status agrees with whether it will *)
(* write the status.                                                       *)
Ready(h) ==
  /\ h.pc # "idle" => h.actor \in Users
  /\ h.pc \in {"log", "announceNew", "commit", "announce"} =>
       h.report \in ReportIds
  /\ h.pc = "commit" =>
       /\ h.event \in Event /\ h.read \in Status /\ h.next \in Status
       /\ Changes(h) <=> h.next # h.read
  /\ h.pc = "insert" /\ h.key # NULL => h.key \in objects

HandlersReady == \A r \in Requests : Ready(req[r])

(* Timeline rows come in the order of their ids, and only reports the      *)
(* sequence has numbered exist.                                            *)
InOrder ==
  \A p \in ReportIds :
    /\ \A e \in timeline[p] : e.id <= entries
    /\ ReportExists(p) => p \in created

(* The handlers that will still write a timeline row: there is one left    *)
(* for each.                                                               *)
Writes(h) == h.pc \in {"upload", "insert", "log", "commit"}
Writing == {r \in Requests : Writes(req[r])}
EntriesSuffice == entries + Cardinality(Writing) <= MaxEntries

ReportInv ==
  /\ TypeOK /\ HandlersReady /\ InOrder
  /\ EntriesSuffice /\ StatusExplained

-----------------------------------------------------------------------------
(* Handlers                                                                *)

LEMMA IdleTyped == Idle \in Handler /\ Ready(Idle)
BY ReportConstants DEF Idle, Handler, Pc, Optional, Ready

LEMMA BecomeStep ==
  ASSUME NEW r \in Requests, NEW h \in Handler,
         req \in [Requests -> Handler], Become(r, h)
  PROVE  /\ req' \in [Requests -> Handler]
         /\ req'[r] = h
         /\ \A q \in Requests \ {r} : req'[q] = req[q]
BY DEF Become

LEMMA WritingFinite ==
  /\ IsFiniteSet(Writing) /\ Cardinality(Writing) \in Nat
  /\ IsFiniteSet(Writing') /\ Cardinality(Writing') \in Nat
<1>1. Writing \subseteq Requests /\ Writing' \subseteq Requests
  BY DEF Writing
<1> QED
  BY <1>1, ReportConstants, FS_Subset, FS_CardinalityType

(* Entries still suffice when no more handlers will write one, when one    *)
(* has written its own, and when one comes while there is one left.        *)
LEMMA StillSuffice ==
  ASSUME EntriesSuffice, Writing' \subseteq Writing, entries' = entries,
         entries \in 0..MaxEntries
  PROVE  EntriesSuffice'
<1>1. Cardinality(Writing') <= Cardinality(Writing)
  BY WritingFinite, FS_Subset
<1> QED
  BY <1>1, WritingFinite, ReportConstants DEF EntriesSuffice

LEMMA WroteOne ==
  ASSUME EntriesSuffice, NEW r \in Writing, Writing' = Writing \ {r},
         entries' = entries + 1, entries \in 0..MaxEntries
  PROVE  EntriesSuffice' /\ entries' \in 1..MaxEntries
<1>1. Cardinality(Writing') = Cardinality(Writing) - 1
  BY WritingFinite, FS_RemoveElement
<1> QED
  BY <1>1, WritingFinite, ReportConstants DEF EntriesSuffice

LEMMA OneMore ==
  ASSUME EntryLeft, NEW r \in Requests, At(r, "idle"),
         Writing' \subseteq Writing \cup {r}, entries' = entries,
         entries \in 0..MaxEntries
  PROVE  EntriesSuffice'
<1> DEFINE busy == {q \in Requests : ~At(q, "idle")}
<1>1. IsFiniteSet(busy) /\ Cardinality(busy) \in Nat
  BY ReportConstants, FS_Subset, FS_CardinalityType
<1>2. r \notin busy /\ Writing' \subseteq busy \cup {r}
  BY DEF Writing, Writes, At
<1>3. /\ IsFiniteSet(busy \cup {r})
      /\ Cardinality(busy \cup {r}) = Cardinality(busy) + 1
  BY <1>1, <1>2, FS_AddElement
<1>4. Cardinality(Writing') <= Cardinality(busy) + 1
  BY <1>2, <1>3, FS_Subset
<1>5. entries + Cardinality(busy) < MaxEntries
  BY DEF EntryLeft
<1> HIDE DEF busy
<1> QED
  BY <1>1, <1>4, <1>5, WritingFinite, ReportConstants DEF EntriesSuffice

(* A handler that becomes h, and no longer writes unless it did.           *)
LEMMA WritingBecome ==
  ASSUME NEW r \in Requests, NEW h \in Handler,
         req \in [Requests -> Handler], Become(r, h)
  PROVE  /\ Writing' \subseteq Writing \cup {r}
         /\ (Writes(h) => Writes(req[r])) => Writing' \subseteq Writing
         /\ ~Writes(h) => Writing' = Writing \ {r}
BY BecomeStep DEF Writing, Writes

(* A step of one handler that writes no row.                               *)
LEMMA QuietStep ==
  ASSUME ReportInv, NEW r \in Requests, NEW h \in Handler, Become(r, h),
         Ready(h)', UNCHANGED rows,
         objects \subseteq objects', objects' \cup issued' \subseteq Keys,
         told' \cup lost' \subseteq ReportIds \X (0..MaxEntries)
  PROVE  /\ TypeOK' /\ HandlersReady' /\ InOrder' /\ StatusExplained'
         /\ (Writes(h) => Writes(req[r])) => EntriesSuffice'
<1> USE DEF ReportInv
<1>1. /\ req' \in [Requests -> Handler] /\ req'[r] = h
      /\ \A q \in Requests \ {r} : req'[q] = req[q]
  BY BecomeStep DEF TypeOK
<1>2. TypeOK'
  BY <1>1 DEF TypeOK, rows, ReportExists, NoDanglingScreenshot
<1>3. HandlersReady'
  BY <1>1 DEF HandlersReady, Ready, Changes
<1>4. InOrder' /\ StatusExplained'
  BY DEF InOrder, StatusExplained, rows, ReportExists, LastStatus
<1>5. (Writes(h) => Writes(req[r])) => EntriesSuffice'
  BY WritingBecome, StillSuffice DEF rows, TypeOK
<1> QED
  BY <1>2, <1>3, <1>4, <1>5

-----------------------------------------------------------------------------
(* The invariant                                                           *)

LEMMA InvInit == Init => ReportInv
<1> SUFFICES ASSUME Init PROVE ReportInv
  OBVIOUS
<1>1. TypeOK /\ HandlersReady /\ InOrder /\ StatusExplained
  BY ReportConstants, IdleTyped
     DEF Init, TypeOK, HandlersReady, InOrder, StatusExplained, NoReport,
         Report, Optional, ReportExists, NoDanglingScreenshot
<1>2. Writing = {} /\ entries = 0
  BY DEF Init, Writing, Writes, Idle
<1>3. EntriesSuffice
  BY <1>2, FS_EmptySet, ReportConstants DEF EntriesSuffice
<1> QED
  BY <1>1, <1>3 DEF ReportInv

LEMMA ArriveStep ==
  ASSUME ReportInv, NEW r \in Requests, Arrive(r)
  PROVE  ReportInv'
<1> USE DEF ReportInv
<1>1. PICK h \in Handler : Become(r, h) /\ Ready(h)
  <2>1. ASSUME NEW u \in Users, NEW withFile \in BOOLEAN,
               CreateBegin(r, u, withFile)
        PROVE  \E h \in Handler : Become(r, h) /\ Ready(h)
    <3> DEFINE h == [Idle EXCEPT !.actor = u,
                       !.pc = IF withFile THEN "upload" ELSE "insert"]
    <3>1. h \in Handler /\ Ready(h)
      BY IdleTyped DEF Handler, Pc, Optional, Ready, Idle
    <3>2. Become(r, h)
      BY <2>1 DEF CreateBegin
    <3> HIDE DEF h
    <3> QED
      BY <3>1, <3>2
  <2>2. ASSUME NEW a \in Admins, NEW p \in ReportIds, NEW dto \in Responses,
               RespondRead(r, a, p, dto)
        PROVE  \E h \in Handler : Become(r, h) /\ Ready(h)
    <3> DEFINE read == report[p].status
               next == IF dto.status = NULL THEN read ELSE dto.status
               event == EventOf(dto.note, next # read)
               h == [Idle EXCEPT !.pc = "commit", !.actor = a, !.report = p,
                                 !.event = event, !.read = read,
                                 !.next = next]
    <3>1. a \in Users /\ read \in Status /\ dto \in Response
      BY <2>2, ReportConstants DEF RespondRead, ReportExists, TypeOK, Report
    <3>2. next \in Status /\ (next = read => dto.note)
      BY <2>2, <3>1 DEF RespondRead, Response, Optional
    <3>3. /\ event \in Event
          /\ event \in {"STATUS_CHANGED", "NOTE_AND_STATUS_CHANGED"}
               <=> next # read
      BY <3>1, <3>2 DEF EventOf, Event, Response
    <3>4. Become(r, h)
      BY <2>2 DEF RespondRead
    <3> HIDE DEF read, next, event
    <3>5. h \in Handler /\ Ready(h)
      BY <3>1, <3>2, <3>3, IdleTyped
         DEF Handler, Pc, Optional, Ready, Changes
    <3> HIDE DEF h
    <3> QED
      BY <3>4, <3>5
  <2> QED
    BY <2>1, <2>2 DEF Arrive
<1>2. At(r, "idle") /\ EntryLeft /\ UNCHANGED <<rows, bucket, messages>>
  BY DEF Arrive, CreateBegin, RespondRead
<1>3. Ready(h)' /\ UNCHANGED <<rows, objects, issued, told, lost>>
  BY <1>1, <1>2 DEF Ready, bucket, messages, Changes
<1>4. TypeOK' /\ HandlersReady' /\ InOrder' /\ StatusExplained'
  BY <1>1, <1>3, QuietStep DEF TypeOK
<1>5. EntriesSuffice'
  <2>1. Writing' \subseteq Writing \cup {r}
    BY <1>1, WritingBecome DEF TypeOK
  <2> QED
    BY <1>2, <2>1, OneMore DEF rows, TypeOK
<1> QED
  BY <1>4, <1>5

(* The uploads, the messages and the failures write no row.                *)
LEMMA UploadStep ==
  ASSUME ReportInv, NEW r \in Requests,
         CreateUpload(r) \/ CreateUploadFails(r)
  PROVE  ReportInv'
<1> USE DEF ReportInv
<1>1. req[r] \in Handler /\ Ready(req[r])
  BY DEF TypeOK, HandlersReady
<1>2. CASE CreateUpload(r)
  <2>1. PICK k \in Keys :
          /\ issued' = issued \cup {k} /\ objects' = objects \cup {k}
          /\ Become(r, [req[r] EXCEPT !.pc = "insert", !.key = k])
    BY <1>2 DEF CreateUpload
  <2>2. At(r, "upload") /\ UNCHANGED <<rows, told, lost>>
    BY <1>2 DEF CreateUpload, messages
  <2>3. PICK h \in Handler : /\ Become(r, h) /\ h.pc = "insert"
                             /\ h.key = k /\ h.actor = req[r].actor
    <3> DEFINE g == [req[r] EXCEPT !.pc = "insert", !.key = k]
    <3>1. g \in Handler /\ g.pc = "insert" /\ g.key = k
          /\ g.actor = req[r].actor
      BY <1>1, <2>1 DEF Handler, Pc, Optional
    <3>2. Become(r, g)
      BY <2>1
    <3> HIDE DEF g
    <3> QED
      BY <3>1, <3>2
  <2>4. Ready(h)' /\ Writes(req[r])
    BY <1>1, <2>1, <2>2, <2>3 DEF Ready, Writes, At
  <2> QED
    BY <2>1, <2>2, <2>3, <2>4, QuietStep DEF TypeOK
<1>3. CASE CreateUploadFails(r)
  <2>1. PICK k \in Keys :
          /\ issued' = issued \cup {k}
          /\ objects' \in {objects, objects \cup {k}}
    BY <1>3 DEF CreateUploadFails
  <2>2. Become(r, Idle) /\ UNCHANGED <<rows, told, lost>>
    BY <1>3 DEF CreateUploadFails, messages, Return
  <2>3. Ready(Idle)' /\ ~Writes(Idle)
    BY ReportConstants DEF Idle, Ready, Writes
  <2> QED
    BY <2>1, <2>2, <2>3, IdleTyped, QuietStep DEF TypeOK
<1> QED
  BY <1>2, <1>3

LEMMA ReturnsStep ==
  ASSUME ReportInv, NEW r \in Requests,
         CreateAnnounce(r) \/ RespondAnnounce(r) \/ Reject(r)
  PROVE  ReportInv'
<1> USE DEF ReportInv
<1>1. req[r] \in Handler /\ Ready(req[r])
  BY DEF TypeOK, HandlersReady
<1>2. Become(r, Idle) /\ UNCHANGED <<rows, objects, issued>>
  BY DEF CreateAnnounce, RespondAnnounce, Reject, Return, bucket
<1>3. Ready(Idle)' /\ ~Writes(Idle)
  BY ReportConstants DEF Idle, Ready, Writes
<1>4. told' \cup lost' \subseteq ReportIds \X (0..MaxEntries)
  BY <1>1, ReportConstants DEF CreateAnnounce, RespondAnnounce, Reject, Owed,
                               TypeOK, Ready, At, Handler
<1> QED
  BY <1>2, <1>3, <1>4, IdleTyped, QuietStep DEF TypeOK

LEMMA CreateInsertStep ==
  ASSUME ReportInv, NEW r \in Requests, NEW p \in ReportIds,
         CreateInsert(r, p)
  PROVE  ReportInv'
<1> USE DEF ReportInv
<1> DEFINE new == [status |-> "OPEN", reporter |-> req[r].actor,
                   screenshot |-> req[r].key]
<1>1. /\ At(r, "insert") /\ p \notin created /\ req[r].actor \in users
      /\ report' = [report EXCEPT ![p] = new]
      /\ created' = created \cup {p}
      /\ Become(r, [req[r] EXCEPT !.pc = "log", !.report = p])
      /\ UNCHANGED <<users, timeline, entries, erased, objects, issued, told,
                     lost>>
  BY DEF CreateInsert, bucket, messages
<1>2. req[r] \in Handler /\ Ready(req[r])
  BY DEF TypeOK, HandlersReady
<1>3. /\ new \in Report /\ new.status = "OPEN"
      /\ new.reporter \in users
      /\ new.screenshot # NULL => new.screenshot \in objects
  BY <1>1, <1>2 DEF Report, Status, Handler, Ready, At, TypeOK, Optional
<1>4. ~ReportExists(p) /\ timeline[p] = {}
  BY <1>1 DEF InOrder, TypeOK
<1>5. PICK h \in Handler : /\ Become(r, h) /\ h.pc = "log"
                           /\ h.report = p /\ h.actor = req[r].actor
  <2> DEFINE g == [req[r] EXCEPT !.pc = "log", !.report = p]
  <2>1. g \in Handler /\ g.pc = "log" /\ g.report = p
        /\ g.actor = req[r].actor
    BY <1>1, <1>2 DEF Handler, Pc, Optional
  <2>2. Become(r, g)
    BY <1>1
  <2> HIDE DEF g
  <2> QED
    BY <2>1, <2>2
<1> HIDE DEF new
<1>6. /\ req' \in [Requests -> Handler] /\ req'[r] = h
      /\ \A q \in Requests \ {r} : req'[q] = req[q]
  BY <1>1, <1>5, BecomeStep DEF TypeOK
<1>7. /\ report' \in [ReportIds -> Report] /\ report'[p] = new
      /\ \A o \in ReportIds \ {p} : report'[o] = report[o]
  BY <1>1, <1>3 DEF TypeOK
<1>8. TypeOK'
  BY <1>1, <1>3, <1>4, <1>6, <1>7
     DEF TypeOK, ReportExists, NoDanglingScreenshot
<1>9. HandlersReady'
  BY <1>1, <1>2, <1>5, <1>6 DEF HandlersReady, Ready, Changes, At
<1>10. InOrder'
  BY <1>1, <1>4, <1>7 DEF InOrder, ReportExists
<1>11. EntriesSuffice'
  BY <1>1, <1>5, WritingBecome, StillSuffice DEF TypeOK, Writes, At
<1>12. StatusExplained'
  <2>1. LastStatus({}) = "OPEN"
    BY DEF LastStatus
  <2>2. report'[p].status = LastStatus(timeline[p])
    BY <1>3, <1>4, <1>7, <2>1
  <2>3. timeline' = timeline /\ erased' = erased
    BY <1>1
  <2> QED
    BY <1>7, <2>2, <2>3 DEF StatusExplained, ReportExists
<1> QED
  BY <1>8, <1>9, <1>10, <1>11, <1>12

-----------------------------------------------------------------------------
(* Timeline rows                                                           *)

(* A new row has the greatest id: it decides the status the timeline       *)
(* accounts for if it is a change, and does not matter to it if it is not. *)
LastOf(changes) ==
  IF changes = {} THEN "OPEN"
  ELSE (CHOOSE e \in changes : \A f \in changes : f.id <= e.id).new

LEMMA NewEntryLast ==
  ASSUME NEW s \in SUBSET Entry, NEW e \in Entry, \A f \in s : f.id < e.id
  PROVE  LastStatus(s \cup {e}) = IF Changes(e) THEN e.new ELSE LastStatus(s)
<1> DEFINE changes == {f \in s \cup {e} : Changes(f)}
<1>1. /\ LastStatus(s \cup {e}) = LastOf(changes)
      /\ LastStatus(s) = LastOf({f \in s : Changes(f)})
  BY DEF LastStatus, LastOf
<1>2. CASE Changes(e)
  <2>1. /\ e \in changes /\ changes \subseteq Entry
        /\ \A f \in changes \ {e} : f.id < e.id
    BY <1>2
  <2> HIDE DEF changes
  <2>2. \A f \in changes : f.id <= e.id
    BY <2>1 DEF Entry
  <2>3. \A g \in changes : (\A f \in changes : f.id <= g.id) => g = e
    BY <2>1 DEF Entry
  <2>4. LastOf(changes) = e.new
    BY <2>1, <2>2, <2>3 DEF LastOf
  <2> QED
    BY <1>1, <1>2, <2>4
<1>3. CASE ~Changes(e)
  <2>1. changes = {f \in s : Changes(f)}
    BY <1>3
  <2> QED
    BY <1>1, <1>3, <2>1
<1> QED
  BY <1>2, <1>3

(* A handler that writes a row while one is left.                          *)
LEMMA LogStep ==
  ASSUME ReportInv, NEW r \in Requests, NEW h \in Handler, Become(r, h),
         Writes(req[r]), ~Writes(h), Ready(h),
         NEW p \in ReportIds, NEW event \in Event, NEW u \in Users,
         NEW previous \in Status, NEW new \in Status,
         Log(p, event, u, previous, new), ReportExists(p),
         report' \in [ReportIds -> Report],
         report'[p].status =
           IF event \in {"STATUS_CHANGED", "NOTE_AND_STATUS_CHANGED"}
           THEN new ELSE report[p].status,
         report'[p].reporter = report[p].reporter,
         report'[p].screenshot = report[p].screenshot,
         \A o \in ReportIds \ {p} : report'[o] = report[o],
         UNCHANGED <<users, created, erased, bucket, messages>>
  PROVE  ReportInv'
<1> USE DEF ReportInv
<1> DEFINE e == [id |-> entries + 1, event |-> event, actor |-> u,
                 previous |-> previous, new |-> new]
<1>1. /\ req' \in [Requests -> Handler] /\ req'[r] = h
      /\ \A q \in Requests \ {r} : req'[q] = req[q]
  BY BecomeStep DEF TypeOK
<1>2. EntriesSuffice' /\ entries' \in 1..MaxEntries /\ entries' = entries + 1
  <2>1. r \in Writing /\ Writing' = Writing \ {r}
    BY WritingBecome DEF Writing, TypeOK
  <2> QED
    BY <2>1, WroteOne DEF Log, TypeOK
<1>3. /\ e \in Entry /\ e.id = entries + 1 /\ e.new = new
      /\ Changes(e) <=> event \in {"STATUS_CHANGED", "NOTE_AND_STATUS_CHANGED"}
  BY <1>2 DEF Entry, Changes
<1>4. timeline' = [timeline EXCEPT ![p] = @ \cup {e}]
  BY DEF Log
<1> HIDE DEF e
<1>5. /\ timeline' \in [ReportIds -> SUBSET Entry]
      /\ timeline'[p] = timeline[p] \cup {e}
      /\ \A o \in ReportIds \ {p} : timeline'[o] = timeline[o]
  BY <1>3, <1>4 DEF TypeOK
<1>6. UNCHANGED <<users, created, erased, objects, issued, told, lost>>
  BY DEF bucket, messages
<1>7. \A o \in ReportIds : ReportExists(o)' <=> ReportExists(o)
  <2>1. report'[p].status # "NONE"
    BY DEF ReportExists, Status
  <2> QED
    BY <2>1 DEF ReportExists
<1>8. TypeOK'
  <2>1. \A o \in ReportIds :
          /\ ReportExists(o)' => report'[o].reporter \in users'
          /\ timeline'[o] # {} => ReportExists(o)'
    BY <1>5, <1>6, <1>7 DEF TypeOK
  <2>2. NoDanglingScreenshot'
    BY <1>6 DEF TypeOK, NoDanglingScreenshot
  <2> QED
    BY <1>1, <1>2, <1>5, <1>6, <2>1, <2>2 DEF TypeOK
<1>9. HandlersReady'
  BY <1>1, <1>6 DEF HandlersReady, Ready, Changes
<1>10. InOrder'
  BY <1>2, <1>3, <1>5, <1>6, <1>7 DEF InOrder, TypeOK, Entry
<1>11. StatusExplained'
  <2>1. \A f \in timeline[p] : f.id < e.id
    BY <1>3 DEF InOrder, TypeOK, Entry
  <2>2. LastStatus(timeline[p] \cup {e})
          = IF Changes(e) THEN e.new ELSE LastStatus(timeline[p])
    BY <1>3, <2>1, NewEntryLast DEF TypeOK
  <2> QED
    BY <1>3, <1>5, <1>6, <1>7, <2>2 DEF StatusExplained
<1> QED
  BY <1>2, <1>8, <1>9, <1>10, <1>11

LEMMA CreateLogStep ==
  ASSUME ReportInv, NEW r \in Requests, CreateLog(r)
  PROVE  ReportInv'
<1> USE DEF ReportInv
<1> DEFINE p == req[r].report
           h == [req[r] EXCEPT !.pc = "announceNew"]
<1>1. /\ At(r, "log") /\ ReportExists(p) /\ Become(r, h)
      /\ Log(p, "CREATED", req[r].actor, "OPEN", "OPEN")
      /\ UNCHANGED <<users, report, created, erased, bucket, messages>>
  BY DEF CreateLog, Accepts, Goto
<1>2. req[r] \in Handler /\ Ready(req[r])
  BY DEF TypeOK, HandlersReady
<1>3. /\ p \in ReportIds /\ req[r].actor \in Users
      /\ h \in Handler /\ Ready(h) /\ Writes(req[r]) /\ ~Writes(h)
  BY <1>1, <1>2 DEF Handler, Pc, Ready, Writes, At
<1> HIDE DEF h, p
<1> QED
  BY <1>1, <1>3, LogStep DEF Event, Status, TypeOK

LEMMA RespondCommitStep ==
  ASSUME ReportInv, NEW r \in Requests, RespondCommit(r)
  PROVE  ReportInv'
<1> USE DEF ReportInv
<1> DEFINE q == req[r]  p == q.report
           h == [q EXCEPT !.pc = "announce", !.entry = entries + 1]
<1>1. /\ At(r, "commit") /\ ReportExists(p) /\ Become(r, h)
      /\ report' = [report EXCEPT ![p].status = StatusWritten(report[p], q)]
      /\ Log(p, q.event, q.actor, q.read, q.next)
      /\ UNCHANGED <<users, created, erased, bucket, messages>>
  BY DEF RespondCommit, Accepts
<1>2. q \in Handler /\ Ready(q)
  BY DEF TypeOK, HandlersReady
<1>3. /\ p \in ReportIds /\ q.actor \in Users /\ q.event \in Event
      /\ q.read \in Status /\ q.next \in Status
      /\ q.event \in {"STATUS_CHANGED", "NOTE_AND_STATUS_CHANGED"}
           <=> q.next # q.read
  BY <1>1, <1>2 DEF Ready, At, Changes
<1>4. entries + 1 \in 0..MaxEntries
  <2>1. r \in Writing
    BY <1>1 DEF Writing, Writes, At
  <2>2. Cardinality(Writing) # 0
    BY <2>1, WritingFinite, FS_EmptySet
  <2> QED
    BY <2>2, WritingFinite, ReportConstants DEF EntriesSuffice, TypeOK
<1>5. h \in Handler /\ Ready(h) /\ Writes(q) /\ ~Writes(h)
  BY <1>1, <1>2, <1>3, <1>4 DEF Handler, Pc, Ready, Writes, At
<1>6. /\ report' \in [ReportIds -> Report]
      /\ report'[p].status = IF q.next # q.read THEN q.next
                             ELSE report[p].status
      /\ report'[p].reporter = report[p].reporter
      /\ report'[p].screenshot = report[p].screenshot
      /\ \A o \in ReportIds \ {p} : report'[o] = report[o]
  <2>1. report[p] \in Report /\ StatusWritten(report[p], q) \in Status \cup {"NONE"}
    BY <1>3 DEF TypeOK, Report, StatusWritten
  <2> QED
    BY <1>1, <1>3, <2>1 DEF TypeOK, Report, StatusWritten
<1> HIDE DEF h, p, q
<1> QED
  BY <1>1, <1>3, <1>5, <1>6, LogStep DEF q

-----------------------------------------------------------------------------
(* Crashes and removals of users                                           *)

LEMMA CrashStep ==
  ASSUME ReportInv, Crash
  PROVE  ReportInv'
<1> USE DEF ReportInv
<1>1. /\ req' = [r \in Requests |-> Idle]
      /\ lost' = lost \cup UNION {Owed(r) : r \in Requests}
      /\ UNCHANGED <<users, report, created, timeline, entries, erased,
                     objects, issued, told>>
  BY DEF Crash, rows, bucket
<1>2. \A r \in Requests : Owed(r) \subseteq ReportIds \X (0..MaxEntries)
  BY DEF Owed, HandlersReady, Ready, TypeOK, Handler
<1>3. TypeOK'
  BY <1>1, <1>2, IdleTyped DEF TypeOK, ReportExists, NoDanglingScreenshot
<1>4. HandlersReady' /\ InOrder' /\ StatusExplained'
  BY <1>1, ReportConstants DEF HandlersReady, Ready, Idle, InOrder,
     StatusExplained, ReportExists, LastStatus
<1>5. Writing' = {}
  BY <1>1 DEF Writing, Writes, Idle
<1>6. EntriesSuffice'
  BY <1>1, <1>5, StillSuffice DEF TypeOK
<1> QED
  BY <1>3, <1>4, <1>6

LEMMA UserRemoveStep ==
  ASSUME ReportInv, NEW u \in Users, UserRemove(u)
  PROVE  ReportInv'
<1> USE DEF ReportInv
<1> DEFINE gone == {p \in ReportIds : report[p].reporter = u}
<1>1. /\ users' = users \ {u}
      /\ report' = [p \in ReportIds |->
                      IF p \in gone THEN NoReport ELSE report[p]]
      /\ timeline' = [p \in ReportIds |->
                        IF p \in gone THEN {}
                        ELSE {e \in timeline[p] : e.actor # u}]
      /\ erased' = erased \cup
           {p \in ReportIds : \E e \in timeline[p] : e.actor = u}
      /\ UNCHANGED <<created, entries, objects, issued, told, lost, req>>
  BY DEF UserRemove, bucket, messages
<1>2. NoReport \in Report /\ NoReport.status = "NONE"
      /\ NoReport.screenshot = NULL
  BY DEF NoReport, Report, Optional
<1>3. \A p \in ReportIds :
        /\ p \in gone => report'[p] = NoReport /\ timeline'[p] = {}
        /\ p \notin gone =>
             /\ report'[p] = report[p] /\ timeline'[p] \subseteq timeline[p]
             /\ p \notin erased' => timeline'[p] = timeline[p]
  BY <1>1
<1>4. TypeOK'
  <2>1. report' \in [ReportIds -> Report]
    BY <1>1, <1>2 DEF TypeOK
  <2>2. timeline' \in [ReportIds -> SUBSET Entry]
    BY <1>1 DEF TypeOK
  <2>3. \A p \in ReportIds :
          /\ ReportExists(p)' => report'[p].reporter \in users'
          /\ timeline'[p] # {} => ReportExists(p)'
    BY <1>1, <1>2, <1>3 DEF TypeOK, ReportExists
  <2>4. NoDanglingScreenshot'
    BY <1>1, <1>2, <1>3 DEF TypeOK, NoDanglingScreenshot
  <2> QED
    BY <1>1, <2>1, <2>2, <2>3, <2>4 DEF TypeOK
<1>5. HandlersReady'
  BY <1>1 DEF HandlersReady, Ready, Changes
<1>6. InOrder' /\ StatusExplained'
  BY <1>1, <1>2, <1>3 DEF InOrder, StatusExplained, ReportExists
<1>7. EntriesSuffice'
  BY <1>1, StillSuffice DEF Writing, Writes, TypeOK
<1> QED
  BY <1>4, <1>5, <1>6, <1>7

LEMMA InvStep == ReportInv /\ [Next]_vars => ReportInv'
<1> SUFFICES ASSUME ReportInv, [Next]_vars PROVE ReportInv'
  OBVIOUS
<1>1. ASSUME NEW r \in Requests, Proceed(r) PROVE ReportInv'
  BY <1>1, UploadStep, CreateInsertStep, CreateLogStep, RespondCommitStep,
     ReturnsStep DEF Proceed
<1>2. CASE UNCHANGED vars
  <2>1. /\ TypeOK' /\ HandlersReady' /\ InOrder' /\ StatusExplained'
        /\ Writing' = Writing /\ entries' = entries
    BY <1>2 DEF vars, rows, bucket, messages, ReportInv, TypeOK, ReportExists,
       NoDanglingScreenshot, HandlersReady, Ready, Changes, InOrder,
       StatusExplained, LastStatus, Writing, Writes
  <2> QED
    BY <2>1, StillSuffice DEF ReportInv, TypeOK
<1> QED
  BY <1>1, <1>2, ArriveStep, UserRemoveStep, CrashStep DEF Next

(* Rows, handlers and messages keep their types: whatever overlaps, fails  *)
(* or crashes, no report that is gone has timeline rows, and a screenshot  *)
(* that a report names is in the bucket.                                   *)
THEOREM TypeCorrect == Spec => []TypeOK
<1>1. ReportInv => TypeOK
  BY DEF ReportInv
<1> QED
  BY <1>1, InvInit, InvStep, PTL DEF Spec

(* Of any number of responses that overlap, and read whatever status, the  *)
(* last that recorded a change is the one whose status the report has.     *)
THEOREM StatusIsExplained == Spec => []StatusExplained
<1>1. ReportInv => StatusExplained
  BY DEF ReportInv
<1> QED
  BY <1>1, InvInit, InvStep, PTL DEF Spec
=============================================================================
