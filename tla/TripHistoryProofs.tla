------------------------- MODULE TripHistoryProofs -------------------------
(***************************************************************************)
(* What holds of TripHistory for any number of requests, trips, trucks and *)
(* keys.                                                                   *)
(***************************************************************************)
EXTENDS TripHistory, TLAPS

-----------------------------------------------------------------------------
(* Handlers and rows                                                       *)

(* A handler at rest is a handler.                                         *)
LEMMA IdleTyped == Idle \in Handler
BY TripConstants DEF Idle, Handler, Pc, Optional, Km

(* The empty row is what a row may hold.                                   *)
LEMMA NoTripTyped == NoTrip \in TripRow
BY TripConstants DEF NoTrip, TripRow, Optional, Km

(* Replacing one handler leaves the others as they are.                    *)
LEMMA BecomeStep ==
  ASSUME NEW r \in Requests, NEW q \in Handler,
         req \in [Requests -> Handler], Become(r, q)
  PROVE  /\ req' \in [Requests -> Handler]
         /\ req'[r] = q
         /\ \A s \in Requests \ {r} : req'[s] = req[s]
BY DEF Become

(* A handler that moves on keeps what it has read.                         *)
LEMMA GotoStep ==
  ASSUME NEW r \in Requests, NEW pc \in Pc,
         req \in [Requests -> Handler], Goto(r, pc)
  PROVE  /\ req' \in [Requests -> Handler]
         /\ req'[r].pc = pc
         /\ req'[r].trip = req[r].trip /\ req'[r].truck = req[r].truck
         /\ req'[r].day = req[r].day /\ req'[r].km = req[r].km
         /\ req'[r].key = req[r].key /\ req'[r].edit = req[r].edit
         /\ \A s \in Requests \ {r} : req'[s] = req[s]
<1> DEFINE q == [req[r] EXCEPT !.pc = pc]
<1>1. ASSUME NEW h \in Handler
      PROVE  LET p == [h EXCEPT !.pc = pc]
             IN  /\ p \in Handler /\ p.pc = pc /\ p.trip = h.trip
                 /\ p.truck = h.truck /\ p.day = h.day /\ p.km = h.km
                 /\ p.key = h.key /\ p.edit = h.edit
  BY DEF Handler
<1>2. /\ q \in Handler /\ q.pc = pc /\ q.trip = req[r].trip
      /\ q.truck = req[r].truck /\ q.day = req[r].day /\ q.km = req[r].km
      /\ q.key = req[r].key /\ q.edit = req[r].edit
  BY <1>1
<1>3. Become(r, q)
  BY DEF Goto
<1> HIDE DEF q
<1> QED
  BY <1>2, <1>3, BecomeStep

(* A handler that returns is at rest.                                      *)
LEMMA ReturnStep ==
  ASSUME NEW r \in Requests, req \in [Requests -> Handler], Return(r)
  PROVE  /\ req' \in [Requests -> Handler]
         /\ req'[r].pc = "idle"
         /\ \A s \in Requests \ {r} : req'[s] = req[s]
<1>1. Idle.pc = "idle"
  BY DEF Idle
<1> QED
  BY <1>1, IdleTyped, BecomeStep DEF Return

(* The row finishTrip writes.                                              *)
LEMMA FinishedRow ==
  ASSUME NEW row \in TripRow, NEW q \in Handler
  PROVE  /\ Finished(row, q) \in TripRow
         /\ Finished(row, q).status = "COMPLETED"
         /\ Finished(row, q).endKm = q.km
         /\ Finished(row, q).signature = q.key
         /\ \A f \in {"truck", "driver", "day", "startKm"} :
              Finished(row, q)[f] = row[f]
<1>1. q.km \in Optional(Km) /\ q.key \in Optional(Keys)
  BY DEF Handler, Optional
<1> QED
  BY <1>1 DEF Finished, TripRow, TripStatus

(* The row startTrip creates.                                              *)
LEMMA NewTripRow ==
  ASSUME NEW q \in Handler
  PROVE  NewTrip(q) \in TripRow
BY DEF NewTrip, Handler, TripRow, TripStatus, Optional

(* The row updateByAdmin writes keeps its day and its signature.           *)
LEMMA AppliedRow ==
  ASSUME NEW row \in TripRow, NEW e \in Edit
  PROVE  /\ Apply(row, e) \in TripRow
         /\ Apply(row, e).signature = row.signature
         /\ Apply(row, e).day = row.day
         /\ row.status # "NONE" => Apply(row, e).status # "NONE"
<1>1. /\ Given(e.status, row.status) \in TripStatus \cup {"NONE"}
      /\ Given(e.startKm, row.startKm) \in Km
      /\ Given(e.endKm, row.endKm) \in Optional(Km)
      /\ Given(e.truck, row.truck) \in Optional(Trucks)
      /\ Given(e.driver, row.driver) \in Optional(Drivers)
  BY DEF Given, Edit, TripRow, Optional
<1>2. row.status # "NONE" => Given(e.status, row.status) # "NONE"
  BY DEF Given, Edit, TripRow, Optional, TripStatus
<1> QED
  BY <1>1, <1>2 DEF Apply, TripRow

-----------------------------------------------------------------------------
(* Types                                                                   *)

Database ==
  /\ trip \in [TripIds -> TripRow]
  /\ created \subseteq TripIds
  /\ points \in [TripIds -> 0..MaxPoints]
  /\ truck \in [Trucks -> [status : TruckStatus \cup {"NONE"}, km : Km]]
  /\ surveys \subseteq Trucks \X Days

Bucket == objects \subseteq Keys /\ issued \subseteq Keys

Past == linked \subseteq Keys /\ edited \subseteq TripIds
          /\ surveyed \subseteq Trucks \X Days

(* TypeOK in four parts, one for each group of variables.                  *)
LEMMA TypeParts ==
  TypeOK <=> Database /\ Bucket /\ Past /\ req \in [Requests -> Handler]
BY DEF TypeOK, Database, Bucket, Past

(* What a handler holds after its first read; it has written nothing.      *)
ArrivedWith(r) ==
  /\ req' \in [Requests -> Handler]
  /\ \A s \in Requests \ {r} : req'[s] = req[s]
  /\ req[r].pc = "idle"
  /\ req'[r].pc \in {"survey", "insert", "measure", "update", "delete"}
  /\ req'[r].pc = "survey" => req'[r].truck # NULL
  /\ req'[r].pc # "survey" => req'[r].trip \in TripIds /\ TripExists(req'[r].trip)
  /\ req'[r].pc = "measure" => req'[r].km = trip[req'[r].trip].startKm
  /\ req'[r].pc = "update" => req'[r].edit # NULL
  /\ req'[r].pc = "delete" => req'[r].key = trip[req'[r].trip].signature

LEMMA ArriveStep ==
  ASSUME TypeOK, NEW r \in Requests, Arrive(r)
  PROVE  ArrivedWith(r) /\ UNCHANGED <<db, objects, issued, history>>
<1>0. /\ req \in [Requests -> Handler] /\ trip \in [TripIds -> TripRow]
      /\ truck \in [Trucks -> [status : TruckStatus \cup {"NONE"}, km : Km]]
  BY DEF TypeOK
<1>9. ASSUME NEW q \in Handler, Become(r, q), At(r, "idle"),
             /\ q.pc \in {"survey", "insert", "measure", "update", "delete"}
             /\ q.pc = "survey" => q.truck # NULL
             /\ q.pc # "survey" => q.trip \in TripIds /\ TripExists(q.trip)
             /\ q.pc = "measure" => q.km = trip[q.trip].startKm
             /\ q.pc = "update" => q.edit # NULL
             /\ q.pc = "delete" => q.key = trip[q.trip].signature
      PROVE  ArrivedWith(r)
  BY <1>0, <1>9, BecomeStep DEF ArrivedWith, At
<1>1. ASSUME NEW d \in Drivers, NEW v \in Trucks, NEW day \in Days,
             StartRead(r, d, v, day)
      PROVE  ArrivedWith(r)
  <2> DEFINE q == [Idle EXCEPT !.pc = "survey", !.driver = d, !.truck = v,
                               !.day = day, !.km = truck[v].km]
  <2>1. truck[v].km \in Km
    BY <1>0
  <2>2. q \in Handler /\ q.pc = "survey" /\ q.truck = v
    BY <2>1, IdleTyped DEF Handler, Pc, Optional
  <2>3. Become(r, q) /\ At(r, "idle")
    BY <1>1 DEF StartRead
  <2> HIDE DEF q
  <2> QED
    BY <1>9, <2>2, <2>3, TripConstants
<1>2. ASSUME NEW d \in Drivers, NEW t \in TripIds, AddPointsRead(r, d, t)
      PROVE  ArrivedWith(r)
  <2> DEFINE q == [Idle EXCEPT !.pc = "insert", !.trip = t]
  <2>1. q \in Handler /\ q.pc = "insert" /\ q.trip = t
    BY IdleTyped DEF Handler, Pc, Optional
  <2>2. Become(r, q) /\ At(r, "idle") /\ TripExists(t)
    BY <1>2 DEF AddPointsRead, OpenFor, TripExists
  <2> HIDE DEF q
  <2> QED
    BY <1>9, <2>1, <2>2
<1>3. ASSUME NEW d \in Drivers, NEW t \in TripIds, FinishRead(r, d, t)
      PROVE  ArrivedWith(r)
  <2> DEFINE q == [Idle EXCEPT !.pc = "measure", !.trip = t,
                               !.km = trip[t].startKm, !.truck = trip[t].truck]
  <2>1. trip[t].startKm \in Km /\ trip[t].truck \in Optional(Trucks)
    BY <1>0 DEF TripRow
  <2>2. q \in Handler /\ q.pc = "measure" /\ q.trip = t /\ q.km = trip[t].startKm
    BY <2>1, IdleTyped DEF Handler, Pc, Optional
  <2>3. Become(r, q) /\ At(r, "idle") /\ TripExists(t)
    BY <1>3 DEF FinishRead, OpenFor, TripExists
  <2> HIDE DEF q
  <2> QED
    BY <1>9, <2>2, <2>3
<1>4. ASSUME NEW t \in TripIds, NEW e \in Edits, UpdateRead(r, t, e)
      PROVE  ArrivedWith(r)
  <2> DEFINE q == [Idle EXCEPT !.pc = "update", !.trip = t, !.edit = e]
  <2>1. q \in Handler /\ q.pc = "update" /\ q.trip = t /\ q.edit = e
    BY IdleTyped DEF Handler, Pc, Optional
  <2>2. Become(r, q) /\ At(r, "idle") /\ TripExists(t)
    BY <1>4 DEF UpdateRead
  <2> HIDE DEF q
  <2> QED
    BY <1>9, <2>1, <2>2, TripConstants
<1>5. ASSUME NEW t \in TripIds, RemoveRead(r, t)
      PROVE  ArrivedWith(r)
  <2> DEFINE q == [Idle EXCEPT !.pc = "delete", !.trip = t, !.key = trip[t].signature]
  <2>1. trip[t].signature \in Optional(Keys)
    BY <1>0 DEF TripRow
  <2>2. q \in Handler /\ q.pc = "delete" /\ q.trip = t /\ q.key = trip[t].signature
    BY <2>1, IdleTyped DEF Handler, Pc, Optional
  <2>3. Become(r, q) /\ At(r, "idle") /\ TripExists(t)
    BY <1>5 DEF RemoveRead
  <2> HIDE DEF q
  <2> QED
    BY <1>9, <2>2, <2>3
<1>6. UNCHANGED <<db, objects, issued, history>>
  BY DEF Arrive, StartRead, AddPointsRead, FinishRead, UpdateRead, RemoveRead
<1> QED
  BY <1>1, <1>2, <1>3, <1>4, <1>5, <1>6 DEF Arrive

(* FinishMeasure's reading stays in Km and loses no more than the rounding.*)
LEMMA MeasureTyped ==
  ASSUME TypeOK, NEW r \in Requests, FinishMeasure(r)
  PROVE  /\ req' \in [Requests -> Handler]
         /\ req'[r].pc = "upload" /\ req'[r].trip = req[r].trip
         /\ req'[r].key = req[r].key
         /\ NotBelow(req'[r].km, req[r].km)
         /\ \A s \in Requests \ {r} : req'[s] = req[s]
<1>1. PICK final \in 0..MaxPoints, route \in Km, end \in Km :
        /\ end \in Rounded(req[r].km + route)
        /\ Become(r, [req[r] EXCEPT !.pc = "upload", !.points = final, !.km = end])
  <2>1. ASSUME NEW n PROVE RouteKm(n) \subseteq Km
    BY TripConstants DEF RouteKm, Km
  <2> QED
    BY <2>1, Zenon DEF FinishMeasure, Rounded
<1> DEFINE q == [req[r] EXCEPT !.pc = "upload", !.points = final, !.km = end]
<1>2. req \in [Requests -> Handler] /\ req[r] \in Handler
  BY DEF TypeOK
<1>3. req[r].km \in Km
  BY <1>2 DEF Handler
<1>4. end \in Km /\ NotBelow(end, req[r].km)
  BY <1>1, <1>3, TripConstants DEF Km, Rounded, NotBelow
<1>5. ASSUME NEW h \in Handler, NEW km \in Km
      PROVE  LET p == [h EXCEPT !.pc = "upload", !.points = final, !.km = km]
             IN  /\ p \in Handler /\ p.km = km /\ p.trip = h.trip
                 /\ p.key = h.key /\ p.pc = "upload"
  BY DEF Handler, Pc
<1>6. q \in Handler /\ q.km = end /\ q.trip = req[r].trip
        /\ q.key = req[r].key /\ q.pc = "upload"
  BY <1>2, <1>4, <1>5
<1>7. Become(r, q)
  BY <1>1
<1> HIDE DEF q
<1> QED
  BY <1>2, <1>4, <1>6, <1>7, BecomeStep

(* The handler after its upload holds the fresh key.                       *)
LEMMA UploadStep ==
  ASSUME TypeOK, NEW r \in Requests, FinishUpload(r)
  PROVE  \E k \in FreshKeys :
           /\ issued' = issued \cup {k}
           /\ objects' = objects \cup {k}
           /\ req' \in [Requests -> Handler]
           /\ req'[r].pc = "commit" /\ req'[r].key = k
           /\ req'[r].trip = req[r].trip /\ req'[r].km = req[r].km
           /\ \A s \in Requests \ {r} : req'[s] = req[s]
<1>1. PICK k \in FreshKeys :
        /\ issued' = issued \cup {k}
        /\ objects' = objects \cup {k}
        /\ Become(r, [req[r] EXCEPT !.pc = "commit", !.key = k])
  BY DEF FinishUpload
<1> DEFINE q == [req[r] EXCEPT !.pc = "commit", !.key = k]
<1>2. req \in [Requests -> Handler] /\ req[r] \in Handler
  BY DEF TypeOK
<1>3. ASSUME NEW h \in Handler
      PROVE  LET p == [h EXCEPT !.pc = "commit", !.key = k]
             IN  /\ p \in Handler /\ p.km = h.km /\ p.trip = h.trip
                 /\ p.key = k /\ p.pc = "commit"
  BY DEF Handler, Pc, Optional, FreshKeys
<1>4. q \in Handler /\ q.km = req[r].km /\ q.trip = req[r].trip
        /\ q.key = k /\ q.pc = "commit"
  BY <1>2, <1>3
<1>5. Become(r, q)
  BY <1>1
<1> HIDE DEF q
<1> QED
  BY <1>1, <1>2, <1>4, <1>5, BecomeStep

(* The transaction of finishTrip writes rows of the right types.           *)
LEMMA WritesTyped ==
  ASSUME TypeOK, NEW r \in Requests, FinishWrites(r), req[r].trip \in TripIds,
         req[r].key \in Keys
  PROVE  Database' /\ Bucket' /\ Past'
<1> DEFINE q == req[r]
<1>1. q \in Handler
  BY DEF TypeOK
<1>2. q.km \in Km /\ q.points \in 0..MaxPoints
  BY <1>1 DEF Handler
<1>3. trip' \in [TripIds -> TripRow]
  <2>1. trip[q.trip] \in TripRow
    BY DEF TypeOK
  <2>2. Finished(trip[q.trip], q) \in TripRow
    BY <1>1, <2>1, FinishedRow
  <2> QED
    BY <2>2 DEF FinishWrites, TypeOK
<1>4. points' \in [TripIds -> 0..MaxPoints]
  <2>1. points[q.trip] + q.points \in 0..MaxPoints
    BY <1>2, TripConstants DEF FinishWrites, TypeOK
  <2> QED
    BY <2>1 DEF FinishWrites, TypeOK
<1>5. truck' \in [Trucks -> [status : TruckStatus \cup {"NONE"}, km : Km]]
  <2>1. ASSUME NEW row \in [status : TruckStatus \cup {"NONE"}, km : Km]
        PROVE  [row EXCEPT !.km = q.km] \in [status : TruckStatus \cup {"NONE"}, km : Km]
    BY <1>2
  <2>2. truck' = [truck EXCEPT ![q.truck] = [truck[q.truck] EXCEPT !.km = q.km]]
    BY DEF FinishWrites
  <2> QED
    BY <2>1, <2>2 DEF TypeOK
<1> QED
  BY <1>3, <1>4, <1>5 DEF FinishWrites, TypeOK, Database, Bucket, Past

(* Types and readiness are kept by the step of a handler in flight.        *)
LEMMA ProceedTyped ==
  ASSUME TypeOK, HandlersReady, NEW r \in Requests, Proceed(r)
  PROVE  TypeOK' /\ HandlersReady'
<1>0. /\ Database /\ Bucket /\ Past /\ req \in [Requests -> Handler]
      /\ req[r] \in Handler
  BY TypeParts DEF TypeOK
<1>1. CASE StartCheckSurvey(r)
  <2>1. /\ At(r, "survey") /\ Goto(r, "create")
        /\ UNCHANGED <<db, objects, issued, history>>
    BY <1>1 DEF StartCheckSurvey
  <2>2. /\ req' \in [Requests -> Handler] /\ req'[r].pc = "create"
        /\ req'[r].truck = req[r].truck
        /\ \A s \in Requests \ {r} : req'[s] = req[s]
    BY <1>0, <2>1, GotoStep DEF Pc
  <2>3. TypeOK'
    BY <2>1, <2>2 DEF TypeOK, db, history
  <2>4. HandlersReady'
    BY <2>1, <2>2 DEF HandlersReady, db, At, TripExists
  <2> QED
    BY <2>3, <2>4
<1>2. ASSUME NEW t \in TripIds, StartCreate(r, t) PROVE TypeOK' /\ HandlersReady'
  <2>1. /\ trip' = [trip EXCEPT ![t] = NewTrip(req[r])]
        /\ created' = created \cup {t} /\ Return(r)
        /\ UNCHANGED <<points, truck, surveys, objects, issued, history>>
    BY <1>2 DEF StartCreate
  <2>2. /\ req' \in [Requests -> Handler] /\ req'[r].pc = "idle"
        /\ \A s \in Requests \ {r} : req'[s] = req[s]
    BY <1>0, <2>1, ReturnStep
  <2>3. trip' \in [TripIds -> TripRow]
    BY <1>0, <2>1, NewTripRow DEF Database
  <2>4. TypeOK'
    BY <2>1, <2>2, <2>3 DEF TypeOK, history
  <2>5. NewTrip(req[r]).status # "NONE"
    BY DEF NewTrip
  <2>6. HandlersReady'
    BY <1>0, <2>1, <2>2, <2>5 DEF HandlersReady, Database, TripExists
  <2> QED
    BY <2>4, <2>6
<1>3. CASE AddPointsInsert(r)
  <2>1. /\ points' = [points EXCEPT ![req[r].trip] = @ + 1] /\ Return(r)
        /\ points[req[r].trip] < MaxPoints
        /\ UNCHANGED <<trip, created, truck, surveys, objects, issued, history>>
    BY <1>3 DEF AddPointsInsert
  <2>2. /\ req' \in [Requests -> Handler] /\ req'[r].pc = "idle"
        /\ \A s \in Requests \ {r} : req'[s] = req[s]
    BY <1>0, <2>1, ReturnStep
  <2>3. points' \in [TripIds -> 0..MaxPoints]
    <3>1. points \in [TripIds -> 0..MaxPoints] /\ MaxPoints \in Nat
      BY <1>0, TripConstants DEF Database
    <3>2. ASSUME NEW n \in 0..MaxPoints, n < MaxPoints PROVE n + 1 \in 0..MaxPoints
      BY <3>1, <3>2
    <3> QED
      BY <2>1, <3>1, <3>2
  <2>4. TypeOK'
    BY <2>1, <2>2, <2>3 DEF TypeOK, history
  <2>5. HandlersReady'
    BY <2>1, <2>2 DEF HandlersReady, TripExists
  <2> QED
    BY <2>4, <2>5
<1>4. CASE FinishMeasure(r)
  <2>1. UNCHANGED <<db, objects, issued, history>> /\ At(r, "measure")
    BY <1>4 DEF FinishMeasure
  <2>2. TypeOK'
    BY <1>4, <2>1, MeasureTyped DEF TypeOK, db, history
  <2>3. HandlersReady'
    BY <1>4, <2>1, MeasureTyped DEF HandlersReady, TripExists, db, At
  <2> QED
    BY <2>2, <2>3
<1>5. CASE FinishUpload(r)
  <2>1. UNCHANGED <<db, history>> /\ At(r, "upload")
    BY <1>5 DEF FinishUpload
  <2>2. TypeOK'
    BY <1>5, <2>1, UploadStep DEF TypeOK, db, history, FreshKeys
  <2>3. HandlersReady'
    BY <1>5, <2>1, UploadStep, TripConstants
       DEF HandlersReady, TripExists, db, At, FreshKeys
  <2> QED
    BY <2>2, <2>3
<1>6. CASE FinishUploadFails(r)
  <2>1. /\ UNCHANGED <<db, history>> /\ Return(r)
        /\ issued' \subseteq Keys /\ objects' \subseteq Keys
    BY <1>0, <1>6 DEF FinishUploadFails, FreshKeys, Bucket
  <2>2. /\ req' \in [Requests -> Handler] /\ req'[r].pc = "idle"
        /\ \A s \in Requests \ {r} : req'[s] = req[s]
    BY <1>0, <2>1, ReturnStep
  <2>3. TypeOK'
    BY <2>1, <2>2 DEF TypeOK, db, history
  <2>4. HandlersReady'
    BY <2>1, <2>2 DEF HandlersReady, TripExists, db
  <2> QED
    BY <2>3, <2>4
<1>7. CASE FinishWrites(r) /\ (FinishCommit(r) \/ FinishAbort(r))
  <2>1. /\ At(r, "commit") /\ (Return(r) \/ Goto(r, "cleanup"))
    BY <1>7 DEF FinishCommit, FinishAbort
  <2>2. /\ req[r].trip \in created /\ req[r].key \in Keys
    BY <1>0, <2>1 DEF HandlersReady, At, Handler, Optional
  <2>3. /\ req' \in [Requests -> Handler]
        /\ \A s \in Requests \ {r} : req'[s] = req[s]
        /\ \/ req'[r].pc = "idle"
           \/ req'[r].pc = "cleanup" /\ req'[r].trip = req[r].trip
                /\ req'[r].key = req[r].key
    BY <1>0, <2>1, ReturnStep, GotoStep DEF Pc
  <2>4. TypeOK'
    <3>1. req[r].trip \in TripIds
      BY <1>0, <2>2 DEF Database
    <3>2. Database' /\ Bucket' /\ Past'
      BY <1>7, <2>2, <3>1, WritesTyped
    <3> QED
      BY <2>3, <3>2 DEF TypeOK, Database, Bucket, Past
  <2>5. \A t \in TripIds : TripExists(t) =>
          trip'[t].status # "NONE" /\ (t # req[r].trip => trip'[t] = trip[t])
    <3>1. /\ trip' = [trip EXCEPT ![req[r].trip] = Finished(@, req[r])]
          /\ TripExists(req[r].trip)
      BY <1>7 DEF FinishWrites
    <3>2. req[r].trip \in TripIds
      BY <1>0, <2>2 DEF Database
    <3>3. Finished(trip[req[r].trip], req[r]).status = "COMPLETED"
      BY <1>0, <3>2, FinishedRow DEF Database
    <3> QED
      BY <1>0, <3>1, <3>3 DEF TripExists, Database
  <2>8. \A t \in TripIds : ~TripExists(t) => trip'[t] = trip[t]
    BY <1>0, <1>7 DEF FinishWrites, TripExists, Database
  <2>6. created' = created
    BY <1>7 DEF FinishWrites
  <2>7. HandlersReady'
    BY <2>2, <2>3, <2>5, <2>6, <2>8, TripConstants DEF HandlersReady, TripExists
  <2> QED
    BY <2>4, <2>7
<1>8. CASE FinishAbort(r) /\ ~FinishWrites(r)
  <2>1. /\ At(r, "commit") /\ Goto(r, "cleanup")
        /\ UNCHANGED <<db, objects, issued, history>>
    BY <1>8 DEF FinishAbort
  <2>2. /\ req' \in [Requests -> Handler] /\ req'[r].pc = "cleanup"
        /\ req'[r].trip = req[r].trip /\ req'[r].key = req[r].key
        /\ \A s \in Requests \ {r} : req'[s] = req[s]
    BY <1>0, <2>1, GotoStep DEF Pc
  <2>3. TypeOK'
    BY <2>1, <2>2 DEF TypeOK, db, history
  <2>4. HandlersReady'
    BY <2>1, <2>2 DEF HandlersReady, TripExists, db, At
  <2> QED
    BY <2>3, <2>4
<1>9. CASE FinishCleanup(r) \/ RemoveCollect(r)
  <2>1. /\ Return(r) /\ UNCHANGED <<db, issued, history>>
        /\ objects' \subseteq objects
    BY <1>9 DEF FinishCleanup, RemoveCollect, DeleteObject
  <2>2. /\ req' \in [Requests -> Handler] /\ req'[r].pc = "idle"
        /\ \A s \in Requests \ {r} : req'[s] = req[s]
    BY <1>0, <2>1, ReturnStep
  <2>3. TypeOK'
    BY <2>1, <2>2 DEF TypeOK, db, history
  <2>4. HandlersReady'
    BY <2>1, <2>2 DEF HandlersReady, TripExists, db
  <2> QED
    BY <2>3, <2>4
<1>10. CASE UpdateWrite(r)
  <2> DEFINE t == req[r].trip  e == req[r].edit
  <2>1. /\ At(r, "update") /\ TripExists(t) /\ Return(r)
        /\ trip' = [trip EXCEPT ![t] = Apply(@, e)]
        /\ edited' = edited \cup {t}
        /\ UNCHANGED <<created, points, truck, surveys, objects, issued,
                       linked, surveyed>>
    BY <1>10 DEF UpdateWrite
  <2>2. t \in created /\ t \in TripIds /\ e \in Edit
    BY <1>0, <2>1, TripConstants
       DEF HandlersReady, At, Handler, Optional, Database
  <2>3. /\ req' \in [Requests -> Handler] /\ req'[r].pc = "idle"
        /\ \A s \in Requests \ {r} : req'[s] = req[s]
    BY <1>0, <2>1, ReturnStep
  <2>4. trip[t] \in TripRow
    BY <1>0, <2>2 DEF Database
  <2>5. /\ Apply(trip[t], e) \in TripRow
        /\ trip[t].status # "NONE" => Apply(trip[t], e).status # "NONE"
    BY <2>2, <2>4, AppliedRow
  <2>6. trip' \in [TripIds -> TripRow]
    BY <1>0, <2>1, <2>5 DEF Database
  <2> HIDE DEF t, e
  <2>7. TypeOK'
    BY <2>1, <2>2, <2>3, <2>6 DEF TypeOK
  <2>8. HandlersReady'
    BY <1>0, <2>1, <2>2, <2>3, <2>5 DEF HandlersReady, TripExists, Database
  <2> QED
    BY <2>7, <2>8
<1>11. CASE RemoveRow(r)
  <2> DEFINE t == req[r].trip
  <2>1. /\ At(r, "delete") /\ TripExists(t)
        /\ trip' = [trip EXCEPT ![t] = NoTrip]
        /\ points' = [points EXCEPT ![t] = 0]
        /\ \/ Return(r)
           \/ Goto(r, "collect") /\ req[r].key # NULL
        /\ UNCHANGED <<created, truck, surveys, objects, issued, history>>
    BY <1>11 DEF RemoveRow
  <2>2. /\ req' \in [Requests -> Handler]
        /\ \A s \in Requests \ {r} : req'[s] = req[s]
        /\ \/ req'[r].pc = "idle"
           \/ req'[r].pc = "collect" /\ req'[r].key # NULL
    BY <1>0, <2>1, ReturnStep, GotoStep DEF Pc
  <2>3. points' \in [TripIds -> 0..MaxPoints]
    <3>1. points \in [TripIds -> 0..MaxPoints] /\ 0 \in 0..MaxPoints
      BY <1>0, TripConstants DEF Database
    <3> HIDE DEF t
    <3> QED
      BY <2>1, <3>1
  <2>4. trip' \in [TripIds -> TripRow]
    BY <1>0, <2>1, NoTripTyped DEF Database
  <2>5. TypeOK'
    BY <2>1, <2>2, <2>3, <2>4 DEF TypeOK, history
  <2>6. NoTrip.status = "NONE"
    BY DEF NoTrip
  <2>7. HandlersReady'
    BY <1>0, <2>1, <2>2, <2>6 DEF HandlersReady, TripExists, Database
  <2> QED
    BY <2>5, <2>7
<1>12. CASE Reject(r)
  <2>1. Return(r) /\ UNCHANGED <<db, objects, issued, history>>
    BY <1>12 DEF Reject
  <2>2. /\ req' \in [Requests -> Handler] /\ req'[r].pc = "idle"
        /\ \A s \in Requests \ {r} : req'[s] = req[s]
    BY <1>0, <2>1, ReturnStep
  <2>3. TypeOK'
    BY <2>1, <2>2 DEF TypeOK, db, history
  <2>4. HandlersReady'
    BY <2>1, <2>2 DEF HandlersReady, TripExists, db
  <2> QED
    BY <2>3, <2>4
<1>13. FinishCommit(r) => FinishWrites(r)
  BY DEF FinishCommit
<1> QED
  BY <1>1, <1>2, <1>3, <1>4, <1>5, <1>6, <1>7, <1>8, <1>9, <1>10, <1>11, <1>12,
     <1>13 DEF Proceed

(* A crash leaves every handler at rest and touches nothing else.          *)
LEMMA CrashStep ==
  ASSUME Crash
  PROVE  /\ req' \in [Requests -> Handler]
         /\ \A r \in Requests : req'[r].pc = "idle"
         /\ UNCHANGED <<db, objects, issued, history>>
<1>1. Idle.pc = "idle"
  BY DEF Idle
<1> QED
  BY <1>1, IdleTyped DEF Crash

(* The other services touch neither trips, nor images, nor handlers.       *)
LEMMA OthersStep ==
  ASSUME TypeOK, OtherServices
  PROVE  /\ UNCHANGED <<trip, created, points, objects, issued, req, linked, edited>>
         /\ truck' \in [Trucks -> [status : TruckStatus \cup {"NONE"}, km : Km]]
         /\ surveys' \subseteq Trucks \X Days /\ surveyed' \subseteq Trucks \X Days
<1>1. ASSUME NEW v \in Trucks, NEW status \in TruckStatus, NEW km \in Km,
             TruckSaved(v, status, km)
      PROVE  /\ UNCHANGED <<trip, created, points, objects, issued, req, linked,
                            edited, surveys, surveyed>>
             /\ truck' \in [Trucks -> [status : TruckStatus \cup {"NONE"}, km : Km]]
  BY <1>1 DEF TruckSaved, TypeOK, history
<1>2. ASSUME NEW v \in Trucks, TruckRemoved(v)
      PROVE  /\ UNCHANGED <<trip, created, points, objects, issued, req, linked,
                            edited, surveyed>>
             /\ surveys' \subseteq surveys
             /\ truck' \in [Trucks -> [status : TruckStatus \cup {"NONE"}, km : Km]]
  <2>1. NoTruck \in [status : TruckStatus \cup {"NONE"}, km : Km]
    BY TripConstants DEF NoTruck, Km
  <2> QED
    BY <1>2, <2>1 DEF TruckRemoved, TypeOK, history
<1>3. ASSUME NEW v \in Trucks, NEW day \in Days, NEW km \in Km,
             SurveyFiled(v, day, km)
      PROVE  /\ UNCHANGED <<trip, created, points, objects, issued, req, linked,
                            edited>>
             /\ surveys' = surveys \cup {<<v, day>>}
             /\ surveyed' = surveyed \cup {<<v, day>>}
             /\ truck' \in [Trucks -> [status : TruckStatus \cup {"NONE"}, km : Km]]
  BY <1>3 DEF SurveyFiled, TypeOK
<1>4. ASSUME NEW v \in Trucks, NEW day \in Days, SurveyRemoved(v, day)
      PROVE  /\ UNCHANGED <<trip, created, points, objects, issued, req, linked,
                            edited, truck, surveyed>>
             /\ surveys' \subseteq surveys
  BY <1>4 DEF SurveyRemoved, history
<1> QED
  BY <1>1, <1>2, <1>3, <1>4 DEF OtherServices, TypeOK

LEMMA TypeInit == Init => TypeOK /\ HandlersReady
<1> SUFFICES ASSUME Init PROVE TypeOK /\ HandlersReady
  OBVIOUS
<1>1. TypeOK
  BY TripConstants, IdleTyped, NoTripTyped DEF Init, TypeOK, TruckStatus, Km
<1>2. NoTrip.status = "NONE" /\ Idle.pc = "idle"
  BY DEF NoTrip, Idle
<1>3. HandlersReady
  BY <1>2 DEF Init, HandlersReady, TripExists
<1> QED
  BY <1>1, <1>3

LEMMA TypeStep ==
  TypeOK /\ HandlersReady /\ [Next]_vars => TypeOK' /\ HandlersReady'
<1> SUFFICES ASSUME TypeOK, HandlersReady, [Next]_vars
             PROVE  TypeOK' /\ HandlersReady'
  OBVIOUS
<1>1. ASSUME NEW r \in Requests, Arrive(r) PROVE TypeOK' /\ HandlersReady'
  <2>1. ArrivedWith(r) /\ UNCHANGED <<db, objects, issued, history>>
    BY <1>1, ArriveStep
  <2>2. TypeOK'
    BY <2>1 DEF TypeOK, db, history, ArrivedWith
  <2>3. HandlersReady'
    BY <2>1 DEF HandlersReady, TripExists, db, ArrivedWith
  <2> QED
    BY <2>2, <2>3
<1>2. ASSUME NEW r \in Requests, Proceed(r) PROVE TypeOK' /\ HandlersReady'
  BY <1>2, ProceedTyped
<1>3. CASE Crash
  BY <1>3, CrashStep DEF TypeOK, HandlersReady, TripExists, db, history
<1>4. CASE OtherServices
  BY <1>4, OthersStep DEF TypeOK, HandlersReady, TripExists
<1>5. CASE UNCHANGED vars
  BY <1>5 DEF vars, db, history, TypeOK, HandlersReady, TripExists
<1> QED
  BY <1>1, <1>2, <1>3, <1>4, <1>5 DEF Next

(* Rows, handlers and history keep their types in every behaviour: a       *)
(* finish writes no reading outside 0..MaxKm, and no handler uses a value  *)
(* it has not read.                                                        *)
THEOREM TypeCorrect == Spec => [](TypeOK /\ HandlersReady)
BY TypeInit, TypeStep, PTL DEF Spec

-----------------------------------------------------------------------------
(* Signatures                                                              *)

(* How a step of handler r moves signatures, keys and images.  All that is *)
(* proved of keys below rests on these seven kinds of step and on arrivals,*)
(* not on the actions themselves.                                          *)
OthersKeep(r) == \A s \in Requests \ {r} : req'[s] = req[s]
SameSignatures == \A t \in TripIds : trip'[t].signature = trip[t].signature

(* It holds no key and moves none.                                         *)
Passive(r) ==
  /\ SameSignatures /\ UNCHANGED <<linked, objects, issued>>
  /\ req'[r].pc \in {"idle", "create", "upload"}
  /\ OthersKeep(r)

(* It stores an image under a fresh key, or spends the key and fails.      *)
Uploads(r, k) ==
  /\ k \in FreshKeys
  /\ SameSignatures /\ UNCHANGED linked
  /\ issued' = issued \cup {k} /\ objects' = objects \cup {k}
  /\ req'[r].pc = "commit" /\ req'[r].key = k
  /\ OthersKeep(r)

Spoils(r, k) ==
  /\ k \in FreshKeys
  /\ SameSignatures /\ UNCHANGED linked
  /\ issued' = issued \cup {k} /\ (objects' = objects \/ objects' = objects \cup {k})
  /\ req'[r].pc = "idle"
  /\ OthersKeep(r)

(* It names its key in its trip's row, or gives the commit up.             *)
Commits(r) ==
  /\ req[r].pc = "commit" /\ req'[r].pc = "idle"
  /\ req[r].trip \in TripIds
  /\ trip'[req[r].trip].signature = req[r].key
  /\ \A t \in TripIds \ {req[r].trip} : trip'[t].signature = trip[t].signature
  /\ linked' = linked \cup {req[r].key}
  /\ UNCHANGED <<objects, issued>>
  /\ OthersKeep(r)

Aborts(r) ==
  /\ SameSignatures /\ UNCHANGED <<linked, objects, issued>>
  /\ req[r].pc = "commit" /\ req'[r].pc = "cleanup"
  /\ req'[r].key = req[r].key
  /\ OthersKeep(r)

(* It deletes the image under the key it holds (or S3 loses the call).     *)
Deletes(r) ==
  /\ req[r].pc \in {"cleanup", "collect"} /\ req'[r].pc = "idle"
  /\ SameSignatures /\ UNCHANGED <<linked, issued>>
  /\ objects' = objects \/ objects' = objects \ {req[r].key}
  /\ OthersKeep(r)

(* It deletes the row of its trip and goes on to the image it read, if any.*)
Removes(r) ==
  /\ req[r].pc = "delete" /\ req[r].trip \in TripIds
  /\ trip'[req[r].trip].signature = NULL
  /\ \A t \in TripIds \ {req[r].trip} : trip'[t].signature = trip[t].signature
  /\ UNCHANGED <<linked, objects, issued>>
  /\ \/ req'[r].pc = "idle"
     \/ /\ req'[r].pc = "collect" /\ req'[r].key = req[r].key
        /\ req[r].key # NULL
  /\ OthersKeep(r)

KeyStep(r) ==
  \/ Passive(r)
  \/ \E k \in Keys : Uploads(r, k) \/ Spoils(r, k)
  \/ Commits(r) \/ Aborts(r) \/ Deletes(r) \/ Removes(r)

(* Every step of a handler is one of them, when the database reports the   *)
(* outcome of a transaction faithfully.                                    *)
LEMMA ProceedKeys ==
  ASSUME TypeOK, HandlersReady, "lostCommit" \notin Faults,
         NEW r \in Requests, Proceed(r)
  PROVE  KeyStep(r)
<1>0. /\ req \in [Requests -> Handler] /\ trip \in [TripIds -> TripRow]
      /\ req[r] \in Handler /\ created \subseteq TripIds
  BY DEF TypeOK
<1>1. CASE StartCheckSurvey(r)
  <2>1. Goto(r, "create") /\ UNCHANGED <<db, objects, issued, history>>
    BY <1>1 DEF StartCheckSurvey
  <2>2. req'[r].pc = "create" /\ OthersKeep(r)
    BY <1>0, <2>1, GotoStep DEF Pc, OthersKeep
  <2> QED
    BY <2>1, <2>2 DEF KeyStep, Passive, SameSignatures, db, history
<1>2. ASSUME NEW t \in TripIds, StartCreate(r, t) PROVE KeyStep(r)
  <2>1. /\ t \notin created /\ Return(r)
        /\ trip' = [trip EXCEPT ![t] = NewTrip(req[r])]
        /\ UNCHANGED <<objects, issued, history>>
    BY <1>2 DEF StartCreate
  <2>2. req'[r].pc = "idle" /\ OthersKeep(r)
    BY <1>0, <2>1, ReturnStep DEF OthersKeep
  <2>3. trip[t].signature = NULL
    BY <2>1 DEF HandlersReady, NoTrip
  <2>4. NewTrip(req[r]).signature = NULL
    BY DEF NewTrip
  <2>5. SameSignatures
    BY <1>0, <2>1, <2>3, <2>4 DEF SameSignatures
  <2> QED
    BY <2>1, <2>2, <2>5 DEF KeyStep, Passive, history
<1>3. CASE AddPointsInsert(r) \/ Reject(r)
  <2>1. Return(r) /\ UNCHANGED <<trip, objects, issued, linked>>
    BY <1>3 DEF AddPointsInsert, Reject, db, history
  <2>2. req'[r].pc = "idle" /\ OthersKeep(r)
    BY <1>0, <2>1, ReturnStep DEF OthersKeep
  <2> QED
    BY <2>1, <2>2 DEF KeyStep, Passive, SameSignatures
<1>4. CASE FinishMeasure(r)
  <2>1. UNCHANGED <<db, objects, issued, history>>
    BY <1>4 DEF FinishMeasure
  <2> QED
    BY <1>4, <2>1, MeasureTyped
       DEF KeyStep, Passive, SameSignatures, OthersKeep, db, history
<1>5. CASE FinishUpload(r)
  <2>1. UNCHANGED <<db, history>>
    BY <1>5 DEF FinishUpload
  <2>2. PICK k \in FreshKeys :
          /\ issued' = issued \cup {k} /\ objects' = objects \cup {k}
          /\ req'[r].pc = "commit" /\ req'[r].key = k /\ OthersKeep(r)
    BY <1>5, UploadStep DEF OthersKeep
  <2>3. Uploads(r, k) /\ k \in Keys
    BY <2>1, <2>2 DEF Uploads, SameSignatures, FreshKeys, db, history
  <2> QED
    BY <2>3 DEF KeyStep
<1>6. CASE FinishUploadFails(r)
  <2>1. Return(r) /\ UNCHANGED <<db, history>>
    BY <1>6 DEF FinishUploadFails
  <2>2. PICK k \in FreshKeys :
          /\ issued' = issued \cup {k}
          /\ objects' = objects \/ objects' = objects \cup {k}
    BY <1>6 DEF FinishUploadFails
  <2>3. req'[r].pc = "idle" /\ OthersKeep(r)
    BY <1>0, <2>1, ReturnStep DEF OthersKeep
  <2>4. Spoils(r, k) /\ k \in Keys
    BY <2>1, <2>2, <2>3 DEF Spoils, SameSignatures, FreshKeys, db, history
  <2> QED
    BY <2>4 DEF KeyStep
<1>7. CASE FinishCommit(r)
  <2> DEFINE t == req[r].trip
  <2>1. /\ At(r, "commit") /\ Return(r)
        /\ trip' = [trip EXCEPT ![t] = Finished(@, req[r])]
        /\ linked' = linked \cup {req[r].key}
        /\ UNCHANGED <<objects, issued>>
    BY <1>7 DEF FinishCommit, FinishWrites
  <2>2. req'[r].pc = "idle" /\ OthersKeep(r)
    BY <1>0, <2>1, ReturnStep DEF OthersKeep
  <2>3. t \in TripIds
    BY <1>0, <2>1 DEF HandlersReady, At
  <2>4. Finished(trip[t], req[r]).signature = req[r].key
    BY <1>0, <2>3, FinishedRow
  <2>5. /\ trip'[t].signature = req[r].key
        /\ \A u \in TripIds \ {t} : trip'[u].signature = trip[u].signature
    BY <1>0, <2>1, <2>3, <2>4
  <2> QED
    BY <2>1, <2>2, <2>3, <2>5 DEF KeyStep, Commits, At
<1>8. CASE FinishAbort(r)
  <2>1. /\ At(r, "commit") /\ Goto(r, "cleanup")
        /\ UNCHANGED <<db, objects, issued, history>>
    BY <1>8 DEF FinishAbort
  <2>2. /\ req'[r].pc = "cleanup" /\ req'[r].key = req[r].key /\ OthersKeep(r)
    BY <1>0, <2>1, GotoStep DEF Pc, OthersKeep
  <2> QED
    BY <2>1, <2>2 DEF KeyStep, Aborts, SameSignatures, At, db, history
<1>9. CASE FinishCleanup(r) \/ RemoveCollect(r)
  <2>1. /\ Return(r) /\ UNCHANGED <<db, issued, history>>
        /\ req[r].pc \in {"cleanup", "collect"}
        /\ objects' = objects \/ objects' = objects \ {req[r].key}
    BY <1>9 DEF FinishCleanup, RemoveCollect, DeleteObject, At
  <2>2. req'[r].pc = "idle" /\ OthersKeep(r)
    BY <1>0, <2>1, ReturnStep DEF OthersKeep
  <2> QED
    BY <2>1, <2>2 DEF KeyStep, Deletes, SameSignatures, db, history
<1>10. CASE UpdateWrite(r)
  <2> DEFINE t == req[r].trip  e == req[r].edit
  <2>1. /\ At(r, "update") /\ Return(r)
        /\ trip' = [trip EXCEPT ![t] = Apply(@, e)]
        /\ UNCHANGED <<objects, issued, linked>>
    BY <1>10 DEF UpdateWrite
  <2>2. t \in TripIds /\ e \in Edit
    BY <1>0, <2>1, TripConstants DEF HandlersReady, At, Handler, Optional
  <2>3. trip[t] \in TripRow
    BY <1>0, <2>2
  <2>4. Apply(trip[t], e).signature = trip[t].signature
    BY <2>2, <2>3, AppliedRow
  <2>5. SameSignatures
    BY <1>0, <2>1, <2>4 DEF SameSignatures
  <2>6. req'[r].pc = "idle" /\ OthersKeep(r)
    BY <1>0, <2>1, ReturnStep DEF OthersKeep
  <2> QED
    BY <2>1, <2>5, <2>6 DEF KeyStep, Passive
<1>11. CASE RemoveRow(r)
  <2> DEFINE t == req[r].trip
  <2>1. /\ At(r, "delete")
        /\ trip' = [trip EXCEPT ![t] = NoTrip]
        /\ \/ Return(r)
           \/ Goto(r, "collect") /\ req[r].key # NULL
        /\ UNCHANGED <<objects, issued, history>>
    BY <1>11 DEF RemoveRow
  <2>2. t \in TripIds
    BY <1>0, <2>1 DEF HandlersReady, At
  <2>3. NoTrip.signature = NULL
    BY DEF NoTrip
  <2>4. /\ trip'[t].signature = NULL
        /\ \A u \in TripIds \ {t} : trip'[u].signature = trip[u].signature
    BY <1>0, <2>1, <2>2, <2>3
  <2>5. /\ OthersKeep(r)
        /\ \/ req'[r].pc = "idle"
           \/ /\ req'[r].pc = "collect" /\ req'[r].key = req[r].key
              /\ req[r].key # NULL
    BY <1>0, <2>1, ReturnStep, GotoStep DEF Pc, OthersKeep
  <2> QED
    BY <2>1, <2>2, <2>4, <2>5 DEF KeyStep, Removes, At, history
<1> QED
  BY <1>1, <1>2, <1>3, <1>4, <1>5, <1>6, <1>7, <1>8, <1>9, <1>10, <1>11
     DEF Proceed

(* The step of a handler keeps the ownership of keys.                      *)
LEMMA KeyStepSafe ==
  ASSUME SignatureInv, NEW r \in Requests, KeyStep(r), TypeOK', HandlersReady'
  PROVE  SignatureInv'
<1>1. CASE Passive(r)
  BY <1>1 DEF SignatureInv, Passive, SameSignatures, OthersKeep, KeysAccounted,
              Named, SignatureOnce, FinishKeyPrivate, RemoveKeyOwned,
              NoDanglingSignature, Finishing, Removing, At
<1>2. ASSUME NEW k \in Keys, Uploads(r, k) PROVE SignatureInv'
  <2>1. k \notin linked /\ k \notin issued
    BY <1>2 DEF SignatureInv, KeysAccounted, Uploads, FreshKeys
  <2>2. KeysAccounted' /\ SignatureOnce' /\ NoDanglingSignature'
    BY <1>2 DEF SignatureInv, Uploads, SameSignatures, KeysAccounted, Named,
                SignatureOnce, NoDanglingSignature
  <2>3. \A s \in Requests \ {r} : Finishing(s) \/ Removing(s) => req[s].key # k
    BY <2>1 DEF SignatureInv, KeysAccounted, FinishKeyPrivate, RemoveKeyOwned
  <2>4. FinishKeyPrivate'
    BY <1>2, <2>1, <2>3
       DEF SignatureInv, Uploads, FinishKeyPrivate, Finishing, Removing, At,
           OthersKeep
  <2>5. RemoveKeyOwned'
    BY <1>2 DEF SignatureInv, Uploads, SameSignatures, RemoveKeyOwned, Removing,
                At, OthersKeep
  <2> QED
    BY <2>2, <2>4, <2>5 DEF SignatureInv
<1>3. ASSUME NEW k \in Keys, Spoils(r, k) PROVE SignatureInv'
  <2>1. KeysAccounted' /\ SignatureOnce' /\ NoDanglingSignature'
    BY <1>3 DEF SignatureInv, Spoils, SameSignatures, KeysAccounted, Named,
                SignatureOnce, NoDanglingSignature
  <2>2. FinishKeyPrivate' /\ RemoveKeyOwned'
    BY <1>3 DEF SignatureInv, Spoils, SameSignatures, FinishKeyPrivate,
                RemoveKeyOwned, Finishing, Removing, At, OthersKeep
  <2> QED
    BY <2>1, <2>2 DEF SignatureInv
<1>4. CASE Commits(r)
  <2> DEFINE t == req[r].trip  k == req[r].key
  <2>1. /\ Finishing(r) /\ ~Removing(r) /\ k \in issued \ linked /\ k \in objects
        /\ t \in TripIds /\ trip'[t].signature = k
        /\ \A u \in TripIds \ {t} : trip'[u].signature = trip[u].signature
        /\ linked' = linked \cup {k}
        /\ UNCHANGED <<objects, issued>>
    BY <1>4 DEF SignatureInv, Commits, FinishKeyPrivate, Finishing, Removing, At
  <2>2. \A u \in TripIds : trip[u].signature # NULL => trip[u].signature \in linked
    BY DEF SignatureInv, KeysAccounted, Named
  <2>3. \A s \in Requests \ {r} : Finishing(s) \/ Removing(s) => req[s].key # k
    BY <2>1 DEF SignatureInv, FinishKeyPrivate
  <2>4. req'[r].pc = "idle" /\ \A s \in Requests \ {r} : req'[s] = req[s]
    BY <1>4 DEF Commits, OthersKeep
  <2> HIDE DEF t, k
  <2>5. KeysAccounted'
    BY <2>1, <2>2 DEF SignatureInv, KeysAccounted, Named
  <2>6. SignatureOnce' /\ NoDanglingSignature'
    BY <2>1, <2>2 DEF SignatureInv, SignatureOnce, NoDanglingSignature
  <2>7. FinishKeyPrivate'
    BY <2>1, <2>3, <2>4 DEF SignatureInv, FinishKeyPrivate, Finishing, Removing, At
  <2>8. RemoveKeyOwned'
    BY <2>1, <2>3, <2>4 DEF SignatureInv, RemoveKeyOwned, Removing, At
  <2> QED
    BY <2>5, <2>6, <2>7, <2>8 DEF SignatureInv
<1>5. CASE Aborts(r)
  <2>1. KeysAccounted' /\ SignatureOnce' /\ NoDanglingSignature'
    BY <1>5 DEF SignatureInv, Aborts, SameSignatures, KeysAccounted, Named,
                SignatureOnce, NoDanglingSignature
  <2>2. FinishKeyPrivate' /\ RemoveKeyOwned'
    BY <1>5 DEF SignatureInv, Aborts, SameSignatures, FinishKeyPrivate,
                RemoveKeyOwned, Finishing, Removing, At, OthersKeep
  <2> QED
    BY <2>1, <2>2 DEF SignatureInv
<1>6. CASE Deletes(r)
  <2> DEFINE k == req[r].key
  <2>1. /\ req'[r].pc = "idle"
        /\ \A s \in Requests \ {r} : req'[s] = req[s]
        /\ \A t \in TripIds : trip'[t].signature = trip[t].signature
        /\ UNCHANGED <<linked, issued>>
        /\ objects' = objects \/ objects' = objects \ {k}
    BY <1>6 DEF Deletes, OthersKeep, SameSignatures
  <2>2. k # NULL /\ (Finishing(r) \/ Removing(r))
    BY <1>6 DEF Deletes, SignatureInv, HandlersReady, Finishing, Removing
  <2>3. \A t \in TripIds : trip[t].signature # k
    BY <1>6, <2>2 DEF Deletes, SignatureInv, FinishKeyPrivate, RemoveKeyOwned,
                      KeysAccounted, Named, Finishing, Removing, At
  <2>4. \A s \in Requests \ {r} : Finishing(s) => req[s].key # k
    BY <2>2 DEF SignatureInv, FinishKeyPrivate
  <2> HIDE DEF k
  <2>5. KeysAccounted' /\ SignatureOnce'
    BY <2>1 DEF SignatureInv, KeysAccounted, Named, SignatureOnce
  <2>6. NoDanglingSignature'
    BY <2>1, <2>3 DEF SignatureInv, NoDanglingSignature
  <2>7. FinishKeyPrivate'
    BY <2>1, <2>4 DEF SignatureInv, FinishKeyPrivate, Finishing, Removing, At
  <2>8. RemoveKeyOwned'
    BY <2>1 DEF SignatureInv, RemoveKeyOwned, Removing, At
  <2> QED
    BY <2>5, <2>6, <2>7, <2>8 DEF SignatureInv
<1>7. CASE Removes(r)
  <2> DEFINE t == req[r].trip  k == req[r].key
  <2>1. /\ req[r].pc = "delete" /\ t \in TripIds /\ trip'[t].signature = NULL
        /\ \A u \in TripIds \ {t} : trip'[u].signature = trip[u].signature
        /\ UNCHANGED <<linked, objects, issued>>
        /\ \A s \in Requests \ {r} : req'[s] = req[s]
        /\ \/ req'[r].pc = "idle"
           \/ req'[r].pc = "collect" /\ req'[r].key = k /\ k # NULL
    BY <1>7 DEF Removes, OthersKeep
  <2>2. k # NULL => /\ k \in linked
                    /\ \A u \in TripIds \ {t} : trip[u].signature # k
                    /\ \A s \in Requests \ {r} : Finishing(s) => req[s].key # k
    BY <2>1 DEF SignatureInv, RemoveKeyOwned, FinishKeyPrivate, Removing
  <2> HIDE DEF t, k
  <2>3. KeysAccounted' /\ SignatureOnce' /\ NoDanglingSignature'
    BY <2>1 DEF SignatureInv, KeysAccounted, Named, SignatureOnce,
                NoDanglingSignature
  <2>4. FinishKeyPrivate'
    BY <2>1, <2>2 DEF SignatureInv, FinishKeyPrivate, Finishing, Removing, At
  <2>5. RemoveKeyOwned'
    BY <2>1, <2>2 DEF SignatureInv, RemoveKeyOwned, Removing, At
  <2> QED
    BY <2>3, <2>4, <2>5 DEF SignatureInv
<1> QED
  BY <1>1, <1>2, <1>3, <1>4, <1>5, <1>6, <1>7 DEF KeyStep

(* An arriving request takes hold of a key only to remove the trip that    *)
(* names it.                                                               *)
LEMMA ArriveSafe ==
  ASSUME SignatureInv, NEW r \in Requests, ArrivedWith(r),
         UNCHANGED <<db, objects, issued, history>>, TypeOK', HandlersReady'
  PROVE  SignatureInv'
<1>1. /\ trip' = trip /\ objects' = objects /\ issued' = issued /\ linked' = linked
  BY DEF db, history
<1>2. KeysAccounted' /\ SignatureOnce' /\ NoDanglingSignature'
  BY <1>1 DEF SignatureInv, KeysAccounted, Named, SignatureOnce,
              NoDanglingSignature
<1>3. /\ ~Finishing(r)'
      /\ \A s \in Requests \ {r} : req'[s] = req[s]
      /\ Removing(r)' =>
           /\ At(r, "delete")'
           /\ req'[r].trip \in TripIds
           /\ req'[r].key = trip[req'[r].trip].signature /\ req'[r].key # NULL
  BY DEF ArrivedWith, Finishing, Removing, At
<1>4. Removing(r)' => req'[r].key \in linked
  BY <1>3 DEF SignatureInv, KeysAccounted, Named
<1>5. FinishKeyPrivate'
  BY <1>1, <1>3, <1>4 DEF SignatureInv, FinishKeyPrivate, Finishing, Removing, At
<1>6. RemoveKeyOwned'
  BY <1>1, <1>3, <1>4 DEF SignatureInv, RemoveKeyOwned, SignatureOnce, Removing, At
<1> QED
  BY <1>2, <1>5, <1>6 DEF SignatureInv

LEMMA SignatureInit == Init => SignatureInv
<1> SUFFICES ASSUME Init PROVE SignatureInv
  OBVIOUS
<1>1. TypeOK /\ HandlersReady
  BY TypeInit
<1>2. NoTrip.signature = NULL /\ Idle.pc = "idle"
  BY DEF NoTrip, Idle
<1> QED
  BY <1>1, <1>2 DEF Init, SignatureInv, KeysAccounted, Named, SignatureOnce,
                    FinishKeyPrivate, RemoveKeyOwned, NoDanglingSignature,
                    Finishing, Removing, At

LEMMA SignatureStep ==
  ASSUME "lostCommit" \notin Faults
  PROVE  SignatureInv /\ [Next]_vars => SignatureInv'
<1> SUFFICES ASSUME SignatureInv, [Next]_vars PROVE SignatureInv'
  OBVIOUS
<1>0. TypeOK' /\ HandlersReady'
  BY TypeStep DEF SignatureInv
<1>1. ASSUME NEW r \in Requests, Arrive(r) PROVE SignatureInv'
  BY <1>0, <1>1, ArriveStep, ArriveSafe DEF SignatureInv
<1>2. ASSUME NEW r \in Requests, Proceed(r) PROVE SignatureInv'
  BY <1>0, <1>2, ProceedKeys, KeyStepSafe DEF SignatureInv
<1>3. CASE Crash
  BY <1>0, <1>3, CrashStep
     DEF SignatureInv, KeysAccounted, Named, SignatureOnce, FinishKeyPrivate,
         RemoveKeyOwned, NoDanglingSignature, Finishing, Removing, db, history
<1>4. CASE OtherServices
  BY <1>0, <1>4, OthersStep
     DEF SignatureInv, KeysAccounted, Named, SignatureOnce, FinishKeyPrivate,
         RemoveKeyOwned, NoDanglingSignature, Finishing, Removing, At
<1>5. CASE UNCHANGED vars
  BY <1>0, <1>5
     DEF SignatureInv, KeysAccounted, Named, SignatureOnce, FinishKeyPrivate,
         RemoveKeyOwned, NoDanglingSignature, Finishing, Removing, At, vars, db,
         history
<1> QED
  BY <1>1, <1>2, <1>3, <1>4, <1>5 DEF Next

(* A trip never names an image that is not in the bucket, whatever finishes*)
(* and removes overlap, fail, crash or lose their S3 calls, provided the   *)
(* database reports the outcome of finishTrip's transaction.               *)
THEOREM SignaturesSafe ==
  ASSUME "lostCommit" \notin Faults
  PROVE  Spec => []NoDanglingSignature
<1>1. SignatureInv => NoDanglingSignature
  BY DEF SignatureInv
<1> QED
  BY <1>1, SignatureInit, SignatureStep, PTL DEF Spec

-----------------------------------------------------------------------------
(* TripHistory implements ObjectStore                                      *)

(* The phases in terms of four sets; no key is dangling.                   *)
PhaseMeans(k) ==
  /\ k \in Named <=> Phase(k) = "linked"
  /\ k \in objects /\ k \notin linked <=> Phase(k) = "stored"
  /\ k \in objects /\ k \in linked /\ k \notin Named <=> Phase(k) = "unlinked"
  /\ k \in issued /\ k \notin objects <=> Phase(k) = "deleted"
  /\ k \notin issued <=> Phase(k) = "unused"
  /\ Phase(k) \in Store!Phases

LEMMA PhaseIs == SignatureInv => \A k \in Keys : PhaseMeans(k)
<1> SUFFICES ASSUME SignatureInv, NEW k \in Keys PROVE PhaseMeans(k)
  OBVIOUS
<1>1. /\ k \in Named => k \in linked /\ k \in objects
      /\ k \in linked => k \in issued
      /\ k \in objects => k \in issued
  BY DEF SignatureInv, KeysAccounted, NoDanglingSignature, Named
<1>2. CASE k \in Named
  BY <1>1, <1>2 DEF Phase, PhaseMeans, Store!Phases
<1>3. CASE k \in objects \ Named
  BY <1>1, <1>3 DEF Phase, PhaseMeans, Store!Phases
<1>4. CASE k \in issued \ (Named \cup objects)
  BY <1>1, <1>4 DEF Phase, PhaseMeans, Store!Phases
<1>5. CASE k \notin issued
  BY <1>1, <1>5 DEF Phase, PhaseMeans, Store!Phases
<1> QED
  BY <1>1, <1>2, <1>3, <1>4, <1>5

(* The same after a step.                                                  *)
LEMMA PhaseIsNext == (SignatureInv => \A k \in Keys : PhaseMeans(k))'
BY PhaseIs, PTL

(* What one step may do to one key, said with the four sets.               *)
KeyMoves(k) ==
  \/ /\ k \in Named' <=> k \in Named
     /\ k \in objects' <=> k \in objects
     /\ k \in linked' <=> k \in linked
     /\ k \in issued' <=> k \in issued
  \/ k \notin issued /\ k \in issued' /\ k \notin linked'
  \/ k \in objects \ linked /\ k \in Named'
  \/ k \in objects \ linked /\ k \in issued' /\ k \notin objects'
  \/ k \in Named /\ k \notin Named' /\ k \in objects' /\ k \in linked'
  \/ k \in (objects \cap linked) \ Named /\ k \in issued' /\ k \notin objects'

(* Those moves are the steps of ObjectStore.                               *)
LEMMA MovesFollow ==
  ASSUME SignatureInv, SignatureInv', NEW k \in Keys, KeyMoves(k)
  PROVE  Phase(k)' = Phase(k) \/ <<Phase(k), Phase(k)'>> \in Store!Steps
<1>2. PhaseMeans(k) /\ PhaseMeans(k)'
  BY PhaseIs, PhaseIsNext
<1>3. /\ k \in linked => k \in issued
      /\ k \in objects => k \in issued
      /\ (k \in linked => k \in issued)'
      /\ (k \in objects => k \in issued)'
  BY DEF SignatureInv, KeysAccounted
<1> QED
  BY <1>2, <1>3 DEF PhaseMeans, KeyMoves, Store!Phases, Store!Steps

(* Every kind of step moves every key so.                                  *)
LEMMA KeyStepMoves ==
  ASSUME SignatureInv, NEW r \in Requests, KeyStep(r), NEW k \in Keys
  PROVE  KeyMoves(k)
<1>1. CASE Passive(r) \/ Aborts(r)
  BY <1>1 DEF Passive, Aborts, SameSignatures, Named, KeyMoves
<1>2. ASSUME NEW j \in Keys, Uploads(r, j) \/ Spoils(r, j) PROVE KeyMoves(k)
  BY <1>2 DEF Uploads, Spoils, SameSignatures, Named, FreshKeys, KeyMoves,
              SignatureInv, KeysAccounted
<1>3. CASE Commits(r)
  BY <1>3 DEF Commits, Named, KeyMoves, SignatureInv, FinishKeyPrivate,
              Finishing, KeysAccounted, NoDanglingSignature, At, HandlersReady
<1>4. CASE Deletes(r)
  BY <1>4 DEF Deletes, SameSignatures, Named, KeyMoves, SignatureInv,
              FinishKeyPrivate, RemoveKeyOwned, KeysAccounted, HandlersReady,
              Finishing, Removing, At
<1>5. CASE Removes(r)
  BY <1>5 DEF Removes, Named, KeyMoves, SignatureInv, KeysAccounted,
              NoDanglingSignature
<1> QED
  BY <1>1, <1>2, <1>3, <1>4, <1>5 DEF KeyStep

LEMMA StoreInit == Init => Store!Init
<1> SUFFICES ASSUME Init, NEW k \in Keys PROVE Phase(k) = "unused"
  BY DEF Store!Init
<1> QED
  BY SignatureInit, PhaseIs DEF PhaseMeans, Init

LEMMA StoreStep ==
  ASSUME "lostCommit" \notin Faults
  PROVE  SignatureInv /\ SignatureInv' /\ [Next]_vars => Store!Next
<1> SUFFICES ASSUME SignatureInv, SignatureInv', [Next]_vars PROVE Store!Next
  OBVIOUS
<1>1. ASSUME NEW k \in Keys PROVE KeyMoves(k)
  <2>1. CASE UNCHANGED <<trip, objects, issued, linked>>
    BY <2>1 DEF KeyMoves, Named
  <2>2. ASSUME NEW r \in Requests, Proceed(r) PROVE KeyMoves(k)
    BY <2>2, ProceedKeys, KeyStepMoves DEF SignatureInv
  <2>3. ASSUME NEW r \in Requests, Arrive(r)
        PROVE  UNCHANGED <<trip, objects, issued, linked>>
    BY <2>3, ArriveStep DEF SignatureInv, db, history
  <2>4. Crash => UNCHANGED <<trip, objects, issued, linked>>
    BY CrashStep DEF db, history
  <2>5. OtherServices => UNCHANGED <<trip, objects, issued, linked>>
    BY OthersStep DEF SignatureInv
  <2>6. UNCHANGED vars => UNCHANGED <<trip, objects, issued, linked>>
    BY DEF vars, db, history
  <2> QED
    BY <2>1, <2>2, <2>3, <2>4, <2>5, <2>6 DEF Next
<1>2. \A k \in Keys : Phase(k)' \in Store!Phases
  BY PhaseIsNext DEF PhaseMeans
<1>3. \A k \in Keys :
        Phase(k)' = Phase(k) \/ <<Phase(k), Phase(k)'>> \in Store!Steps
  BY <1>1, MovesFollow
<1> QED
  BY <1>2, <1>3 DEF Store!Next

(* Every behaviour of TripHistory is, seen through Phase, a behaviour of   *)
(* ObjectStore: keys are used once, and no image goes while a row names it.*)
THEOREM SignaturesImplementStore ==
  ASSUME "lostCommit" \notin Faults
  PROVE  Spec => SignaturesFollowStore
<1>1. SignatureInv /\ [Next]_vars => SignatureInv'
  BY SignatureStep
<1>2. SignatureInv /\ SignatureInv' /\ [Next]_vars => Store!Next
  BY StoreStep
<1> QED
  BY <1>1, <1>2, SignatureInit, StoreInit, PTL
     DEF Spec, SignaturesFollowStore, Store!Spec

-----------------------------------------------------------------------------
(* What a trip says                                                        *)

CoherentInv == TypeOK /\ HandlersReady /\ UneditedTripCoherent /\ MeasuredKm

(* Steps that leave trips and history alone and put no new trip in the     *)
(* hands of a finish.                                                      *)
LEMMA CoherentFrame ==
  ASSUME CoherentInv, TypeOK', HandlersReady', trip' = trip, edited' = edited,
         \A r \in Requests : req'[r].pc \in {"measure", "upload", "commit"} =>
           \/ req'[r] = req[r]
           \/ /\ req'[r].trip \in TripIds
              /\ req'[r].km >= trip[req'[r].trip].startKm
           \/ /\ req'[r].pc # "measure" /\ req'[r].trip = req[r].trip
              /\ \/ req[r].pc = "measure" /\ NotBelow(req'[r].km, req[r].km)
                 \/ req[r].pc = "upload" /\ req'[r].km = req[r].km
  PROVE  CoherentInv'
<1>1. UneditedTripCoherent'
  BY DEF CoherentInv, UneditedTripCoherent, TripExists
<1>2. MeasuredKm'
  <2> SUFFICES ASSUME NEW r \in Requests,
                      req'[r].pc \in {"measure", "upload", "commit"},
                      TripExists(req'[r].trip), req'[r].trip \notin edited
               PROVE  IF req'[r].pc = "measure"
                      THEN req'[r].km >= trip[req'[r].trip].startKm
                      ELSE NotBelow(req'[r].km, trip[req'[r].trip].startKm)
    BY DEF MeasuredKm, TripExists, At, NotBelow
  <2>1. req'[r].trip \in TripIds
    BY DEF HandlersReady, TypeOK
  <2>2. /\ req'[r].km \in Nat /\ req[r].km \in Nat
        /\ trip[req'[r].trip].startKm \in Nat
    BY <2>1, TripConstants DEF CoherentInv, TypeOK, Handler, TripRow, Km
  <2> QED
    BY <2>1, <2>2, TripConstants
       DEF CoherentInv, MeasuredKm, TripExists, At, NotBelow
<1> QED
  BY <1>1, <1>2 DEF CoherentInv

LEMMA CoherentInit == Init => CoherentInv
<1> SUFFICES ASSUME Init PROVE CoherentInv
  OBVIOUS
<1>1. NoTrip.status = "NONE" /\ Idle.pc = "idle"
  BY DEF NoTrip, Idle
<1> QED
  BY <1>1, TypeInit DEF Init, CoherentInv, UneditedTripCoherent, MeasuredKm,
                        TripExists

(* The steps of handlers that write no trip row.                           *)
LEMMA ProceedKeepsTrips ==
  ASSUME CoherentInv, NEW r \in Requests, TypeOK', HandlersReady',
         \/ StartCheckSurvey(r) \/ AddPointsInsert(r) \/ FinishMeasure(r)
         \/ FinishUpload(r) \/ FinishUploadFails(r) \/ FinishCleanup(r)
         \/ RemoveCollect(r) \/ Reject(r)
         \/ FinishAbort(r) /\ UNCHANGED <<db, objects, issued, history>>
  PROVE  CoherentInv'
<1>0. TypeOK /\ req \in [Requests -> Handler]
  BY DEF CoherentInv, TypeOK
<1>1. trip' = trip /\ edited' = edited
  BY DEF StartCheckSurvey, AddPointsInsert, FinishMeasure, FinishUpload,
         FinishUploadFails, FinishCleanup, RemoveCollect, Reject, db, history
<1>2. CASE FinishMeasure(r)
  <2>1. At(r, "measure")
    BY <1>2 DEF FinishMeasure
  <2> QED
    BY <1>0, <1>1, <1>2, <2>1, MeasureTyped, CoherentFrame DEF At
<1>3. CASE FinishUpload(r)
  <2>1. At(r, "upload")
    BY <1>3 DEF FinishUpload
  <2>2. req[r].km \in Nat
    BY <1>0, TripConstants DEF Handler, Km
  <2> QED
    BY <1>0, <1>1, <1>3, <2>1, <2>2, UploadStep, CoherentFrame DEF At
<1>4. CASE ~FinishMeasure(r) /\ ~FinishUpload(r)
  <2>1. \E pc \in {"create", "cleanup"} : Return(r) \/ Goto(r, pc)
    BY <1>4 DEF StartCheckSurvey, AddPointsInsert, FinishUploadFails,
                FinishCleanup, RemoveCollect, Reject, FinishAbort
  <2>2. /\ req'[r].pc \in {"idle", "create", "cleanup"}
        /\ \A s \in Requests \ {r} : req'[s] = req[s]
    BY <1>0, <2>1, ReturnStep, GotoStep DEF Pc
  <2> QED
    BY <1>1, <2>2, CoherentFrame
<1> QED
  BY <1>2, <1>3, <1>4

(* The steps of handlers that write one.                                   *)
LEMMA TripWriteCoherent ==
  ASSUME CoherentInv, NEW t \in TripIds, NEW row \in TripRow, NEW r \in Requests,
         TypeOK', HandlersReady', trip' = [trip EXCEPT ![t] = row],
         edited \subseteq edited',
         req'[r].pc \in {"idle", "cleanup", "collect"},
         \A s \in Requests \ {r} : req'[s] = req[s],
         \/ row.status = "NONE"
         \/ t \in edited'
         \/ /\ (row.status = "COMPLETED") <=> (row.signature # NULL)
            /\ (row.endKm # NULL) <=> (row.signature # NULL)
            /\ row.endKm # NULL => NotBelow(row.endKm, row.startKm)
            /\ \/ t \notin created
               \/ TripExists(t) /\ row.startKm = trip[t].startKm
  PROVE  CoherentInv'
<1>1. /\ trip \in [TripIds -> TripRow] /\ trip'[t] = row
      /\ \A u \in TripIds \ {t} : trip'[u] = trip[u]
  BY DEF CoherentInv, TypeOK
<1>2. UneditedTripCoherent'
  BY <1>1 DEF CoherentInv, UneditedTripCoherent, TripExists, NotBelow
<1>3. MeasuredKm'
  <2> SUFFICES ASSUME NEW s \in Requests,
                      req'[s].pc \in {"measure", "upload", "commit"},
                      trip'[req'[s].trip].status # "NONE",
                      req'[s].trip \notin edited'
               PROVE  IF req'[s].pc = "measure"
                      THEN req'[s].km >= trip'[req'[s].trip].startKm
                      ELSE NotBelow(req'[s].km, trip'[req'[s].trip].startKm)
    BY DEF MeasuredKm, TripExists, At, NotBelow
  <2>1. s # r /\ req'[s] = req[s]
    OBVIOUS
  <2>2. req[s].trip \in created /\ req[s].trip \in TripIds
    BY <2>1 DEF CoherentInv, HandlersReady, TypeOK
  <2>3. CASE req[s].trip = t
    BY <1>1, <2>1, <2>2, <2>3
       DEF CoherentInv, MeasuredKm, TripExists, At, NotBelow
  <2>4. CASE req[s].trip # t
    BY <1>1, <2>1, <2>2, <2>4
       DEF CoherentInv, MeasuredKm, TripExists, At, NotBelow
  <2> QED
    BY <2>3, <2>4
<1> QED
  BY <1>2, <1>3 DEF CoherentInv

LEMMA CoherentStep == CoherentInv /\ [Next]_vars => CoherentInv'
<1> SUFFICES ASSUME CoherentInv, [Next]_vars PROVE CoherentInv'
  OBVIOUS
<1>0. /\ TypeOK /\ HandlersReady /\ TypeOK' /\ HandlersReady'
      /\ req \in [Requests -> Handler] /\ trip \in [TripIds -> TripRow]
  BY TypeStep DEF CoherentInv, TypeOK
<1>1. ASSUME NEW r \in Requests, Arrive(r) PROVE CoherentInv'
  <2>1. ArrivedWith(r) /\ trip' = trip /\ edited' = edited
    BY <1>0, <1>1, ArriveStep DEF db, history
  <2>2. req'[r].pc = "measure" =>
          /\ req'[r].trip \in TripIds
          /\ req'[r].km >= trip[req'[r].trip].startKm
    BY <1>0, <2>1, TripConstants DEF ArrivedWith, TripRow, Km
  <2> QED
    BY <1>0, <2>1, <2>2, CoherentFrame DEF ArrivedWith
<1>2. ASSUME NEW r \in Requests, NEW t \in TripIds, StartCreate(r, t)
      PROVE  CoherentInv'
  <2>1. /\ trip' = [trip EXCEPT ![t] = NewTrip(req[r])] /\ t \notin created
        /\ edited' = edited /\ Return(r)
    BY <1>2 DEF StartCreate, history
  <2>2. /\ NewTrip(req[r]) \in TripRow /\ NewTrip(req[r]).status # "COMPLETED"
        /\ NewTrip(req[r]).signature = NULL /\ NewTrip(req[r]).endKm = NULL
    BY <1>0, NewTripRow DEF NewTrip
  <2> QED
    BY <1>0, <2>1, <2>2, ReturnStep, TripWriteCoherent
<1>3. ASSUME NEW r \in Requests, FinishWrites(r), FinishCommit(r) \/ FinishAbort(r)
      PROVE  CoherentInv'
  <2> DEFINE t == req[r].trip  row == Finished(trip[t], req[r])
  <2>1. /\ At(r, "commit") /\ (Return(r) \/ Goto(r, "cleanup")) /\ TripExists(t)
        /\ trip' = [trip EXCEPT ![t] = row] /\ edited' = edited
    BY <1>3 DEF FinishCommit, FinishAbort, FinishWrites
  <2>2. t \in TripIds /\ req[r].key # NULL
    BY <1>0, <2>1 DEF HandlersReady, At, TypeOK
  <2>3. t \notin edited => NotBelow(req[r].km, trip[t].startKm)
    BY <2>1 DEF CoherentInv, MeasuredKm, At
  <2>4. /\ row \in TripRow /\ row.status = "COMPLETED" /\ row.endKm = req[r].km
        /\ row.signature = req[r].key /\ row.startKm = trip[t].startKm
    BY <1>0, <2>2, FinishedRow
  <2>5. row.endKm # NULL
    BY <1>0, <2>4, TripConstants DEF Handler
  <2>6. /\ req'[r].pc \in {"idle", "cleanup"}
        /\ \A s \in Requests \ {r} : req'[s] = req[s]
    BY <1>0, <2>1, ReturnStep, GotoStep DEF Pc
  <2> HIDE DEF t, row
  <2> QED
    BY <1>0, <2>1, <2>2, <2>3, <2>4, <2>5, <2>6, TripWriteCoherent
<1>4. ASSUME NEW r \in Requests, UpdateWrite(r) PROVE CoherentInv'
  <2> DEFINE t == req[r].trip  row == Apply(trip[t], req[r].edit)
  <2>1. /\ At(r, "update") /\ Return(r) /\ trip' = [trip EXCEPT ![t] = row]
        /\ edited' = edited \cup {t}
    BY <1>4 DEF UpdateWrite
  <2>2. t \in TripIds /\ req[r].edit \in Edit
    BY <1>0, <2>1, TripConstants
       DEF HandlersReady, At, TypeOK, Handler, Optional
  <2>3. row \in TripRow
    BY <1>0, <2>2, AppliedRow
  <2> HIDE DEF t, row
  <2> QED
    BY <1>0, <2>1, <2>2, <2>3, ReturnStep, TripWriteCoherent
<1>5. ASSUME NEW r \in Requests, RemoveRow(r) PROVE CoherentInv'
  <2> DEFINE t == req[r].trip
  <2>1. /\ At(r, "delete") /\ (Return(r) \/ Goto(r, "collect"))
        /\ trip' = [trip EXCEPT ![t] = NoTrip] /\ edited' = edited
    BY <1>5 DEF RemoveRow, history
  <2>2. t \in TripIds /\ NoTrip.status = "NONE"
    BY <1>0, <2>1 DEF HandlersReady, At, TypeOK, NoTrip
  <2>3. /\ req'[r].pc \in {"idle", "collect"}
        /\ \A s \in Requests \ {r} : req'[s] = req[s]
    BY <1>0, <2>1, ReturnStep, GotoStep DEF Pc
  <2> HIDE DEF t
  <2> QED
    BY <1>0, <2>1, <2>2, <2>3, NoTripTyped, TripWriteCoherent
<1>6. ASSUME NEW r \in Requests, Proceed(r) PROVE CoherentInv'
  <2>1. FinishCommit(r) => FinishWrites(r)
    BY DEF FinishCommit
  <2>2. FinishAbort(r) =>
          FinishWrites(r) \/ UNCHANGED <<db, objects, issued, history>>
    BY DEF FinishAbort
  <2> QED
    BY <1>0, <1>2, <1>3, <1>4, <1>5, <1>6, <2>1, <2>2, ProceedKeepsTrips
       DEF Proceed
<1>7. CASE Crash
  BY <1>0, <1>7, CrashStep, CoherentFrame DEF db, history
<1>8. CASE OtherServices
  BY <1>0, <1>8, OthersStep, CoherentFrame
<1>9. CASE UNCHANGED vars
  BY <1>0, <1>9, CoherentFrame DEF vars, db, history
<1> QED
  BY <1>1, <1>6, <1>7, <1>8, <1>9 DEF Next

(* A trip no administrator touched is completed exactly when it is signed  *)
(* and has an endKm, below its startKm by the rounding at most, however    *)
(* finishes raced on it.                                                   *)
THEOREM UneditedTripsCoherent == Spec => []UneditedTripCoherent
<1>1. CoherentInv => UneditedTripCoherent
  BY DEF CoherentInv
<1> QED
  BY <1>1, CoherentInit, CoherentStep, PTL DEF Spec

-----------------------------------------------------------------------------
(* Rows: which rows a trip rests on: its truck, its points, and the survey *)
(* it was started after.                                                   *)

(* RowsReferToRows and StartedAfterSurvey are inductive together with the  *)
(* types, a truck for every trip, and what SurveyedByNow says of a handler *)
(* that is past the check of the survey.                                   *)
TripHasTruck == \A t \in TripIds : TripExists(t) => trip[t].truck \in Trucks

RowsInv ==
  /\ TypeOK /\ HandlersReady
  /\ TripHasTruck /\ RowsReferToRows
  /\ SurveyedByNow /\ StartedAfterSurvey

LEMMA RowsInit == Init => RowsInv
<1> SUFFICES ASSUME Init PROVE RowsInv
  OBVIOUS
<1>1. NoTrip.status = "NONE" /\ Idle.pc = "idle"
  BY DEF NoTrip, Idle
<1>2. \A t \in TripIds : ~TripExists(t) /\ points[t] = 0
  BY <1>1 DEF Init, TripExists
<1>3. SurveyedByNow
  BY <1>1 DEF Init, SurveyedByNow, At
<1> QED
  BY <1>2, <1>3, TypeInit
     DEF RowsInv, TripHasTruck, RowsReferToRows, StartedAfterSurvey

(* Steps that leave trips and points alone, lose no truck a trip has and   *)
(* no survey from the past.                                                *)
LEMMA RowsFrame ==
  ASSUME RowsInv, TypeOK', HandlersReady',
         trip' = trip, points' = points, edited' = edited,
         \A v \in Trucks : TruckExists(v) =>
           truck'[v].status # "NONE" \/ Unreferenced(v),
         surveyed \subseteq surveyed', surveys' \subseteq surveyed',
         \A r \in Requests : req'[r].pc = "create" =>
           \/ req'[r] = req[r]
           \/ <<req'[r].truck, req'[r].day>> \in surveyed'
  PROVE  RowsInv'
<1>1. TripHasTruck'
  BY DEF RowsInv, TripHasTruck, TripExists
<1>2. RowsReferToRows'
  BY DEF RowsInv, TripHasTruck, RowsReferToRows, TripExists, TruckExists,
         Unreferenced
<1>3. SurveyedByNow'
  BY DEF RowsInv, SurveyedByNow, At
<1>4. StartedAfterSurvey'
  BY DEF RowsInv, StartedAfterSurvey, TripExists
<1> QED
  BY <1>1, <1>2, <1>3, <1>4 DEF RowsInv

(* Steps that write one trip or its points.                                *)
LEMMA RowsWrite ==
  ASSUME RowsInv, TypeOK', HandlersReady',
         NEW t \in TripIds, NEW row \in TripRow, NEW r \in Requests,
         trip' = [trip EXCEPT ![t] = row],
         \A u \in TripIds \ {t} : points'[u] = points[u],
         points'[t] > 0 => row.status # "NONE",
         row.status # "NONE" => row.truck \in Trucks /\ TruckExists(row.truck),
         \A v \in Trucks : truck'[v].status = truck[v].status,
         surveys' = surveys, surveyed' = surveyed, edited \subseteq edited',
         row.status # "NONE" /\ t \notin edited' =>
           <<row.truck, row.day>> \in surveyed,
         req'[r].pc # "create",
         \A s \in Requests \ {r} : req'[s] = req[s]
  PROVE  RowsInv'
<1>1. /\ trip'[t] = row
      /\ \A u \in TripIds \ {t} : trip'[u] = trip[u]
  BY DEF RowsInv, TypeOK
<1>2. TripHasTruck'
  BY <1>1 DEF RowsInv, TripHasTruck, TripExists
<1>3. RowsReferToRows'
  <2> SUFFICES ASSUME NEW u \in TripIds
               PROVE  /\ points'[u] > 0 => trip'[u].status # "NONE"
                      /\ trip'[u].status # "NONE" =>
                           truck'[trip'[u].truck].status # "NONE"
    BY DEF RowsReferToRows, TripExists, TruckExists
  <2>1. CASE u = t
    BY <1>1, <2>1 DEF TruckExists
  <2>2. CASE u # t
    BY <1>1, <2>2
       DEF RowsInv, TripHasTruck, RowsReferToRows, TripExists, TruckExists
  <2> QED
    BY <2>1, <2>2
<1>4. SurveyedByNow'
  BY DEF RowsInv, SurveyedByNow, At
<1>5. StartedAfterSurvey'
  BY <1>1 DEF RowsInv, StartedAfterSurvey, TripExists
<1> QED
  BY <1>2, <1>3, <1>4, <1>5 DEF RowsInv

LEMMA RowsStep == RowsInv /\ [Next]_vars => RowsInv'
<1> SUFFICES ASSUME RowsInv, [Next]_vars PROVE RowsInv'
  OBVIOUS
<1>0. /\ TypeOK /\ HandlersReady /\ TypeOK' /\ HandlersReady'
      /\ req \in [Requests -> Handler] /\ trip \in [TripIds -> TripRow]
      /\ surveys \subseteq surveyed
  BY TypeStep DEF RowsInv, TypeOK, SurveyedByNow
<1>1. ASSUME NEW r \in Requests, Arrive(r) PROVE RowsInv'
  <2>1. ArrivedWith(r) /\ UNCHANGED <<db, objects, issued, history>>
    BY <1>0, <1>1, ArriveStep
  <2> QED
    BY <1>0, <2>1, RowsFrame DEF ArrivedWith, db, history, TruckExists
<1>2. ASSUME NEW r \in Requests, StartCheckSurvey(r) PROVE RowsInv'
  <2>1. /\ Goto(r, "create") /\ UNCHANGED <<db, objects, issued, history>>
        /\ <<req[r].truck, req[r].day>> \in surveys
    BY <1>2 DEF StartCheckSurvey, SurveyDone
  <2>2. /\ req'[r].truck = req[r].truck /\ req'[r].day = req[r].day
        /\ \A s \in Requests \ {r} : req'[s] = req[s]
    BY <1>0, <2>1, GotoStep DEF Pc
  <2> QED
    BY <1>0, <2>1, <2>2, RowsFrame DEF db, history, TruckExists
<1>3. ASSUME NEW r \in Requests, NEW t \in TripIds, StartCreate(r, t)
      PROVE  RowsInv'
  <2> DEFINE row == NewTrip(req[r])
  <2>1. /\ At(r, "create") /\ TruckExists(req[r].truck) /\ Return(r)
        /\ trip' = [trip EXCEPT ![t] = row]
        /\ UNCHANGED <<points, truck, surveys, history>>
    BY <1>3 DEF StartCreate
  <2>2. /\ row \in TripRow /\ row.status # "NONE"
        /\ row.truck = req[r].truck /\ row.day = req[r].day
    BY <1>0, NewTripRow DEF NewTrip
  <2>3. /\ row.truck \in Trucks
        /\ <<row.truck, row.day>> \in surveyed
    BY <1>0, <2>1, <2>2
       DEF RowsInv, SurveyedByNow, HandlersReady, At, Handler, Optional
  <2> HIDE DEF row
  <2> QED
    BY <1>0, <2>1, <2>2, <2>3, ReturnStep, RowsWrite DEF history
<1>4. ASSUME NEW r \in Requests, AddPointsInsert(r) PROVE RowsInv'
  <2> DEFINE t == req[r].trip  row == trip[t]
  <2>1. /\ At(r, "insert") /\ TripExists(t) /\ Return(r)
        /\ points' = [points EXCEPT ![t] = @ + 1] /\ trip' = trip
        /\ UNCHANGED <<truck, surveys, history>>
    BY <1>4 DEF AddPointsInsert, AcceptsPoints
  <2>2. t \in TripIds
    BY <1>0, <2>1 DEF HandlersReady, At, TypeOK
  <2>3. trip' = [trip EXCEPT ![t] = row] /\ row \in TripRow /\ row.status # "NONE"
    BY <1>0, <2>1, <2>2 DEF TripExists
  <2>4. \A u \in TripIds \ {t} : points'[u] = points[u]
    BY <1>0, <2>1, <2>2 DEF TypeOK
  <2>5. /\ row.truck \in Trucks /\ TruckExists(row.truck)
        /\ t \notin edited => <<row.truck, row.day>> \in surveyed
    BY <2>1, <2>2
       DEF RowsInv, TripHasTruck, RowsReferToRows, StartedAfterSurvey
  <2> HIDE DEF t, row
  <2> QED
    BY <1>0, <2>1, <2>2, <2>3, <2>4, <2>5, ReturnStep, RowsWrite
       DEF history
<1>5. ASSUME NEW r \in Requests, FinishWrites(r), FinishCommit(r) \/ FinishAbort(r)
      PROVE  RowsInv'
  <2> DEFINE t == req[r].trip  row == Finished(trip[t], req[r])
  <2>1. /\ At(r, "commit") /\ (Return(r) \/ Goto(r, "cleanup")) /\ TripExists(t)
        /\ trip' = [trip EXCEPT ![t] = row]
        /\ points' = [points EXCEPT ![t] = @ + req[r].points]
        /\ truck' = [truck EXCEPT ![req[r].truck].km = req[r].km]
        /\ UNCHANGED <<surveys, edited, surveyed>>
    BY <1>5 DEF FinishCommit, FinishAbort, FinishWrites
  <2>2. t \in TripIds
    BY <1>0, <2>1 DEF HandlersReady, At, TypeOK
  <2>3. /\ row \in TripRow /\ row.status = "COMPLETED"
        /\ row.truck = trip[t].truck /\ row.day = trip[t].day
    BY <1>0, <2>2, FinishedRow
  <2>4. \A u \in TripIds \ {t} : points'[u] = points[u]
    BY <1>0, <2>1, <2>2 DEF TypeOK
  <2>5. \A v \in Trucks : truck'[v].status = truck[v].status
    BY <1>0, <2>1 DEF TypeOK
  <2>6. /\ trip[t].truck \in Trucks /\ TruckExists(trip[t].truck)
        /\ t \notin edited => <<trip[t].truck, trip[t].day>> \in surveyed
    BY <2>1, <2>2
       DEF RowsInv, TripHasTruck, RowsReferToRows, StartedAfterSurvey
  <2>7. /\ req'[r].pc \in {"idle", "cleanup"}
        /\ \A s \in Requests \ {r} : req'[s] = req[s]
    BY <1>0, <2>1, ReturnStep, GotoStep DEF Pc
  <2> HIDE DEF t, row
  <2> QED
    BY <1>0, <2>1, <2>2, <2>3, <2>4, <2>5, <2>6, <2>7, RowsWrite
<1>6. ASSUME NEW r \in Requests, UpdateWrite(r) PROVE RowsInv'
  <2> DEFINE t == req[r].trip  e == req[r].edit  row == Apply(trip[t], e)
  <2>1. /\ At(r, "update") /\ TripExists(t) /\ Return(r)
        /\ e.truck # NULL => TruckExists(e.truck)
        /\ trip' = [trip EXCEPT ![t] = row] /\ edited' = edited \cup {t}
        /\ UNCHANGED <<points, truck, surveys, surveyed>>
    BY <1>6 DEF UpdateWrite
  <2>2. t \in TripIds /\ e \in Edit
    BY <1>0, <2>1, TripConstants
       DEF HandlersReady, At, TypeOK, Handler, Optional
  <2>3. row \in TripRow /\ row.status # "NONE"
    BY <1>0, <2>1, <2>2, AppliedRow DEF TripExists
  <2>4. row.truck = Given(e.truck, trip[t].truck)
    BY <1>0, <2>2 DEF Apply, TripRow
  <2>5. trip[t].truck \in Trucks /\ TruckExists(trip[t].truck)
    BY <2>1, <2>2 DEF RowsInv, TripHasTruck, RowsReferToRows
  <2>6. row.truck \in Trucks /\ TruckExists(row.truck)
    BY <2>1, <2>2, <2>4, <2>5 DEF Given, Edit, Optional
  <2> HIDE DEF t, e, row
  <2> QED
    BY <1>0, <2>1, <2>2, <2>3, <2>6, ReturnStep, RowsWrite
<1>7. ASSUME NEW r \in Requests, RemoveRow(r) PROVE RowsInv'
  <2> DEFINE t == req[r].trip
  <2>1. /\ At(r, "delete") /\ (Return(r) \/ Goto(r, "collect"))
        /\ trip' = [trip EXCEPT ![t] = NoTrip]
        /\ points' = [points EXCEPT ![t] = 0]
        /\ UNCHANGED <<truck, surveys, history>>
    BY <1>7 DEF RemoveRow
  <2>2. t \in TripIds /\ NoTrip.status = "NONE"
    BY <1>0, <2>1 DEF HandlersReady, At, TypeOK, NoTrip
  <2>3. ~(points'[t] > 0) /\ \A u \in TripIds \ {t} : points'[u] = points[u]
    BY <1>0, <2>1, <2>2 DEF TypeOK
  <2>4. /\ req'[r].pc \in {"idle", "collect"}
        /\ \A s \in Requests \ {r} : req'[s] = req[s]
    BY <1>0, <2>1, ReturnStep, GotoStep DEF Pc
  <2> HIDE DEF t
  <2> QED
    BY <1>0, <2>1, <2>2, <2>3, <2>4, NoTripTyped, RowsWrite DEF history
<1>8. ASSUME NEW r \in Requests,
             \/ FinishMeasure(r) \/ FinishUpload(r) \/ FinishUploadFails(r)
             \/ FinishCleanup(r) \/ RemoveCollect(r) \/ Reject(r)
             \/ FinishAbort(r) /\ UNCHANGED <<db, objects, issued, history>>
      PROVE  RowsInv'
  <2>1. UNCHANGED <<db, history>>
    BY <1>8 DEF FinishMeasure, FinishUpload, FinishUploadFails, FinishCleanup,
                RemoveCollect, Reject
  <2>2. req'[r].pc # "create" /\ \A s \in Requests \ {r} : req'[s] = req[s]
    <3>1. CASE FinishMeasure(r)
      BY <1>0, <3>1, MeasureTyped DEF FinishMeasure, At
    <3>2. CASE FinishUpload(r)
      BY <1>0, <3>2, UploadStep DEF FinishUpload, At
    <3>3. CASE ~FinishMeasure(r) /\ ~FinishUpload(r)
      <4>1. Return(r) \/ Goto(r, "cleanup")
        BY <1>8, <3>3 DEF FinishUploadFails, FinishCleanup, RemoveCollect,
                          Reject, FinishAbort
      <4> QED
        BY <1>0, <4>1, ReturnStep, GotoStep DEF Pc
    <3> QED
      BY <3>1, <3>2, <3>3
  <2> QED
    BY <1>0, <2>1, <2>2, RowsFrame DEF db, history, TruckExists
<1>9. ASSUME NEW r \in Requests, Proceed(r) PROVE RowsInv'
  <2>1. FinishCommit(r) => FinishWrites(r)
    BY DEF FinishCommit
  <2>2. FinishAbort(r) =>
          FinishWrites(r) \/ UNCHANGED <<db, objects, issued, history>>
    BY DEF FinishAbort
  <2> QED
    BY <1>2, <1>3, <1>4, <1>5, <1>6, <1>7, <1>8, <1>9, <2>1, <2>2 DEF Proceed
<1>10. CASE Crash
  BY <1>0, <1>10, CrashStep, RowsFrame DEF db, history, TruckExists
<1>11. CASE OtherServices
  <2>1. UNCHANGED <<trip, points, req, edited>>
    BY <1>0, <1>11, OthersStep
  <2>2. surveyed \subseteq surveyed' /\ surveys' \subseteq surveyed'
    BY <1>0, <1>11 DEF OtherServices, TruckSaved, TruckRemoved, SurveyFiled,
                       SurveyRemoved, history
  <2>3. ASSUME NEW v \in Trucks, TruckExists(v)
        PROVE  truck'[v].status # "NONE" \/ Unreferenced(v)
    <3>0. truck \in [Trucks -> [status : TruckStatus \cup {"NONE"}, km : Km]]
      BY <1>0 DEF TypeOK
    <3>1. ASSUME NEW w \in Trucks, NEW status \in TruckStatus, NEW km \in Km,
                 TruckSaved(w, status, km)
          PROVE  truck'[v].status # "NONE"
      BY <2>3, <3>0, <3>1 DEF TruckSaved, TruckExists, TruckStatus
    <3>2. ASSUME NEW w \in Trucks, TruckRemoved(w), ~Unreferenced(v)
          PROVE  truck'[v].status # "NONE"
      BY <2>3, <3>0, <3>2 DEF TruckRemoved, TruckExists
    <3>3. ASSUME NEW w \in Trucks, NEW day \in Days, NEW km \in Km,
                 SurveyFiled(w, day, km)
          PROVE  truck'[v].status # "NONE"
      BY <2>3, <3>0, <3>3 DEF SurveyFiled, TruckExists
    <3>4. ASSUME NEW w \in Trucks, NEW day \in Days, SurveyRemoved(w, day)
          PROVE  truck'[v].status # "NONE"
      BY <2>3, <3>4 DEF SurveyRemoved, TruckExists
    <3> QED
      BY <1>11, <3>1, <3>2, <3>3, <3>4 DEF OtherServices
  <2> QED
    BY <1>0, <2>1, <2>2, <2>3, RowsFrame
<1>12. CASE UNCHANGED vars
  BY <1>0, <1>12, RowsFrame DEF vars, db, history, TruckExists
<1> QED
  BY <1>1, <1>9, <1>10, <1>11, <1>12 DEF Next

(* GPS points belong to a trip that exists and a trip to a truck that      *)
(* exists, whatever is removed while handlers that read it wait.           *)
THEOREM RowsStayReferenced == Spec => []RowsReferToRows
<1>1. RowsInv => RowsReferToRows
  BY DEF RowsInv
<1> QED
  BY <1>1, RowsInit, RowsStep, PTL DEF Spec

(* A trip no administrator edited was started after a survey of its truck  *)
(* and its day, also when the survey is deleted while startTrip waits.     *)
THEOREM TripsStartAfterSurvey == Spec => []StartedAfterSurvey
<1>1. RowsInv => StartedAfterSurvey
  BY DEF RowsInv
<1> QED
  BY <1>1, RowsInit, RowsStep, PTL DEF Spec
=============================================================================
