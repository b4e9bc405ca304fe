---------------------------- MODULE TripHistory ----------------------------
(***************************************************************************)
(* The life of a trip: TripHistoryService.startTrip, addPoints, finishTrip,*)
(* updateByAdmin and remove, over the rows of Postgres and the signature   *)
(* images in S3.                                                           *)
(*                                                                         *)
(* A request is a handler in flight.  It runs alone between two awaits and *)
(* any other request may run while it waits, so there is one action per    *)
(* awaited call that reads or writes what another request can change, and  *)
(* what a handler read before an await stays in its record req[r].  A      *)
(* $transaction of unconditional writes commits in one step.               *)
(*                                                                         *)
(* Abstractions: kilometres are small naturals, Grain of them to a metre,  *)
(* and the length of a route is any value the points allow; GPS points are *)
(* counted; destination, employee and times of a trip are left out         *)
(* (choosing them can only reject the request); a refused request changes  *)
(* nothing and is a stutter; a survey moved to another truck or day is     *)
(* SurveyRemoved and SurveyFiled; fields cleared with a JSON null and the  *)
(* deletion of a driver's account are left out.                            *)
(***************************************************************************)
EXTENDS Integers, FiniteSets

CONSTANTS
  Requests,   \* handlers that can be in flight together
  TripIds,    \* values of the TripHistory id sequence
  Trucks, Drivers, Days,
  Keys,       \* S3 keys buildSignatureKey can produce
  MaxKm,      \* bound: odometer readings are 0..MaxKm
  Grain,      \* readings to the third decimal, where finishTrip rounds
  MaxPoints,  \* bound: GPS points stored for one trip
  Edits,      \* bodies of PATCH /trip-history/:id that are considered
  Faults,     \* what may go wrong outside the handlers
  NULL

Km == 0..MaxKm
TripStatus == {"DRIVER_FILLING", "EMPLOYEE_SIGNED", "COMPLETED"}
TruckStatus == {"ACTIVE", "INACTIVE"}
Optional(S) == S \cup {NULL}

(* UpdateTripHistoryDto: NULL is a field the body leaves out.              *)
Edit == [status : Optional(TripStatus), startKm : Optional(Km),
         endKm : Optional(Km), truck : Optional(Trucks),
         driver : Optional(Drivers)]

AllFaults == {"crash",       \* the Node process restarts
              "lostPut",     \* S3 stores the image but the upload throws
              "lostDelete",  \* deleteObject fails and swallows the error
              "lostCommit"}  \* the commit's answer never arrives

ASSUME TripConstants ==
  /\ MaxKm \in Nat /\ MaxPoints \in Nat /\ Grain \in Nat \ {0}
  /\ Edits \subseteq Edit
  /\ Faults \subseteq AllFaults
  /\ NULL \notin Keys \cup Trucks \cup Drivers \cup Days \cup TripIds
  /\ NULL \notin Km /\ NULL \notin Edits

VARIABLES
  trip,      \* TripHistory rows, by id
  created,   \* ids the sequence has given out
  points,    \* how many TripHistoryPoint rows each trip has
  truck,     \* Truck rows: status and mileage
  surveys,   \* <<truck, day>> pairs that have a DailyMaintenanceRecord
  objects,   \* keys present in the bucket
  issued,    \* keys buildSignatureKey has produced
  req,       \* the handlers in flight
  linked,    \* history: keys some row has named
  edited,    \* history: trips an administrator has changed
  surveyed   \* history: pairs that have ever had a survey

db == <<trip, created, points, truck, surveys>>
history == <<linked, edited, surveyed>>
vars == <<db, objects, issued, req, history>>

-----------------------------------------------------------------------------
(* Rows and handlers                                                       *)

NoTrip == [status |-> "NONE", truck |-> NULL, driver |-> NULL, day |-> NULL,
           startKm |-> 0, endKm |-> NULL, signature |-> NULL]

TripRow == [status : TripStatus \cup {"NONE"}, truck : Optional(Trucks),
            driver : Optional(Drivers), day : Optional(Days), startKm : Km,
            endKm : Optional(Km), signature : Optional(Keys)]

NoTruck == [status |-> "NONE", km |-> 0]

TripExists(t) == trip[t].status # "NONE"
TruckExists(v) == truck[v].status # "NONE"

Pc == {"idle", "survey", "create",                     \* startTrip
       "insert",                                       \* addPoints
       "measure", "upload", "commit", "cleanup",       \* finishTrip
       "update",                                       \* updateByAdmin
       "delete", "collect"}                            \* remove

Idle == [pc |-> "idle", trip |-> NULL, truck |-> NULL, driver |-> NULL,
         day |-> NULL, km |-> 0, points |-> 0, key |-> NULL, edit |-> NULL]

Handler == [pc : Pc, trip : Optional(TripIds), truck : Optional(Trucks),
            driver : Optional(Drivers), day : Optional(Days), km : Km,
            points : 0..MaxPoints, key : Optional(Keys), edit : Optional(Edits)]

At(r, pc) == req[r].pc = pc
Become(r, handler) == req' = [req EXCEPT ![r] = handler]
Goto(r, pc) == Become(r, [req[r] EXCEPT !.pc = pc])
Return(r) == Become(r, Idle)

Init ==
  /\ trip = [t \in TripIds |-> NoTrip]
  /\ created = {}
  /\ points = [t \in TripIds |-> 0]
  /\ truck = [v \in Trucks |-> [status |-> "ACTIVE", km |-> 0]]
  /\ surveys = {}
  /\ objects = {}
  /\ issued = {}
  /\ req = [r \in Requests |-> Idle]
  /\ linked = {}
  /\ edited = {}
  /\ surveyed = {}

-----------------------------------------------------------------------------
(* POST /trip-history/start                                                *)

(* The truck row is read by plate and must be ACTIVE; its mileage, read    *)
(* here, becomes the trip's startKm.                                       *)
StartRead(r, d, v, day) ==
  /\ At(r, "idle")
  /\ truck[v].status = "ACTIVE"
  /\ Become(r, [Idle EXCEPT !.pc = "survey", !.driver = d, !.truck = v,
                            !.day = day, !.km = truck[v].km])
  /\ UNCHANGED <<db, objects, issued, history>>

(* Wrong: a survey of any truck will do.                                   *)
BugSurveyAnyTruck(v, day) == \E other \in Trucks : <<other, day>> \in surveys

SurveyDone(v, day) == <<v, day>> \in surveys

StartCheckSurvey(r) ==
  /\ At(r, "survey")
  /\ SurveyDone(req[r].truck, req[r].day)
  /\ Goto(r, "create")
  /\ UNCHANGED <<db, objects, issued, history>>

NewTrip(q) == [status |-> "DRIVER_FILLING", truck |-> q.truck,
               driver |-> q.driver, day |-> q.day, startKm |-> q.km,
               endKm |-> NULL, signature |-> NULL]

StartCreate(r, t) ==
  /\ At(r, "create")
  /\ t \notin created
  /\ TruckExists(req[r].truck)
  /\ trip' = [trip EXCEPT ![t] = NewTrip(req[r])]
  /\ created' = created \cup {t}
  /\ Return(r)
  /\ UNCHANGED <<points, truck, surveys, objects, issued, history>>

-----------------------------------------------------------------------------
(* POST /trip-history/:id/points                                           *)

(* The check addPoints and finishTrip make of the row they read.           *)
OpenFor(t, d) == trip[t].status = "DRIVER_FILLING" /\ trip[t].driver = d

AddPointsRead(r, d, t) ==
  /\ At(r, "idle")
  /\ OpenFor(t, d)
  /\ Become(r, [Idle EXCEPT !.pc = "insert", !.trip = t])
  /\ UNCHANGED <<db, objects, issued, history>>

(* Wrong: the points table without its foreign key.                        *)
BugAcceptsAnyPoints(t) == TRUE

(* The foreign key of TripHistoryPoint: points go only to a trip that is   *)
(* still there.                                                            *)
AcceptsPoints(t) == TripExists(t)

AddPointsInsert(r) ==
  LET t == req[r].trip IN
  /\ At(r, "insert")
  /\ AcceptsPoints(t)
  /\ points[t] < MaxPoints
  /\ points' = [points EXCEPT ![t] = @ + 1]
  /\ Return(r)
  /\ UNCHANGED <<trip, created, truck, surveys, objects, issued, history>>

-----------------------------------------------------------------------------
(* POST /trip-history/:id/finish                                           *)

FinishRead(r, d, t) ==
  /\ At(r, "idle")
  /\ OpenFor(t, d)
  /\ Become(r, [Idle EXCEPT !.pc = "measure", !.trip = t, !.km = trip[t].startKm,
                            !.truck = trip[t].truck])
  /\ UNCHANGED <<db, objects, issued, history>>

(* The lengths a route of n points can have, on the snapped points or, when*)
(* the Roads call throws, on the raw ones.                                 *)
RouteKm(n) == IF n < 2 THEN {0} ELSE Km

(* toFixed(3): the nearest reading of three decimals, up from the middle.  *)
Rounded(km) == {y \in Km : /\ y % Grain = 0
                           /\ 2 * (km - y) < Grain
                           /\ 2 * (y - km) <= Grain}

(* The stored points are read, the final ones of the body appended, and    *)
(* endKm is the startKm read earlier plus the length of that route.        *)
FinishMeasure(r) ==
  LET t == req[r].trip IN
  /\ At(r, "measure")
  /\ \E final \in 0..MaxPoints :
       \E route \in RouteKm(points[t] + final) :
         \E end \in Rounded(req[r].km + route) :
           Become(r, [req[r] EXCEPT !.pc = "upload", !.points = final,
                                    !.km = end])
  /\ UNCHANGED <<db, objects, issued, history>>

(* Wrong: a key built without the random UUID can come again.              *)
BugKeysRepeat == Keys

(* buildSignatureKey puts a random UUID in the key: it was never used.     *)
FreshKeys == Keys \ issued

FinishUpload(r) ==
  /\ At(r, "upload")
  /\ \E k \in FreshKeys :
       /\ issued' = issued \cup {k}
       /\ objects' = objects \cup {k}
       /\ Become(r, [req[r] EXCEPT !.pc = "commit", !.key = k])
  /\ UNCHANGED <<db, history>>

(* The upload throws outside the try block: the request ends at once.      *)
FinishUploadFails(r) ==
  /\ At(r, "upload")
  /\ \E k \in FreshKeys :
       /\ issued' = issued \cup {k}
       /\ \/ UNCHANGED objects
          \/ "lostPut" \in Faults /\ objects' = objects \cup {k}
  /\ Return(r)
  /\ UNCHANGED <<db, history>>

(* Wrong: the transaction completes the trip and forgets its endKm.        *)
BugFinishedWithoutKm(row, q) == [row EXCEPT !.status = "COMPLETED",
                                            !.signature = q.key]

Finished(row, q) == [row EXCEPT !.status = "COMPLETED", !.endKm = q.km,
                                !.signature = q.key]

(* The transaction: final points, trip row and truck mileage.  It updates  *)
(* by id, whatever the status of the row has become since it was read.     *)
FinishWrites(r) ==
  LET q == req[r]  t == q.trip IN
  /\ TripExists(t)
  /\ TruckExists(q.truck)
  /\ points[t] + q.points <= MaxPoints
  /\ points' = [points EXCEPT ![t] = @ + q.points]
  /\ trip' = [trip EXCEPT ![t] = Finished(@, q)]
  /\ truck' = [truck EXCEPT ![q.truck].km = q.km]
  /\ linked' = linked \cup {q.key}
  /\ UNCHANGED <<created, surveys, objects, issued, edited, surveyed>>

FinishCommit(r) ==
  /\ At(r, "commit")
  /\ FinishWrites(r)
  /\ Return(r)

(* Wrong: a finish without its catch block.                                *)
BugAbortKeepsImage(r) ==
  /\ At(r, "commit")
  /\ Return(r)
  /\ UNCHANGED <<db, objects, issued, history>>

(* The catch block: the transaction threw and the image is deleted.  The   *)
(* transaction can also have committed if only its answer was lost.        *)
FinishAbort(r) ==
  /\ At(r, "commit")
  /\ Goto(r, "cleanup")
  /\ \/ UNCHANGED <<db, objects, issued, history>>
     \/ "lostCommit" \in Faults /\ FinishWrites(r)

(* S3Service.deleteObject never throws.                                    *)
DeleteObject(k) ==
  \/ objects' = objects \ {k}
  \/ "lostDelete" \in Faults /\ UNCHANGED objects

FinishCleanup(r) ==
  /\ At(r, "cleanup")
  /\ DeleteObject(req[r].key)
  /\ Return(r)
  /\ UNCHANGED <<db, issued, history>>

-----------------------------------------------------------------------------
(* PATCH /trip-history/:id                                                 *)

Given(new, old) == IF new = NULL THEN old ELSE new

(* The only check made of the numbers, against the row as it is now.       *)
KmOrdered(row, e) ==
  LET start == Given(e.startKm, row.startKm)
      end == Given(e.endKm, row.endKm)
  IN end # NULL => end >= start

UpdateRead(r, t, e) ==
  /\ At(r, "idle")
  /\ TripExists(t)
  /\ KmOrdered(trip[t], e)
  /\ e.truck # NULL => TruckExists(e.truck)
  /\ Become(r, [Idle EXCEPT !.pc = "update", !.trip = t, !.edit = e])
  /\ UNCHANGED <<db, objects, issued, history>>

(* Wrong: the status written even when the body leaves it out.             *)
BugApplyAbsent(row, e) == [row EXCEPT !.status = e.status,
                                      !.endKm = Given(e.endKm, @)]

Apply(row, e) == [row EXCEPT !.status = Given(e.status, @),
                             !.startKm = Given(e.startKm, @),
                             !.endKm = Given(e.endKm, @),
                             !.truck = Given(e.truck, @),
                             !.driver = Given(e.driver, @)]

UpdateWrite(r) ==
  LET t == req[r].trip  e == req[r].edit IN
  /\ At(r, "update")
  /\ TripExists(t)
  /\ e.truck # NULL => TruckExists(e.truck)
  /\ trip' = [trip EXCEPT ![t] = Apply(@, e)]
  /\ edited' = edited \cup {t}
  /\ Return(r)
  /\ UNCHANGED <<created, points, truck, surveys, objects, issued,
                 linked, surveyed>>

-----------------------------------------------------------------------------
(* DELETE /trip-history/:id                                                *)

RemoveRead(r, t) ==
  /\ At(r, "idle")
  /\ TripExists(t)
  /\ Become(r, [Idle EXCEPT !.pc = "delete", !.trip = t,
                            !.key = trip[t].signature])
  /\ UNCHANGED <<db, objects, issued, history>>

(* The points go with the row; the image read earlier is collected after.  *)
RemoveRow(r) ==
  LET t == req[r].trip IN
  /\ At(r, "delete")
  /\ TripExists(t)
  /\ trip' = [trip EXCEPT ![t] = NoTrip]
  /\ points' = [points EXCEPT ![t] = 0]
  /\ IF req[r].key = NULL THEN Return(r) ELSE Goto(r, "collect")
  /\ UNCHANGED <<created, truck, surveys, objects, issued, history>>

RemoveCollect(r) ==
  /\ At(r, "collect")
  /\ DeleteObject(req[r].key)
  /\ Return(r)
  /\ UNCHANGED <<db, issued, history>>

-----------------------------------------------------------------------------
(* A handler that has no catch block ends with an error: a row it needs is *)
(* gone (P2025, P2003), a later check rejects it, the database fails.      *)
Reject(r) ==
  /\ req[r].pc \in {"survey", "create", "insert", "measure", "update", "delete"}
  /\ Return(r)
  /\ UNCHANGED <<db, objects, issued, history>>

(* The process dies with every handler it was running.                     *)
Crash ==
  /\ "crash" \in Faults
  /\ \E r \in Requests : ~At(r, "idle")
  /\ req' = [r \in Requests |-> Idle]
  /\ UNCHANGED <<db, objects, issued, history>>

-----------------------------------------------------------------------------
(* The other services, as far as trips see them: they write a truck's      *)
(* status and mileage and file or delete surveys at any time.              *)

TruckSaved(v, status, km) ==
  /\ TruckExists(v)
  /\ truck' = [truck EXCEPT ![v] = [status |-> status, km |-> km]]
  /\ UNCHANGED <<trip, created, points, surveys, objects, issued, req, history>>

(* The foreign key TripHistory.truckId restricts the delete; surveys go    *)
(* with the truck.                                                         *)
Unreferenced(v) == \A t \in TripIds : trip[t].truck # v

TruckRemoved(v) ==
  /\ TruckExists(v)
  /\ Unreferenced(v)
  /\ truck' = [truck EXCEPT ![v] = NoTruck]
  /\ surveys' = {s \in surveys : s[1] # v}
  /\ UNCHANGED <<trip, created, points, objects, issued, req, history>>

(* A survey carries the truck's mileage with it.                           *)
SurveyFiled(v, day, km) ==
  /\ TruckExists(v)
  /\ surveys' = surveys \cup {<<v, day>>}
  /\ surveyed' = surveyed \cup {<<v, day>>}
  /\ truck' = [truck EXCEPT ![v].km = km]
  /\ UNCHANGED <<trip, created, points, objects, issued, req, linked, edited>>

SurveyRemoved(v, day) ==
  /\ <<v, day>> \in surveys
  /\ surveys' = surveys \ {<<v, day>>}
  /\ UNCHANGED <<trip, created, points, truck, objects, issued, req, history>>

-----------------------------------------------------------------------------
Arrive(r) ==
  \/ \E d \in Drivers, v \in Trucks, day \in Days : StartRead(r, d, v, day)
  \/ \E d \in Drivers, t \in TripIds : AddPointsRead(r, d, t) \/ FinishRead(r, d, t)
  \/ \E t \in TripIds, e \in Edits : UpdateRead(r, t, e)
  \/ \E t \in TripIds : RemoveRead(r, t)

Proceed(r) ==
  \/ StartCheckSurvey(r)
  \/ \E t \in TripIds : StartCreate(r, t)
  \/ AddPointsInsert(r)
  \/ FinishMeasure(r) \/ FinishUpload(r) \/ FinishUploadFails(r)
  \/ FinishCommit(r) \/ FinishAbort(r) \/ FinishCleanup(r)
  \/ UpdateWrite(r)
  \/ RemoveRow(r) \/ RemoveCollect(r)
  \/ Reject(r)

OtherServices ==
  \/ \E v \in Trucks, status \in TruckStatus, km \in Km : TruckSaved(v, status, km)
  \/ \E v \in Trucks : TruckRemoved(v)
  \/ \E v \in Trucks, day \in Days, km \in Km : SurveyFiled(v, day, km)
  \/ \E v \in Trucks, day \in Days : SurveyRemoved(v, day)

Next ==
  \/ \E r \in Requests : Arrive(r) \/ Proceed(r)
  \/ Crash
  \/ OtherServices

Spec == Init /\ [][Next]_vars

(* Awaited calls return: a handler in flight is continued.  Requests and   *)
(* the other services need never act.                                      *)
FairSpec == Spec /\ \A r \in Requests : WF_vars(Proceed(r))

-----------------------------------------------------------------------------
(* Properties                                                              *)

(* Rows, handlers and history stay in their types.                         *)
TypeOK ==
  /\ trip \in [TripIds -> TripRow]
  /\ created \subseteq TripIds
  /\ points \in [TripIds -> 0..MaxPoints]
  /\ truck \in [Trucks -> [status : TruckStatus \cup {"NONE"}, km : Km]]
  /\ surveys \subseteq Trucks \X Days
  /\ objects \subseteq Keys
  /\ issued \subseteq Keys
  /\ req \in [Requests -> Handler]
  /\ linked \subseteq Keys
  /\ edited \subseteq TripIds
  /\ surveyed \subseteq Trucks \X Days

(* A signature a trip names can be downloaded: while finishes of one trip  *)
(* overlap, fail and are cleaned up, and administrators remove the trip    *)
(* and its image, no handler deletes an image some row still names.        *)
NoDanglingSignature ==
  \A t \in TripIds : trip[t].signature # NULL => trip[t].signature \in objects

(* A trip that no administrator touched tells one story, however many      *)
(* finishes and late points raced on it: it is completed exactly when it   *)
(* is signed and has an endKm, and that endKm is below its startKm by no   *)
(* more than the rounding to three decimals takes off.                     *)
NotBelow(end, start) == 2 * (start - end) < Grain

UneditedTripCoherent ==
  \A t \in TripIds : TripExists(t) /\ t \notin edited =>
    /\ (trip[t].status = "COMPLETED") <=> (trip[t].signature # NULL)
    /\ (trip[t].endKm # NULL) <=> (trip[t].signature # NULL)
    /\ trip[t].endKm # NULL => NotBelow(trip[t].endKm, trip[t].startKm)

(* Rows point to rows: GPS points belong to a trip that exists and a trip  *)
(* to a truck that exists, although trips and trucks are removed while     *)
(* handlers that read them wait.                                           *)
RowsReferToRows ==
  \A t \in TripIds :
    /\ points[t] > 0 => TripExists(t)
    /\ TripExists(t) => TruckExists(trip[t].truck)

(* A trip as the driver started it rests on a daily survey of that truck   *)
(* and that day, filed before the trip (it may have been deleted since).   *)
StartedAfterSurvey ==
  \A t \in TripIds : TripExists(t) /\ t \notin edited =>
    <<trip[t].truck, trip[t].day>> \in surveyed

(* The services implement the life of a stored file: an image a row names  *)
(* without being in the bucket would be in no phase at all.                *)
Named == {trip[t].signature : t \in TripIds} \ {NULL}

Phase(k) ==
  CASE k \in Named -> IF k \in objects THEN "linked" ELSE "dangling"
    [] k \in objects \ Named -> IF k \in linked THEN "unlinked" ELSE "stored"
    [] k \in issued \ (Named \cup objects) -> "deleted"
    [] OTHER -> "unused"

Store == INSTANCE ObjectStore WITH phase <- [k \in Keys |-> Phase(k)]

(* Every signature key goes through ObjectStore's life of a file, in that  *)
(* order and once.                                                         *)
SignaturesFollowStore == Store!Spec

(* An uploaded signature does not stay behind unnoticed: it ends up named  *)
(* by a trip or deleted, also when the transaction fails.  It holds when   *)
(* the process does not crash and S3 answers.                              *)
SignatureSettled ==
  \A k \in Keys : k \in objects ~> (k \in linked \/ k \notin objects)

-----------------------------------------------------------------------------
(* The inductive invariants.  First, what makes TypeOK one: a handler that *)
(* waits for a call holds the values it read for it, and a trip it holds   *)
(* is one the id sequence gave out, so that no later trip can take its     *)
(* place.  Absent rows are empty.                                          *)
HandlersReady ==
  /\ \A t \in TripIds : IF TripExists(t) THEN t \in created ELSE trip[t] = NoTrip
  /\ \A r \in Requests :
       /\ req[r].pc \in {"survey", "create"} => req[r].truck # NULL
       /\ req[r].pc \in {"insert", "measure", "upload", "commit", "cleanup",
                         "update", "delete"} => req[r].trip \in created
       /\ req[r].pc \in {"commit", "cleanup", "collect"} => req[r].key # NULL
       /\ req[r].pc = "update" => req[r].edit # NULL

(* The invariant behind NoDanglingSignature and                  *)
(* SignaturesFollowStore: who may name or delete which key.                *)

Finishing(r) == req[r].pc \in {"commit", "cleanup"}
Removing(r) == req[r].pc \in {"delete", "collect"} /\ req[r].key # NULL

(* Keys are issued before they are stored or named.                        *)
KeysAccounted ==
  /\ Named \subseteq linked
  /\ linked \subseteq issued
  /\ objects \subseteq issued

(* No two trips share a signature.                                         *)
SignatureOnce ==
  \A t, u \in TripIds :
    trip[t].signature = trip[u].signature /\ trip[t].signature # NULL => t = u

(* The key of a finish that uploaded belongs to it alone: no row has named *)
(* it, no other finish or remove holds it, and until the commit is decided *)
(* its image is in the bucket.                                             *)
FinishKeyPrivate ==
  \A r \in Requests : Finishing(r) =>
    /\ req[r].key \in issued \ linked
    /\ At(r, "commit") => req[r].key \in objects
    /\ \A s \in Requests \ {r} :
         Finishing(s) \/ Removing(s) => req[s].key # req[r].key

(* The key a remove holds has been named, and if a row still names it, it  *)
(* is the row the remove is about to delete.                               *)
RemoveKeyOwned ==
  \A r \in Requests : Removing(r) =>
    /\ req[r].key \in linked
    /\ \A t \in TripIds : trip[t].signature = req[r].key
         => At(r, "delete") /\ t = req[r].trip

(* Every trip's signature and every key in a handler's hands is accounted  *)
(* for, so that no delete in S3 can hit an image a trip names.  It needs   *)
(* the database to report the outcome of finishTrip's transaction          *)
(* faithfully: it fails with the fault lostCommit.                         *)
SignatureInv ==
  /\ TypeOK
  /\ HandlersReady
  /\ KeysAccounted
  /\ SignatureOnce
  /\ FinishKeyPrivate
  /\ RemoveKeyOwned
  /\ NoDanglingSignature

(* The invariant behind UneditedTripCoherent: the reading a finish has in  *)
(* hand is not below the startKm of its trip, once rounded no more than    *)
(* that takes off, unless an administrator changed it since it was read.   *)
MeasuredKm ==
  \A r \in Requests : req[r].pc \in {"measure", "upload", "commit"} =>
    LET t == req[r].trip IN
    TripExists(t) /\ t \notin edited =>
      IF At(r, "measure") THEN req[r].km >= trip[t].startKm
      ELSE NotBelow(req[r].km, trip[t].startKm)

(* The invariant behind StartedAfterSurvey.                                *)
SurveyedByNow ==
  /\ surveys \subseteq surveyed
  /\ \A r \in Requests :
       At(r, "create") => <<req[r].truck, req[r].day>> \in surveyed

=============================================================================
