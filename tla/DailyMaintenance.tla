-------------------------- MODULE DailyMaintenance --------------------------
(***************************************************************************)
(* Daily surveys of the trucks: create, update, updateStatusAdmin and      *)
(* remove of DailyMaintenanceRecordService, over the records and the truck *)
(* mileage they write, while other services write the mileage too.         *)
(*                                                                         *)
(* A request is a handler in flight, with one action per awaited call that *)
(* matters.  A $transaction commits in one step.  Mileages are small       *)
(* naturals, a checklist is present or empty, and the other columns of a   *)
(* record are left out.                                                    *)
(***************************************************************************)
EXTENDS Integers, MaintenanceRecords

CONSTANTS
  Drivers, Days,
  MaxKm,      \* bound: mileages are 0..MaxKm
  Elsewhere,  \* mileages the other services may write
  Creations,  \* bodies of POST /daily-maintenance-records
  Patches     \* bodies of PATCH /daily-maintenance-records/:id

Km == 0..MaxKm

(* NULL is a field the client left out.                                    *)
Body == [truck : Optional(Trucks), driver : Optional(Drivers),
         day : Optional(Days), km : Optional(Km), checklist : Optional(BOOLEAN)]

ASSUME DailyConstants ==
  /\ MaxKm \in Nat /\ NULL \notin Nat
  /\ Elsewhere \subseteq Km
  /\ Creations \subseteq Body
  /\ Patches \subseteq Body

VARIABLES
  mileage,  \* mileage of the trucks that exist, NULL for the others
  drivers   \* users that exist

dailyVars == <<record, created, mileage, drivers, req>>

-----------------------------------------------------------------------------
NoSurvey == [status |-> "NONE", truck |-> NULL, driver |-> NULL, day |-> NULL,
             km |-> 0, checklist |-> FALSE]

Record == [status : Status, truck : Trucks, driver : Drivers, day : Days,
           km : Km, checklist : BOOLEAN]

HasMileage(v) == mileage[v] # NULL

NoBody == [truck |-> NULL, driver |-> NULL, day |-> NULL, km |-> NULL,
           checklist |-> NULL]

DailyIdle == [pc |-> "idle", id |-> NULL, truck |-> NULL, seen |-> 0,
         asked |-> NoBody, body |-> NoBody]

DailyHandler == [pc : {"idle", "check", "create", "update", "delete"},
            id : Optional(RecordIds), truck : Optional(Trucks), seen : Km,
            asked : Body, body : Body]

DailyReturn(r) == Become(r, DailyIdle)

Given(new, old) == IF new = NULL THEN old ELSE new

(* The defaults of CreateDailyMaintenanceRecordDto.  PartialType copies its*)
(* property initializers into UpdateDailyMaintenanceRecordDto, so a PATCH  *)
(* has them too.  The default ids are 0, which no row has: they stay NULL. *)
Filled(b, today) == [b EXCEPT !.day = Given(@, today), !.km = Given(@, 0),
                              !.checklist = Given(@, FALSE)]

DailyInit ==
  /\ record = [id \in RecordIds |-> NoSurvey]
  /\ created = {}
  /\ mileage = [v \in Trucks |-> 0]
  /\ drivers = Drivers
  /\ req = [r \in Requests |-> DailyIdle]

-----------------------------------------------------------------------------
(* POST /daily-maintenance-records                                         *)

(* The truck is read with its mileage.                                     *)
CreateRead(r, b, today) ==
  LET body == Filled(b, today) IN
  /\ At(r, "idle")
  /\ body.truck # NULL /\ HasMileage(body.truck)
  /\ body.driver \in drivers
  /\ Become(r, [DailyIdle EXCEPT !.pc = "check", !.seen = mileage[body.truck],
                                 !.asked = b, !.body = body])
  /\ UNCHANGED <<record, created, mileage, drivers>>

SameKey(x, y) == x.driver = y.driver /\ x.truck = y.truck /\ x.day = y.day

(* findFirst over the UTC day of inspectionDate.                           *)
CreateCheck(r) ==
  /\ At(r, "check")
  /\ \A id \in RecordIds : Exists(id) => ~SameKey(record[id], req[r].body)
  /\ Become(r, [req[r] EXCEPT !.pc = "create"])
  /\ UNCHANGED <<record, created, mileage, drivers>>

(* Wrong: no foreign keys, so that the default id 0 is stored.             *)
BugNoForeignKeys(row, others) ==
  \A id \in others : Exists(id) => ~SameKey(record[id], row)

(* The foreign keys of a record and its unique index (driver, truck, day). *)
Admits(row, others) ==
  /\ row.truck \in Trucks /\ HasMileage(row.truck)
  /\ row.driver \in drivers
  /\ \A id \in others : Exists(id) => ~SameKey(record[id], row)

(* A reading of 0 stands for the mileage of the truck.                     *)
Reading(q) == IF q.body.km = 0 THEN q.seen ELSE q.body.km

NewRecord(q) == [status |-> "PENDING", truck |-> q.body.truck,
                 driver |-> q.body.driver, day |-> q.body.day,
                 km |-> Reading(q), checklist |-> q.body.checklist]

(* Wrong: the mileage of the truck is written by update only.              *)
BugKeepsMileage(q) == mileage[q.body.truck]

(* The mileage is written only if the reading differs from the one seen.   *)
MileageAfter(q) ==
  IF Reading(q) # q.seen THEN Reading(q) ELSE mileage[q.body.truck]

CreateCommit(r, id) ==
  LET q == req[r] IN
  /\ At(r, "create")
  /\ id \notin created
  /\ Admits(NewRecord(q), RecordIds)
  /\ record' = [record EXCEPT ![id] = NewRecord(q)]
  /\ created' = created \cup {id}
  /\ mileage' = [mileage EXCEPT ![q.body.truck] = MileageAfter(q)]
  /\ DailyReturn(r)
  /\ UNCHANGED drivers

-----------------------------------------------------------------------------
(* PATCH /daily-maintenance-records/:id                                    *)

UpdateRead(r, id, b, today) ==
  /\ At(r, "idle")
  /\ Exists(id)
  /\ Become(r, [DailyIdle EXCEPT !.pc = "update", !.id = id,
                                 !.truck = record[id].truck,
                                 !.asked = b, !.body = Filled(b, today)])
  /\ UNCHANGED <<record, created, mileage, drivers>>

(* Every field is written except status.                                   *)
Patched(row, b) ==
  [status |-> row.status, truck |-> b.truck, driver |-> b.driver, day |-> b.day,
   km |-> b.km, checklist |-> b.checklist]

(* The mileage goes to the truck the record had when it was read.          *)
UpdateCommit(r) ==
  LET q == req[r]  id == q.id IN
  /\ At(r, "update")
  /\ Exists(id)
  /\ Admits(Patched(record[id], q.body), RecordIds \ {id})
  /\ record' = [record EXCEPT ![id] = Patched(@, q.body)]
  /\ mileage' = IF HasMileage(q.truck)
                THEN [mileage EXCEPT ![q.truck] = q.body.km]
                ELSE mileage
  /\ DailyReturn(r)
  /\ UNCHANGED <<created, drivers>>

-----------------------------------------------------------------------------
(* PATCH /daily-maintenance-records/admin/:id/status: one write.           *)
UpdateStatus(id, status) ==
  /\ Exists(id)
  /\ record' = [record EXCEPT ![id].status = status]
  /\ UNCHANGED <<created, mileage, drivers, req>>

(* DELETE /daily-maintenance-records/:id                                   *)
DailyRemoveRead(r, id) ==
  /\ At(r, "idle")
  /\ Exists(id)
  /\ Become(r, [DailyIdle EXCEPT !.pc = "delete", !.id = id])
  /\ UNCHANGED <<record, created, mileage, drivers>>

DailyRemoveRow(r) ==
  /\ At(r, "delete")
  /\ Exists(req[r].id)
  /\ record' = [record EXCEPT ![req[r].id] = NoSurvey]
  /\ DailyReturn(r)
  /\ UNCHANGED <<created, mileage, drivers>>

(* A check, a constraint or the database refuses: nothing is written.      *)
DailyReject(r) ==
  /\ ~At(r, "idle")
  /\ DailyReturn(r)
  /\ UNCHANGED <<record, created, mileage, drivers>>

-----------------------------------------------------------------------------
(* The other services: finishTrip and TruckService.update write mileages;  *)
(* the records of a deleted truck or user go with it.                      *)
MileageWritten(v, km) ==
  /\ HasMileage(v)
  /\ mileage' = [mileage EXCEPT ![v] = km]
  /\ UNCHANGED <<record, created, drivers, req>>

DailyTruckRemoved(v) ==
  /\ HasMileage(v)
  /\ mileage' = [mileage EXCEPT ![v] = NULL]
  /\ record' = [id \in RecordIds |->
                  IF record[id].truck = v THEN NoSurvey ELSE record[id]]
  /\ UNCHANGED <<created, drivers, req>>

UserRemoved(d) ==
  /\ d \in drivers
  /\ drivers' = drivers \ {d}
  /\ record' = [id \in RecordIds |->
                  IF record[id].driver = d THEN NoSurvey ELSE record[id]]
  /\ UNCHANGED <<created, mileage, req>>

-----------------------------------------------------------------------------
DailyHandle(r) ==
  \/ \E b \in Creations, today \in Days : CreateRead(r, b, today)
  \/ CreateCheck(r)
  \/ \E id \in RecordIds : CreateCommit(r, id)
  \/ \E id \in RecordIds, b \in Patches, today \in Days :
       UpdateRead(r, id, b, today)
  \/ UpdateCommit(r)
  \/ \E id \in RecordIds : DailyRemoveRead(r, id)
  \/ DailyRemoveRow(r)
  \/ DailyReject(r)

OtherServices ==
  \/ \E v \in Trucks, km \in Elsewhere : MileageWritten(v, km)
  \/ \E v \in Trucks : DailyTruckRemoved(v)
  \/ \E d \in Drivers : UserRemoved(d)

DailyNext ==
  \/ \E r \in Requests : DailyHandle(r)
  \/ \E id \in RecordIds, status \in Status : UpdateStatus(id, status)
  \/ OtherServices

DailySpec == DailyInit /\ [][DailyNext]_dailyVars

-----------------------------------------------------------------------------
(* Properties                                                              *)

(* One survey per driver, truck and day, of a truck and a driver that      *)
(* exist, although create looks for an earlier survey long before it       *)
(* inserts its own and update can move a survey onto another's day.        *)
SurveyOnce ==
  \A i \in RecordIds : Exists(i) =>
    /\ HasMileage(record[i].truck) /\ record[i].driver \in drivers
    /\ \A j \in RecordIds \ {i} : Exists(j) => ~SameKey(record[i], record[j])

(* Records, mileages and handlers stay in their types, an update leaves a  *)
(* record with a status and ids that are not the default 0, and every      *)
(* record obeys the keys of its table.                                     *)
DailyTypeOK ==
  /\ record \in [RecordIds -> Record \cup {NoSurvey}]
  /\ created \subseteq RecordIds
  /\ mileage \in [Trucks -> Optional(Km)]
  /\ drivers \subseteq Drivers
  /\ req \in [Requests -> DailyHandler]
  /\ SurveyOnce

(* "Si currentMileage difiere de truck.mileage, actualiza el truck", the   *)
(* comment of create: a new survey and its truck agree on the mileage, for *)
(* a reading of 0 and after any edit or mileage written before, unless the *)
(* mileage is another than the one create read before its transaction: it  *)
(* compares with that one, and a mileage written in between may stay.      *)
NewSurveySetsMileage ==
  [][\A r \in Requests, id \in RecordIds :
       /\ At(r, "create") /\ req'[r].pc = "idle"
       /\ id \in created' \ created
       /\ mileage[req[r].body.truck] = req[r].seen
       => mileage'[record'[id].truck] = record'[id].km]_dailyVars

(* "Filtrar propiedades undefined", the comment of update: a field that the*)
(* body of a PATCH leaves out is not written.                              *)
Kept(new, asked, old) == asked = NULL => new = old

AbsentFieldsKept ==
  [][\A r \in Requests :
       At(r, "update") /\ req'[r].pc = "idle" /\ record' # record =>
         LET row == record[req[r].id]
             now == record'[req[r].id]
             b == req[r].asked IN
         /\ Kept(now.day, b.day, row.day)
         /\ Kept(now.km, b.km, row.km)
         /\ Kept(now.checklist, b.checklist, row.checklist)]_dailyVars
=============================================================================
