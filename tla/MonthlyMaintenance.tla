------------------------- MODULE MonthlyMaintenance -------------------------
(***************************************************************************)
(* Monthly maintenance records: upsertAdmin, updateStatusAdmin and         *)
(* removeAdmin of MonthlyMaintenanceRecordService, with the merging of     *)
(* repeated items and the status derived from them.                        *)
(*                                                                         *)
(* An item is known by its week and code, kept here as one key; its status *)
(* is the normalised word and its notes are absent (NULL) or one of Notes. *)
(* The upsert is one INSERT .. ON CONFLICT that locks the row until its    *)
(* transaction commits, so a transaction is one step.                      *)
(***************************************************************************)
EXTENDS Naturals, Sequences, MaintenanceRecords

CONSTANTS
  Months,
  ItemKeys,   \* pairs weekIndex-itemCode
  Notes,
  Lists       \* lists of items that upsertAdmin receives

Word == {"bueno", "regular", "malo", "other"}
Item == [key : ItemKeys, status : Word, notes : Optional(Notes)]

ASSUME MonthlyConstants == Lists \subseteq Seq(Item)

VARIABLES
  trucks,    \* trucks that exist
  reported,  \* history: records whose last upsert reported a problem
  byHand     \* history: records whose status was set after that

monthlyVars == <<record, created, trucks, req, reported, byHand>>

-----------------------------------------------------------------------------
(* Merging repeated items                                                  *)

Severity(status) ==
  CASE status = "malo" -> 3 [] status = "regular" -> 2
    [] status = "bueno" -> 1 [] OTHER -> 0

Or(a, b) == IF a = NULL THEN b ELSE a

(* Wrong: the notes of the item that is given up are lost.                 *)
BugMerge(current, item) ==
  IF Severity(item.status) > Severity(current.status) THEN item ELSE current

(* What becomes of an item when another with its key follows.              *)
Merge(current, item) ==
  IF Severity(item.status) > Severity(current.status)
  THEN [item EXCEPT !.notes = Or(@, current.notes)]
  ELSE IF Severity(item.status) = Severity(current.status)
       THEN [current EXCEPT !.notes = Or(@, item.notes)]
       ELSE current

(* The Map of dedupeMonthlyItems, one more item set in it: at most one item*)
(* per key.                                                                *)
Add(map, item) ==
  [k \in DOMAIN map \cup {item.key} |->
     IF k # item.key THEN map[k]
     ELSE IF k \in DOMAIN map THEN Merge(map[k], item) ELSE item]

Dedupe(items) ==
  LET map[n \in 0..Len(items)] ==
        IF n = 0 THEN <<>> ELSE Add(map[n - 1], items[n])
  IN map[Len(items)]

Problematic(item) == item.status \in {"regular", "malo"}

(* Wrong: only the worst word is looked for.                               *)
BugDerive(map) ==
  IF \E k \in DOMAIN map : map[k].status = "malo" THEN "PENDING" ELSE "REVIEWED"

(* deriveRecordStatus, on the merged items.                                *)
Derive(map) ==
  IF \E k \in DOMAIN map : Problematic(map[k]) THEN "PENDING" ELSE "REVIEWED"

-----------------------------------------------------------------------------
NoMonth == [status |-> "NONE", truck |-> NULL, month |-> NULL, items |-> <<>>]

MonthlyIdle == [pc |-> "idle", id |-> NULL, truck |-> NULL, month |-> NULL,
         status |-> NULL, items |-> <<>>]

MonthlyReturn(r) == Become(r, MonthlyIdle)

MonthlyInit ==
  /\ record = [id \in RecordIds |-> NoMonth]
  /\ created = {}
  /\ trucks = Trucks
  /\ req = [r \in Requests |-> MonthlyIdle]
  /\ reported = {}
  /\ byHand = {}

MonthlyRows == <<record, created, trucks, reported, byHand>>

(* POST /monthly-maintenance-records/admin: the truck is looked for first. *)
UpsertRead(r, v, month, items) ==
  /\ At(r, "idle")
  /\ v \in trucks
  /\ Become(r, [MonthlyIdle EXCEPT !.pc = "upsert", !.truck = v, !.month = month,
                                   !.items = items])
  /\ UNCHANGED MonthlyRows

(* The row the upsert updates, or a new one.                               *)
Targets(v, month) ==
  LET own == {id \in RecordIds : /\ Exists(id)
                                 /\ record[id].truck = v
                                 /\ record[id].month = month}
  IN IF own # {} THEN own ELSE RecordIds \ created

(* Wrong: no foreign key to the truck.                                     *)
BugTruckUnchecked(v) == TRUE

(* The foreign key of a record.                                            *)
TruckThere(v) == v \in trucks

(* The transaction: upsert the record, replace its items.                  *)
UpsertCommit(r, id) ==
  LET q == req[r]  map == Dedupe(q.items) IN
  /\ At(r, "upsert")
  /\ TruckThere(q.truck)
  /\ id \in Targets(q.truck, q.month)
  /\ record' = [record EXCEPT ![id] = IF Exists(id)
                                      THEN [@ EXCEPT !.status = Derive(map),
                                                     !.items = map]
                                      ELSE [status |-> Derive(map),
                                            truck |-> q.truck,
                                            month |-> q.month, items |-> map]]
  /\ created' = created \cup {id}
  /\ reported' = IF \E i \in DOMAIN q.items : Problematic(q.items[i])
                 THEN reported \cup {id} ELSE reported \ {id}
  /\ byHand' = byHand \ {id}
  /\ MonthlyReturn(r)
  /\ UNCHANGED trucks

(* PATCH /monthly-maintenance-records/admin/:id/status                     *)
StatusRead(r, id, status) ==
  /\ At(r, "idle")
  /\ Exists(id)
  /\ Become(r, [MonthlyIdle EXCEPT !.pc = "status", !.id = id, !.status = status])
  /\ UNCHANGED MonthlyRows

StatusWrite(r) ==
  LET id == req[r].id IN
  /\ At(r, "status")
  /\ Exists(id)
  /\ record' = [record EXCEPT ![id].status = req[r].status]
  /\ byHand' = byHand \cup {id}
  /\ MonthlyReturn(r)
  /\ UNCHANGED <<created, trucks, reported>>

(* DELETE /monthly-maintenance-records/admin/:id; the items go along.      *)
MonthlyRemoveRead(r, id) ==
  /\ At(r, "idle")
  /\ Exists(id)
  /\ Become(r, [MonthlyIdle EXCEPT !.pc = "delete", !.id = id])
  /\ UNCHANGED MonthlyRows

MonthlyRemoveRow(r) ==
  /\ At(r, "delete")
  /\ Exists(req[r].id)
  /\ record' = [record EXCEPT ![req[r].id] = NoMonth]
  /\ MonthlyReturn(r)
  /\ UNCHANGED <<created, trucks, reported, byHand>>

(* The row or the truck has gone, or the database refuses.                 *)
MonthlyReject(r) ==
  /\ ~At(r, "idle")
  /\ MonthlyReturn(r)
  /\ UNCHANGED MonthlyRows

(* DELETE /trucks/:id takes the truck's records along.                     *)
MonthlyTruckRemoved(v) ==
  /\ v \in trucks
  /\ trucks' = trucks \ {v}
  /\ record' = [id \in RecordIds |->
                  IF record[id].truck = v THEN NoMonth ELSE record[id]]
  /\ UNCHANGED <<created, req, reported, byHand>>

MonthlyHandle(r) ==
  \/ \E v \in Trucks, month \in Months, items \in Lists :
       UpsertRead(r, v, month, items)
  \/ \E id \in RecordIds : UpsertCommit(r, id)
  \/ \E id \in RecordIds, status \in Status : StatusRead(r, id, status)
  \/ StatusWrite(r)
  \/ \E id \in RecordIds : MonthlyRemoveRead(r, id)
  \/ MonthlyRemoveRow(r)
  \/ MonthlyReject(r)

MonthlyNext ==
  \/ \E r \in Requests : MonthlyHandle(r)
  \/ \E v \in Trucks : MonthlyTruckRemoved(v)

MonthlySpec == MonthlyInit /\ [][MonthlyNext]_monthlyVars

-----------------------------------------------------------------------------
(* Properties                                                              *)

(* One record per truck and month, although many upserts of the same month *)
(* run together with deletes.                                              *)
MonthOnce ==
  \A i, j \in RecordIds : Exists(i) /\ Exists(j) /\ i # j =>
    record[i].truck # record[j].truck \/ record[i].month # record[j].month

(* Rows are whole and belong to a truck that exists, also when the truck is*)
(* deleted while an upsert waits, and to a month that has no other.        *)
MonthlyTypeOK ==
  /\ \A id \in RecordIds : Exists(id) =>
       /\ record[id].status \in Status
       /\ record[id].truck \in trucks /\ record[id].month \in Months
       /\ DOMAIN record[id].items \subseteq ItemKeys
       /\ \A k \in DOMAIN record[id].items : record[id].items[k] \in Item
       /\ id \in created
  /\ reported \subseteq created /\ byHand \subseteq created
  /\ MonthOnce

(* A record's status tells what its last upsert reported, before items were*)
(* merged: PENDING exactly when some item was regular or malo, unless an   *)
(* administrator has set it by hand since.                                 *)
StatusTellsReport ==
  \A id \in RecordIds : Exists(id) /\ id \notin byHand =>
    (record[id].status = "PENDING" <=> id \in reported)

(* Merging keeps the worst: against the list itself, each key of the list  *)
(* has one item, as bad as the worst of that key, with notes that some item*)
(* of the key has, and with notes at all if a worst one has them.          *)
Same(items, k) == {items[i] : i \in {j \in DOMAIN items : items[j].key = k}}
Worst(items, k) == {x \in Same(items, k) :
                      \A y \in Same(items, k) :
                        Severity(x.status) >= Severity(y.status)}

WorstKeptOf(items) ==
  LET map == Dedupe(items) IN
  /\ DOMAIN map = {items[i].key : i \in DOMAIN items}
  /\ \A k \in DOMAIN map :
       /\ \E x \in Worst(items, k) : x.status = map[k].status
       /\ map[k].notes \in {x.notes : x \in Same(items, k)}
       /\ (\E x \in Worst(items, k) : x.notes # NULL) => map[k].notes # NULL

(* dedupeMonthlyItems keeps the worst item of each key, and its notes, for *)
(* every list that an upsert is about to write.                            *)
WorstKept == \A r \in Requests : At(r, "upsert") => WorstKeptOf(req[r].items)
=============================================================================
