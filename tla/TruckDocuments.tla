-------------------------- MODULE TruckDocuments --------------------------
(***************************************************************************)
(* The legal documents of a truck: TruckService.uploadDocument,            *)
(* removeDocument and remove, over the TruckDocument rows (one for each    *)
(* truck and document type, cascading with the truck) and the files in S3. *)
(*                                                                         *)
(* A request is a handler in flight; there is one action per awaited call  *)
(* that reads or writes what another request can change.  Access checks,   *)
(* file validation and the expiry dates of the response are left out: they *)
(* only reject a request, which changes nothing.  An upsert whose answer   *)
(* is lost after it committed is left out (finishTrip in TripHistory has   *)
(* the same catch block and models it).                                    *)
(***************************************************************************)
EXTENDS Naturals, FiniteSets

CONSTANTS
  Requests,   \* handlers that can be in flight together
  Trucks, Types,
  DocIds,     \* values of the TruckDocument id sequence
  Keys,       \* S3 keys buildDocumentKey can produce
  Faults,     \* what may go wrong outside the handlers
  NULL

AllFaults == {"crash",       \* the Node process restarts
              "dbError",     \* a query fails for no reason of its own
              "lostPut",     \* S3 stores the file but the upload throws
              "lostDelete"}  \* deleteObject fails and swallows the error

ASSUME DocumentConstants ==
  /\ Faults \subseteq AllFaults
  /\ NULL \notin Keys \cup Trucks \cup Types \cup DocIds \cup (Trucks \X Types)

(* The unique pair of a TruckDocument row.                                 *)
Slots == Trucks \X Types
Optional(S) == S \cup {NULL}

VARIABLES
  trucks,    \* Truck rows that exist
  doc,       \* TruckDocument rows, by truck and type
  created,   \* ids the sequence has given out
  objects,   \* keys present in the bucket
  owner,     \* the truck and type buildDocumentKey wrote into each key
  req,       \* the handlers in flight
  linked,    \* history: keys some row has named
  strays     \* history: files given up where the code cannot collect them

vars == <<trucks, doc, created, objects, owner, req, linked, strays>>

NoDoc == [id |-> NULL, key |-> NULL]
Document == [id : Optional(DocIds), key : Optional(Keys)]
DocExists(s) == doc[s].id # NULL

Pc == {"idle", "put", "existing", "upsert", "cleanup",   \* uploadDocument
       "delete", "collect"}                              \* removeDocument

Idle == [pc |-> "idle", slot |-> NULL, id |-> NULL, key |-> NULL, old |-> NULL]

(* key is the file this handler uploaded, old the one it found in the row. *)
Handler == [pc : Pc, slot : Optional(Slots), id : Optional(DocIds),
            key : Optional(Keys), old : Optional(Keys)]

At(r, pc) == req[r].pc = pc
Become(r, handler) == req' = [req EXCEPT ![r] = handler]
Goto(r, pc) == Become(r, [req[r] EXCEPT !.pc = pc])
Return(r) == Become(r, Idle)

Init ==
  /\ trucks = Trucks
  /\ doc = [s \in Slots |-> NoDoc]
  /\ created = {}
  /\ objects = {}
  /\ owner = [k \in Keys |-> NULL]
  /\ req = [r \in Requests |-> Idle]
  /\ linked = {}
  /\ strays = {}

-----------------------------------------------------------------------------
(* POST /trucks/:id/documents                                              *)

UploadRead(r, s) ==
  /\ At(r, "idle")
  /\ s[1] \in trucks
  /\ Become(r, [Idle EXCEPT !.pc = "put", !.slot = s])
  /\ UNCHANGED <<trucks, doc, created, objects, owner, linked, strays>>

(* Wrong: the key without its random UUID, one for each truck and type.    *)
BugKeysOf(s) == {k \in Keys : owner[k] \in {NULL, s}}

(* buildDocumentKey: truck, type and a random UUID.                        *)
KeysFor(s) == {k \in Keys : owner[k] = NULL}

UploadPut(r) ==
  /\ At(r, "put")
  /\ \E k \in KeysFor(req[r].slot) :
       /\ owner' = [owner EXCEPT ![k] = req[r].slot]
       /\ objects' = objects \cup {k}
       /\ Become(r, [req[r] EXCEPT !.pc = "existing", !.key = k])
  /\ UNCHANGED <<trucks, doc, created, linked, strays>>

UploadPutFails(r) ==
  /\ At(r, "put")
  /\ \E k \in KeysFor(req[r].slot) :
       /\ owner' = [owner EXCEPT ![k] = req[r].slot]
       /\ \/ UNCHANGED <<objects, strays>>
          \/ /\ "lostPut" \in Faults
             /\ objects' = objects \cup {k}
             /\ strays' = strays \cup {k}
  /\ Return(r)
  /\ UNCHANGED <<trucks, doc, created, linked>>

(* The row this upload will replace is looked up outside the try block.    *)
UploadReadExisting(r) ==
  /\ At(r, "existing")
  /\ Become(r, [req[r] EXCEPT !.pc = "upsert", !.old = doc[req[r].slot].key])
  /\ UNCHANGED <<trucks, doc, created, objects, owner, linked, strays>>

(* Wrong: the documents table without its foreign key.                     *)
BugTruckUnchecked(s) == TRUE

(* The foreign key of TruckDocument.                                       *)
TruckThere(s) == s[1] \in trucks

(* Insert or update on the unique pair; an updated row keeps its id.  A    *)
(* file the row has come to name since it was read is overwritten unseen.  *)
UploadUpsert(r) ==
  LET s == req[r].slot IN
  /\ At(r, "upsert")
  /\ TruckThere(s)
  /\ \E id \in IF DocExists(s) THEN {doc[s].id} ELSE DocIds \ created :
       /\ doc' = [doc EXCEPT ![s] = [id |-> id, key |-> req[r].key]]
       /\ created' = created \cup {id}
  /\ linked' = linked \cup {req[r].key}
  /\ strays' = strays \cup ({doc[s].key} \ {NULL, req[r].old})
  /\ UNCHANGED <<trucks, objects, owner>>
  /\ IF req[r].old \in {NULL, req[r].key} THEN Return(r) ELSE Goto(r, "collect")

(* The truck has gone (foreign key) or the query fails.                    *)
UploadUpsertFails(r) ==
  /\ At(r, "upsert")
  /\ req[r].slot[1] \in trucks => "dbError" \in Faults
  /\ Goto(r, "cleanup")
  /\ UNCHANGED <<trucks, doc, created, objects, owner, linked, strays>>

(* S3Service.deleteObject never throws.                                    *)
DeleteObject(k) ==
  \/ objects' = objects \ {k} /\ UNCHANGED strays
  \/ /\ "lostDelete" \in Faults
     /\ strays' = strays \cup {k}
     /\ UNCHANGED objects

(* The catch block deletes the file just uploaded.                         *)
UploadCleanup(r) ==
  /\ At(r, "cleanup")
  /\ DeleteObject(req[r].key)
  /\ Return(r)
  /\ UNCHANGED <<trucks, doc, created, owner, linked>>

(* Wrong: the replaced file is left in the bucket.                         *)
BugCollectNothing(r) ==
  /\ At(r, "collect")
  /\ Return(r)
  /\ UNCHANGED <<trucks, doc, created, objects, owner, linked, strays>>

(* The file read before the row was replaced or deleted is deleted.        *)
Collect(r) ==
  /\ At(r, "collect")
  /\ DeleteObject(req[r].old)
  /\ Return(r)
  /\ UNCHANGED <<trucks, doc, created, owner, linked>>

-----------------------------------------------------------------------------
(* DELETE /trucks/:id/documents/:documentId                                *)

RemoveRead(r, s) ==
  /\ At(r, "idle")
  /\ DocExists(s)
  /\ Become(r, [Idle EXCEPT !.pc = "delete", !.slot = s, !.id = doc[s].id,
                            !.old = doc[s].key])
  /\ UNCHANGED <<trucks, doc, created, objects, owner, linked, strays>>

(* The row is deleted by id, whatever file it names by now.                *)
RemoveRow(r) ==
  LET s == req[r].slot IN
  /\ At(r, "delete")
  /\ doc[s].id = req[r].id
  /\ doc' = [doc EXCEPT ![s] = NoDoc]
  /\ strays' = strays \cup ({doc[s].key} \ {req[r].old})
  /\ Goto(r, "collect")
  /\ UNCHANGED <<trucks, created, objects, owner, linked>>

-----------------------------------------------------------------------------
(* A query outside a try block throws: the row to delete is gone (P2025),  *)
(* or the database fails.  The file an upload has stored by then stays.    *)
Reject(r) ==
  /\ req[r].pc \in {"existing", "delete"}
  /\ (At(r, "existing") \/ doc[req[r].slot].id = req[r].id)
       => "dbError" \in Faults
  /\ Return(r)
  /\ strays' = strays \cup ({req[r].key} \ {NULL})
  /\ UNCHANGED <<trucks, doc, created, objects, owner, linked>>

Named == {doc[s].key : s \in Slots} \ {NULL}

(* The files a handler is going to name in the row or to delete.           *)
InHand(r) ==
  CASE req[r].pc \in {"existing", "upsert", "cleanup"} -> {req[r].key}
    [] At(r, "collect") -> {req[r].old}
    [] OTHER -> {}

Crash ==
  /\ "crash" \in Faults
  /\ \E r \in Requests : ~At(r, "idle")
  /\ req' = [r \in Requests |-> Idle]
  /\ strays' = strays \cup UNION {InHand(r) : r \in Requests}
  /\ UNCHANGED <<trucks, doc, created, objects, owner, linked>>

(* DELETE /trucks/:id, for a truck without trips or assignments: its       *)
(* documents cascade in the database, their files stay.                    *)
TruckRemove(v) ==
  /\ v \in trucks
  /\ trucks' = trucks \ {v}
  /\ doc' = [s \in Slots |-> IF s[1] = v THEN NoDoc ELSE doc[s]]
  /\ strays' = strays \cup ({doc[s].key : s \in {v} \X Types} \ {NULL})
  /\ UNCHANGED <<created, objects, owner, req, linked>>

Proceed(r) ==
  \/ UploadPut(r) \/ UploadPutFails(r) \/ UploadReadExisting(r)
  \/ UploadUpsert(r) \/ UploadUpsertFails(r) \/ UploadCleanup(r)
  \/ RemoveRow(r) \/ Collect(r) \/ Reject(r)

Next ==
  \/ \E r \in Requests, s \in Slots : UploadRead(r, s) \/ RemoveRead(r, s)
  \/ \E r \in Requests : Proceed(r)
  \/ \E v \in Trucks : TruckRemove(v)
  \/ Crash

Spec == Init /\ [][Next]_vars

-----------------------------------------------------------------------------
(* Properties                                                              *)

(* Rows, keys and handlers stay in their types, ids and keys in rows come  *)
(* and go together, and no document outlives its truck, although the truck *)
(* may go between the check, the upload and the upsert.                    *)
TypeOK ==
  /\ trucks \subseteq Trucks
  /\ doc \in [Slots -> Document]
  /\ \A s \in Slots : doc[s].id = NULL <=> doc[s].key = NULL
  /\ \A s \in Slots : DocExists(s) => s[1] \in trucks
  /\ created \subseteq DocIds
  /\ objects \subseteq Keys
  /\ owner \in [Keys -> Optional(Slots)]
  /\ req \in [Requests -> Handler]
  /\ linked \cup strays \subseteq Keys

(* A document the truck shows can be downloaded: of two uploads of one     *)
(* document, or an upload and a removal, that each replace what they read, *)
(* none deletes the file the row ends up naming.  DocumentsFollowStore says*)
(* this too: a key with no object that a row names has no phase there.     *)
NoDanglingDocument == Named \subseteq objects

Phase(k) ==
  CASE k \in Named -> IF k \in objects THEN "linked" ELSE "dangling"
    [] k \in objects \ Named -> IF k \in linked THEN "unlinked" ELSE "stored"
    [] k \notin Named \cup objects /\ owner[k] # NULL -> "deleted"
    [] OTHER -> "unused"

Store == INSTANCE ObjectStore WITH phase <- [k \in Keys |-> Phase(k)]

(* Every document key goes through ObjectStore's life of a file, once.     *)
DocumentsFollowStore == Store!Spec

(* A file no row names is still in the hands of a handler, or was given up *)
(* in one of the ways the code has no answer to: a crash, a storage or     *)
(* database failure, the deletion of its truck, a row overwritten or       *)
(* deleted after another upload had changed it.  Apart from these uploads, *)
(* replacements and removals, overlapping or not, leave nothing behind.    *)
StraysExplained ==
  \A k \in objects \ (Named \cup strays) :
    \E r \in Requests : k \in InHand(r)
=============================================================================
