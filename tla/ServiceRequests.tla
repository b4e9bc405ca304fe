-------------------------- MODULE ServiceRequests --------------------------
(***************************************************************************)
(* ServiceRequestService: create, with an attachment that goes to S3       *)
(* before the row is inserted and is deleted when that fails, and the      *)
(* message to the administrators; updateStatus; and the cascade when the   *)
(* requester is deleted.  The actions here say nothing of the variables of *)
(* Gateway, whose users they look at, nor of TruckExpiry's.                *)
(***************************************************************************)
EXTENDS Gateway

CONSTANTS
  Requests,     \* handlers of create that can be in flight together
  RequestIds,   \* values of the ServiceRequest id sequence
  Keys,         \* keys of attachments, all different
  Faults        \* what may go wrong in S3

ServiceFaults == {"lostPut",      \* a put is stored and reported as failed
                  "lostDelete"}   \* a delete fails; deleteObject only logs it

ASSUME ServiceConstants ==
  /\ Faults \subseteq ServiceFaults
  /\ NULL \notin RequestIds \cup Keys

VARIABLES
  request,   \* ServiceRequest rows by id
  objects,   \* the attachments in the bucket
  used,      \* the keys built so far
  req,       \* the handlers in flight
  told,      \* the requests emitted to the administrators
  missed,    \* history: those a crash kept from being emitted
  linked,    \* history: keys some row has named
  strays     \* history: objects given up for a reason the code has no answer to

service == <<request, objects, used, req, told, missed, linked, strays>>

(* pc: also "none" and "gone", ids are not reused.                         *)
Request == [pc : {"none", "there", "gone"}, user : Optional(Users),
            key : Optional(Keys), status : {"PENDING", "COMPLETED"}]
NoRequest == [pc |-> "none", user |-> NULL, key |-> NULL, status |-> "PENDING"]
GoneRequest == [NoRequest EXCEPT !.pc = "gone"]

Handler == [pc : {"idle", "put", "insert", "undo", "announce"},
            user : Optional(Users), key : Optional(Keys),
            id : Optional(RequestIds)]
Idle == [pc |-> "idle", user |-> NULL, key |-> NULL, id |-> NULL]

At(r, pc) == req[r].pc = pc
Become(r, handler) == req' = [req EXCEPT ![r] = handler]
Return(r) == Become(r, Idle)

There(i) == request[i].pc = "there"
Named == {request[i].key : i \in RequestIds} \ {NULL}

ServiceInit ==
  /\ request = [i \in RequestIds |-> NoRequest]
  /\ objects = {}
  /\ used = {}
  /\ req = [r \in Requests |-> Idle]
  /\ told = {}
  /\ missed = {}
  /\ linked = {}
  /\ strays = {}

-----------------------------------------------------------------------------
(* create.  The roles guard and the service look the requester up.         *)
CreateRead(r, u, pc) ==
  /\ up
  /\ At(r, "idle")
  /\ role[u] = "DIRECTION"
  /\ pc \in {"put", "insert"}     \* with an attachment, without
  /\ Become(r, [Idle EXCEPT !.pc = pc, !.user = u])
  /\ UNCHANGED <<request, objects, used, told, missed, linked, strays>>

(* Wrong: the key does not differ from upload to upload.                   *)
BugFreshKeys == Keys

FreshKeys == Keys \ used

CreatePut(r) ==
  /\ At(r, "put")
  /\ \E k \in FreshKeys :
       /\ used' = used \cup {k}
       /\ objects' = objects \cup {k}
       /\ Become(r, [req[r] EXCEPT !.pc = "insert", !.key = k])
  /\ UNCHANGED <<request, told, missed, linked, strays>>

CreatePutFails(r) ==
  /\ At(r, "put")
  /\ \E k \in FreshKeys, stored \in BOOLEAN :
       /\ stored => "lostPut" \in Faults
       /\ used' = used \cup {k}
       /\ objects' = IF stored THEN objects \cup {k} ELSE objects
       /\ strays' = IF stored THEN strays \cup {k} ELSE strays
  /\ Return(r)
  /\ UNCHANGED <<request, told, missed, linked>>

(* Wrong: the table without its foreign key.                               *)
BugRequesterThere(u) == TRUE

RequesterThere(u) == UserExists(u)

CreateInsert(r, i) ==
  LET h == req[r] IN
  /\ At(r, "insert")
  /\ RequesterThere(h.user)
  /\ request[i] = NoRequest
  /\ request' = [request EXCEPT ![i] =
       [NoRequest EXCEPT !.pc = "there", !.user = h.user, !.key = h.key]]
  /\ linked' = linked \cup ({h.key} \ {NULL})
  /\ Become(r, [Idle EXCEPT !.pc = "announce", !.id = i])
  /\ UNCHANGED <<objects, used, told, missed, strays>>

(* Wrong: the attachment of a request that failed stays.                   *)
BugAfterFailure(h) == Idle

AfterFailure(h) == IF h.key = NULL THEN Idle ELSE [h EXCEPT !.pc = "undo"]

CreateInsertFails(r) ==
  /\ At(r, "insert")
  /\ Become(r, AfterFailure(req[r]))
  /\ UNCHANGED <<request, objects, used, told, missed, linked, strays>>

CreateUndo(r) ==
  LET k == req[r].key IN
  /\ At(r, "undo")
  /\ \/ objects' = objects \ {k} /\ UNCHANGED strays
     \/ /\ "lostDelete" \in Faults
        /\ strays' = strays \cup {k}
        /\ UNCHANGED objects
  /\ Return(r)
  /\ UNCHANGED <<request, used, told, missed, linked>>

CreateAnnounce(r) ==
  /\ At(r, "announce")
  /\ told' = told \cup {req[r].id}
  /\ Return(r)
  /\ UNCHANGED <<request, objects, used, missed, linked, strays>>

(* updateStatus: the read before the write only rejects.                   *)
StatusUpdate(i, status) ==
  /\ up
  /\ There(i)
  /\ request' = [request EXCEPT ![i].status = status]
  /\ UNCHANGED <<objects, used, req, told, missed, linked, strays>>

(* The rows of a requester go with him, their files do not.                *)
RequestsOf(u) == {i \in RequestIds : request[i].user = u}

Cascade(u) ==
  /\ request' = [i \in RequestIds |->
                   IF i \in RequestsOf(u) THEN GoneRequest ELSE request[i]]
  /\ strays' = strays \cup ({request[i].key : i \in RequestsOf(u)} \ {NULL})
  /\ UNCHANGED <<objects, used, req, told, missed, linked>>

(* What a handler knows of a file, or has to tell, is lost with it.        *)
InHand == {req[r].key : r \in Requests} \ {NULL}

ServiceDown ==
  /\ req' = [r \in Requests |-> Idle]
  /\ strays' = strays \cup (InHand \cap objects)
  /\ missed' = missed \cup ({req[r].id : r \in Requests} \ {NULL})
  /\ UNCHANGED <<request, objects, used, told, linked>>

ServiceNext ==
  \/ \E r \in Requests :
       \/ \E u \in Users, pc \in {"put", "insert"} : CreateRead(r, u, pc)
       \/ CreatePut(r)
       \/ CreatePutFails(r)
       \/ \E i \in RequestIds : CreateInsert(r, i)
       \/ CreateInsertFails(r)
       \/ CreateUndo(r)
       \/ CreateAnnounce(r)
  \/ \E i \in RequestIds, status \in {"PENDING", "COMPLETED"} :
       StatusUpdate(i, status)

-----------------------------------------------------------------------------
(* Types, and the foreign key of the requester.                            *)
ServiceTypeOK ==
  /\ request \in [RequestIds -> Request]
  /\ objects \subseteq used /\ used \subseteq Keys
  /\ req \in [Requests -> Handler]
  /\ told \subseteq RequestIds /\ missed \subseteq RequestIds
  /\ linked \subseteq used /\ strays \subseteq used
  /\ \A i \in RequestIds : There(i) => UserExists(request[i].user)

(* A create leaves nothing half done, but for named reasons.  An attachment*)
(* no request names is in the hands of a handler, or was given up by a     *)
(* crash, a put stored and reported as failed, a delete that failed, or the*)
(* deletion of the requester.  A request is announced, or its handler is   *)
(* about to: only a crash in between keeps the administrators from it.     *)
CreatesSettled ==
  /\ objects \subseteq Named \cup InHand \cup strays
  /\ \A i \in RequestIds : There(i) =>
       \/ i \in told \cup missed
       \/ \E r \in Requests : At(r, "announce") /\ req[r].id = i

(* Every key walks ObjectStore's life of a file: in particular no request  *)
(* names an attachment that was deleted.                                   *)
Phase(k) ==
  CASE k \in Named /\ k \in objects -> "linked"
    [] k \in objects /\ k \notin Named /\ k \in linked -> "unlinked"
    [] k \in objects /\ k \notin Named /\ k \notin linked -> "stored"
    [] k \notin objects /\ k \notin Named /\ k \in used -> "deleted"
    [] k \notin used -> "unused"
    [] OTHER -> "dangling"

Store == INSTANCE ObjectStore WITH phase <- [k \in Keys |-> Phase(k)]

AttachmentsFollowStore == Store!Spec
=============================================================================
