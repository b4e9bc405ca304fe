------------------------ MODULE TruckDocumentsProofs ------------------------
(***************************************************************************)
(* What holds of TruckDocuments for any number of requests, trucks, types, *)
(* ids and keys, and every choice of faults.                               *)
(***************************************************************************)
EXTENDS TruckDocuments, TLAPS

(* What a handler needs for the call it waits for.                         *)
HandlersReady ==
  \A r \in Requests :
    /\ ~At(r, "idle") => req[r].slot \in Slots
    /\ req[r].pc \in {"existing", "upsert", "cleanup"} => req[r].key # NULL
    /\ req[r].pc \in {"delete", "collect"} => req[r].old # NULL
    /\ At(r, "delete") => req[r].id # NULL

(* Keys are owned from the moment they are made, rows name stored keys of  *)
(* their own slot, and what was ever named is remembered.                  *)
KeysAccounted ==
  /\ \A k \in objects \cup linked : owner[k] # NULL
  /\ \A s \in Slots : doc[s].key # NULL =>
       /\ doc[s].key \in objects \cap linked
       /\ owner[doc[s].key] = s

(* The handlers that will name or delete the file they uploaded.           *)
Uploading(r) == req[r].pc \in {"existing", "upsert", "cleanup"}

(* An uploaded file belongs to its handler alone and no row has named it.  *)
UploadPrivate ==
  \A r \in Requests : Uploading(r) =>
    /\ req[r].key \in objects \ linked
    /\ owner[req[r].key] = req[r].slot
    /\ \A q \in Requests \ {r} : Uploading(q) => req[q].key # req[r].key

(* A file read from a row was named, belongs to the slot, and is not named *)
(* any more when it is about to be deleted.                                *)
OldOwned ==
  \A r \in Requests :
    /\ req[r].pc \in {"upsert", "delete", "collect"} /\ req[r].old # NULL =>
         req[r].old \in linked /\ owner[req[r].old] = req[r].slot
    /\ At(r, "collect") => req[r].old \notin Named

DocumentInv ==
  /\ TypeOK /\ HandlersReady
  /\ KeysAccounted /\ UploadPrivate /\ OldOwned

-----------------------------------------------------------------------------
(* Handlers                                                                *)

LEMMA IdleTyped == Idle \in Handler
BY DEF Idle, Handler, Pc, Optional

(* Replacing one handler leaves the others as they are.                    *)
LEMMA BecomeStep ==
  ASSUME NEW r \in Requests, NEW h \in Handler,
         req \in [Requests -> Handler], Become(r, h)
  PROVE  /\ req' \in [Requests -> Handler]
         /\ req'[r] = h
         /\ \A q \in Requests \ {r} : req'[q] = req[q]
BY DEF Become

(* A handler that moves on keeps what it holds.                            *)
LEMMA GotoStep ==
  ASSUME NEW r \in Requests, NEW pc \in Pc,
         req \in [Requests -> Handler], Goto(r, pc)
  PROVE  /\ req' \in [Requests -> Handler]
         /\ req'[r].pc = pc
         /\ req'[r].slot = req[r].slot /\ req'[r].id = req[r].id
         /\ req'[r].key = req[r].key /\ req'[r].old = req[r].old
         /\ \A q \in Requests \ {r} : req'[q] = req[q]
BY DEF Goto, Become, Handler

LEMMA ReturnStep ==
  ASSUME NEW r \in Requests, req \in [Requests -> Handler], Return(r)
  PROVE  /\ req' \in [Requests -> Handler]
         /\ req'[r].pc = "idle" /\ req'[r].key = NULL
         /\ \A q \in Requests \ {r} : req'[q] = req[q]
BY IdleTyped, BecomeStep DEF Return, Idle

-----------------------------------------------------------------------------
(* The invariant                                                           *)

LEMMA InvInit == Init => DocumentInv
BY DocumentConstants, IdleTyped
   DEF Init, DocumentInv, TypeOK, HandlersReady, KeysAccounted, UploadPrivate,
       OldOwned, Uploading, At, Idle, NoDoc, Document, Optional, DocExists

LEMMA UploadPutStep ==
  ASSUME DocumentInv, NEW r \in Requests, UploadPut(r)
  PROVE  DocumentInv'
<1> USE DEF DocumentInv
<1>1. PICK k \in Keys :
        /\ owner[k] = NULL
        /\ owner' = [owner EXCEPT ![k] = req[r].slot]
        /\ objects' = objects \cup {k}
        /\ Become(r, [req[r] EXCEPT !.pc = "existing", !.key = k])
  BY DEF UploadPut, KeysFor
<1>2. /\ req' \in [Requests -> Handler]
      /\ req'[r].pc = "existing" /\ req'[r].slot = req[r].slot
      /\ req'[r].key = k
      /\ \A q \in Requests \ {r} : req'[q] = req[q]
  <2> DEFINE h == [req[r] EXCEPT !.pc = "existing", !.key = k]
  <2>1. /\ h \in Handler /\ h.pc = "existing" /\ h.slot = req[r].slot
        /\ h.key = k
    BY DEF TypeOK, Handler, Pc, Optional
  <2>2. Become(r, h)
    BY <1>1
  <2> HIDE DEF h
  <2> QED
    BY <2>1, <2>2, BecomeStep DEF TypeOK
<1>3. UNCHANGED <<trucks, doc, created, linked, strays>> /\ At(r, "put")
  BY DEF UploadPut
<1>4. req[r].slot \in Slots
  BY <1>3 DEF HandlersReady, At
<1>5. TypeOK' /\ HandlersReady'
  BY <1>1, <1>2, <1>3, <1>4, DocumentConstants
     DEF TypeOK, HandlersReady, At, DocExists, Optional
<1>6. KeysAccounted' /\ UploadPrivate' /\ OldOwned'
  BY <1>1, <1>2, <1>3, <1>4, DocumentConstants
     DEF TypeOK, KeysAccounted, UploadPrivate, OldOwned, Uploading, At, Named,
         Optional, Slots
<1> QED
  BY <1>5, <1>6

LEMMA UploadUpsertStep ==
  ASSUME DocumentInv, NEW r \in Requests, UploadUpsert(r)
  PROVE  DocumentInv'
<1> USE DEF DocumentInv
<1> DEFINE s == req[r].slot
<1>1. PICK id \in DocIds :
        /\ doc' = [doc EXCEPT ![s] = [id |-> id, key |-> req[r].key]]
        /\ created' = created \cup {id}
  <2>1. PICK id \in IF DocExists(s) THEN {doc[s].id} ELSE DocIds \ created :
          /\ doc' = [doc EXCEPT ![s] = [id |-> id, key |-> req[r].key]]
          /\ created' = created \cup {id}
    BY DEF UploadUpsert
  <2>2. s \in Slots
    BY DEF UploadUpsert, HandlersReady, At
  <2>3. doc[s] \in Document
    BY <2>2 DEF TypeOK
  <2>4. id \in DocIds
    BY <2>1, <2>3 DEF DocExists, Document, Optional
  <2> QED
    BY <2>1, <2>4
<1>2. /\ linked' = linked \cup {req[r].key}
      /\ strays' = strays \cup ({doc[s].key} \ {NULL, req[r].old})
      /\ UNCHANGED <<trucks, objects, owner>> /\ At(r, "upsert")
      /\ s[1] \in trucks
  BY DEF UploadUpsert, TruckThere
<1>3. /\ req' \in [Requests -> Handler]
      /\ \A q \in Requests \ {r} : req'[q] = req[q]
      /\ \/ /\ req'[r].pc = "idle" /\ req[r].old \in {NULL, req[r].key}
         \/ /\ req'[r].pc = "collect" /\ req'[r].slot = s
            /\ req'[r].old = req[r].old
            /\ req[r].old \notin {NULL, req[r].key}
  BY ReturnStep, GotoStep DEF UploadUpsert, TypeOK, Pc
<1>4. s \in Slots /\ req[r].key \in Keys /\ req[r].old \in Optional(Keys)
  BY <1>2 DEF TypeOK, HandlersReady, At, Handler, Optional
<1>5. /\ doc'[s] = [id |-> id, key |-> req[r].key]
      /\ \A t \in Slots \ {s} : doc'[t] = doc[t]
      /\ doc' \in [Slots -> Document]
  BY <1>1, <1>4 DEF TypeOK, Document, Optional
<1>6. TypeOK'
  BY <1>1, <1>2, <1>3, <1>4, <1>5, DocumentConstants
     DEF TypeOK, DocExists, Document, Optional
<1>7. HandlersReady'
  BY <1>2, <1>3, <1>4 DEF HandlersReady, At
<1>8. KeysAccounted' /\ UploadPrivate'
  BY <1>2, <1>3, <1>4, <1>5 DEF KeysAccounted, UploadPrivate, Uploading, At
<1>9. OldOwned'
  BY <1>2, <1>3, <1>4, <1>5
     DEF KeysAccounted, UploadPrivate, OldOwned, Uploading, At, Named
<1> QED
  BY <1>6, <1>7, <1>8, <1>9

LEMMA UploadPutFailsStep ==
  ASSUME DocumentInv, NEW r \in Requests, UploadPutFails(r)
  PROVE  DocumentInv'
<1> USE DEF DocumentInv
<1>1. PICK k \in Keys :
        /\ owner[k] = NULL
        /\ owner' = [owner EXCEPT ![k] = req[r].slot]
        /\ \/ UNCHANGED <<objects, strays>>
           \/ objects' = objects \cup {k} /\ strays' = strays \cup {k}
  BY DEF UploadPutFails, KeysFor
<1>2. /\ req' \in [Requests -> Handler]
      /\ req'[r].pc = "idle"
      /\ \A q \in Requests \ {r} : req'[q] = req[q]
  BY ReturnStep DEF UploadPutFails, TypeOK
<1>3. UNCHANGED <<trucks, doc, created, linked>> /\ At(r, "put")
  BY DEF UploadPutFails
<1>4. req[r].slot \in Slots /\ req[r].slot # NULL
  BY <1>3, DocumentConstants DEF HandlersReady, At, Slots
<1>5. TypeOK' /\ HandlersReady'
  BY <1>1, <1>2, <1>3, <1>4, DocumentConstants
     DEF TypeOK, HandlersReady, At, DocExists, Optional
<1>6. /\ owner'[k] # NULL
      /\ \A l \in Keys \ {k} : owner'[l] = owner[l]
  BY <1>1, <1>4 DEF TypeOK
<1>7. KeysAccounted'
  BY <1>1, <1>3, <1>6 DEF TypeOK, KeysAccounted, Document, Optional
<1>8. UploadPrivate'
  BY <1>1, <1>2, <1>3, <1>6
     DEF TypeOK, KeysAccounted, UploadPrivate, Uploading
<1>9. OldOwned'
  BY <1>1, <1>2, <1>3, <1>6
     DEF TypeOK, KeysAccounted, OldOwned, At, Named
<1> QED
  BY <1>5, <1>7, <1>8, <1>9

(* The row's file is read whatever it is: it is a named file of the slot.  *)
LEMMA UploadReadExistingStep ==
  ASSUME DocumentInv, NEW r \in Requests, UploadReadExisting(r)
  PROVE  DocumentInv'
<1> USE DEF DocumentInv
<1> DEFINE s == req[r].slot
           h == [req[r] EXCEPT !.pc = "upsert", !.old = doc[s].key]
<1>1. /\ At(r, "existing") /\ Become(r, h)
      /\ UNCHANGED <<trucks, doc, created, objects, owner, linked, strays>>
  BY DEF UploadReadExisting
<1>2. s \in Slots /\ req[r] \in Handler /\ doc[s].key \in Optional(Keys)
  BY <1>1 DEF TypeOK, HandlersReady, At, Document
<1>3. /\ h \in Handler /\ h.pc = "upsert" /\ h.slot = s
      /\ h.key = req[r].key /\ h.old = doc[s].key
  BY <1>2 DEF Handler, Pc
<1> HIDE DEF h
<1>4. /\ req' \in [Requests -> Handler] /\ req'[r] = h
      /\ \A q \in Requests \ {r} : req'[q] = req[q]
  BY <1>1, <1>3, BecomeStep DEF TypeOK
<1>5. TypeOK' /\ HandlersReady'
  BY <1>1, <1>2, <1>3, <1>4 DEF TypeOK, HandlersReady, At, DocExists
<1>6. KeysAccounted' /\ UploadPrivate' /\ OldOwned'
  BY <1>1, <1>2, <1>3, <1>4
     DEF KeysAccounted, UploadPrivate, OldOwned, Uploading, At, Named
<1> QED
  BY <1>5, <1>6

LEMMA UploadUpsertFailsStep ==
  ASSUME DocumentInv, NEW r \in Requests, UploadUpsertFails(r)
  PROVE  DocumentInv'
<1> USE DEF DocumentInv
<1>1. /\ req' \in [Requests -> Handler]
      /\ req'[r].pc = "cleanup" /\ req'[r].slot = req[r].slot
      /\ req'[r].key = req[r].key
      /\ \A q \in Requests \ {r} : req'[q] = req[q]
  BY GotoStep DEF UploadUpsertFails, TypeOK, Pc
<1>2. /\ UNCHANGED <<trucks, doc, created, objects, owner, linked, strays>>
      /\ At(r, "upsert")
  BY DEF UploadUpsertFails
<1>3. TypeOK' /\ HandlersReady'
  BY <1>1, <1>2 DEF TypeOK, HandlersReady, At, DocExists
<1>4. KeysAccounted' /\ UploadPrivate' /\ OldOwned'
  BY <1>1, <1>2
     DEF KeysAccounted, UploadPrivate, OldOwned, Uploading, At, Named
<1> QED
  BY <1>3, <1>4

(* A file is deleted that its handler has for itself, or that no row names.*)
LEMMA DeleteStep ==
  ASSUME DocumentInv, NEW r \in Requests, UploadCleanup(r) \/ Collect(r)
  PROVE  DocumentInv'
<1> USE DEF DocumentInv
<1> DEFINE k == IF At(r, "collect") THEN req[r].old ELSE req[r].key
<1>1. /\ req' \in [Requests -> Handler]
      /\ req'[r].pc = "idle"
      /\ \A q \in Requests \ {r} : req'[q] = req[q]
  BY ReturnStep DEF UploadCleanup, Collect, TypeOK
<1>2. /\ UNCHANGED <<trucks, doc, created, owner, linked>>
      /\ req[r].pc \in {"cleanup", "collect"}
      /\ \/ objects' = objects \ {k} /\ UNCHANGED strays
         \/ strays' = strays \cup {k} /\ UNCHANGED objects
  BY DEF UploadCleanup, Collect, DeleteObject, At
<1>3. /\ k \in Keys /\ k \notin Named
      /\ \A q \in Requests \ {r} : Uploading(q) => req[q].key # k
  BY <1>2 DEF TypeOK, HandlersReady, KeysAccounted, UploadPrivate, OldOwned,
              Uploading, At, Named, Handler, Optional
<1> HIDE DEF k
<1>4. TypeOK' /\ HandlersReady'
  BY <1>1, <1>2, <1>3 DEF TypeOK, HandlersReady, At, DocExists
<1>5. KeysAccounted' /\ UploadPrivate' /\ OldOwned'
  BY <1>1, <1>2, <1>3
     DEF KeysAccounted, UploadPrivate, OldOwned, Uploading, At, Named
<1> QED
  BY <1>4, <1>5

LEMMA RemoveRowStep ==
  ASSUME DocumentInv, NEW r \in Requests, RemoveRow(r)
  PROVE  DocumentInv'
<1> USE DEF DocumentInv
<1> DEFINE s == req[r].slot
<1>1. /\ req' \in [Requests -> Handler]
      /\ req'[r].pc = "collect" /\ req'[r].slot = s
      /\ req'[r].old = req[r].old
      /\ \A q \in Requests \ {r} : req'[q] = req[q]
  BY GotoStep DEF RemoveRow, TypeOK, Pc
<1>2. /\ UNCHANGED <<trucks, created, objects, owner, linked>>
      /\ At(r, "delete") /\ doc[s].id = req[r].id
      /\ doc' = [doc EXCEPT ![s] = NoDoc]
      /\ strays' = strays \cup ({doc[s].key} \ {req[r].old})
  BY DEF RemoveRow
<1>3. /\ s \in Slots /\ req[r].id # NULL /\ doc[s].key \in Keys
      /\ req[r].old # NULL
  BY <1>2 DEF TypeOK, HandlersReady, At, Document, Optional
<1>4. /\ doc'[s] = NoDoc /\ doc' \in [Slots -> Document]
      /\ \A t \in Slots \ {s} : doc'[t] = doc[t]
  BY <1>2, <1>3 DEF TypeOK, NoDoc, Document, Optional
<1>5. TypeOK' /\ HandlersReady'
  BY <1>1, <1>2, <1>3, <1>4 DEF TypeOK, HandlersReady, At, DocExists, NoDoc
<1>6. KeysAccounted' /\ UploadPrivate'
  BY <1>1, <1>2, <1>3, <1>4
     DEF KeysAccounted, UploadPrivate, Uploading, At, NoDoc
<1>7. OldOwned'
  BY <1>1, <1>2, <1>3, <1>4
     DEF KeysAccounted, OldOwned, At, Named, NoDoc
<1> QED
  BY <1>5, <1>6, <1>7

LEMMA RejectStep ==
  ASSUME DocumentInv, NEW r \in Requests, Reject(r)
  PROVE  DocumentInv'
<1> USE DEF DocumentInv
<1>1. /\ req' \in [Requests -> Handler]
      /\ req'[r].pc = "idle"
      /\ \A q \in Requests \ {r} : req'[q] = req[q]
  BY ReturnStep DEF Reject, TypeOK
<1>2. /\ UNCHANGED <<trucks, doc, created, objects, owner, linked>>
      /\ strays' = strays \cup ({req[r].key} \ {NULL})
  BY DEF Reject
<1>3. TypeOK' /\ HandlersReady'
  BY <1>1, <1>2 DEF TypeOK, HandlersReady, At, DocExists, Handler, Optional
<1>4. KeysAccounted' /\ UploadPrivate' /\ OldOwned'
  BY <1>1, <1>2
     DEF KeysAccounted, UploadPrivate, OldOwned, Uploading, At, Named
<1> QED
  BY <1>3, <1>4

LEMMA ArriveStep ==
  ASSUME DocumentInv, NEW r \in Requests, NEW s \in Slots,
         UploadRead(r, s) \/ RemoveRead(r, s)
  PROVE  DocumentInv'
<1> USE DEF DocumentInv
<1>1. PICK h \in Handler :
        /\ Become(r, h)
        /\ h.slot = s
        /\ \/ h.pc = "put"
           \/ /\ h.pc = "delete" /\ h.id = doc[s].id /\ h.old = doc[s].key
              /\ h.id # NULL /\ h.old # NULL
  <2>1. CASE UploadRead(r, s)
    <3> DEFINE h == [Idle EXCEPT !.pc = "put", !.slot = s]
    <3>1. h \in Handler /\ h.pc = "put" /\ h.slot = s
      BY IdleTyped DEF Handler, Pc, Optional
    <3>2. Become(r, h)
      BY <2>1 DEF UploadRead
    <3> HIDE DEF h
    <3> QED
      BY <3>1, <3>2
  <2>2. CASE RemoveRead(r, s)
    <3>1. doc[s].id \in DocIds /\ doc[s].key \in Keys
      BY <2>2 DEF RemoveRead, DocExists, TypeOK, Document, Optional
    <3> DEFINE h == [Idle EXCEPT !.pc = "delete", !.slot = s,
                                 !.id = doc[s].id, !.old = doc[s].key]
    <3>2. /\ h \in Handler /\ h.pc = "delete" /\ h.slot = s
          /\ h.id = doc[s].id /\ h.old = doc[s].key
      BY <3>1, IdleTyped DEF Handler, Pc, Optional
    <3>3. Become(r, h)
      BY <2>2 DEF RemoveRead
    <3> HIDE DEF h
    <3> QED
      BY <3>1, <3>2, <3>3, DocumentConstants
  <2> QED
    BY <2>1, <2>2
<1>2. /\ req' \in [Requests -> Handler] /\ req'[r] = h
      /\ \A q \in Requests \ {r} : req'[q] = req[q]
  BY <1>1, BecomeStep DEF TypeOK
<1>3. UNCHANGED <<trucks, doc, created, objects, owner, linked, strays>>
  BY DEF UploadRead, RemoveRead
<1>4. TypeOK' /\ HandlersReady'
  BY <1>1, <1>2, <1>3 DEF TypeOK, HandlersReady, At, DocExists
<1>5. KeysAccounted' /\ UploadPrivate' /\ OldOwned'
  BY <1>1, <1>2, <1>3
     DEF KeysAccounted, UploadPrivate, OldOwned, Uploading, At, Named
<1> QED
  BY <1>4, <1>5

(* The restart of the process forgets every handler and every key in hand. *)
LEMMA CrashStep ==
  ASSUME DocumentInv, Crash
  PROVE  DocumentInv'
<1> USE DEF DocumentInv
<1>1. \A r \in Requests : InHand(r) \subseteq Keys
  BY DEF InHand, TypeOK, HandlersReady, At, Handler, Optional
<1>2. /\ req' = [r \in Requests |-> Idle]
      /\ strays' = strays \cup UNION {InHand(r) : r \in Requests}
      /\ UNCHANGED <<trucks, doc, created, objects, owner, linked>>
  BY DEF Crash
<1>3. TypeOK'
  BY <1>1, <1>2, IdleTyped DEF TypeOK, DocExists
<1>4. HandlersReady' /\ KeysAccounted' /\ UploadPrivate' /\ OldOwned'
  BY <1>2 DEF HandlersReady, KeysAccounted, UploadPrivate, OldOwned, Uploading,
              At, Idle
<1> QED
  BY <1>3, <1>4

(* The documents of a truck go with it, their files stay.                  *)
LEMMA TruckRemoveStep ==
  ASSUME DocumentInv, NEW v \in Trucks, TruckRemove(v)
  PROVE  DocumentInv'
<1> USE DEF DocumentInv
<1>1. /\ trucks' = trucks \ {v}
      /\ doc' = [s \in Slots |-> IF s[1] = v THEN NoDoc ELSE doc[s]]
      /\ strays' = strays \cup ({doc[s].key : s \in {v} \X Types} \ {NULL})
      /\ UNCHANGED <<created, objects, owner, req, linked>>
  BY DEF TruckRemove
<1>2. \A s \in {v} \X Types : doc[s].key \in Optional(Keys)
  BY DEF TypeOK, Document, Slots
<1>3. TypeOK' /\ HandlersReady'
  BY <1>1, <1>2 DEF TypeOK, HandlersReady, At, DocExists, NoDoc, Document,
                    Optional, Slots
<1>4. KeysAccounted' /\ UploadPrivate' /\ OldOwned'
  BY <1>1 DEF KeysAccounted, UploadPrivate, OldOwned, Uploading, At, Named, NoDoc
<1> QED
  BY <1>3, <1>4

LEMMA InvStep == DocumentInv /\ [Next]_vars => DocumentInv'
<1> SUFFICES ASSUME DocumentInv, [Next]_vars PROVE DocumentInv'
  OBVIOUS
<1>1. ASSUME NEW r \in Requests, Proceed(r) PROVE DocumentInv'
  BY <1>1, UploadPutStep, UploadPutFailsStep, UploadReadExistingStep,
     UploadUpsertStep, UploadUpsertFailsStep, DeleteStep, RemoveRowStep,
     RejectStep DEF Proceed
<1>2. CASE UNCHANGED vars
  BY <1>2 DEF vars, DocumentInv, TypeOK, HandlersReady, KeysAccounted,
              UploadPrivate, OldOwned, Uploading, At, Named, DocExists
<1> QED
  BY <1>1, <1>2, ArriveStep, CrashStep, TruckRemoveStep DEF Next

(* Of the uploads, replacements and removals of one document that overlap, *)
(* none deletes the file the row ends up naming, whatever fails or crashes.*)
THEOREM DocumentsSafe == Spec => []NoDanglingDocument
<1>1. DocumentInv => NoDanglingDocument
  BY DEF DocumentInv, KeysAccounted, NoDanglingDocument, Named
<1> QED
  BY <1>1, InvInit, InvStep, PTL DEF Spec

(* Rows, keys and handlers keep their types, and no document outlives its  *)
(* truck.                                                                  *)
THEOREM TypeCorrect == Spec => []TypeOK
<1>1. DocumentInv => TypeOK
  BY DEF DocumentInv
<1> QED
  BY <1>1, InvInit, InvStep, PTL DEF Spec

-----------------------------------------------------------------------------
(* Files no row names                                                      *)

Unexplained == objects \ (Named \cup strays)

(* It is enough to look at the handler that moved: every unexplained file  *)
(* is in its hands now, or was unexplained before and in other hands.      *)
LEMMA OtherHands ==
  ASSUME StraysExplained, NEW r \in Requests,
         \A q \in Requests \ {r} : req'[q] = req[q],
         \A k \in Unexplained' :
           k \in InHand(r)' \/ (k \in Unexplained /\ k \notin InHand(r))
  PROVE  StraysExplained'
<1>1. \A q \in Requests \ {r} : InHand(q)' = InHand(q)
  BY DEF InHand, At
<1> QED
  BY <1>1 DEF StraysExplained, Unexplained

LEMMA ProceedStrays ==
  ASSUME DocumentInv, StraysExplained, NEW r \in Requests, Proceed(r)
  PROVE  StraysExplained'
<1> DEFINE Goal == \A k \in Unexplained' :
             k \in InHand(r)' \/ (k \in Unexplained /\ k \notin InHand(r))
<1> USE DEF DocumentInv
<1>1. CASE UploadPut(r)
  <2>1. /\ \A q \in Requests \ {r} : req'[q] = req[q]
        /\ req'[r].pc = "existing" /\ objects' = objects \cup {req'[r].key}
    BY <1>1 DEF UploadPut, Become, TypeOK, Handler
  <2>2. Goal
    BY <1>1, <2>1 DEF UploadPut, Unexplained, Named, InHand, At
  <2> QED
    BY <2>1, <2>2, OtherHands
<1>2. CASE UploadPutFails(r)
  <2>1. \A q \in Requests \ {r} : req'[q] = req[q]
    BY <1>2, ReturnStep DEF UploadPutFails, TypeOK
  <2>2. Goal
    BY <1>2 DEF UploadPutFails, Unexplained, Named, InHand, At
  <2> QED
    BY <2>1, <2>2, OtherHands
<1>3. CASE UploadReadExisting(r)
  <2>1. /\ \A q \in Requests \ {r} : req'[q] = req[q]
        /\ req'[r].pc = "upsert" /\ req'[r].key = req[r].key
    BY <1>3 DEF UploadReadExisting, Become, TypeOK, Handler
  <2>2. Goal
    BY <1>3, <2>1 DEF UploadReadExisting, Unexplained, Named, InHand, At,
                      StraysExplained
  <2> QED
    BY <2>1, <2>2, OtherHands
<1>4. CASE UploadUpsert(r)
  <2> DEFINE s == req[r].slot
  <2>1. /\ \A q \in Requests \ {r} : req'[q] = req[q]
        /\ \/ req[r].old \in {NULL, req[r].key}
           \/ req'[r].pc = "collect" /\ req'[r].old = req[r].old
    BY <1>4, ReturnStep, GotoStep DEF UploadUpsert, TypeOK, Pc
  <2>2. /\ At(r, "upsert") /\ s \in Slots /\ objects' = objects
        /\ strays' = strays \cup ({doc[s].key} \ {NULL, req[r].old})
        /\ doc'[s].key = req[r].key
        /\ \A t \in Slots \ {s} : doc'[t] = doc[t]
    BY <1>4 DEF UploadUpsert, TypeOK, HandlersReady, At
  <2>3. Named \subseteq Named' \cup {doc[s].key}
    BY <2>2 DEF Named
  <2>4. req[r].key \in Named'
    BY <2>2 DEF Named, HandlersReady, At
  <2>5. NULL \notin objects
    BY DocumentConstants DEF TypeOK
  <2>6. Goal
    BY <2>1, <2>2, <2>3, <2>4, <2>5 DEF Unexplained, InHand, At
  <2> QED
    BY <2>1, <2>6, OtherHands
<1>5. CASE UploadUpsertFails(r)
  <2>1. /\ \A q \in Requests \ {r} : req'[q] = req[q]
        /\ req'[r].pc = "cleanup" /\ req'[r].key = req[r].key
    BY <1>5, GotoStep DEF UploadUpsertFails, TypeOK, Pc
  <2>2. Goal
    BY <1>5, <2>1 DEF UploadUpsertFails, Unexplained, Named, InHand, At
  <2> QED
    BY <2>1, <2>2, OtherHands
<1>6. CASE UploadCleanup(r) \/ Collect(r)
  <2>1. \A q \in Requests \ {r} : req'[q] = req[q]
    BY <1>6, ReturnStep DEF UploadCleanup, Collect, TypeOK
  <2>2. Goal
    BY <1>6 DEF UploadCleanup, Collect, DeleteObject, Unexplained, Named,
                InHand, At
  <2> QED
    BY <2>1, <2>2, OtherHands
<1>7. CASE RemoveRow(r)
  <2> DEFINE s == req[r].slot
  <2>1. /\ \A q \in Requests \ {r} : req'[q] = req[q]
        /\ req'[r].pc = "collect" /\ req'[r].old = req[r].old
    BY <1>7, GotoStep DEF RemoveRow, TypeOK, Pc
  <2>2. /\ At(r, "delete") /\ s \in Slots /\ objects' = objects
        /\ strays' = strays \cup ({doc[s].key} \ {req[r].old})
        /\ \A t \in Slots \ {s} : doc'[t] = doc[t]
    BY <1>7 DEF RemoveRow, TypeOK, HandlersReady, At
  <2>3. Named \subseteq Named' \cup {doc[s].key}
    BY <2>2 DEF Named
  <2>4. Goal
    BY <2>1, <2>2, <2>3 DEF Unexplained, InHand, At
  <2> QED
    BY <2>1, <2>4, OtherHands
<1>8. CASE Reject(r)
  <2>1. \A q \in Requests \ {r} : req'[q] = req[q]
    BY <1>8, ReturnStep DEF Reject, TypeOK
  <2>2. NULL \notin objects
    BY DocumentConstants DEF TypeOK
  <2>3. Goal
    BY <1>8, <2>2 DEF Reject, Unexplained, Named, InHand, At
  <2> QED
    BY <2>1, <2>3, OtherHands
<1> QED
  BY <1>1, <1>2, <1>3, <1>4, <1>5, <1>6, <1>7, <1>8 DEF Proceed

LEMMA StraysStep ==
  DocumentInv /\ StraysExplained /\ [Next]_vars => StraysExplained'
<1> SUFFICES ASSUME DocumentInv, StraysExplained, [Next]_vars
             PROVE  StraysExplained'
  OBVIOUS
<1>1. ASSUME NEW r \in Requests, NEW s \in Slots,
             UploadRead(r, s) \/ RemoveRead(r, s)
      PROVE  StraysExplained'
  <2>1. /\ \A q \in Requests \ {r} : req'[q] = req[q]
        /\ At(r, "idle")
        /\ UNCHANGED <<doc, objects, strays>>
    BY <1>1 DEF UploadRead, RemoveRead, Become, DocumentInv, TypeOK
  <2>2. Unexplained' = Unexplained /\ InHand(r) = {}
    BY <2>1 DEF Unexplained, Named, InHand, At
  <2> QED
    BY <2>1, <2>2, OtherHands
<1>2. CASE Crash
  <2>1. Unexplained' = {}
    BY <1>2 DEF Crash, Unexplained, Named, StraysExplained
  <2> QED
    BY <2>1 DEF StraysExplained, Unexplained
<1>3. ASSUME NEW v \in Trucks, TruckRemove(v) PROVE StraysExplained'
  <2>1. UNCHANGED <<objects, req>>
    BY <1>3 DEF TruckRemove
  <2>2. \A s \in Slots : doc[s].key # NULL =>
          doc[s].key \in Named' \cup strays'
    BY <1>3 DEF TruckRemove, Named, Slots
  <2>3. strays \subseteq strays'
    BY <1>3 DEF TruckRemove
  <2> QED
    BY <2>1, <2>2, <2>3 DEF StraysExplained, Named, InHand, At
<1>4. CASE UNCHANGED vars
  BY <1>4 DEF vars, StraysExplained, Named, InHand, At
<1> QED
  BY <1>1, <1>2, <1>3, <1>4, ProceedStrays DEF Next

(* A file no row names is in the hands of a handler, or was given up in    *)
(* one of the ways the history names.                                      *)
THEOREM StraysAreExplained == Spec => []StraysExplained
<1>1. Init => StraysExplained
  BY DEF Init, StraysExplained
<1> QED
  BY <1>1, InvInit, InvStep, StraysStep, PTL DEF Spec

-----------------------------------------------------------------------------
(* TruckDocuments implements ObjectStore                                   *)

Owned(k) == owner[k] # NULL

(* The phases in terms of four sets; no key is dangling.                   *)
PhaseMeans(k) ==
  /\ k \in Named <=> Phase(k) = "linked"
  /\ k \in objects /\ k \notin linked <=> Phase(k) = "stored"
  /\ k \in objects /\ k \in linked /\ k \notin Named <=> Phase(k) = "unlinked"
  /\ Owned(k) /\ k \notin objects <=> Phase(k) = "deleted"
  /\ ~Owned(k) <=> Phase(k) = "unused"
  /\ Phase(k) \in Store!Phases

LEMMA PhaseIs == DocumentInv => \A k \in Keys : PhaseMeans(k)
<1> SUFFICES ASSUME DocumentInv, NEW k \in Keys PROVE PhaseMeans(k)
  OBVIOUS
<1>1. /\ k \in Named => k \in linked /\ k \in objects
      /\ k \in linked => Owned(k)
      /\ k \in objects => Owned(k)
  BY DEF DocumentInv, KeysAccounted, Named, Owned
<1>2. CASE k \in Named
  BY <1>1, <1>2 DEF Phase, PhaseMeans, Store!Phases
<1>3. CASE k \in objects \ Named
  BY <1>1, <1>3 DEF Phase, PhaseMeans, Store!Phases
<1>4. CASE Owned(k) /\ k \notin Named \cup objects
  BY <1>1, <1>4 DEF Phase, PhaseMeans, Store!Phases, Owned
<1>5. CASE ~Owned(k)
  BY <1>1, <1>5 DEF Phase, PhaseMeans, Store!Phases, Owned
<1> QED
  BY <1>1, <1>2, <1>3, <1>4, <1>5

(* The same after a step.                                                  *)
LEMMA PhaseIsNext == (DocumentInv => \A k \in Keys : PhaseMeans(k))'
BY PhaseIs, PTL

(* What one step may do to one key, said with the four sets.               *)
KeyMoves(k) ==
  \/ /\ k \in Named' <=> k \in Named
     /\ k \in objects' <=> k \in objects
     /\ k \in linked' <=> k \in linked
     /\ Owned(k)' <=> Owned(k)
  \/ ~Owned(k) /\ Owned(k)' /\ k \notin linked'
  \/ k \in objects \ linked /\ k \in Named'
  \/ k \in objects \ linked /\ Owned(k)' /\ k \notin objects'
  \/ k \in Named /\ k \notin Named' /\ k \in objects' /\ k \in linked'
  \/ k \in (objects \cap linked) \ Named /\ Owned(k)' /\ k \notin objects'

(* Those moves are the steps of ObjectStore.                               *)
LEMMA MovesFollow ==
  ASSUME DocumentInv, DocumentInv', NEW k \in Keys, KeyMoves(k)
  PROVE  Phase(k)' = Phase(k) \/ <<Phase(k), Phase(k)'>> \in Store!Steps
<1>1. PhaseMeans(k) /\ PhaseMeans(k)'
  BY PhaseIs, PhaseIsNext
<1>2. /\ k \in linked => Owned(k)
      /\ k \in objects => Owned(k)
      /\ (k \in linked => Owned(k))'
      /\ (k \in objects => Owned(k))'
  BY DEF DocumentInv, KeysAccounted, Owned
<1> QED
  BY <1>1, <1>2 DEF PhaseMeans, KeyMoves, Store!Phases, Store!Steps

(* A handler that moves moves every key so.                                *)
LEMMA ProceedMoves ==
  ASSUME DocumentInv, NEW r \in Requests, Proceed(r), NEW k \in Keys
  PROVE  KeyMoves(k)
<1> USE DEF DocumentInv
<1>1. CASE UploadPut(r) \/ UploadPutFails(r)
  <2>1. PICK j \in Keys :
          /\ owner[j] = NULL
          /\ owner' = [owner EXCEPT ![j] = req[r].slot]
          /\ objects' \subseteq objects \cup {j} /\ objects \subseteq objects'
    BY <1>1 DEF UploadPut, UploadPutFails, KeysFor
  <2>2. req[r].slot # NULL /\ UNCHANGED <<doc, linked>>
    BY <1>1, DocumentConstants DEF UploadPut, UploadPutFails, HandlersReady,
                                   At, Slots
  <2> QED
    BY <2>1, <2>2 DEF KeyMoves, Owned, Named, TypeOK, KeysAccounted
<1>2. CASE UploadUpsert(r)
  <2> DEFINE s == req[r].slot
  <2>1. /\ s \in Slots /\ UNCHANGED <<objects, owner>> /\ Uploading(r)
        /\ linked' = linked \cup {req[r].key}
        /\ doc'[s].key = req[r].key
        /\ \A t \in Slots \ {s} : doc'[t] = doc[t]
    BY <1>2 DEF UploadUpsert, TypeOK, HandlersReady, At, Uploading
  <2>2. Named' \subseteq Named \cup {req[r].key}
    BY <2>1 DEF Named
  <2>3. req[r].key \in Named' /\ req[r].key \in objects \ linked
    BY <2>1 DEF Named, HandlersReady, UploadPrivate, Uploading
  <2>4. k \in Named => k \in objects \cap linked
    BY DEF Named, KeysAccounted
  <2> QED
    BY <2>1, <2>2, <2>3, <2>4 DEF KeyMoves, Owned
<1>3. CASE UploadCleanup(r)
  <2>1. /\ objects' \in {objects, objects \ {req[r].key}}
        /\ UNCHANGED <<doc, owner, linked>> /\ At(r, "cleanup")
    BY <1>3 DEF UploadCleanup, DeleteObject
  <2>2. req[r].key \in objects \ linked
    BY <2>1 DEF UploadPrivate, Uploading, At
  <2>3. k \in objects => owner[k] # NULL
    BY DEF KeysAccounted
  <2> QED
    BY <2>1, <2>2, <2>3 DEF KeyMoves, Owned, Named
<1>4. CASE Collect(r)
  <2>1. /\ objects' \in {objects, objects \ {req[r].old}}
        /\ UNCHANGED <<doc, owner, linked>> /\ At(r, "collect")
    BY <1>4 DEF Collect, DeleteObject
  <2>2. req[r].old \in linked \ Named
    BY <2>1 DEF OldOwned, HandlersReady, At
  <2>3. k \in objects => owner[k] # NULL
    BY DEF KeysAccounted
  <2> QED
    BY <2>1, <2>2, <2>3 DEF KeyMoves, Owned, Named
<1>5. CASE RemoveRow(r)
  <2>1. /\ Named' \subseteq Named /\ UNCHANGED <<objects, owner, linked>>
    BY <1>5 DEF RemoveRow, Named, NoDoc, TypeOK, HandlersReady, At
  <2>2. k \in Named => k \in objects \cap linked
    BY DEF Named, KeysAccounted
  <2> QED
    BY <2>1, <2>2 DEF KeyMoves, Owned
<1>6. CASE UploadReadExisting(r) \/ UploadUpsertFails(r) \/ Reject(r)
  BY <1>6 DEF UploadReadExisting, UploadUpsertFails, Reject, KeyMoves, Owned,
              Named
<1> QED
  BY <1>1, <1>2, <1>3, <1>4, <1>5, <1>6 DEF Proceed

LEMMA StoreInit == Init => Store!Init
<1> SUFFICES ASSUME Init, NEW k \in Keys PROVE Phase(k) = "unused"
  BY DEF Store!Init
<1>1. PhaseMeans(k) /\ ~Owned(k)
  BY InvInit, PhaseIs DEF Init, Owned
<1> QED
  BY <1>1 DEF PhaseMeans

LEMMA StoreStep ==
  DocumentInv /\ DocumentInv' /\ [Next]_vars => Store!Next
<1> SUFFICES ASSUME DocumentInv, DocumentInv', [Next]_vars PROVE Store!Next
  OBVIOUS
<1>1. ASSUME NEW k \in Keys PROVE KeyMoves(k)
  <2>1. CASE UNCHANGED <<doc, objects, owner, linked>>
    BY <2>1 DEF KeyMoves, Named, Owned
  <2>2. ASSUME NEW r \in Requests, Proceed(r) PROVE KeyMoves(k)
    BY <2>2, ProceedMoves
  <2>3. ASSUME NEW r \in Requests, NEW s \in Slots,
               UploadRead(r, s) \/ RemoveRead(r, s)
        PROVE  UNCHANGED <<doc, objects, owner, linked>>
    BY <2>3 DEF UploadRead, RemoveRead
  <2>4. Crash => UNCHANGED <<doc, objects, owner, linked>>
    BY DEF Crash
  <2>5. ASSUME NEW v \in Trucks, TruckRemove(v) PROVE KeyMoves(k)
    <3>1. Named' \subseteq Named /\ UNCHANGED <<objects, owner, linked>>
      BY <2>5 DEF TruckRemove, Named, NoDoc
    <3>2. k \in Named => k \in objects \cap linked
      BY DEF DocumentInv, Named, KeysAccounted
    <3> QED
      BY <3>1, <3>2 DEF KeyMoves, Owned
  <2>6. UNCHANGED vars => UNCHANGED <<doc, objects, owner, linked>>
    BY DEF vars
  <2> QED
    BY <2>1, <2>2, <2>3, <2>4, <2>5, <2>6 DEF Next
<1>2. \A k \in Keys : Phase(k)' \in Store!Phases
  BY PhaseIsNext DEF PhaseMeans
<1>3. \A k \in Keys :
        Phase(k)' = Phase(k) \/ <<Phase(k), Phase(k)'>> \in Store!Steps
  BY <1>1, MovesFollow
<1> QED
  BY <1>2, <1>3 DEF Store!Next

(* Every behaviour of TruckDocuments is, seen through Phase, a behaviour of*)
(* ObjectStore: keys are used once, and no file goes while a row names it. *)
THEOREM DocumentsImplementStore == Spec => DocumentsFollowStore
<1> QED
  BY InvInit, InvStep, StoreInit, StoreStep, PTL
     DEF Spec, DocumentsFollowStore, Store!Spec
=============================================================================
