----------------------------- MODULE Catalogue -----------------------------
(***************************************************************************)
(* The name lists: DestinationService, EmployeeService, OccupationService, *)
(* and the two places that use them, the start and the edit of a trip      *)
(* (TripHistoryService) and the registration of a user (AuthService).      *)
(*                                                                         *)
(* Every handler looks a name up in one query and writes in another, with  *)
(* no transaction around the two.  A request is a handler in flight; its   *)
(* missed field holds the entries other handlers wrote since it looked.    *)
(* Access checks, which only reject, and the trip details of the answers   *)
(* are left out; the truck and survey checks of a start are TripHistory's. *)
(* So is the removal of a manager, which sets managedById to null: the     *)
(* null list belongs to nobody and no handler but an update reaches it.    *)
(***************************************************************************)
EXTENDS FiniteSets

CONSTANTS
  Requests,          \* handlers that can be in flight together
  Ids,               \* values of the id sequences
  Words, Spellings,  \* a name is a word and the case it is written in
  Blank,             \* the name that is empty once trimmed
  Managers,          \* users with role ADMIN or DIRECTION
  Trips, Users,      \* TripHistory rows, users registered with an occupation
  NULL

ASSUME CatalogueConstants ==
  /\ Blank \notin Words \X Spellings
  /\ NULL \notin Ids \cup Managers \cup Trips \cup (Words \X Spellings)
                  \cup {Blank}

Optional(S) == S \cup {NULL}
Names == Words \X Spellings
Kinds == {"destination", "employee", "occupation"}

ASSUME NoKind == NULL \notin Kinds \cup {"gone"}

VARIABLES
  entry,      \* Destination, Employee and Occupation rows, by id
  trip,       \* the destination and employee of each TripHistory row
  user,       \* occupationId of each registered user
  req,        \* the handlers in flight
  unchecked   \* history: pairs whose latest write did not look at the other

vars == <<entry, trip, user, req, unchecked>>

(* kind is NULL before the row exists and "gone" after it was deleted.     *)
Entry == [kind : Kinds \cup {NULL, "gone"}, name : Optional(Names \cup {Blank}),
          active : BOOLEAN, manager : Optional(Managers)]
NoEntry == [kind |-> NULL, name |-> NULL, active |-> FALSE, manager |-> NULL]
Gone == [NoEntry EXCEPT !.kind = "gone"]

Trip == [destination : Optional(Ids), employee : Optional(Ids)]
NoTrip == [destination |-> NULL, employee |-> NULL]

Pc == {"idle", "insert", "reactivate",        \* create, and a custom name
       "destination", "employee", "trip",     \* startTrip
       "look", "write",                       \* update
       "delete",                              \* remove
       "register", "edit"}                    \* register, updateByAdmin

(* starting tells a handler of startTrip from one of create; scope is the  *)
(* manager whose list is searched, manager the one an update asks for.  An *)
(* input is chosen at the first step that uses it.                         *)
Handler == [pc : Pc, starting : BOOLEAN, kind : Optional(Kinds),
            id : Optional(Ids), name : Optional(Names),
            scope : Optional(Managers), manager : Optional(Managers),
            destination : Optional(Ids), employee : Optional(Ids),
            trip : Optional(Trips), missed : SUBSET Ids]

Idle == [pc |-> "idle", starting |-> FALSE, kind |-> NULL, id |-> NULL,
         name |-> NULL, scope |-> NULL, manager |-> NULL,
         destination |-> NULL, employee |-> NULL, trip |-> NULL, missed |-> {}]

Init ==
  /\ entry = [i \in Ids |-> NoEntry]
  /\ trip = [t \in Trips |-> NoTrip]
  /\ user = [u \in Users |-> NULL]
  /\ req = [r \in Requests |-> Idle]
  /\ unchecked = {}

-----------------------------------------------------------------------------
(* Rows and handlers.                                                      *)

At(r, pc) == req[r].pc = pc
Exists(i) == entry[i].kind \in Kinds
OfKind(kind) == {i \in Ids : entry[i].kind = kind}
TripExists(t) == trip[t] # NoTrip

Become(r, handler) == req' = [req EXCEPT ![r] = handler]
Return(r) == Become(r, Idle)

(* What a handler has read and still relies on: the entries it holds, and  *)
(* before a named write every one of its list, which its look ruled out.   *)
ReliesOn(h, i, kind) ==
  \/ i \in {h.destination, h.employee}
  \/ h.pc = "reactivate" /\ h.id = i
  \/ h.pc = "insert" /\ h.kind = kind
  \/ h.pc = "write" /\ entry[h.id].kind = kind

(* Handler r writes entry i, which becomes one of kind.                    *)
BecomeWriting(r, handler, i, kind) ==
  req' = [q \in Requests |->
            IF q = r THEN handler
            ELSE IF ReliesOn(req[q], i, kind)
            THEN [req[q] EXCEPT !.missed = @ \cup {i}]
            ELSE req[q]]

(* What the latest write of i leaves unchecked: the entries in others.     *)
Recheck(i, others) ==
  unchecked' = {p \in unchecked : i \notin p}
                 \cup {{i, j} : j \in others \ {i}}

(* mode "insensitive" for destinations and employees, equality else.       *)
Matches(kind, n, m) ==
  IF kind = "occupation" \/ Blank \in {n, m} THEN n = m ELSE n[1] = m[1]

(* Wrong: only active names are looked for.                                *)
BugFound(kind, manager, name) ==
  {i \in OfKind(kind) : /\ entry[i].manager = manager
                        /\ entry[i].active
                        /\ Matches(kind, entry[i].name, name)}

(* The rows findFirst chooses from.                                        *)
Found(kind, manager, name) ==
  {i \in OfKind(kind) : /\ entry[i].manager = manager
                        /\ Matches(kind, entry[i].name, name)}

(* The unique index of Destination compares exact names.                   *)
FitsIndex(i, e) ==
  e.kind = "destination" =>
    \A j \in OfKind("destination") \ {i} :
      <<entry[j].name, entry[j].manager>> # <<e.name, e.manager>>

-----------------------------------------------------------------------------
(* create, and the custom names of startTrip                               *)

(* Where a start goes on once entry i is its destination or employee.      *)
Chosen(h, kind, i) ==
  LET next == [h EXCEPT !.kind = NULL, !.id = NULL, !.name = NULL,
                        !.missed = @ \cap {h.destination, i}]
  IN IF kind = "destination"
     THEN [next EXCEPT !.pc = "employee", !.destination = i]
     ELSE [next EXCEPT !.pc = "trip", !.employee = i]

Written(h, i) == IF h.starting THEN Chosen(h, h.kind, i) ELSE Idle

(* getManagedById: the lists create may add to.                            *)
ListsOf(kind) == IF kind = "occupation" THEN {NULL} ELSE Managers

(* Only the employee's create turns an inactive name on again.             *)
CreateLook(r, kind, name, manager) ==
  LET found == Found(kind, manager, name)
      looked == [Idle EXCEPT !.kind = kind, !.name = name, !.scope = manager]
  IN
  /\ At(r, "idle")
  /\ manager \in ListsOf(kind)
  /\ \/ /\ found = {}
        /\ Become(r, [looked EXCEPT !.pc = "insert"])
     \/ /\ kind = "employee"
        /\ \E i \in found :
             /\ ~entry[i].active
             /\ Become(r, [Idle EXCEPT !.pc = "reactivate", !.id = i])
  /\ UNCHANGED <<entry, trip, user, unchecked>>

NewEntry(h, active) ==
  [kind |-> h.kind, name |-> h.name, active |-> active, manager |-> h.scope]

(* The insert is checked by the database alone: its index and foreign key. *)
(* Only the DTO of a destination carries an active flag.                   *)
Insert(r, i, active) ==
  LET h == req[r] IN
  /\ At(r, "insert")
  /\ h.starting \/ h.kind # "destination" => active
  /\ entry[i].kind = NULL
  /\ FitsIndex(i, NewEntry(h, active))
  /\ entry' = [entry EXCEPT ![i] = NewEntry(h, active)]
  /\ Recheck(i, h.missed)
  /\ BecomeWriting(r, Written(h, i), i, h.kind)
  /\ UNCHANGED <<trip, user>>

(* Wrong: the found entry is used as it is.                                *)
BugReactivate(r) ==
  /\ At(r, "reactivate")
  /\ Become(r, Written(req[r], req[r].id))
  /\ UNCHANGED <<entry, trip, user, unchecked>>

Reactivate(r) ==
  LET h == req[r] IN
  /\ At(r, "reactivate")
  /\ Exists(h.id)
  /\ entry' = [entry EXCEPT ![h.id].active = TRUE]
  /\ BecomeWriting(r, Written(h, h.id), h.id, entry[h.id].kind)
  /\ UNCHANGED <<trip, user, unchecked>>

-----------------------------------------------------------------------------
(* POST /trip-history/start, and the edit of a trip                        *)

(* resolveDriverManagedById: the driver has a manager of the right role.   *)
StartRead(r, manager) ==
  /\ At(r, "idle")
  /\ Become(r, [Idle EXCEPT !.pc = "destination", !.starting = TRUE,
                            !.scope = manager])
  /\ UNCHANGED <<entry, trip, user, unchecked>>

(* findOrCreateActiveByName, and the same written out for employees.       *)
StartCustom(r, kind, name) ==
  LET h == req[r]
      found == Found(kind, h.scope, name)
  IN
  /\ At(r, kind)
  /\ \/ /\ found = {}
        /\ Become(r, [h EXCEPT !.pc = "insert", !.kind = kind,
                               !.name = name])
     \/ \E i \in found :
          Become(r, IF entry[i].active THEN Chosen(h, kind, i)
                    ELSE [h EXCEPT !.pc = "reactivate", !.kind = kind,
                                   !.id = i])
  /\ UNCHANGED <<entry, trip, user, unchecked>>

(* destinationId and employeeId: active and of the driver's manager.       *)
StartSelected(r, kind, i) ==
  /\ At(r, kind)
  /\ i \in OfKind(kind)
  /\ entry[i].active
  /\ entry[i].manager = req[r].scope
  /\ Become(r, Chosen(req[r], kind, i))
  /\ UNCHANGED <<entry, trip, user, unchecked>>

(* Foreign keys of TripHistory.                                            *)
StartInsert(r, t) ==
  /\ At(r, "trip")
  /\ ~TripExists(t)
  /\ Exists(req[r].destination)
  /\ Exists(req[r].employee)
  /\ trip' = [trip EXCEPT ![t] = [destination |-> req[r].destination,
                                  employee |-> req[r].employee]]
  /\ Return(r)
  /\ UNCHANGED <<entry, user, unchecked>>

(* updateByAdmin looks its new destination and employee up, then writes.   *)
EditRead(r, t, d, e) ==
  /\ At(r, "idle")
  /\ TripExists(t)
  /\ d \in OfKind("destination")
  /\ e \in OfKind("employee")
  /\ entry[e].active \/ e = trip[t].employee
  /\ Become(r, [Idle EXCEPT !.pc = "edit", !.trip = t,
                            !.destination = d, !.employee = e])
  /\ UNCHANGED <<entry, trip, user, unchecked>>

EditWrite(r) ==
  LET h == req[r] IN
  /\ At(r, "edit")
  /\ TripExists(h.trip)
  /\ Exists(h.destination)
  /\ Exists(h.employee)
  /\ trip' = [trip EXCEPT ![h.trip] = [destination |-> h.destination,
                                       employee |-> h.employee]]
  /\ Return(r)
  /\ UNCHANGED <<entry, user, unchecked>>

TripRemoved(t) ==
  /\ TripExists(t)
  /\ trip' = [trip EXCEPT ![t] = NoTrip]
  /\ UNCHANGED <<entry, user, req, unchecked>>

-----------------------------------------------------------------------------
(* update                                                                  *)

Given(new, old) == IF new = NULL THEN old ELSE new

(* The access check reads the entry; a name is looked for in the list of   *)
(* the next manager.  No name, or a blank one, skips the look.             *)
UpdateRead(r, i, manager) ==
  /\ At(r, "idle")
  /\ Exists(i)
  /\ entry[i].kind = "occupation" => manager = NULL
  /\ \/ Become(r, [Idle EXCEPT !.pc = "look", !.id = i, !.manager = manager,
                               !.scope = Given(manager, entry[i].manager)])
     \/ Become(r, [Idle EXCEPT !.pc = "write", !.id = i, !.manager = manager])
  /\ UNCHANGED <<entry, trip, user, unchecked>>

UpdateLook(r, name) ==
  LET h == req[r] IN
  /\ At(r, "look")
  /\ Exists(h.id)
  /\ Found(entry[h.id].kind, h.scope, name) \subseteq {h.id}
  /\ Become(r, [h EXCEPT !.pc = "write", !.name = name])
  /\ UNCHANGED <<entry, trip, user, unchecked>>

Updated(h, name, active) ==
  LET old == entry[h.id]
  IN [old EXCEPT !.name = Given(name, old.name),
                 !.active = Given(active, old.active),
                 !.manager = Given(h.manager, old.manager)]

(* The look said nothing about the others when there was none, or when the *)
(* entry has moved to another list since.                                  *)
Unlooked(h, new) ==
  IF h.name # NULL /\ h.scope = new.manager THEN h.missed ELSE Ids

(* The DTO of an employee lets a blank name through.                       *)
UpdateWrite(r, name, active) ==
  LET h == req[r]
      new == Updated(h, name, active)
  IN
  /\ At(r, "write")
  /\ Exists(h.id)
  /\ name # h.name =>
       name = Blank /\ h.name = NULL /\ new.kind = "employee"
  /\ new.kind = "occupation" => active = NULL
  /\ FitsIndex(h.id, new)
  /\ entry' = [entry EXCEPT ![h.id] = new]
  /\ IF name = NULL /\ h.manager = NULL
     THEN UNCHANGED unchecked
     ELSE Recheck(h.id, Unlooked(h, new))
  /\ BecomeWriting(r, Idle, h.id, new.kind)
  /\ UNCHANGED <<trip, user>>

-----------------------------------------------------------------------------
(* remove                                                                  *)

TripsOf(i) == {t \in Trips : i \in {trip[t].destination, trip[t].employee}}
UsersOf(i) == {u \in Users : user[u] = i}

RemoveCount(r, i) ==
  /\ At(r, "idle")
  /\ Exists(i)
  /\ TripsOf(i) = {} /\ UsersOf(i) = {}
  /\ Become(r, [Idle EXCEPT !.pc = "delete", !.id = i])
  /\ UNCHANGED <<entry, trip, user, unchecked>>

(* Wrong: the count is trusted, no foreign key stops the delete.           *)
BugUnreferenced(i) == TRUE

(* TripHistory restricts the deletion of the entries it names.             *)
Unreferenced(i) == TripsOf(i) = {}

(* User.occupationId is set to null instead.                               *)
Delete(r) ==
  LET i == req[r].id IN
  /\ At(r, "delete")
  /\ Exists(i)
  /\ Unreferenced(i)
  /\ entry' = [entry EXCEPT ![i] = Gone]
  /\ user' = [u \in Users |-> IF user[u] = i THEN NULL ELSE user[u]]
  /\ unchecked' = {p \in unchecked : i \notin p}
  /\ BecomeWriting(r, Idle, i, "gone")
  /\ UNCHANGED trip

-----------------------------------------------------------------------------
(* Users                                                                   *)

RegisterLook(r, i) ==
  /\ At(r, "idle")
  /\ i \in OfKind("occupation")
  /\ Become(r, [Idle EXCEPT !.pc = "register", !.id = i])
  /\ UNCHANGED <<entry, trip, user, unchecked>>

(* The foreign key of User.  A removal may have counted the users before.  *)
RegisterInsert(r, u) ==
  LET i == req[r].id IN
  /\ At(r, "register")
  /\ user[u] = NULL
  /\ Exists(i)
  /\ user' = [user EXCEPT ![u] = i]
  /\ req' = [q \in Requests |->
               IF q = r THEN Idle
               ELSE IF At(q, "delete") /\ req[q].id = i
               THEN [req[q] EXCEPT !.missed = {i}]
               ELSE req[q]]
  /\ UNCHANGED <<entry, trip, unchecked>>

(* A query fails, by a constraint or by itself, or the look rejects.       *)
Fail(r) ==
  /\ ~At(r, "idle")
  /\ Return(r)
  /\ UNCHANGED <<entry, trip, user, unchecked>>

-----------------------------------------------------------------------------
Step(r) ==
  \/ \E kind \in Kinds, name \in Names, manager \in Optional(Managers) :
       CreateLook(r, kind, name, manager)
  \/ \E i \in Ids, active \in BOOLEAN : Insert(r, i, active)
  \/ Reactivate(r)
  \/ \E manager \in Managers : StartRead(r, manager)
  \/ \E kind \in {"destination", "employee"}, name \in Names :
       StartCustom(r, kind, name)
  \/ \E kind \in {"destination", "employee"}, i \in Ids :
       StartSelected(r, kind, i)
  \/ \E t \in Trips : StartInsert(r, t)
  \/ \E t \in Trips, d \in Ids, e \in Ids : EditRead(r, t, d, e)
  \/ EditWrite(r)
  \/ \E i \in Ids, manager \in Optional(Managers) : UpdateRead(r, i, manager)
  \/ \E name \in Names : UpdateLook(r, name)
  \/ \E name \in Optional(Names \cup {Blank}), active \in Optional(BOOLEAN) :
       UpdateWrite(r, name, active)
  \/ \E i \in Ids : RemoveCount(r, i)
  \/ Delete(r)
  \/ \E i \in Ids : RegisterLook(r, i)
  \/ \E u \in Users : RegisterInsert(r, u)
  \/ Fail(r)

Next ==
  \/ \E r \in Requests : Step(r)
  \/ \E t \in Trips : TripRemoved(t)

Spec == Init /\ [][Next]_vars

-----------------------------------------------------------------------------
(* Every trip keeps its destination and its employee, and every user the   *)
(* occupation it names, however removals, starts, edits and registrations  *)
(* interleave with the counts that remove relies on.                       *)
ReferencesHold ==
  /\ \A t \in Trips : TripExists(t) =>
       /\ trip[t].destination \in OfKind("destination")
       /\ trip[t].employee \in OfKind("employee")
  /\ \A u \in Users : user[u] # NULL => user[u] \in OfKind("occupation")

(* Types, the references, and the shape of what each kind keeps: an        *)
(* occupation has no manager.                                              *)
TypeOK ==
  /\ entry \in [Ids -> Entry]
  /\ trip \in [Trips -> Trip]
  /\ user \in [Users -> Optional(Ids)]
  /\ req \in [Requests -> Handler]
  /\ unchecked \subseteq {{i, j} : i, j \in Ids}
  /\ \A i \in Ids : entry[i].kind = "occupation" => entry[i].manager = NULL
  /\ ReferencesHold

(* Two entries of one list share a name only if the later write of one did *)
(* not look at the other: the handlers overlapped, or an update moved the  *)
(* entry to another manager (or blanked an employee's name), which looks   *)
(* at nothing.  Even then two destinations differ in case.                 *)
DuplicatesExplained ==
  \A i, j \in Ids :
    /\ i # j /\ Exists(i)
    /\ entry[i].kind = entry[j].kind
    /\ entry[i].manager = entry[j].manager
    /\ Matches(entry[i].kind, entry[i].name, entry[j].name)
    => /\ {i, j} \in unchecked
       /\ entry[i].kind = "destination" => entry[i].name # entry[j].name

(* A start about to insert its trip holds a destination and an employee    *)
(* that are active entries of the driver's manager, unless another handler *)
(* wrote them since this one looked: a custom name is turned on again, and *)
(* what was chosen first is still right after the second choice.           *)
ChosenIsListed ==
  \A r \in Requests :
    At(r, "trip") =>
      \A i \in {req[r].destination, req[r].employee} \ req[r].missed :
        /\ Exists(i)
        /\ entry[i].active
        /\ entry[i].manager = req[r].scope
=============================================================================
