------------------------------- MODULE Users -------------------------------
(***************************************************************************)
(* UserService.adminUpdateUser and remove: the roles of the users and who  *)
(* manages them.  Both read the user, look further rows up and then write  *)
(* by id.  The roles are those the gateway's rooms follow; the actions say *)
(* nothing of the variables of ServiceRequests and TruckExpiry.            *)
(*                                                                         *)
(* All users exist at the start, as adminCreate made them: with any role   *)
(* and without a manager.  One created later is in no row and no handler   *)
(* holds his id, so nothing is lost.  E-mail and password are written in   *)
(* Verification and Sessions.                                              *)
(***************************************************************************)
EXTENDS Gateway

CONSTANT Edits   \* handlers of adminUpdateUser and remove in flight together

VARIABLES
  manager,   \* User.managedById
  edit,      \* the handlers in flight
  loose      \* history: users whose manager is nobody's promise

users == <<manager, edit, loose>>

(* role: the one in the body, if any.  manager: the one the row will get.  *)
(* raced: the user or the manager looked up was written since.             *)
Edit == [pc : {"idle", "look", "write", "delete"}, user : Optional(Users),
         role : Optional(UserRole), manager : Optional(Users), raced : BOOLEAN]

NoEdit == [pc |-> "idle", user |-> NULL, role |-> NULL, manager |-> NULL,
           raced |-> FALSE]

Manages(as) == as \in {"ADMIN", "DIRECTION"}
ManagedBy(u) == {v \in Users : manager[v] = u}

UsersInit ==
  /\ manager = [u \in Users |-> NULL]
  /\ edit = [h \in Edits |-> NoEdit]
  /\ loose = Users

-----------------------------------------------------------------------------
(* Wrong: an administrator is edited and removed like anybody.             *)
BugMayEdit(u) == UserExists(u)

MayEdit(u) == UserExists(u) /\ role[u] # "ADMIN"

Default(x, y) == IF x # NULL THEN x ELSE y

(* Wrong: a driver may be left without a manager.                          *)
BugNeedsManager(asked, kept) == FALSE

NeedsManager(asked, kept) == asked = "DRIVER" /\ kept = NULL

(* adminUpdateUser up to the look-up of the manager.  An administrator has *)
(* none, and there is none to look up where none is named or kept.         *)
EditRead(h, u, asRole, asManager) ==
  LET next == Default(asRole, role[u])
      kept == IF next = "ADMIN" THEN NULL ELSE Default(asManager, manager[u]) IN
  /\ up
  /\ edit[h] = NoEdit
  /\ MayEdit(u)
  /\ ~NeedsManager(next, kept)
  /\ edit' = [edit EXCEPT ![h] =
       [pc |-> IF kept = NULL THEN "write" ELSE "look", user |-> u,
        role |-> asRole, manager |-> kept, raced |-> FALSE]]
  /\ UNCHANGED <<gateway, manager, loose>>

EditLook(h) ==
  /\ edit[h].pc = "look"
  /\ Manages(role[edit[h].manager])
  /\ edit' = [edit EXCEPT ![h].pc = "write"]
  /\ UNCHANGED <<gateway, manager, loose>>

(* The handlers whose reads a write to u makes stale.                      *)
Resting(u) ==
  {h \in Edits : \/ edit[h].user = u
                 \/ edit[h].pc = "write" /\ edit[h].manager = u}

EditWrite(h) ==
  LET u == edit[h].user
      m == edit[h].manager
      next == Default(edit[h].role, role[u])
      settled == IF edit[h].raced THEN loose \cup {u} ELSE loose \ {u} IN
  /\ edit[h].pc = "write"
  /\ UserExists(u)
  /\ m # NULL => UserExists(m)
  /\ RoleWritten(u, next)
  /\ manager' = [manager EXCEPT ![u] = m]
  /\ edit' = [q \in Edits |->
                IF q = h THEN NoEdit
                ELSE [edit[q] EXCEPT !.raced = @ \/ q \in Resting(u)]]
  /\ loose' = IF Manages(role[u]) /\ ~Manages(next)
              THEN settled \cup {v \in Users : manager'[v] = u} ELSE settled

-----------------------------------------------------------------------------
RemoveRead(h, u) ==
  /\ up
  /\ edit[h] = NoEdit
  /\ MayEdit(u)
  /\ edit' = [edit EXCEPT ![h] = [NoEdit EXCEPT !.pc = "delete", !.user = u]]
  /\ UNCHANGED <<gateway, manager, loose>>

(* Who was managed by the user is managed by nobody.                       *)
RemoveDelete(h) ==
  LET u == edit[h].user IN
  /\ edit[h].pc = "delete"
  /\ UserExists(u)
  /\ RoleWritten(u, "gone")
  /\ manager' = [v \in Users |->
                   IF v \in ManagedBy(u) \cup {u} THEN NULL ELSE manager[v]]
  /\ edit' = [edit EXCEPT ![h] = NoEdit]
  /\ loose' = loose \cup ManagedBy(u) \cup {u}

(* A check rejects, a row is gone, a query fails.                          *)
EditFails(h) ==
  /\ edit[h] # NoEdit
  /\ edit' = [edit EXCEPT ![h] = NoEdit]
  /\ UNCHANGED <<gateway, manager, loose>>

UsersDown ==
  /\ edit' = [h \in Edits |-> NoEdit]
  /\ UNCHANGED <<manager, loose>>

UsersNext ==
  \E h \in Edits :
    \/ \E u \in Users, as \in Optional(UserRole), m \in Optional(Users) :
         EditRead(h, u, as, m)
    \/ EditLook(h)
    \/ EditWrite(h)
    \/ \E u \in Users : RemoveRead(h, u)
    \/ EditFails(h)

-----------------------------------------------------------------------------
(* Types, and the foreign key of the manager.                              *)
UsersTypeOK ==
  /\ manager \in [Users -> Optional(Users)]
  /\ edit \in [Edits -> Edit]
  /\ loose \subseteq Users
  /\ \A u \in Users : manager[u] # NULL => UserExists(u) /\ UserExists(manager[u])

(* "No se puede eliminar a un usuario administrador": an administrator     *)
(* loses his role or his row only to a handler that read him before        *)
(* another one made him an administrator.                                  *)
AdminsStep ==
  \A u \in Users :
    role[u] = "ADMIN" /\ role'[u] # "ADMIN" =>
      \E h \in Edits : edit[h].user = u /\ edit[h].raced

(* "El usuario gestor debe tener rol ADMIN o DIRECTION": a driver has a    *)
(* manager of such a role, unless adminCreate made him a driver and nobody *)
(* edited him since, his last edit overlapped another one of him or of his *)
(* manager, or his manager was removed or lost that role later; which he   *)
(* does at once when a user becomes a driver who is his own manager.       *)
DriversManaged ==
  \A u \in Users :
    role[u] = "DRIVER" /\ u \notin loose =>
      manager[u] # NULL /\ Manages(role[manager[u]])
=============================================================================
