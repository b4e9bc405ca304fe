--------------------------- MODULE NoticesProofs ---------------------------
(***************************************************************************)
(* What holds of Notices, the gateway and the services that share its      *)
(* process and its users, for any number of users, connections, handlers,  *)
(* requests and documents, and every choice of faults.  Each service has   *)
(* an invariant of its own; of the others it needs that they write only    *)
(* what they own.                                                          *)
(***************************************************************************)
EXTENDS Notices, TLAPS

-----------------------------------------------------------------------------
(* Gateway                                                                 *)

(* What a connection has seen when it is about to join its rooms, and who  *)
(* is registered.                                                          *)
SocketsReady ==
  \A s \in Sockets :
    LET k == socket[s] IN
    /\ k.pc \in {"query", "join"} \/ k.room # NULL => k.user \in Users
    /\ k.pc = "join" \/ (k.alive /\ k.pc = "open") => k.room # NULL
    /\ k.room # NULL => role[k.user] = k.room \/ k.changed
    /\ k.pc \in {"query", "join"} => k.alive \/ k.early
    /\ s \in registered => k.pc = "open"

GatewayInv == GatewayTypeOK /\ SocketsReady /\ RoomsFollowRoles

LEMMA NoSocketTyped ==
  /\ NoSocket \in Socket /\ OldSocket \in Socket
  /\ OldSocket.pc = "open" /\ OldSocket.user = NULL /\ OldSocket.room = NULL
  /\ ~OldSocket.alive
BY DEF NoSocket, OldSocket, Socket, Optional

LEMMA GatewayStarts == GatewayInit => GatewayInv
BY NoSocketTyped
   DEF GatewayInit, GatewayInv, GatewayTypeOK, SocketsReady, RoomsFollowRoles,
       RoomOf, NoSocket

(* One connection becomes k and the registered ones are R.                 *)
LEMMA SocketStep ==
  ASSUME GatewayInv, NEW s \in Sockets, NEW k \in Socket,
         NEW R \in SUBSET Sockets,
         socket' = [socket EXCEPT ![s] = k], registered' = R,
         \A t \in Sockets \ {s} : t \in R <=> t \in registered,
         UNCHANGED <<up, role>>,
         k.pc \in {"query", "join"} \/ k.room # NULL => k.user \in Users,
         k.pc = "join" \/ (k.alive /\ k.pc = "open") => k.room # NULL,
         k.room # NULL => role[k.user] = k.room \/ k.changed,
         k.pc \in {"query", "join"} => k.alive \/ k.early,
         s \in R => k.pc = "open" /\ (k.alive \/ k.early),
         k.alive /\ k.pc = "open" => s \in R
  PROVE  GatewayInv'
<1> USE DEF GatewayInv
<1>1. /\ socket' \in [Sockets -> Socket] /\ socket'[s] = k
      /\ \A t \in Sockets \ {s} : socket'[t] = socket[t]
  BY DEF GatewayTypeOK
<1>2. GatewayTypeOK'
  BY <1>1 DEF GatewayTypeOK
<1>3. SocketsReady'
  BY <1>1 DEF SocketsReady
<1>4. RoomsFollowRoles'
  BY <1>1, <1>3 DEF RoomsFollowRoles, SocketsReady, RoomOf
<1> QED
  BY <1>2, <1>3, <1>4

LEMMA GatewayNextStep ==
  ASSUME GatewayInv, GatewayNext
  PROVE  GatewayInv'
<1> USE DEF GatewayInv
<1>1. ASSUME NEW s \in Sockets, NEW u \in Users, Connect(s, u)
      PROVE  GatewayInv'
  <2> DEFINE k == [NoSocket EXCEPT !.pc = "query", !.user = u, !.alive = TRUE]
  <2>1. /\ k \in Socket /\ k.pc = "query" /\ k.user = u /\ k.room = NULL
        /\ k.alive
    BY NoSocketTyped DEF NoSocket, Socket, Optional
  <2>2. /\ socket' = [socket EXCEPT ![s] = k] /\ socket[s] = NoSocket
        /\ UNCHANGED <<up, role, registered>>
    BY <1>1 DEF Connect
  <2>3. s \notin registered
    BY <2>2 DEF SocketsReady, NoSocket
  <2> HIDE DEF k
  <2> QED
    BY <2>1, <2>2, <2>3, SocketStep DEF GatewayTypeOK
<1>2. ASSUME NEW s \in Sockets, Query(s) PROVE GatewayInv'
  <2> DEFINE u == socket[s].user
             k == [socket[s] EXCEPT !.pc = "join", !.room = role[u]]
  <2>1. /\ socket[s].pc = "query" /\ role[u] \in UserRole
        /\ socket' = [socket EXCEPT ![s] = k]
        /\ UNCHANGED <<up, role, registered>>
    BY <1>2 DEF Query, UserExists, GatewayTypeOK, Socket
  <2>2. /\ k \in Socket /\ k.pc = "join" /\ k.user = u /\ k.room = role[u]
        /\ k.alive = socket[s].alive /\ k.early = socket[s].early
    BY <2>1 DEF GatewayTypeOK, Socket, Optional
  <2> HIDE DEF k
  <2>3. /\ u \in Users /\ (k.alive \/ k.early) /\ s \notin registered
        /\ k.room # NULL
    BY <2>1, <2>2, NoRole DEF SocketsReady
  <2> QED
    BY <2>1, <2>2, <2>3, SocketStep DEF GatewayTypeOK
<1>3. ASSUME NEW s \in Sockets, TurnAway(s) PROVE GatewayInv'
  <2> DEFINE k == [socket[s] EXCEPT !.pc = "open", !.alive = FALSE]
  <2>1. /\ socket[s].pc = "query" /\ socket' = [socket EXCEPT ![s] = k]
        /\ UNCHANGED <<up, role, registered>>
    BY <1>3 DEF TurnAway, GatewayTypeOK, Socket
  <2>2. /\ k \in Socket /\ k.pc = "open" /\ k.user = socket[s].user
        /\ k.room = socket[s].room /\ ~k.alive
        /\ k.changed = socket[s].changed
    BY DEF GatewayTypeOK, Socket
  <2> HIDE DEF k
  <2>3. s \notin registered
    BY <2>1 DEF SocketsReady
  <2> QED
    BY <2>1, <2>2, <2>3, SocketStep DEF GatewayTypeOK, SocketsReady
<1>4. ASSUME NEW s \in Sockets, Join(s) PROVE GatewayInv'
  <2> DEFINE k == [socket[s] EXCEPT !.pc = "open"]
  <2>1. /\ socket[s].pc = "join" /\ socket' = [socket EXCEPT ![s] = k]
        /\ registered' = registered \cup {s} /\ UNCHANGED <<up, role>>
    BY <1>4 DEF Join, GatewayTypeOK, Socket
  <2>2. /\ k \in Socket /\ k.pc = "open" /\ k.user = socket[s].user
        /\ k.room = socket[s].room /\ k.alive = socket[s].alive
        /\ k.early = socket[s].early /\ k.changed = socket[s].changed
    BY DEF GatewayTypeOK, Socket
  <2> HIDE DEF k
  <2>3. /\ k.user \in Users /\ k.room # NULL /\ (k.alive \/ k.early)
        /\ role[k.user] = k.room \/ k.changed
    BY <2>1, <2>2 DEF SocketsReady
  <2>4. registered \cup {s} \in SUBSET Sockets
    BY DEF GatewayTypeOK
  <2> QED
    BY <2>1, <2>2, <2>3, <2>4, SocketStep
<1>5. ASSUME NEW s \in Sockets, Disconnect(s) PROVE GatewayInv'
  <2> DEFINE k == [socket[s] EXCEPT !.alive = FALSE,
                                    !.early = socket[s].pc # "open"]
  <2>1. /\ socket[s].alive /\ socket' = [socket EXCEPT ![s] = k]
        /\ registered' = registered \ {s} /\ UNCHANGED <<up, role>>
    BY <1>5 DEF Disconnect, Forgotten, GatewayTypeOK, Socket
  <2>2. /\ k \in Socket /\ k.pc = socket[s].pc /\ k.user = socket[s].user
        /\ k.room = socket[s].room /\ ~k.alive
        /\ k.early = (socket[s].pc # "open") /\ k.changed = socket[s].changed
    BY DEF GatewayTypeOK, Socket
  <2> HIDE DEF k
  <2>3. /\ k.pc \in {"query", "join"} \/ k.room # NULL => k.user \in Users
        /\ k.pc = "join" => k.room # NULL
        /\ k.room # NULL => role[k.user] = k.room \/ k.changed
    BY <2>2 DEF SocketsReady
  <2>4. registered \ {s} \in SUBSET Sockets
    BY DEF GatewayTypeOK
  <2> QED
    BY <2>1, <2>2, <2>3, <2>4, SocketStep
<1> QED
  BY <1>1, <1>2, <1>3, <1>4, <1>5 DEF GatewayNext

(* A user's row is written: a socket that rests on the old role is changed.*)
LEMMA RoleWrittenStep ==
  ASSUME GatewayInv, NEW u \in Users, NEW new \in UserRole \cup {"gone"},
         RoleWritten(u, new)
  PROVE  GatewayInv'
<1> USE DEF GatewayInv
<1>1. /\ role' \in [Users -> UserRole \cup {"gone"}] /\ role'[u] = new
      /\ \A v \in Users \ {u} : role'[v] = role[v]
      /\ UNCHANGED <<up, registered>>
  BY DEF RoleWritten, GatewayTypeOK
<1>2. \A s \in Sockets : [socket[s] EXCEPT !.changed = TRUE] \in Socket
  BY DEF GatewayTypeOK, Socket
<1>3. /\ socket' \in [Sockets -> Socket]
      /\ \A s \in Sockets :
           \/ socket'[s] = [socket[s] EXCEPT !.changed = TRUE]
           \/ /\ socket'[s] = socket[s]
              /\ socket[s].user # u \/ socket[s].room = NULL \/ role[u] = new
  BY <1>2 DEF RoleWritten, Informed, GatewayTypeOK
<1>4. \A s \in Sockets :
        /\ socket'[s].pc = socket[s].pc /\ socket'[s].user = socket[s].user
        /\ socket'[s].room = socket[s].room
        /\ socket'[s].alive = socket[s].alive
        /\ socket'[s].early = socket[s].early
        /\ \/ socket'[s].changed
           \/ /\ socket'[s].changed = socket[s].changed
              /\ socket[s].user # u \/ socket[s].room = NULL \/ role[u] = new
  BY <1>3 DEF GatewayTypeOK, Socket
<1>5. GatewayTypeOK'
  BY <1>1, <1>3 DEF GatewayTypeOK
<1>6. SocketsReady'
  BY <1>1, <1>4 DEF SocketsReady
<1>7. RoomsFollowRoles'
  BY <1>1, <1>4, <1>6 DEF RoomsFollowRoles, SocketsReady, RoomOf
<1> QED
  BY <1>5, <1>6, <1>7

LEMMA GatewayRestarts ==
  ASSUME GatewayInv, GatewayDown \/ GatewayUp
  PROVE  GatewayInv'
<1>1. CASE GatewayDown
  BY <1>1, NoSocketTyped
     DEF GatewayDown, GatewayInv, GatewayTypeOK, SocketsReady,
         RoomsFollowRoles, RoomOf, NoSocket
<1>2. CASE GatewayUp
  BY <1>2 DEF GatewayUp, GatewayInv, GatewayTypeOK, SocketsReady,
              RoomsFollowRoles, RoomOf
<1> QED
  BY <1>1, <1>2

LEMMA GatewayFrame == GatewayInv /\ UNCHANGED gateway => GatewayInv'
BY DEF gateway, GatewayInv, GatewayTypeOK, SocketsReady, RoomsFollowRoles,
       RoomOf

-----------------------------------------------------------------------------
(* Users                                                                   *)

(* What an edit that no other has raced relies on: the user is still no    *)
(* administrator, one that will be a driver gets a manager, and a manager  *)
(* that was looked up manages, if he is still there.                       *)
EditReady(e) ==
  /\ e.pc # "idle" => e.user \in Users
  /\ e.pc = "look" => e.manager \in Users
  /\ e.pc # "idle" /\ ~e.raced => role[e.user] # "ADMIN"
  /\ e.pc \in {"look", "write"} /\ ~e.raced
       /\ Default(e.role, role[e.user]) = "DRIVER" => e.manager # NULL
  /\ e.pc = "write" /\ ~e.raced /\ e.manager # NULL /\ UserExists(e.manager)
       => Manages(role[e.manager])

EditsReady == \A h \in Edits : EditReady(edit[h])

UsersInv == UsersTypeOK /\ EditsReady /\ DriversManaged

LEMMA NoEditTyped == NoEdit \in Edit /\ NoEdit.pc = "idle"
BY DEF NoEdit, Edit, Optional

LEMMA UsersStart == UsersInit => UsersInv
BY NoEditTyped
   DEF UsersInit, UsersInv, UsersTypeOK, EditsReady, EditReady,
       DriversManaged, Optional

(* The invariant speaks of the gateway's roles and of nothing else there.  *)
LEMMA UsersFrame ==
  ASSUME UsersInv, UNCHANGED <<users, role>>
  PROVE  UsersInv'
BY DEF users, UsersInv, UsersTypeOK, EditsReady, EditReady, DriversManaged,
       UserExists

(* One handler becomes e, and no row is written.                           *)
LEMMA EditStep ==
  ASSUME UsersInv, NEW h \in Edits, NEW e \in Edit, EditReady(e),
         edit' = [edit EXCEPT ![h] = e], UNCHANGED <<gateway, manager, loose>>
  PROVE  UsersInv'
<1> USE DEF UsersInv
<1>1. UNCHANGED role
  BY DEF gateway
<1>2. /\ edit' \in [Edits -> Edit] /\ edit'[h] = e
      /\ \A q \in Edits \ {h} : edit'[q] = edit[q]
  BY DEF UsersTypeOK
<1>3. UsersTypeOK'
  BY <1>1, <1>2 DEF UsersTypeOK, UserExists
<1>4. EditsReady'
  BY <1>1, <1>2 DEF EditsReady, EditReady, UserExists
<1>5. DriversManaged'
  BY <1>1 DEF DriversManaged
<1> QED
  BY <1>3, <1>4, <1>5

LEMMA EditReadStep ==
  ASSUME UsersInv, role \in [Users -> UserRole \cup {"gone"}],
         NEW h \in Edits, NEW u \in Users, NEW asRole \in Optional(UserRole),
         NEW asManager \in Optional(Users), EditRead(h, u, asRole, asManager)
  PROVE  UsersInv'
<1> USE DEF UsersInv
<1> DEFINE next == Default(asRole, role[u])
           kept == IF next = "ADMIN" THEN NULL
                   ELSE Default(asManager, manager[u])
           e == [pc |-> IF kept = NULL THEN "write" ELSE "look", user |-> u,
                 role |-> asRole, manager |-> kept, raced |-> FALSE]
<1>1. /\ MayEdit(u) /\ ~NeedsManager(next, kept)
      /\ edit' = [edit EXCEPT ![h] = e]
      /\ UNCHANGED <<gateway, manager, loose>>
  BY DEF EditRead
<1>2. kept \in Optional(Users)
  BY DEF UsersTypeOK, Default, Optional
<1> HIDE DEF kept
<1>3. e \in Edit
  BY <1>2 DEF Edit, Optional
<1>4. EditReady(e)
  BY <1>1, <1>2 DEF EditReady, MayEdit, NeedsManager, Optional
<1> HIDE DEF e
<1> QED
  BY <1>1, <1>3, <1>4, EditStep

LEMMA OtherEditSteps ==
  ASSUME UsersInv, NEW h \in Edits,
         EditLook(h) \/ EditFails(h) \/ \E u \in Users : RemoveRead(h, u)
  PROVE  UsersInv'
<1> USE DEF UsersInv
<1>1. CASE EditLook(h)
  <2> DEFINE e == [edit[h] EXCEPT !.pc = "write"]
  <2>1. /\ edit[h].pc = "look" /\ Manages(role[edit[h].manager])
        /\ edit' = [edit EXCEPT ![h] = e]
        /\ UNCHANGED <<gateway, manager, loose>>
    BY <1>1 DEF EditLook, UsersTypeOK, Edit
  <2>2. /\ e \in Edit /\ e.pc = "write" /\ e.user = edit[h].user
        /\ e.role = edit[h].role /\ e.manager = edit[h].manager
        /\ e.raced = edit[h].raced
    BY DEF UsersTypeOK, Edit
  <2> HIDE DEF e
  <2>3. EditReady(e)
    BY <2>1, <2>2 DEF EditsReady, EditReady
  <2> QED
    BY <2>1, <2>2, <2>3, EditStep
<1>2. CASE EditFails(h)
  <2>1. EditReady(NoEdit)
    BY NoEditTyped DEF EditReady
  <2> QED
    BY <1>2, <2>1, NoEditTyped, EditStep DEF EditFails
<1>3. ASSUME NEW u \in Users, RemoveRead(h, u) PROVE UsersInv'
  <2> DEFINE e == [NoEdit EXCEPT !.pc = "delete", !.user = u]
  <2>1. e \in Edit /\ e.pc = "delete" /\ e.user = u
    BY DEF NoEdit, Edit, Optional
  <2>2. /\ MayEdit(u) /\ edit' = [edit EXCEPT ![h] = e]
        /\ UNCHANGED <<gateway, manager, loose>>
    BY <1>3 DEF RemoveRead
  <2> HIDE DEF e
  <2>3. EditReady(e)
    BY <2>1, <2>2 DEF EditReady, MayEdit
  <2> QED
    BY <2>1, <2>2, <2>3, EditStep
<1> QED
  BY <1>1, <1>2, <1>3

(* The write makes every other handler raced that rests on what it changes,*)
(* and loose whoever it takes a manager from.                              *)
LEMMA EditWriteStep ==
  ASSUME UsersInv, role \in [Users -> UserRole \cup {"gone"}],
         NEW h \in Edits, EditWrite(h)
  PROVE  UsersInv' /\ \E u \in Users, new \in UserRole : RoleWritten(u, new)
<1> USE DEF UsersInv
<1> DEFINE u == edit[h].user
           m == edit[h].manager
           next == Default(edit[h].role, role[u])
<1>1. /\ edit[h].pc = "write" /\ UserExists(u) /\ (m # NULL => UserExists(m))
      /\ RoleWritten(u, next) /\ manager' = [manager EXCEPT ![u] = m]
      /\ edit' = [q \in Edits |->
                    IF q = h THEN NoEdit
                    ELSE [edit[q] EXCEPT !.raced = @ \/ q \in Resting(u)]]
  BY DEF EditWrite
<1>2. /\ u \in Users /\ m \in Optional(Users) /\ next \in UserRole
      /\ EditReady(edit[h]) /\ edit[h].raced \in BOOLEAN
  BY <1>1 DEF EditsReady, EditReady, UsersTypeOK, Edit, Default, UserExists,
              Optional
<1> DEFINE settled == IF edit[h].raced THEN loose \cup {u} ELSE loose \ {u}
<1>3. loose' = IF Manages(role[u]) /\ ~Manages(next)
               THEN settled \cup {v \in Users : manager'[v] = u} ELSE settled
  BY DEF EditWrite
<1> HIDE DEF u, m, next
<1>4. /\ role' \in [Users -> UserRole \cup {"gone"}] /\ role'[u] = next
      /\ \A v \in Users \ {u} : role'[v] = role[v]
  BY <1>1, <1>2 DEF RoleWritten
<1>5. /\ manager' \in [Users -> Optional(Users)] /\ manager'[u] = m
      /\ \A v \in Users \ {u} : manager'[v] = manager[v]
  BY <1>1, <1>2 DEF UsersTypeOK
<1>6. \A q \in Edits : [edit[q] EXCEPT !.raced = @ \/ q \in Resting(u)] \in Edit
  BY DEF UsersTypeOK, Edit
<1>7. /\ edit' \in [Edits -> Edit] /\ edit'[h] = NoEdit
      /\ \A q \in Edits \ {h} :
           /\ edit'[q].pc = edit[q].pc /\ edit'[q].user = edit[q].user
           /\ edit'[q].role = edit[q].role
           /\ edit'[q].manager = edit[q].manager
           /\ ~edit'[q].raced => ~edit[q].raced /\ q \notin Resting(u)
  BY <1>1, <1>6, NoEditTyped DEF UsersTypeOK, Edit
<1>8. UsersTypeOK'
  <2>1. loose' \subseteq Users
    BY <1>2, <1>3 DEF UsersTypeOK
  <2>2. \A v \in Users : UserExists(v) => UserExists(v)'
    BY <1>2, <1>4 DEF UserExists
  <2>3. \A v \in Users :
          (manager[v] # NULL => UserExists(v) /\ UserExists(manager[v]))'
    BY <1>1, <1>2, <1>4, <1>5, <2>2 DEF UsersTypeOK, UserExists, Optional
  <2> QED
    BY <1>5, <1>7, <2>1, <2>3 DEF UsersTypeOK
<1>9. EditsReady'
  <2> SUFFICES ASSUME NEW q \in Edits \ {h} PROVE EditReady(edit[q])'
    BY <1>7, NoEditTyped DEF EditsReady, EditReady
  <2>1. EditReady(edit[q]) /\ edit[q].manager \in Optional(Users)
    BY DEF EditsReady, UsersTypeOK, Edit
  <2>2. ~edit'[q].raced /\ edit[q].pc # "idle" =>
          /\ edit[q].user \in Users \ {u}
          /\ edit[q].pc = "write" => edit[q].manager # u
    BY <1>7, <2>1 DEF Resting, EditReady
  <2> QED
    BY <1>4, <1>7, <2>1, <2>2 DEF EditReady, UserExists, Optional
<1>10. DriversManaged'
  <2> SUFFICES ASSUME NEW v \in Users, role'[v] = "DRIVER", v \notin loose'
               PROVE  manager'[v] # NULL /\ Manages(role'[manager'[v]])
    BY DEF DriversManaged
  <2>1. ~(manager'[v] = u /\ Manages(role[u]) /\ ~Manages(next))
        /\ v \notin settled
    BY <1>3
  <2>2. CASE v = u
    <3>1. ~edit[h].raced
      BY <2>1, <2>2
    <3>2. m # NULL /\ Manages(role[m]) /\ m \in Users
      BY <1>1, <1>2, <1>4, <2>2, <3>1 DEF EditReady, u, m, next, Optional
    <3> QED
      BY <1>4, <1>5, <2>1, <2>2, <3>2
  <2>3. CASE v # u
    <3>1. v \notin loose /\ role[v] = "DRIVER"
      BY <1>4, <2>1, <2>3
    <3>2. /\ manager[v] # NULL /\ Manages(role[manager[v]])
          /\ manager[v] \in Users
      BY <3>1 DEF DriversManaged, UsersTypeOK, Optional
    <3> QED
      BY <1>4, <1>5, <2>1, <2>3, <3>2
  <2> QED
    BY <2>2, <2>3
<1> QED
  BY <1>1, <1>2, <1>8, <1>9, <1>10

LEMMA RemoveDeleteStep ==
  ASSUME UsersInv, role \in [Users -> UserRole \cup {"gone"}],
         NEW h \in Edits, RemoveDelete(h)
  PROVE  /\ UsersInv' /\ edit[h].user \in Users
         /\ RoleWritten(edit[h].user, "gone")
<1> USE DEF UsersInv
<1> DEFINE u == edit[h].user
<1>1. /\ edit[h].pc = "delete" /\ RoleWritten(u, "gone")
      /\ manager' = [v \in Users |-> IF v \in ManagedBy(u) \cup {u} THEN NULL
                                     ELSE manager[v]]
      /\ edit' = [edit EXCEPT ![h] = NoEdit]
      /\ loose' = loose \cup ManagedBy(u) \cup {u}
  BY DEF RemoveDelete
<1>2. u \in Users
  BY <1>1 DEF EditsReady, EditReady
<1> HIDE DEF u
<1>3. /\ role' \in [Users -> UserRole \cup {"gone"}] /\ role'[u] = "gone"
      /\ \A v \in Users \ {u} : role'[v] = role[v]
  BY <1>1, <1>2 DEF RoleWritten
<1>4. /\ edit' \in [Edits -> Edit] /\ edit'[h] = NoEdit
      /\ \A q \in Edits \ {h} : edit'[q] = edit[q]
  BY <1>1, NoEditTyped DEF UsersTypeOK
<1>5. /\ manager' \in [Users -> Optional(Users)]
      /\ \A v \in Users : \/ manager'[v] = NULL
                          \/ /\ manager'[v] = manager[v]
                             /\ v # u /\ manager[v] # u
  BY <1>1 DEF UsersTypeOK, ManagedBy, Optional
<1>6. UsersTypeOK'
  <2>1. loose' \subseteq Users
    BY <1>1, <1>2 DEF UsersTypeOK, ManagedBy
  <2>2. \A v \in Users :
          (manager[v] # NULL => UserExists(v) /\ UserExists(manager[v]))'
    BY <1>3, <1>5 DEF UsersTypeOK, UserExists, Optional
  <2> QED
    BY <1>4, <1>5, <2>1, <2>2 DEF UsersTypeOK
<1>7. EditsReady'
  <2> SUFFICES ASSUME NEW q \in Edits \ {h} PROVE EditReady(edit[q])'
    BY <1>4, NoEditTyped DEF EditsReady, EditReady
  <2>1. EditReady(edit[q]) /\ edit[q].manager \in Optional(Users)
        /\ edit[q].role \in Optional(UserRole)
    BY DEF EditsReady, UsersTypeOK, Edit
  <2>2. "gone" \notin UserRole
    BY DEF UserRole
  <2> QED
    BY <1>3, <1>4, <2>1, <2>2
       DEF EditReady, UserExists, Default, Optional, UserRole
<1>8. DriversManaged'
  <2> SUFFICES ASSUME NEW v \in Users, role'[v] = "DRIVER", v \notin loose'
               PROVE  manager'[v] # NULL /\ Manages(role'[manager'[v]])
    BY DEF DriversManaged
  <2>1. v # u /\ v \notin ManagedBy(u) /\ v \notin loose
    BY <1>1
  <2>2. /\ manager[v] # NULL /\ Manages(role[manager[v]])
        /\ manager[v] \in Users \ {u} /\ manager'[v] = manager[v]
    BY <1>1, <1>3, <2>1 DEF DriversManaged, UsersTypeOK, Optional, ManagedBy
  <2> QED
    BY <1>3, <2>2
<1> QED
  BY <1>1, <1>2, <1>6, <1>7, <1>8 DEF u

LEMMA UsersDownStep ==
  ASSUME UsersInv, UsersDown, UNCHANGED role
  PROVE  UsersInv'
BY NoEditTyped
   DEF UsersDown, UsersInv, UsersTypeOK, EditsReady, EditReady,
       DriversManaged, UserExists

(* What a step of Users means to the others: at most one role is written.  *)
LEMMA UsersNextStep ==
  ASSUME UsersInv, role \in [Users -> UserRole \cup {"gone"}], UsersNext
  PROVE  /\ UsersInv'
         /\ \/ UNCHANGED gateway
            \/ \E u \in Users, new \in UserRole : RoleWritten(u, new)
<1>1. ASSUME NEW h \in Edits,
             \/ EditLook(h) \/ EditFails(h)
             \/ \E u \in Users : RemoveRead(h, u)
      PROVE  UNCHANGED gateway
  BY <1>1 DEF EditLook, EditFails, RemoveRead
<1>2. ASSUME NEW h \in Edits, NEW u \in Users, NEW as \in Optional(UserRole),
             NEW n \in Optional(Users), EditRead(h, u, as, n)
      PROVE  UNCHANGED gateway
  BY <1>2 DEF EditRead
<1> QED
  BY <1>1, <1>2, EditReadStep, OtherEditSteps, EditWriteStep DEF UsersNext

-----------------------------------------------------------------------------
(* Truck expiry                                                            *)

ExpiryInv == ExpiryTypeOK /\ NoticesGiven

LEMMA ExpiryStarts == ExpiryInit => ExpiryInv
<1>1. ASSUME ExpiryInit PROVE ExpiryTypeOK /\ timer
  <2>1. day \in Days
    BY <1>1, ExpiryConstants DEF ExpiryInit, Days
  <2>2. expires \in [Documents -> Optional(Dates)]
    BY <1>1 DEF ExpiryInit, Optional
  <2> QED
    BY <1>1, <2>1, <2>2 DEF ExpiryInit, ExpiryTypeOK
<1> QED
  BY <1>1 DEF ExpiryInv, NoticesGiven

LEMMA ExpiryFrame ==
  ASSUME ExpiryInv, UNCHANGED <<expiry, up>>
  PROVE  ExpiryInv'
BY DEF expiry, ExpiryInv, ExpiryTypeOK, NoticesGiven

(* A check of today that is answered has told of all that is due.          *)
LEMMA AllDueTold ==
  ASSUME ExpiryInv, NEW d \in Documents, expires[d] \in {day + 1, day + 7}
  PROVE  <<d, expires[d], expires[d] - day>> \in Due(day)
<1>1. day \in Nat /\ expires[d] \in Dates
  BY ExpiryConstants DEF ExpiryInv, ExpiryTypeOK, Days, Optional
<1>2. /\ expires[d] - day \in DaysAhead
      /\ expires[d] = day + (expires[d] - day)
  BY <1>1, ExpiryConstants DEF DaysAhead
<1> QED
  BY <1>1, <1>2 DEF Due

LEMMA ExpiryNextStep ==
  ASSUME ExpiryInv, ExpiryNext, UNCHANGED up
  PROVE  ExpiryInv'
<1> USE DEF ExpiryInv
<1>1. CASE TimerFires
  BY <1>1 DEF TimerFires, Checking, ExpiryTypeOK, NoticesGiven
<1>2. CASE Midnight
  <2>1. day' \in Days
    BY <1>2, ExpiryConstants DEF Midnight, ExpiryTypeOK, Days
  <2> QED
    BY <1>2, <2>1 DEF Midnight, ExpiryTypeOK, NoticesGiven
<1>3. ASSUME NEW today \in Days, CheckRead(today) PROVE ExpiryInv'
  <2>1. /\ today \in checks /\ checks' = checks \ {today}
        /\ notices' = notices \cup Due(today)
        /\ edited' = (IF today = day THEN {} ELSE edited)
        /\ UNCHANGED <<day, expires, timer, failed, up>>
    BY <1>3 DEF CheckRead
  <2>2. ExpiryTypeOK'
    <3>1. Due(today) \subseteq Documents \X Dates \X {7, 1}
      BY DEF Due, DaysAhead
    <3> QED
      BY <2>1, <3>1 DEF ExpiryTypeOK
  <2>3. CASE today = day
    BY <2>1, <2>2, <2>3, AllDueTold DEF NoticesGiven
  <2>4. CASE today # day
    BY <2>1, <2>2, <2>4 DEF NoticesGiven
  <2> QED
    BY <2>3, <2>4
<1>4. ASSUME NEW today \in Days, CheckFails(today) PROVE ExpiryInv'
  BY <1>4 DEF CheckFails, ExpiryTypeOK, NoticesGiven
<1>5. ASSUME NEW d \in Documents, NEW date \in Optional(Dates),
             DateSet(d, date)
      PROVE  ExpiryInv'
  <2>1. /\ expires' \in [Documents -> Optional(Dates)]
        /\ \A c \in Documents \ {d} : expires'[c] = expires[c]
        /\ edited' = edited \cup {d}
        /\ UNCHANGED <<day, timer, checks, notices, failed, up>>
    BY <1>5 DEF DateSet, ExpiryTypeOK
  <2> QED
    BY <2>1 DEF ExpiryTypeOK, NoticesGiven
<1> QED
  BY <1>1, <1>2, <1>3, <1>4, <1>5 DEF ExpiryNext

LEMMA ExpiryRestarts ==
  ASSUME ExpiryInv, (ExpiryDown /\ up' = FALSE) \/ ExpiryUp
  PROVE  ExpiryInv'
BY DEF ExpiryInv, ExpiryDown, ExpiryUp, StartTimer, ExpiryTypeOK, NoticesGiven

-----------------------------------------------------------------------------
(* Service requests                                                        *)

(* The handlers that still hold the attachment they put.                   *)
Holds(r) == req[r].key # NULL

(* What a handler holds: an attachment is there, is its own and was never  *)
(* named; a request that is to be announced has its id.                    *)
CreatesReady ==
  \A r \in Requests :
    /\ req[r].pc \in {"put", "insert", "undo"} => req[r].user \in Users
    /\ At(r, "put") => ~Holds(r)
    /\ At(r, "undo") => Holds(r)
    /\ At(r, "announce") => req[r].id \in RequestIds
    /\ Holds(r) => /\ req[r].pc \in {"insert", "undo"}
                   /\ req[r].key \in objects \ linked
                   /\ \A q \in Requests \ {r} : req[q].key # req[r].key

(* A request has a requester and names an attachment that is there.        *)
RequestsWhole ==
  /\ \A i \in RequestIds : There(i) => request[i].user \in Users
  /\ Named \subseteq objects \cap linked

ServiceInv == ServiceTypeOK /\ CreatesReady /\ RequestsWhole /\ CreatesSettled

LEMMA IdleCreate ==
  /\ Idle \in Handler /\ Idle.pc = "idle" /\ Idle.key = NULL /\ Idle.id = NULL
BY DEF Idle, Handler, Optional

LEMMA ServiceStarts == ServiceInit => ServiceInv
BY IdleCreate
   DEF ServiceInit, ServiceInv, ServiceTypeOK, CreatesReady, RequestsWhole,
       CreatesSettled, Named, InHand, Holds, At, There, NoRequest, Request,
       Optional

LEMMA BecomeStep ==
  ASSUME NEW r \in Requests, NEW h \in Handler,
         req \in [Requests -> Handler], Become(r, h)
  PROVE  /\ req' \in [Requests -> Handler]
         /\ req'[r] = h
         /\ \A q \in Requests \ {r} : req'[q] = req[q]
BY DEF Become

(* The requesters of requests stay as long as no role is set to "gone".    *)
LEMMA ServiceFrame ==
  ASSUME ServiceInv, UNCHANGED service,
         \A u \in Users : UserExists(u) => UserExists(u)'
  PROVE  ServiceInv'
<1>1. ServiceTypeOK'
  BY DEF service, ServiceInv, ServiceTypeOK, RequestsWhole, There
<1>2. CreatesReady' /\ RequestsWhole' /\ CreatesSettled'
  BY DEF service, ServiceInv, CreatesReady, Holds, At, RequestsWhole, There,
         Named, CreatesSettled, InHand
<1> QED
  BY <1>1, <1>2 DEF ServiceInv

(* A handler that comes, fails or is through, and touches no row or file.  *)
LEMMA HandlerStep ==
  ASSUME ServiceInv, NEW r \in Requests, NEW h \in Handler, Become(r, h),
         h.pc \in {"put", "insert", "undo"} => h.user \in Users,
         h.pc = "put" => h.key = NULL, h.pc = "undo" => h.key # NULL,
         h.pc # "announce", h.key # NULL => h.pc \in {"insert", "undo"},
         h.key = req[r].key,
         ~At(r, "announce") \/ told' = told \cup {req[r].id},
         told \subseteq told', told' \subseteq RequestIds,
         UNCHANGED <<request, objects, used, missed, linked, strays, role>>
  PROVE  ServiceInv'
<1> USE DEF ServiceInv
<1>1. /\ req' \in [Requests -> Handler] /\ req'[r] = h
      /\ \A q \in Requests \ {r} : req'[q] = req[q]
  BY BecomeStep DEF ServiceTypeOK
<1>2. ServiceTypeOK' /\ RequestsWhole'
  BY <1>1 DEF ServiceTypeOK, There, UserExists, RequestsWhole, Named
<1>3. CreatesReady'
  BY <1>1 DEF CreatesReady, Holds, At
<1>4. CreatesSettled'
  <2>1. InHand' = InHand /\ Named' = Named
    BY <1>1 DEF InHand, Named
  <2>2. \A i \in RequestIds : There(i)' =>
          \/ i \in told' \cup missed'
          \/ \E q \in Requests : At(q, "announce")' /\ req'[q].id = i
    BY <1>1 DEF CreatesSettled, There, At
  <2> QED
    BY <2>1, <2>2 DEF CreatesSettled
<1> QED
  BY <1>2, <1>3, <1>4

LEMMA CreateReadStep ==
  ASSUME ServiceInv, UNCHANGED role, NEW r \in Requests, NEW u \in Users,
         NEW pc \in {"put", "insert"}, CreateRead(r, u, pc)
  PROVE  ServiceInv'
<1> DEFINE h == [Idle EXCEPT !.pc = pc, !.user = u]
<1>1. /\ h \in Handler /\ h.pc = pc /\ h.user = u /\ h.key = NULL
  BY DEF Idle, Handler, Optional
<1>2. /\ At(r, "idle") /\ Become(r, h)
      /\ UNCHANGED <<request, objects, used, told, missed, linked, strays>>
  BY DEF CreateRead
<1> HIDE DEF h
<1>3. req[r].key = NULL /\ told \subseteq RequestIds
  BY <1>2 DEF ServiceInv, CreatesReady, Holds, At, ServiceTypeOK
<1> QED
  BY <1>1, <1>2, <1>3, HandlerStep DEF At

LEMMA CreateInsertFailsStep ==
  ASSUME ServiceInv, UNCHANGED role, NEW r \in Requests, CreateInsertFails(r)
  PROVE  ServiceInv'
<1> DEFINE h == AfterFailure(req[r])
<1>1. /\ At(r, "insert") /\ Become(r, h)
      /\ UNCHANGED <<request, objects, used, told, missed, linked, strays>>
  BY DEF CreateInsertFails
<1>2. req[r] \in Handler /\ req[r].user \in Users /\ told \subseteq RequestIds
  BY <1>1 DEF ServiceInv, CreatesReady, At, ServiceTypeOK
<1>3. /\ h \in Handler /\ h.key = req[r].key
      /\ IF h.key = NULL THEN h.pc = "idle"
         ELSE h.pc = "undo" /\ h.user \in Users
  BY <1>2, IdleCreate DEF AfterFailure, Handler
<1> HIDE DEF h
<1> QED
  BY <1>1, <1>2, <1>3, HandlerStep DEF At

LEMMA CreateAnnounceStep ==
  ASSUME ServiceInv, UNCHANGED role, NEW r \in Requests, CreateAnnounce(r)
  PROVE  ServiceInv'
<1>1. /\ At(r, "announce") /\ Become(r, Idle)
      /\ told' = told \cup {req[r].id}
      /\ UNCHANGED <<request, objects, used, missed, linked, strays>>
  BY DEF CreateAnnounce, Return
<1>2. req[r].key = NULL /\ req[r].id \in RequestIds /\ told \subseteq RequestIds
  BY <1>1 DEF ServiceInv, CreatesReady, Holds, At, ServiceTypeOK
<1> QED
  BY <1>1, <1>2, IdleCreate, HandlerStep

LEMMA CreatePutStep ==
  ASSUME ServiceInv, UNCHANGED role, NEW r \in Requests, CreatePut(r)
  PROVE  ServiceInv'
<1> USE DEF ServiceInv
<1>1. PICK k \in FreshKeys :
        /\ used' = used \cup {k} /\ objects' = objects \cup {k}
        /\ Become(r, [req[r] EXCEPT !.pc = "insert", !.key = k])
  BY DEF CreatePut
<1> DEFINE h == [req[r] EXCEPT !.pc = "insert", !.key = k]
<1>2. /\ At(r, "put")
      /\ UNCHANGED <<request, told, missed, linked, strays>>
  BY DEF CreatePut
<1>3. /\ k \in Keys /\ k \notin used /\ k # NULL
      /\ objects \subseteq used /\ linked \subseteq used
  BY <1>1, ServiceConstants DEF FreshKeys, ServiceTypeOK
<1>4. /\ h \in Handler /\ h.pc = "insert" /\ h.key = k
      /\ h.user = req[r].user /\ h.user \in Users /\ Become(r, h)
  BY <1>1, <1>2, <1>3
     DEF ServiceTypeOK, Handler, Optional, CreatesReady, At
<1> HIDE DEF h
<1>5. /\ req' \in [Requests -> Handler] /\ req'[r] = h
      /\ \A q \in Requests \ {r} : req'[q] = req[q]
  BY <1>4, BecomeStep DEF ServiceTypeOK
<1>6. ServiceTypeOK' /\ RequestsWhole'
  BY <1>1, <1>2, <1>3, <1>5
     DEF ServiceTypeOK, There, UserExists, RequestsWhole, Named
<1>7. CreatesReady'
  BY <1>1, <1>2, <1>3, <1>4, <1>5 DEF CreatesReady, Holds, At, ServiceTypeOK
<1>8. CreatesSettled'
  <2>1. Named' = Named /\ InHand \cup {k} \subseteq InHand'
    BY <1>2, <1>3, <1>4, <1>5 DEF InHand, Named, CreatesReady, Holds, At
  <2>2. \A i \in RequestIds : There(i)' =>
          \/ i \in told' \cup missed'
          \/ \E q \in Requests : At(q, "announce")' /\ req'[q].id = i
    BY <1>2, <1>5 DEF CreatesSettled, There, At
  <2> QED
    BY <1>1, <1>2, <2>1, <2>2 DEF CreatesSettled
<1> QED
  BY <1>6, <1>7, <1>8

(* What a handler that gives up leaves is a stray, if it is there at all.  *)
LEMMA GiveUpStep ==
  ASSUME ServiceInv, UNCHANGED role, NEW r \in Requests,
         CreatePutFails(r) \/ CreateUndo(r)
  PROVE  ServiceInv'
<1> USE DEF ServiceInv
<1>1. PICK k \in Keys :
        /\ used' = used \cup {k} /\ objects' \subseteq objects \cup {k}
        /\ k \notin linked /\ (k \in objects' => k \in strays')
        /\ strays \subseteq strays' /\ strays' \subseteq strays \cup {k}
        /\ objects \ {k} \subseteq objects'
        /\ \A q \in Requests \ {r} : req[q].key # k
        /\ req[r].key \in {NULL, k}
  <2>1. CASE CreatePutFails(r)
    <3>1. PICK k \in Keys \ used, stored \in BOOLEAN :
            /\ used' = used \cup {k}
            /\ objects' = IF stored THEN objects \cup {k} ELSE objects
            /\ strays' = IF stored THEN strays \cup {k} ELSE strays
      BY <2>1 DEF CreatePutFails, FreshKeys
    <3>2. k # NULL /\ k \notin objects \cup linked
      BY ServiceConstants DEF ServiceTypeOK
    <3>3. \A q \in Requests : req[q].key # k
      BY <3>2 DEF CreatesReady, Holds
    <3>4. req[r].key = NULL
      BY <2>1 DEF CreatePutFails, CreatesReady, Holds, At
    <3> QED
      BY <3>1, <3>2, <3>3, <3>4
  <2>2. CASE CreateUndo(r)
    <3>1. req[r].key \in Keys /\ req[r].key \in objects \ linked
      BY <2>2 DEF CreateUndo, ServiceTypeOK, CreatesReady, Holds, At
    <3> QED
      BY <2>2, <3>1 DEF CreateUndo, ServiceTypeOK, CreatesReady, Holds, At
  <2> QED
    BY <2>1, <2>2
<1>2. /\ req[r].pc \in {"put", "undo"} /\ Become(r, Idle)
      /\ UNCHANGED <<request, told, missed, linked>>
  BY DEF CreatePutFails, CreateUndo, Return, At
<1>3. /\ req' \in [Requests -> Handler] /\ req'[r] = Idle
      /\ \A q \in Requests \ {r} : req'[q] = req[q]
  BY <1>2, IdleCreate, BecomeStep DEF ServiceTypeOK
<1>4. ServiceTypeOK'
  BY <1>1, <1>2, <1>3 DEF ServiceTypeOK, There, UserExists
<1>5. RequestsWhole'
  BY <1>1, <1>2 DEF RequestsWhole, There, Named
<1>6. CreatesReady'
  BY <1>1, <1>2, <1>3, IdleCreate DEF CreatesReady, Holds, At
<1>7. CreatesSettled'
  <2>1. Named' = Named /\ InHand \ {k} \subseteq InHand'
    BY <1>1, <1>2, <1>3 DEF InHand, Named
  <2>2. \A i \in RequestIds : There(i)' =>
          \/ i \in told' \cup missed'
          \/ \E q \in Requests : At(q, "announce")' /\ req'[q].id = i
    BY <1>2, <1>3 DEF CreatesSettled, There, At
  <2> QED
    BY <1>1, <2>1, <2>2 DEF CreatesSettled
<1> QED
  BY <1>4, <1>5, <1>6, <1>7

LEMMA CreateInsertStep ==
  ASSUME ServiceInv, UNCHANGED role, NEW r \in Requests, NEW i \in RequestIds,
         CreateInsert(r, i)
  PROVE  ServiceInv'
<1> USE DEF ServiceInv
<1> DEFINE k == req[r].key
           row == [NoRequest EXCEPT !.pc = "there", !.user = req[r].user,
                                    !.key = k]
           h == [Idle EXCEPT !.pc = "announce", !.id = i]
<1>1. /\ At(r, "insert") /\ UserExists(req[r].user)
      /\ request[i] = NoRequest /\ request' = [request EXCEPT ![i] = row]
      /\ linked' = linked \cup ({k} \ {NULL}) /\ Become(r, h)
      /\ UNCHANGED <<objects, used, told, missed, strays>>
  BY DEF CreateInsert, RequesterThere
<1>2. /\ req[r].user \in Users /\ k \in Optional(Keys)
      /\ k # NULL => k \in objects \ linked
  BY <1>1 DEF CreatesReady, ServiceTypeOK, Handler, Holds, At
<1>3. /\ row \in Request /\ row.pc = "there" /\ row.user = req[r].user
      /\ row.key = k
  BY <1>2 DEF NoRequest, Request, Optional
<1>4. /\ h \in Handler /\ h.pc = "announce" /\ h.id = i /\ h.key = NULL
  BY DEF Idle, Handler, Optional
<1> HIDE DEF row, h, k
<1>5. /\ request' \in [RequestIds -> Request] /\ request'[i] = row
      /\ \A j \in RequestIds \ {i} : request'[j] = request[j]
  BY <1>1, <1>3 DEF ServiceTypeOK
<1>6. /\ req' \in [Requests -> Handler] /\ req'[r] = h
      /\ \A q \in Requests \ {r} : req'[q] = req[q]
  BY <1>1, <1>4, BecomeStep DEF ServiceTypeOK
<1>7. Named' = Named \cup ({k} \ {NULL})
  BY <1>1, <1>3, <1>5 DEF Named, NoRequest
<1>8. ServiceTypeOK'
  <2>1. linked' \subseteq used'
    BY <1>1, <1>2 DEF ServiceTypeOK
  <2> QED
    BY <1>1, <1>3, <1>5, <1>6, <2>1 DEF ServiceTypeOK, There, UserExists
<1>9. CreatesReady'
  BY <1>1, <1>4, <1>6 DEF CreatesReady, Holds, At, k
<1>10. RequestsWhole'
  BY <1>1, <1>2, <1>3, <1>5, <1>7 DEF RequestsWhole, There
<1>11. CreatesSettled'
  <2>1. InHand \ {k} \subseteq InHand'
    BY <1>6 DEF InHand, k
  <2>2. NULL \notin objects
    BY ServiceConstants DEF ServiceTypeOK
  <2>3. \A j \in RequestIds : There(j)' =>
          \/ j \in told' \cup missed'
          \/ \E q \in Requests : At(q, "announce")' /\ req'[q].id = j
    BY <1>1, <1>4, <1>5, <1>6 DEF CreatesSettled, There, At
  <2> QED
    BY <1>1, <1>7, <2>1, <2>2, <2>3 DEF CreatesSettled
<1> QED
  BY <1>8, <1>9, <1>10, <1>11

LEMMA StatusUpdateStep ==
  ASSUME ServiceInv, UNCHANGED role, NEW i \in RequestIds,
         NEW status \in {"PENDING", "COMPLETED"}, StatusUpdate(i, status)
  PROVE  ServiceInv'
<1> USE DEF ServiceInv
<1>1. /\ request' \in [RequestIds -> Request]
      /\ \A j \in RequestIds : /\ request'[j].pc = request[j].pc
                               /\ request'[j].user = request[j].user
                               /\ request'[j].key = request[j].key
  BY DEF StatusUpdate, ServiceTypeOK, Request
<1>2. UNCHANGED <<objects, used, req, told, missed, linked, strays>>
  BY DEF StatusUpdate
<1>3. Named' = Named
  BY <1>1 DEF Named
<1>4. ServiceTypeOK' /\ RequestsWhole'
  BY <1>1, <1>2, <1>3 DEF ServiceTypeOK, There, UserExists, RequestsWhole
<1>5. CreatesReady' /\ CreatesSettled'
  BY <1>1, <1>2, <1>3 DEF CreatesReady, Holds, At, CreatesSettled, InHand, There
<1> QED
  BY <1>4, <1>5

(* The deletion of a user takes his requests before it takes him.          *)
LEMMA CascadeStep ==
  ASSUME ServiceInv, NEW u \in Users, Cascade(u),
         \A v \in Users \ {u} : UserExists(v) => UserExists(v)'
  PROVE  ServiceInv'
<1> USE DEF ServiceInv
<1>1. /\ strays' = strays \cup
           ({request[i].key : i \in RequestsOf(u)} \ {NULL})
      /\ UNCHANGED <<objects, used, req, told, missed, linked>>
  BY DEF Cascade
<1>2. /\ GoneRequest \in Request /\ GoneRequest.pc = "gone"
      /\ GoneRequest.key = NULL
  BY DEF GoneRequest, NoRequest, Request, Optional
<1>3. /\ request' \in [RequestIds -> Request]
      /\ \A i \in RequestIds :
           \/ request'[i] = GoneRequest /\ i \in RequestsOf(u)
           \/ request'[i] = request[i] /\ request[i].user # u
  BY <1>2 DEF Cascade, RequestsOf, ServiceTypeOK
<1>4. /\ Named' \subseteq Named
      /\ Named \subseteq Named' \cup strays'
      /\ strays' \subseteq strays \cup Named
  BY <1>1, <1>2, <1>3 DEF Named, RequestsOf
<1>5. ServiceTypeOK'
  <2>1. strays' \subseteq used'
    BY <1>1, <1>4 DEF ServiceTypeOK, RequestsWhole
  <2>2. (\A i \in RequestIds : There(i) => UserExists(request[i].user))'
    BY <1>2, <1>3 DEF ServiceTypeOK, RequestsWhole, There
  <2> QED
    BY <1>1, <1>3, <2>1, <2>2 DEF ServiceTypeOK
<1>6. RequestsWhole'
  BY <1>1, <1>2, <1>3, <1>4 DEF RequestsWhole, There
<1>7. CreatesReady' /\ CreatesSettled'
  BY <1>1, <1>2, <1>3, <1>4
     DEF CreatesReady, Holds, At, CreatesSettled, InHand, There
<1> QED
  BY <1>5, <1>6, <1>7

LEMMA ServiceDownStep ==
  ASSUME ServiceInv, ServiceDown, UNCHANGED role
  PROVE  ServiceInv'
<1> USE DEF ServiceInv
<1>1. /\ req' = [r \in Requests |-> Idle]
      /\ strays' = strays \cup (InHand \cap objects)
      /\ missed' = missed \cup ({req[r].id : r \in Requests} \ {NULL})
      /\ UNCHANGED <<request, objects, used, told, linked>>
  BY DEF ServiceDown
<1>2. ServiceTypeOK'
  <2>1. {req[r].id : r \in Requests} \ {NULL} \subseteq RequestIds
    BY DEF ServiceTypeOK, Handler, Optional
  <2> QED
    BY <1>1, <2>1, IdleCreate DEF ServiceTypeOK, There, UserExists
<1>3. CreatesReady' /\ RequestsWhole'
  BY <1>1, IdleCreate DEF CreatesReady, Holds, At, RequestsWhole, There, Named
<1>4. CreatesSettled'
  BY <1>1, ServiceConstants DEF CreatesSettled, There, Named, InHand, At
<1> QED
  BY <1>2, <1>3, <1>4

LEMMA ServiceNextStep ==
  ASSUME ServiceInv, UNCHANGED role, ServiceNext
  PROVE  ServiceInv'
BY CreateReadStep, CreateInsertFailsStep, CreateAnnounceStep, CreatePutStep,
   GiveUpStep, CreateInsertStep, StatusUpdateStep DEF ServiceNext

-----------------------------------------------------------------------------
(* All of them                                                             *)

NoticesInv == GatewayInv /\ UsersInv /\ ServiceInv /\ ExpiryInv

LEMMA InvInit == Init => NoticesInv
BY GatewayStarts, UsersStart, ServiceStarts, ExpiryStarts
   DEF Init, NoticesInv

(* A role that is written to one of the roles takes no user away.          *)
LEMMA RoleKeepsUsers ==
  ASSUME NEW u \in Users, NEW new \in UserRole, RoleWritten(u, new),
         role \in [Users -> UserRole \cup {"gone"}]
  PROVE  /\ \A v \in Users : UserExists(v) => UserExists(v)'
         /\ UNCHANGED up
BY DEF RoleWritten, UserExists

LEMMA InvStep == NoticesInv /\ [Next]_vars => NoticesInv'
<1> SUFFICES ASSUME NoticesInv, [Next]_vars PROVE NoticesInv'
  OBVIOUS
<1> USE DEF NoticesInv
<1>1. role \in [Users -> UserRole \cup {"gone"}]
  BY DEF GatewayInv, GatewayTypeOK
<1>2. UNCHANGED gateway => /\ UNCHANGED <<role, up>>
                           /\ \A v \in Users : UserExists(v) => UserExists(v)'
  BY DEF gateway, UserExists
<1>3. CASE GatewayNext /\ UNCHANGED <<service, expiry, users>>
  <2>1. UNCHANGED <<role, up>>
    BY <1>3 DEF GatewayNext, Connect, Query, TurnAway, Join, Disconnect
  <2>2. \A v \in Users : UserExists(v) => UserExists(v)'
    BY <2>1 DEF UserExists
  <2> QED
    BY <1>3, <2>1, <2>2, GatewayNextStep, UsersFrame, ServiceFrame, ExpiryFrame
<1>4. CASE ServiceNext /\ UNCHANGED <<gateway, expiry, users>>
  BY <1>2, <1>4, GatewayFrame, UsersFrame, ServiceNextStep, ExpiryFrame
<1>5. CASE ExpiryNext /\ UNCHANGED <<gateway, service, users>>
  BY <1>2, <1>5, GatewayFrame, UsersFrame, ServiceFrame, ExpiryNextStep
<1>6. CASE UsersNext /\ UNCHANGED <<service, expiry>>
  <2>1. /\ UsersInv'
        /\ \/ UNCHANGED gateway
           \/ \E u \in Users, new \in UserRole : RoleWritten(u, new)
    BY <1>1, <1>6, UsersNextStep
  <2>2. GatewayInv'
    BY <2>1, GatewayFrame, RoleWrittenStep
  <2>3. (\A v \in Users : UserExists(v) => UserExists(v)') /\ UNCHANGED up
    BY <1>1, <1>2, <2>1, RoleKeepsUsers
  <2> QED
    BY <1>6, <2>1, <2>2, <2>3, ServiceFrame, ExpiryFrame
<1>7. ASSUME NEW h \in Edits, UserRemoved(h) PROVE NoticesInv'
  <2>1. /\ UsersInv' /\ edit[h].user \in Users
        /\ RoleWritten(edit[h].user, "gone")
        /\ Cascade(edit[h].user) /\ UNCHANGED expiry
    BY <1>1, <1>7, RemoveDeleteStep DEF UserRemoved
  <2>2. GatewayInv'
    BY <2>1, RoleWrittenStep
  <2>3. \A v \in Users \ {edit[h].user} : UserExists(v) => UserExists(v)'
    BY <1>1, <2>1 DEF RoleWritten, UserExists
  <2>4. UNCHANGED up
    BY <2>1 DEF RoleWritten
  <2> QED
    BY <2>1, <2>2, <2>3, <2>4, CascadeStep, ExpiryFrame
<1>8. CASE Crash
  <2>1. UNCHANGED role /\ up' = FALSE
    BY <1>8 DEF Crash, GatewayDown
  <2> QED
    BY <1>8, <2>1, GatewayRestarts, ServiceDownStep, ExpiryRestarts,
       UsersDownStep DEF Crash
<1>9. CASE Restart
  <2>1. /\ UNCHANGED role
        /\ \A v \in Users : UserExists(v) => UserExists(v)'
    BY <1>9 DEF Restart, GatewayUp, UserExists
  <2> QED
    BY <1>9, <2>1, GatewayRestarts, ServiceFrame, ExpiryRestarts, UsersFrame
       DEF Restart
<1>10. CASE UNCHANGED vars
  BY <1>2, <1>10, GatewayFrame, UsersFrame, ServiceFrame, ExpiryFrame DEF vars
<1> QED
  BY <1>3, <1>4, <1>5, <1>6, <1>7, <1>8, <1>9, <1>10 DEF Next

(* Sockets, users, rows and notices keep their types, and no request or    *)
(* manager outlives the user it refers to.                                 *)
THEOREM TypeCorrect == Spec => []TypeOK
<1>1. NoticesInv => TypeOK
  BY DEF NoticesInv, GatewayInv, UsersInv, ServiceInv, ExpiryInv, TypeOK
<1> QED
  BY <1>1, InvInit, InvStep, PTL DEF Spec

(* A socket in a room is there by the role of its user, or that role was   *)
(* written after the gateway asked for it, for any number of connections.  *)
THEOREM RoomsAreThoseOfRoles == Spec => []RoomsFollowRoles
<1>1. NoticesInv => RoomsFollowRoles
  BY DEF NoticesInv, GatewayInv
<1> QED
  BY <1>1, InvInit, InvStep, PTL DEF Spec

(* A create that failed or crashed leaves no attachment and no request     *)
(* without a message, but for the reasons the history names.               *)
THEOREM CreatesAreSettled == Spec => []CreatesSettled
<1>1. NoticesInv => CreatesSettled
  BY DEF NoticesInv, ServiceInv
<1> QED
  BY <1>1, InvInit, InvStep, PTL DEF Spec

(* A process with no check of today to come has told of all that is due.   *)
THEOREM NoticesAreGiven == Spec => []NoticesGiven
<1>1. NoticesInv => NoticesGiven
  BY DEF NoticesInv, ExpiryInv
<1> QED
  BY <1>1, InvInit, InvStep, PTL DEF Spec

(* A driver has a manager who manages, unless edits of the two overlapped  *)
(* or the manager was removed or lost that role.                           *)
THEOREM DriversAreManaged == Spec => []DriversManaged
<1>1. NoticesInv => DriversManaged
  BY DEF NoticesInv, UsersInv
<1> QED
  BY <1>1, InvInit, InvStep, PTL DEF Spec

-----------------------------------------------------------------------------
(* Steps that may not be                                                   *)

LEMMA AdminsStepHolds == NoticesInv /\ [Next]_vars => [AdminsStep]_vars
<1> SUFFICES ASSUME NoticesInv, [Next]_vars, NEW u \in Users,
                    role[u] = "ADMIN", role'[u] # "ADMIN"
             PROVE  \E h \in Edits : edit[h].user = u /\ edit[h].raced
  BY DEF AdminsStep
<1>1. \A h \in Edits : edit[h].raced \in BOOLEAN /\ EditReady(edit[h])
  BY DEF NoticesInv, UsersInv, UsersTypeOK, Edit, EditsReady
<1>2. PICK h \in Edits :
        edit[h].pc # "idle" /\ \E new : RoleWritten(edit[h].user, new)
  <2>1. role' # role
    OBVIOUS
  <2>2. GatewayNext \/ Crash \/ Restart => UNCHANGED role
    BY DEF GatewayNext, Connect, Query, TurnAway, Join, Disconnect, Crash,
           GatewayDown, Restart, GatewayUp
  <2>3. UNCHANGED vars \/ UNCHANGED gateway => UNCHANGED role
    BY DEF vars, gateway
  <2>4. ASSUME NEW h \in Edits, EditWrite(h) \/ UserRemoved(h)
        PROVE  /\ edit[h].pc # "idle"
               /\ \E new : RoleWritten(edit[h].user, new)
    BY <2>4 DEF EditWrite, UserRemoved, RemoveDelete
  <2>5. ASSUME NEW h \in Edits, NEW v \in Users, NEW as \in Optional(UserRole),
               NEW m \in Optional(Users), EditRead(h, v, as, m)
        PROVE  UNCHANGED role
    BY <2>5 DEF EditRead, gateway
  <2>6. ASSUME NEW h \in Edits,
               \/ EditLook(h) \/ EditFails(h)
               \/ \E v \in Users : RemoveRead(h, v)
        PROVE  UNCHANGED role
    BY <2>6 DEF EditLook, EditFails, RemoveRead, gateway
  <2>7. \/ \E h \in Edits : UserRemoved(h)
        \/ UsersNext
    BY <2>1, <2>2, <2>3 DEF Next
  <2>8. \E h \in Edits : EditWrite(h) \/ UserRemoved(h)
    BY <2>1, <2>5, <2>6, <2>7 DEF UsersNext
  <2> QED
    BY <2>4, <2>8
<1>3. edit[h].user = u
  BY <1>1, <1>2 DEF RoleWritten, EditReady, NoticesInv, GatewayInv,
                    GatewayTypeOK
<1> QED
  BY <1>1, <1>2, <1>3 DEF EditReady

(* An administrator loses his role or his row only to a handler that read  *)
(* the row before another one made him an administrator.                   *)
THEOREM AdminsAreKept == Spec => AdminsKept
<1> QED
  BY AdminsStepHolds, InvInit, InvStep, PTL DEF Spec, AdminsKept

-----------------------------------------------------------------------------
(* The attachments implement ObjectStore                                   *)

(* The phases in terms of four sets; no key is dangling.                   *)
PhaseMeans(k) ==
  /\ k \in Named <=> Phase(k) = "linked"
  /\ k \in objects /\ k \notin linked <=> Phase(k) = "stored"
  /\ k \in objects /\ k \in linked /\ k \notin Named <=> Phase(k) = "unlinked"
  /\ k \in used /\ k \notin objects <=> Phase(k) = "deleted"
  /\ k \notin used <=> Phase(k) = "unused"
  /\ Phase(k) \in Store!Phases

LEMMA PhaseIs == ServiceInv => \A k \in Keys : PhaseMeans(k)
<1> SUFFICES ASSUME ServiceInv, NEW k \in Keys PROVE PhaseMeans(k)
  OBVIOUS
<1>1. /\ k \in Named => k \in linked /\ k \in objects
      /\ k \in linked => k \in used
      /\ k \in objects => k \in used
  BY DEF ServiceInv, ServiceTypeOK, RequestsWhole
<1>2. CASE k \in Named
  BY <1>1, <1>2 DEF Phase, PhaseMeans, Store!Phases
<1>3. CASE k \in objects \ Named
  BY <1>1, <1>3 DEF Phase, PhaseMeans, Store!Phases
<1>4. CASE k \in used /\ k \notin Named \cup objects
  BY <1>1, <1>4 DEF Phase, PhaseMeans, Store!Phases
<1>5. CASE k \notin used
  BY <1>1, <1>5 DEF Phase, PhaseMeans, Store!Phases
<1> QED
  BY <1>1, <1>2, <1>3, <1>4, <1>5

LEMMA PhaseIsNext == (ServiceInv => \A k \in Keys : PhaseMeans(k))'
BY PhaseIs, PTL

(* What one step may do to one key, said with the four sets.               *)
KeyMoves(k) ==
  \/ /\ k \in Named' <=> k \in Named
     /\ k \in objects' <=> k \in objects
     /\ k \in linked' <=> k \in linked
     /\ k \in used' <=> k \in used
  \/ k \notin used /\ k \in used' /\ k \notin linked'
  \/ k \in objects \ linked /\ k \in Named'
  \/ k \in objects \ linked /\ k \in used' /\ k \notin objects'
  \/ k \in Named /\ k \notin Named' /\ k \in objects' /\ k \in linked'

LEMMA MovesFollow ==
  ASSUME ServiceInv, ServiceInv', NEW k \in Keys, KeyMoves(k)
  PROVE  Phase(k)' = Phase(k) \/ <<Phase(k), Phase(k)'>> \in Store!Steps
<1>1. PhaseMeans(k) /\ PhaseMeans(k)'
  BY PhaseIs, PhaseIsNext
<1>2. /\ k \in linked => k \in used
      /\ k \in objects => k \in used
      /\ (k \in linked => k \in used)'
      /\ (k \in objects => k \in used)'
  BY DEF ServiceInv, ServiceTypeOK
<1> QED
  BY <1>1, <1>2 DEF PhaseMeans, KeyMoves, Store!Phases, Store!Steps

LEMMA ServiceMoves ==
  ASSUME ServiceInv, ServiceNext, NEW k \in Keys
  PROVE  KeyMoves(k)
<1> USE DEF ServiceInv
<1>1. ASSUME UNCHANGED <<request, objects, used, linked>> PROVE KeyMoves(k)
  BY <1>1 DEF KeyMoves, Named
<1>2. ASSUME NEW r \in Requests, CreatePut(r) \/ CreatePutFails(r)
      PROVE  KeyMoves(k)
  <2>1. PICK j \in Keys \ used :
          /\ used' = used \cup {j} /\ objects \subseteq objects'
          /\ objects' \subseteq objects \cup {j}
          /\ UNCHANGED <<request, linked>>
    BY <1>2 DEF CreatePut, CreatePutFails, FreshKeys
  <2> QED
    BY <2>1 DEF KeyMoves, Named, ServiceTypeOK
<1>3. ASSUME NEW r \in Requests, NEW i \in RequestIds, CreateInsert(r, i)
      PROVE  KeyMoves(k)
  <2>1. /\ At(r, "insert") /\ request[i] = NoRequest
        /\ linked' = linked \cup ({req[r].key} \ {NULL})
        /\ request'[i].key = req[r].key
        /\ \A j \in RequestIds \ {i} : request'[j] = request[j]
        /\ UNCHANGED <<objects, used>>
    BY <1>3 DEF CreateInsert, ServiceTypeOK, NoRequest
  <2>2. Named' = Named \cup ({req[r].key} \ {NULL})
    BY <2>1 DEF Named, NoRequest
  <2>3. req[r].key # NULL => req[r].key \in objects \ linked
    BY DEF CreatesReady, Holds
  <2> QED
    BY <2>1, <2>2, <2>3 DEF KeyMoves
<1>4. ASSUME NEW r \in Requests, CreateUndo(r) PROVE KeyMoves(k)
  <2>1. /\ At(r, "undo") /\ objects' \in {objects, objects \ {req[r].key}}
        /\ UNCHANGED <<request, used, linked>>
    BY <1>4 DEF CreateUndo
  <2>2. req[r].key \in objects \ linked
    BY <2>1 DEF CreatesReady, Holds, At
  <2> QED
    BY <2>1, <2>2 DEF KeyMoves, Named, ServiceTypeOK
<1>5. ASSUME NEW i \in RequestIds, NEW status \in {"PENDING", "COMPLETED"},
             StatusUpdate(i, status)
      PROVE  KeyMoves(k)
  <2>1. /\ UNCHANGED <<objects, used, linked>>
        /\ \A j \in RequestIds : request'[j].key = request[j].key
    BY <1>5 DEF StatusUpdate, ServiceTypeOK, Request
  <2> QED
    BY <2>1 DEF KeyMoves, Named
<1> QED
  BY <1>1, <1>2, <1>3, <1>4, <1>5
     DEF ServiceNext, CreateRead, CreateInsertFails, CreateAnnounce

LEMMA StoreInit == Init => Store!Init
<1> SUFFICES ASSUME Init, NEW k \in Keys PROVE Phase(k) = "unused"
  BY DEF Store!Init
<1>1. PhaseMeans(k) /\ k \notin used
  BY ServiceStarts, PhaseIs DEF Init, ServiceInit
<1> QED
  BY <1>1 DEF PhaseMeans

LEMMA StoreStep ==
  NoticesInv /\ NoticesInv' /\ [Next]_vars => Store!Next
<1> SUFFICES ASSUME NoticesInv, NoticesInv', [Next]_vars PROVE Store!Next
  OBVIOUS
<1>1. ServiceInv /\ ServiceInv'
  BY DEF NoticesInv
<1>2. ASSUME NEW k \in Keys PROVE KeyMoves(k)
  <2>1. UNCHANGED <<request, objects, used, linked>> => KeyMoves(k)
    BY DEF KeyMoves, Named
  <2>2. ASSUME NEW h \in Edits, UserRemoved(h) PROVE KeyMoves(k)
    <3>1. /\ UNCHANGED <<objects, used, linked>>
          /\ \A i \in RequestIds : request'[i] \in {request[i], GoneRequest}
      BY <2>2 DEF UserRemoved, Cascade
    <3>2. Named' \subseteq Named
      BY <3>1 DEF Named, GoneRequest, NoRequest
    <3>3. k \in Named => k \in objects \cap linked
      BY <1>1 DEF ServiceInv, RequestsWhole
    <3> QED
      BY <3>1, <3>2, <3>3 DEF KeyMoves
  <2>3. Crash \/ UNCHANGED service \/ UNCHANGED vars
          => UNCHANGED <<request, objects, used, linked>>
    BY DEF Crash, ServiceDown, service, vars
  <2> QED
    BY <1>1, <2>1, <2>2, <2>3, ServiceMoves DEF Next, Restart
<1>3. \A k \in Keys : Phase(k)' \in Store!Phases
  BY <1>1, PhaseIsNext DEF PhaseMeans
<1>4. \A k \in Keys :
        Phase(k)' = Phase(k) \/ <<Phase(k), Phase(k)'>> \in Store!Steps
  BY <1>1, <1>2, MovesFollow
<1> QED
  BY <1>3, <1>4 DEF Store!Next

(* Every behaviour of the service requests is, seen through Phase, one of  *)
(* ObjectStore: keys are used once, and no attachment goes while a request *)
(* names it.                                                               *)
THEOREM AttachmentsImplementStore == Spec => AttachmentsFollowStore
<1> QED
  BY InvInit, InvStep, StoreInit, StoreStep, PTL
     DEF Spec, AttachmentsFollowStore, Store!Spec
=============================================================================
