------------------------------ MODULE Gateway ------------------------------
(***************************************************************************)
(* ReportNotificationsGateway: which sockets are in which rooms.           *)
(* handleConnection answers a connection with one query and then joins the *)
(* rooms of the user and of his role; handleDisconnect forgets the socket. *)
(*                                                                         *)
(* The process they live in, and the users they belong to, are what the    *)
(* other services of Notices share with the gateway.  The actions here say *)
(* nothing of the variables of those services.  A connection has an id of  *)
(* its own: a client that comes back is another socket.  The token of a    *)
(* connection is taken as good, the others being turned away at once.      *)
(***************************************************************************)
EXTENDS Integers, FiniteSets

CONSTANTS
  Users,     \* values of the User id sequence
  Sockets,   \* connections, in the whole of a behaviour
  NULL

ASSUME GatewayConstants == NULL \notin Users \cup Sockets

VARIABLES
  up,          \* does the process run?
  role,        \* User.role by id, "gone" when the row was deleted
  socket,      \* the connections
  registered   \* connectedUsersBySocketId

gateway == <<up, role, socket, registered>>

Optional(S) == S \cup {NULL}

(* EMPLOYEE and PENDING_APPROVAL are left out: no room is ever emitted to, *)
(* no right and no rule of a manager hangs on them.                        *)
UserRole == {"ADMIN", "DIRECTION", "DRIVER"}

ASSUME NoRole == NULL \notin UserRole

(* pc: not there yet, waiting for the query, about to join, through.       *)
(* room: the role the query found.  alive: is the client still connected?  *)
(* changed, early: history, see the invariants.                            *)
Socket == [pc : {"none", "query", "join", "open"}, user : Optional(Users),
           room : Optional(UserRole), alive : BOOLEAN, changed : BOOLEAN,
           early : BOOLEAN]

NoSocket == [pc |-> "none", user |-> NULL, room |-> NULL, alive |-> FALSE,
             changed |-> FALSE, early |-> FALSE]

(* What the rest of a behaviour remembers of a connection of a process     *)
(* that ended: its id is not used again.                                   *)
OldSocket == [NoSocket EXCEPT !.pc = "open"]

UserExists(u) == role[u] \in UserRole

GatewayInit ==
  /\ up = TRUE
  /\ role \in [Users -> UserRole]
  /\ socket = [s \in Sockets |-> NoSocket]
  /\ registered = {}

-----------------------------------------------------------------------------
Connect(s, u) ==
  /\ up
  /\ socket[s] = NoSocket
  /\ socket' = [socket EXCEPT ![s] =
                  [NoSocket EXCEPT !.pc = "query", !.user = u, !.alive = TRUE]]
  /\ UNCHANGED <<up, role, registered>>

Query(s) ==
  /\ socket[s].pc = "query"
  /\ UserExists(socket[s].user)
  /\ socket' = [socket EXCEPT ![s].pc = "join",
                              ![s].room = role[socket[s].user]]
  /\ UNCHANGED <<up, role, registered>>

(* The user is gone, or the query fails: the socket is disconnected.       *)
TurnAway(s) ==
  /\ socket[s].pc = "query"
  /\ socket' = [socket EXCEPT ![s].pc = "open", ![s].alive = FALSE]
  /\ UNCHANGED <<up, role, registered>>

(* The socket is registered and joins its rooms at once.  A socket that is *)
(* no longer connected joins none, and is registered all the same.         *)
Join(s) ==
  /\ socket[s].pc = "join"
  /\ socket' = [socket EXCEPT ![s].pc = "open"]
  /\ registered' = registered \cup {s}
  /\ UNCHANGED <<up, role>>

(* Wrong: handleDisconnect does not forget the socket.                     *)
BugForgotten(s) == registered

Forgotten(s) == registered \ {s}

(* early: the client left before it was registered.                        *)
Disconnect(s) ==
  /\ socket[s].alive
  /\ socket' = [socket EXCEPT ![s].alive = FALSE,
                              ![s].early = socket[s].pc # "open"]
  /\ registered' = Forgotten(s)
  /\ UNCHANGED <<up, role>>

(* Sockets that rest on what a query has said of u.                        *)
Informed(u) == {s \in Sockets : socket[s].user = u /\ socket[s].room # NULL}

(* The write of a user's row (Users): the gateway does not hear of it.     *)
RoleWritten(u, new) ==
  /\ role' = [role EXCEPT ![u] = new]
  /\ socket' = [s \in Sockets |->
                  IF s \in Informed(u) /\ role[u] # new
                  THEN [socket[s] EXCEPT !.changed = TRUE] ELSE socket[s]]
  /\ UNCHANGED <<up, registered>>

(* Everything in memory is lost with the process.                          *)
GatewayDown ==
  /\ up' = FALSE
  /\ socket' = [s \in Sockets |->
                  IF socket[s] = NoSocket THEN NoSocket
                  ELSE OldSocket]
  /\ registered' = {}
  /\ UNCHANGED role

GatewayUp ==
  /\ ~up
  /\ up' = TRUE
  /\ UNCHANGED <<role, socket, registered>>

GatewayNext ==
  \/ \E s \in Sockets, u \in Users : Connect(s, u)
  \/ \E s \in Sockets : Query(s) \/ TurnAway(s) \/ Join(s) \/ Disconnect(s)

-----------------------------------------------------------------------------
(* The sockets a message to the administrators reaches.                    *)
RoomOf(as) ==
  {s \in Sockets : socket[s].alive /\ socket[s].pc = "open"
                     /\ socket[s].room = as}

GatewayTypeOK ==
  /\ up \in BOOLEAN
  /\ role \in [Users -> UserRole \cup {"gone"}]
  /\ socket \in [Sockets -> Socket]
  /\ registered \subseteq Sockets

(* A socket that is through is in the room of its user's role, unless that *)
(* role changed after the gateway asked for it.  The sockets registered are*)
(* those in a room, and those whose client left during the handshake, which*)
(* stay registered until the process ends.                                 *)
RoomsFollowRoles ==
  \A s \in Sockets :
    LET k == socket[s] IN
    /\ s \in RoomOf(k.room) => role[k.user] = k.room \/ k.changed
    /\ k.alive /\ k.pc = "open" => s \in registered
    /\ s \in registered => k.alive \/ k.early
=============================================================================
