----------------------------- MODULE MCNotices -----------------------------
(***************************************************************************)
(* Two users and two edits of them, a connection, a request at a time and  *)
(* a document.  Connections, service requests and expiry checks meet in    *)
(* nothing but the users and the process, so each of them is run with      *)
(* those two, and not with another.                                        *)
(***************************************************************************)
EXTENDS Notices, TLC

MCDates == {1, 8}

MCSymmetry == Permutations(Users) \cup Permutations(RequestIds)
                \cup Permutations(Keys) \cup Permutations(Edits)
                \cup Permutations(Requests)

(* Nothing of it has happened yet.                                         *)
SocketsAtRest == socket = [s \in Sockets |-> NoSocket]
ServiceAtRest == ServiceInit
ExpiryAtRest == /\ day = 0 /\ timer = up /\ checks = {} /\ edited = {}
                /\ expires = [d \in Documents |-> NULL] /\ ~failed

AtWork == {h \in Edits : edit[h] # NoEdit}
Unmanaged == /\ manager = [u \in Users |-> NULL]
             /\ \A h \in AtWork : edit[h].manager = NULL

Removals == loose = Users /\ \A h \in AtWork : edit[h].pc = "delete"

(* With a connection one edit is followed at a time, with service requests *)
(* one removal, with expiry checks none; nobody is managed in these, nor   *)
(* was anybody edited before a request or a check.                         *)
EditsFew ==
  \/ SocketsAtRest /\ ServiceAtRest /\ ExpiryAtRest
  \/ /\ Unmanaged
     /\ Cardinality(AtWork) <= 1
     /\ ServiceAtRest \/ Removals
     /\ ExpiryAtRest \/ (Removals /\ AtWork = {})

(* The named bounds of the run.                                            *)
OneOfThem ==
  /\ SocketsAtRest \/ ServiceAtRest
  /\ SocketsAtRest \/ ExpiryAtRest
  /\ ServiceAtRest \/ ExpiryAtRest
  /\ EditsFew
=============================================================================
