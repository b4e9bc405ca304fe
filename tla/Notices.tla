------------------------------ MODULE Notices ------------------------------
(***************************************************************************)
(* The services that tell the administrators something, and the one that   *)
(* says who is an administrator, in the process and with the gateway they  *)
(* share.  A step of one of them leaves the others alone; the process      *)
(* comes and goes for all, and a user is deleted from the rows of all.     *)
(***************************************************************************)
EXTENDS ServiceRequests, TruckExpiry, Users

vars == <<gateway, service, expiry, users>>

Init == GatewayInit /\ ServiceInit /\ ExpiryInit /\ UsersInit

(* UserService.remove: the service requests go with the user, his sockets  *)
(* stay connected and in their rooms.                                      *)
UserRemoved(h) ==
  /\ RemoveDelete(h)
  /\ Cascade(edit[h].user)
  /\ UNCHANGED expiry

(* The process ends in the middle of whatever it was doing.                *)
Crash ==
  /\ up
  /\ GatewayDown
  /\ ServiceDown
  /\ ExpiryDown
  /\ UsersDown

Restart ==
  /\ GatewayUp
  /\ ExpiryUp
  /\ UNCHANGED <<service, users>>

Next ==
  \/ GatewayNext /\ UNCHANGED <<service, expiry, users>>
  \/ ServiceNext /\ UNCHANGED <<gateway, expiry, users>>
  \/ ExpiryNext /\ UNCHANGED <<gateway, service, users>>
  \/ UsersNext /\ UNCHANGED <<service, expiry>>
  \/ \E h \in Edits : UserRemoved(h)
  \/ Crash
  \/ Restart

Spec == Init /\ [][Next]_vars

TypeOK == GatewayTypeOK /\ ServiceTypeOK /\ ExpiryTypeOK /\ UsersTypeOK

AdminsKept == [][AdminsStep]_vars
=============================================================================
