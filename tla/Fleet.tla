------------------------------- MODULE Fleet -------------------------------
(***************************************************************************)
(* The handlers in flight, for Trucks, DailyMaintenance and                *)
(* MonthlyMaintenance.  Each of the three has a specification of its own,  *)
(* which alone says what values req takes; they are not composed.          *)
(***************************************************************************)
CONSTANTS
  Requests,   \* handlers that can be in flight together
  Trucks,     \* values of the Truck id sequence
  NULL

VARIABLE req  \* the handlers in flight

Optional(S) == S \cup {NULL}

At(r, pc) == req[r].pc = pc
Become(r, handler) == req' = [req EXCEPT ![r] = handler]
=============================================================================
