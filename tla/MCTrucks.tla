------------------------------ MODULE MCTrucks ------------------------------
(***************************************************************************)
(* Small instances of Trucks for TLC.                                      *)
(***************************************************************************)
EXTENDS Trucks, FiniteSets, TLC

CONSTANT MaxEntries   \* bound: rows of a log that are followed up

MCSymmetry == Permutations(Requests) \cup Permutations(Users)

(* The drivers of a truck and its log share nothing but the existence of   *)
(* trucks and users: each is followed while nothing is said of the other.  *)
OneOfThem ==
  \/ clock = 0 /\ \A t \in Trucks : Changing(t) = {}
  \/ /\ assigned = {} /\ unchecked = {} /\ \A u \in Users : ~MayDrive(u)
     /\ \A r \in Requests : req[r].pc \notin {"delete", "lock", "insert"}
     /\ \A t \in Trucks : Cardinality(log[t]) <= MaxEntries
=============================================================================
