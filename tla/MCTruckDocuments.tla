------------------------- MODULE MCTruckDocuments -------------------------
(***************************************************************************)
(* Small instances of TruckDocuments for TLC.                              *)
(***************************************************************************)
EXTENDS TruckDocuments, TLC

MCSymmetry == Permutations(Requests) \cup Permutations(Keys)
                \cup Permutations(DocIds) \cup Permutations(Trucks)
                \cup Permutations(Types)
=============================================================================
