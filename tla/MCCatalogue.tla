---------------------------- MODULE MCCatalogue ----------------------------
(***************************************************************************)
(* Small instances of Catalogue for TLC.                                   *)
(***************************************************************************)
EXTENDS Catalogue, TLC

MCSymmetry == Permutations(Requests) \cup Permutations(Ids)
                \cup Permutations(Spellings) \cup Permutations(Managers)
=============================================================================
