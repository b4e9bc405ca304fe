-------------------------- MODULE MCVerification --------------------------
(***************************************************************************)
(* Small instances of Verification for TLC.  Two spellings of one address  *)
(* are two addresses to all but the limits, login and what lowers them.    *)
(***************************************************************************)
EXTENDS Verification, TLC

CONSTANTS a1

MCEmails == {<<a1, "lower">>, <<a1, "mixed">>}

MCSymmetry == Permutations(Requests) \cup Permutations(Users)
                \cup Permutations(Codes)
=============================================================================
