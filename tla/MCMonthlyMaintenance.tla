------------------------ MODULE MCMonthlyMaintenance ------------------------
(***************************************************************************)
(* Small instances of MonthlyMaintenance for TLC.                          *)
(***************************************************************************)
EXTENDS MonthlyMaintenance, TLC

(* Lists without an item, of a key that gets worse, and of a key with two  *)
(* items as bad as each other, the second with notes, and another key.     *)
Line(key, word, notes) == [key |-> key, status |-> word, notes |-> notes]
FewLists ==
  LET k == CHOOSE x \in ItemKeys : TRUE
      n == CHOOSE x \in Notes : TRUE IN
  {<<>>, <<Line(k, "bueno", n), Line(k, "regular", NULL)>>}
  \cup {<<Line(k, "malo", NULL), Line(k, "malo", n), Line(l, "bueno", NULL)>> :
          l \in ItemKeys \ {k}}

MCSymmetry == Permutations(Requests) \cup Permutations(RecordIds)
                \cup Permutations(Trucks) \cup Permutations(Months)
=============================================================================
