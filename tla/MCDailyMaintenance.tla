------------------------- MODULE MCDailyMaintenance -------------------------
(***************************************************************************)
(* Small instances of DailyMaintenance for TLC.                            *)
(***************************************************************************)
EXTENDS DailyMaintenance, TLC

(* Complete bodies, which is what the application's own form sends; a      *)
(* reading of 0 asks for the mileage of the truck.                         *)
Complete == [truck : Trucks, driver : Drivers, day : Days, km : {0, 2},
             checklist : {TRUE}]

(* Besides: bodies without a mileage, a day or a checklist, or without     *)
(* anything.                                                               *)
Partial == {NoBody}
           \cup {[NoBody EXCEPT !.truck = v, !.driver = d] : v \in Trucks, d \in Drivers}

MCPatches == Complete \cup Partial

MCSymmetry == Permutations(Requests) \cup Permutations(RecordIds)
                \cup Permutations(Trucks) \cup Permutations(Drivers)
                \cup Permutations(Days)
=============================================================================
