--------------------------- MODULE MCTripHistory ---------------------------
(***************************************************************************)
(* Small instances of TripHistory for TLC.                                 *)
(***************************************************************************)
EXTENDS TripHistory, TLC

NoEdit == [status |-> NULL, startKm |-> NULL, endKm |-> NULL, truck |-> NULL,
           driver |-> NULL]

(* One body per field, and the two ways of reopening a trip.               *)
MCEdits == {[NoEdit EXCEPT !.endKm = 0], [NoEdit EXCEPT !.startKm = 1],
            [NoEdit EXCEPT !.status = "DRIVER_FILLING"]}

(* Bodies that move a trip to another truck.                               *)
MCTruckEdits == {[NoEdit EXCEPT !.truck = v] : v \in Trucks}

(* Handlers and keys are interchangeable, and so are trips.                *)
MCSymmetry == Permutations(Requests) \cup Permutations(Keys)
                \cup Permutations(TripIds)
=============================================================================
