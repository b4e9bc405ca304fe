---------------------------- MODULE ObjectStore ----------------------------
(***************************************************************************)
(* What the services promise about the files they keep in S3, told without *)
(* requests, rows or transactions.  Every key a service hands to S3Service *)
(* walks once through a fixed life:                                        *)
(*                                                                         *)
(*   unused --> stored --> linked --> unlinked --> deleted                 *)
(*                  \---------------------------------^                    *)
(*                                                                         *)
(* A key is "linked" while a database row names it.  There is no step from *)
(* "linked" to "deleted": an object is removed only after the last row     *)
(* naming it has gone, and a key whose life is over is not used again.     *)
(***************************************************************************)
CONSTANT Keys

VARIABLE phase   \* the life of every key

Phases == {"unused", "stored", "linked", "unlinked", "deleted"}

(* "unused" to "deleted" is an upload that S3 refused: its key is spent.   *)
Steps == {<<"unused", "stored">>, <<"unused", "deleted">>,
          <<"stored", "linked">>, <<"stored", "deleted">>,
          <<"linked", "unlinked">>, <<"unlinked", "deleted">>}

Init == phase = [k \in Keys |-> "unused"]

(* One database or S3 call may move several keys: replacing a file unlinks *)
(* one and links another, deleting a row with its children unlinks many.   *)
Next ==
  /\ phase' \in [Keys -> Phases]
  /\ \A k \in Keys : phase'[k] = phase[k] \/ <<phase[k], phase'[k]>> \in Steps

Spec == Init /\ [][Next]_phase
=============================================================================
