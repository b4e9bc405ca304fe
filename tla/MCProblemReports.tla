------------------------- MODULE MCProblemReports -------------------------
(***************************************************************************)
(* Small instances of ProblemReports for TLC.                              *)
(***************************************************************************)
EXTENDS ProblemReports, TLC

(* Resolving without a note, a note alone, and a note that reopens.        *)
MCResponses == {[note |-> FALSE, status |-> "RESOLVED"],
                [note |-> TRUE, status |-> NULL],
                [note |-> TRUE, status |-> "OPEN"]}

(* Requests, keys and reports are interchangeable, and so are the users of *)
(* one kind.                                                               *)
MCSymmetry == Permutations(Requests) \cup Permutations(Keys)
                \cup Permutations(ReportIds) \cup Permutations(Admins)
                \cup Permutations(Users \ Admins)
=============================================================================
