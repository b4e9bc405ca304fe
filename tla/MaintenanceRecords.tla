------------------------- MODULE MaintenanceRecords -------------------------
(***************************************************************************)
(* What the tables of DailyMaintenance and of MonthlyMaintenance have in   *)
(* common: rows by id, ids that are given out once, and the two statuses.  *)
(***************************************************************************)
EXTENDS Fleet

CONSTANT RecordIds  \* values of the id sequence

VARIABLES
  record,   \* the rows, by id
  created   \* ids the sequence has given out

(* DailyMaintenanceRecordStatus and MonthlyMaintenanceRecordStatus.        *)
Status == {"PENDING", "REVIEWED"}

Exists(id) == record[id].status # "NONE"
=============================================================================
