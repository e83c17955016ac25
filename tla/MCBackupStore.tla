---------------------------- MODULE MCBackupStore ----------------------------
(* Small instances of BackupStore for TLC. *)
EXTENDS BackupStore, TLC

CONSTANTS b1, b2, d1, d2

\* Two batches that overlap in d1; only b1 backs up d2.
Overlapping == [b \in Batches |-> IF b = b1 THEN {d1, d2} ELSE {d1}]
=============================================================================
