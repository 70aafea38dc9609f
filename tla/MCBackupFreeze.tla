--------------------------- MODULE MCBackupFreeze ---------------------------
(* Two restores at once, for TLC.                                          *)
EXTENDS BackupFreeze

CONSTANTS r1, r2, q1, q2

TwoRestores == {r1, r2}
TwoRequests == {q1, q2}
NoBackup == {}
=============================================================================
