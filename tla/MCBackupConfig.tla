--------------------------- MODULE MCBackupConfig ---------------------------
(* Instances of BackupConfig for TLC. *)
EXTENDS BackupConfig
=============================================================================
