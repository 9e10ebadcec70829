------------------------------ MODULE MCBackup ------------------------------
(* Backup for TLC. *)
EXTENDS Backup

OneButton == {"admin"}
=============================================================================
