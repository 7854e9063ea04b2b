------------------------------ MODULE MCRestore ------------------------------
(* A restore whose object is edited once, whose calls lose one answer, with  *)
(* one restart of the operator and one of the backup service.                *)
EXTENDS Restore
=============================================================================
