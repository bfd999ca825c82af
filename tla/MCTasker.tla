------------------------------ MODULE MCTasker ------------------------------
(* Model-checking instances of Tasker.                                      *)
EXTENDS Tasker
=============================================================================
