------------------------------ MODULE MCLocks -------------------------------
(* Locks with the constants of Locks_requests.cfg: two handlers meet on one  *)
(* session, for which two workers exist at most.                             *)
EXTENDS Locks
=============================================================================
