----------------------------- MODULE MCDescribe -----------------------------
(* Model-checking instances of Describe.                                    *)
EXTENDS Describe

CONSTANTS u1, u2, o1, o2

\* All users see the same procedure.
OneObject == [u \in Users |-> o1]

\* Each schema has a procedure of its own with that name.
OwnObject == [u \in Users |-> IF u = u1 THEN o1 ELSE o2]
=============================================================================
