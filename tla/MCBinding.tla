----------------------------- MODULE MCBinding ------------------------------
(* Model-checking instance of Binding.                                      *)
EXTENDS Binding

CONSTANTS u1, o1, p1, p2

OneObject == [u \in Users |-> o1]

\* The first parameter becomes a table of dates and then a boolean; the second one
\* is an argument of the first version only.
Changing ==
  << [p \in Params |-> IF p = p1 THEN "string" ELSE "number"],
     [p \in Params |-> IF p = p1 THEN "dateTab" ELSE Other],
     [p \in Params |-> IF p = p1 THEN "boolean" ELSE Other] >>

\* Two values, or a file, which is bound first, and a value.
TwoParams == { << {}, {p1, p2} >>, << {p1}, {p2} >>, << {p2}, {p1} >> }
=============================================================================
