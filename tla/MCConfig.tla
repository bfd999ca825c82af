------------------------------ MODULE MCConfig ------------------------------
(* Model-checking instance of Config: one user, two groups.                 *)
EXTENDS Config

CONSTANTS n1, g1, g2, sA, sB

Doc(kind, users, a, b) ==
  [kind |-> kind, users |-> users,
   grps |-> [g \in Grps |-> IF g = g1 THEN a ELSE b]]

InGroup(g) == [n \in Names |-> g]

\* Documents that move the user to another group, whose string differs or which
\* the handler does not have, that drop the user or the whole section, and one
\* of each kind that cannot be installed.
MCDocuments ==
  { Doc("good", InGroup(g1), sA, sB),
    Doc("good", InGroup(g2), sB, Nil),
    Doc("good", InGroup(Nil), sA, Nil),
    Doc("good", Nil, sB, sA) }
  \cup {Doc(k, Nil, Nil, Nil) : k \in Kinds \ {"good"}}
=============================================================================
