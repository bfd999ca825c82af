SPECIFICATION Spec
CONSTANTS
  Callers = {c1, c2}
  u1 = u1
  u2 = u2
  o1 = o1
  o2 = o2
  Users = {u1, u2}
  Objects = {o1, o2}
  Resolve <- OwnObject
  Nil = Nil
  MaxTime = 2
  MaxVersion = 1
  MaxArgs = 1
INVARIANT ChecksOwnObject
