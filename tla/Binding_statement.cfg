SPECIFICATION BindFairSpec
CONSTANTS
  Callers = {c1, c2}
  u1 = u1
  o1 = o1
  p1 = p1
  p2 = p2
  Users = {u1}
  Objects = {o1}
  Resolve <- OneObject
  Params = {p1, p2}
  Forms <- TwoParams
  DataType <- Changing
  StoreProc = TRUE
  Nil = Nil
  MaxTime = 3
  MaxVersion = 3
  MaxArgs = 2
INVARIANTS
  BindTypeOK
  StaleIsDetectable
  BoundExactly
  
  UploadsAreAtomic
PROPERTY Settles
