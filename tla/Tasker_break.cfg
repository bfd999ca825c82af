SPECIFICATION FairSpec
CONSTANTS
  Breakers = {b1, b2}
  Creds = {u1, u2}
  Sids = {s1, s2}
  Nil = Nil
  Unconnected = Unconnected
  MaxParts = 2
INVARIANTS
  TypeOK
  NeverPanics
  OneSession
  KillConsistent
  AtRest
PROPERTIES
  RunEnds
  BreakEnds
