SPECIFICATION FairSpec
CONSTANTS
  Requests = {r1}
  n1 = n1
  g1 = g1
  g2 = g2
  sA = sA
  sB = sB
  Nil = Nil
  Names = {n1}
  Grps = {g1, g2}
  Sids = {sA, sB}
  GlobalSids = {Nil, sB}
  Documents <- MCDocuments
  MaxVersion = 3
  MaxOutages = 1
INVARIANTS
  TypeOK
  UsersInForce
  GrantIsConfigured
  NoLeak
  
PROPERTIES
  InstalledEventually
  StopEnds
