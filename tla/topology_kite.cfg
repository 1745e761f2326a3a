SPECIFICATION Spec
CONSTANTS
  v1 = v1
  v2 = v2
  v3 = v3
  v4 = v4
  inet = inet
  s12 = s12
  s13 = s13
  s23 = s23
  s34 = s34
  srv1 = srv1
  Routers = {v1, v2, v3, v4}
  Self = v1
  Subnets = {Default, inet, s12, s13, s23, s34, srv1}
  Default = Default
  None = None
  Interfaces <- MCKite
  Static <- MCDefaultRoute
  Arriving <- MCKiteLsus
  INF = 4
  MaxSeq = 2
INVARIANTS
  TypeOK
  EdgesSymmetric
  EdgesAreAdvertised
PROPERTY RoutesAreShortest
