CONSTANTS
  k1 = k1
  k2 = k2
  k3 = k3
  a1 = a1
  a2 = a2
  t1 = t1
  t2 = t2
  s1 = s1
  i1 = i1
  ApiKeys <- MCKeys
  Tenants <- MCTenants
  Admins <- MCAdmins
  NoKey = NoKey
  NoAdmin = NoAdmin
  Sessions <- MCSessions
  Scopes <- MCScopes
  NoSession = NoSession
  Ids <- MCIds
  Content <- MCContent
  Size <- MCSize
  TTL = 1
  MaxEntries = 1
  MaxTotalChars = 1
  SegmentChars = 1
  NoEntry = NoEntry
  MaxTime = 1
  MaxOffset = 0
SPECIFICATION Spec
SYMMETRY Symmetry
INVARIANTS
  OneActivePerLineage
  RotationKeepsAccess
  NoResurrection
PROPERTIES
  RetiredForGood
