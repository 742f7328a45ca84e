CONSTANTS
  p1 = p1
  p2 = p2
  f1 = f1
  f2 = f2
  f3 = f3
  a = a
  b = b
  c = c
  old = old
  newer = newer
  Proxies <- MCProxies
  Versions <- MCVersions
  Prompts <- MCPrompts
  Refs <- MCRefs
  Near <- MCNear
  TTL = 1
  Nothing = Nothing
  MaxTime = 1
SPECIFICATION Spec
SYMMETRY Symmetry
INVARIANTS
  RowsArePaired
  OneEntryPerIdentity
  NoCircle
PROPERTIES
  QuarantineKeepsEntries
  ImplementsReplay
