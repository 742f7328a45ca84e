CONSTANTS
  p1 = p1
  p2 = p2
  Readers <- MCReaders
  Content <- MCContent
  Text <- MCText
  SmallDiff <- MCSmallDiff
  TTL = 1
  None = None
  Requests <- MCRequests
  MaxId = 3
  MaxTime = 2
SPECIFICATION Spec
SYMMETRY Symmetry
INVARIANTS
  OnlyLateWritersFork
  AnswersRebuild
