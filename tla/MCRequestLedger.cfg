CONSTANTS
  Writers = {w1}
  Backfills = {b1, b2}
  Taggers = {t1}
  Live = Live
  None = None
  MaxSource = 2
  MaxLive = 1
  MaxRuns = 1
SPECIFICATION FairSpec
INVARIANTS
  MarkerMeansCopiedOnce
  CutoverIsComplete
PROPERTIES
  FactsAreImmutable
  EveryTransactionEnds
