CONSTANTS
  r1 = r1
  r2 = r2
  Requests = {r1, r2}
  Inputs <- MCCacheInputs
  Outcomes <- MCFewOutcomes
  Models <- MCModels
  Prompts <- MCPrompts
  Prefix <- MCPrefix
  Near <- MCNear
  Provider <- MCProvider
  NoProvider = "none"
  Mandatory = {"m", "a", "g"}
  ProviderRouting = TRUE
  CacheEnabled = TRUE
  SemanticConfigured = TRUE
  DisableReasoning = TRUE
  NoInput = NoInput
SPECIFICATION Spec
SYMMETRY Symmetry
INVARIANTS
  ReplaysAreGenuine
  FlipSparesInFlight
  OnlyCleanMissesFill
PROPERTIES
  KnownRefusersSpared
