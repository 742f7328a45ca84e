CONSTANTS
  Proxies = {p1, p2}
  Allowed <- MCAllowed
  Environment <- MCEnvironment
  Default <- MCDefault
  Unset = Unset
  Backends = {"postgres", "json"}
  FileOwner = p1
SPECIFICATION Spec
INVARIANTS
  TypeOK
  EverySettingWasInForce
PROPERTIES
  OverridesSurvive
