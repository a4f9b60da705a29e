\* Every owner walk of one review while the objects it reads change.
SPECIFICATION Spec
CONSTANTS
  r1 = r1
  r2 = r2
  Requests = {r1}
  Numerals <- MCNumerals
  MountRoot = "root"
  DefaultTokenExpiration = 3600
  EnabledProviders = {"aws"}
  NativeAnnotations = FALSE
  GcpDefaultAudience <- NoDefault
  GcpDefaultDelivery = "config-map"
  ProviderOrder <- Registry
  EnabledFor <- MCEnabledFor
  PlanFor <- MCPlanFor
  Maps <- WalkMaps
  Pods <- WalkPods
  Objects <- WalkObjects
  OwnerLists <- WalkOwnerLists
  CmNames <- MCCmNames
  CmData <- MCCmData
  FailurePolicy = "Ignore"
  InitialObjects <- WalkInitial
  EditAllowed <- WalkEdit
  ForeignMayWrite = FALSE
INVARIANT DecisionExact
