\* One review while an opt-in moves to broader scopes and owners come and go,
\* under the fairness of the handler's own steps.
SPECIFICATION FairSpec
CONSTANTS
  r1 = r1
  r2 = r2
  Requests = {r1}
  Numerals <- MCNumerals
  MountRoot = "root"
  DefaultTokenExpiration = 3600
  EnabledProviders = {"gcp", "aws"}
  NativeAnnotations = FALSE
  GcpDefaultAudience <- NoDefault
  GcpDefaultDelivery = "config-map"
  ProviderOrder <- Registry
  EnabledFor <- MCEnabledFor
  PlanFor <- MCPlanFor
  Maps <- MoveMaps
  Pods <- MovePods
  Objects <- MoveObjects
  OwnerLists <- MoveOwnerLists
  CmNames <- MCCmNames
  CmData <- MCCmData
  FailurePolicy = "Ignore"
  InitialObjects <- MoveInitial
  EditAllowed <- MoveEdit
  ForeignMayWrite = TRUE
INVARIANT StandingOptIn
PROPERTY HandlerEnds
