\* Two concurrent reviews and a foreign manager around one ConfigMap; the
\* webhook is required.
SPECIFICATION Spec
CONSTANTS
  r1 = r1
  r2 = r2
  Requests = {r1, r2}
  Numerals <- MCNumerals
  MountRoot = "root"
  DefaultTokenExpiration = 3600
  EnabledProviders = {"gcp", "aws"}
  NativeAnnotations = FALSE
  GcpDefaultAudience <- NoDefault
  GcpDefaultDelivery = "config-map"
  ProviderOrder <- Registry
  EnabledFor <- MCEnabledFor
  PlanFor <- MCPlanFor
  Maps <- CmMaps
  Pods <- CmPods
  Objects <- CmObjects
  OwnerLists <- NoOwners
  CmNames <- MCCmNames
  CmData <- MCCmData
  FailurePolicy = "Fail"
  InitialObjects <- CmInitial
  EditAllowed <- CmEdit
  ForeignMayWrite = TRUE
INVARIANTS TypeOK CredsInPlace RequiredIdentity
PROPERTIES ForeignKept WritesAreIntended ImplementsContract
SYMMETRY RequestSymmetry
