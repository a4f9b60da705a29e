\* A pod submitted again after its delivery mode changed.
SPECIFICATION Spec
CONSTANTS
  Numerals <- MCNumerals
  MountRoot = "root"
  DefaultTokenExpiration = 3600
  EnabledProviders = {"gcp", "aws"}
  NativeAnnotations = FALSE
  GcpDefaultAudience <- NoDefault
  GcpDefaultDelivery = "config-map"
  ProviderOrder <- Registry
  EnabledFor <- MCEnabledFor
  PlanFor <- MCPlanFor
  AnnotationSetsOffered <- ChangingAnnotationSets
  InitialPods <- MCPods
  Sidecars <- MCSidecars
  MaxContainers = 2
  MayReannotate = TRUE
INVARIANT WritersCanWrite
