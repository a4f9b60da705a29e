\* Passes over one pod, with sidecars and changing annotations between them, and
\* its start.  A pod that runs, or has failed, takes no further step.
SPECIFICATION StartupSpec
CONSTANTS
  Numerals <- MCNumerals
  MountRoot = "root"
  DefaultTokenExpiration = 3600
  EnabledProviders = {"gcp", "aws", "az"}
  NativeAnnotations = FALSE
  GcpDefaultAudience <- NoDefault
  GcpDefaultDelivery = "config-map"
  ProviderOrder <- Registry
  EnabledFor <- MCEnabledFor
  PlanFor <- MCPlanFor
  AnnotationSetsOffered <- ChangingAnnotationSets
  InitialPods <- MCPods
  Sidecars <- MCSidecars
  MaxContainers = 2
  MayReannotate = TRUE
INVARIANTS NamesUnique FilesProvided MarkerTruthful EveryContainerInjected
INVARIANTS EnforcedBeforeRunning VerifiedIsWhatRuns
PROPERTIES ContentKept SecondPassNoOp NonEnforcingNeverBlocks
CHECK_DEADLOCK FALSE
