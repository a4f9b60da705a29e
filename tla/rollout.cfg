\* An upgrade that changes the mount root.
SPECIFICATION Spec
CONSTANTS
  OldRoot = "old"
  NewRoot = "new"
  OldRequests = {"r1"}
  NewRequests = {"r2"}
  Numerals <- MCNumerals
  DefaultTokenExpiration = 3600
  EnabledProviders = {"gcp"}
  NativeAnnotations = FALSE
  GcpDefaultAudience <- NoDefault
  GcpDefaultDelivery = "config-map"
  Maps <- MCMaps
  Pods <- MCPods
  Objects <- MCObjects
  OwnerLists <- NoOwners
  CmNames <- MCCmNames
  CmData <- MCCmData
  FailurePolicy = "Ignore"
  InitialObjects <- MCInitial
INVARIANT OldPodsKeepCredentials
