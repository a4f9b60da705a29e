\* A token lifetime that is not always a number.
SPECIFICATION Spec
CONSTANTS
  Numerals <- MCNumerals
  MountRoot = "root"
  DefaultTokenExpiration = 3600
  EnabledProviders = {"gcp", "aws"}
  NativeAnnotations = FALSE
  GcpDefaultAudience <- AudienceDefault
  GcpDefaultDelivery = "config-map"
  ProviderOrder <- Registry
  EnabledFor <- enabled
  PlanFor <- plan_of
  IsKeyOf <- MCIsKeyOf
  Keys <- LifetimeKeys
  Values <- LifetimeValues
INVARIANT FirstThatParsesWins
