\* The annotations of two providers.
SPECIFICATION Spec
CONSTANTS
  Numerals <- MCNumerals
  MountRoot = "root"
  DefaultTokenExpiration = 3600
  EnabledProviders = {"gcp", "aws"}
  NativeAnnotations = FALSE
  GcpDefaultAudience <- AudienceDefault
  GcpDefaultDelivery = "config-map"
  ProviderOrder <- Registry
  EnabledFor <- enabled
  PlanFor <- plan_of
  IsKeyOf <- MCIsKeyOf
  Keys <- TwoProviderKeys
  Values <- TwoProviderValues
PROPERTY ProvidersAreIsolated
