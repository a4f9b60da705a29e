\* A switch and a native annotation in every scope.
SPECIFICATION Spec
CONSTANTS
  Numerals <- MCNumerals
  MountRoot = "root"
  DefaultTokenExpiration = 3600
  EnabledProviders = {"aws"}
  NativeAnnotations = TRUE
  GcpDefaultAudience <- AudienceDefault
  GcpDefaultDelivery = "config-map"
  ProviderOrder <- Registry
  EnabledFor <- enabled
  PlanFor <- plan_of
  IsKeyOf <- MCIsKeyOf
  Keys <- SwitchKeys
  Values <- SwitchValues
INVARIANT ExplicitBeatsNative
PROPERTY NarrowerWins
