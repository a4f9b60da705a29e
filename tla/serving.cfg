\* A required webhook that loses its replicas in every way, while its certificate
\* is renewed.  Once faults and renewals are used up, the system comes to rest.
SPECIFICATION Spec
CONSTANTS
  Replicas <- MCReplicas
  ReleaseNamespace = "cwii-system"
  ExcludeNamespaces = {"extra"}
  FailurePolicy = "Fail"
  MaxRenewals = 1
  MaxFaults = 4
PROPERTY ComesBack
CHECK_DEADLOCK FALSE
