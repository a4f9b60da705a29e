\* The certificate is renewed once; nothing restarts the replicas.
SPECIFICATION Spec
CONSTANTS
  Replicas <- MCPair
  ReleaseNamespace = "cwii-system"
  ExcludeNamespaces = {}
  FailurePolicy = "Ignore"
  MaxRenewals = 1
  MaxFaults = 0
PROPERTY AnsweredAfterRotation
CHECK_DEADLOCK FALSE
