SPECIFICATION Spec

CONSTANTS
  Request <- CodexTwice
  None = None

INVARIANTS
  LaunchWroteConfig
