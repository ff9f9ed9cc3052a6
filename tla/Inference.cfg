SPECIFICATION Spec

CONSTANTS
  Request <- Requests
  None = None

INVARIANTS
  CredentialSound
  ProvidedCode
  ConfigIsMine
  ProbedIsLaunched
  AdmissionSound
