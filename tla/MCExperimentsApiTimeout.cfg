CONSTANTS
  Methods <- MCMethods
  ClientTokens <- MCClientTokens
  EnvTokens <- MCEnvTokens
  Secrets <- MCSecrets
  GitMetas <- MCGitMetas
  DatasetIds <- MCDatasetIds
  OkStatuses <- MCOkStatuses
  ErrorStatuses <- MCErrorStatuses
  Null = Null
SPECIFICATION Spec
\* the process exits after the call
CHECK_DEADLOCK FALSE
INVARIANTS
  CollaboratorFailureExitsTwo
