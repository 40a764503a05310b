\* Two cases of any kinds, two db_verify blocks, no retry up to two retries; the
\* service may never answer, databases and token endpoints do.
CONSTANTS
  MaxCases = 2
  Kinds = {"single", "db_state", "pair", "put_db_state"}
  DbSteps = 2
  GlobalRetries <- MCGlobalRetries
  OwnRetries <- MCOwnRetries
  CliRetries <- MCCliRetries
  Cleanups = {"none", "env", "request"}
SPECIFICATION FairSpec
INVARIANTS AttemptsAddUp NothingPassesAfterAbort
PROPERTIES DatabaseStepsInOrder EndpointEnds
