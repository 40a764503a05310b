\* A value from ${secret.*} reaches the report.
CONSTANTS
  MaxDepth = 2
  Worlds <- MCWorlds
  NoFlag = NoFlag
  NoExit = NoExit
  Plan <- Generate
  CaseBefore <- CaseIdBefore
SPECIFICATION Spec
INVARIANT SecretsRedacted
