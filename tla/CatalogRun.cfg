\* 385 invocations: projects with every generator and every reason to drop a case
\* or refuse a file, all command-line filters, production under every permission.
CONSTANTS
  MaxDepth = 2
  Worlds <- MCWorlds
  NoFlag = NoFlag
  NoExit = NoExit
  Plan <- Generate
  CaseBefore <- CaseIdBefore
SPECIFICATION Spec
INVARIANTS
  CatalogIsSound GateBeforeTraffic ShardsCoverSelection ExitCodeTruthful
  ValidateAgrees
