CONSTANTS
  EqualDepth = 200
  WalkDepth = 256
  InferDepth = 3
  SchemaDepth = 2
  MaxPath = 6
  MaxSent = 2
  BadNames = {"a b"}
  IndexOf <- MCIndexOf
  LowerCase <- MCLowerCase
  Issued <- MCIssued
  Worlds <- MCInputWorlds
  HomeWorld <- MCHome
  Imports <- MCImports
  LoadedSpec <- ImportedSpec
  ItemsOf <- ImportedItems
  KeysOf <- ImportedKeys
  IdCandidate <- ImportedId
  Assembled <- ImportedEndpoint
  Samples <- MCSamples
  Slug <- MCSlug
  Sanitized <- MCSanitized
  DottedName <- MCDottedName
  KeyTexts <- MCKeyTexts
  JsonTypes <- MCJsonTypes
SPECIFICATION InputsSpec
CHECK_DEADLOCK FALSE
INVARIANTS
  ConfigIsLayered
  ReferencesResolve
  SecretsStayRedacted
  CredentialFitsCase
  ImportAccountsForAll
  ImportedSchemasAccept
