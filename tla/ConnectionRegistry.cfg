\* Three acquire() calls over two names, with up to two disposeAll() calls
\* landing anywhere among them, under fair handlers.
CONSTANTS
  Acquires = {a1, a2, a3}
  Names = {orders, users}
  Unknown = Unknown
  MaxDisposes = 2
  None = None
SPECIFICATION FairSpec
INVARIANTS OneConnectorPerName DisposeCoversConnected CacheIsUsable
PROPERTIES AllSettle
