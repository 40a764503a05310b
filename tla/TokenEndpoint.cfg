\* Three calls, two close() calls, a clock of three ticks; a token lives one
\* tick, is dead on arrival (expires_in within the refresh buffer), or never
\* expires.
CONSTANTS
  Calls = {c1, c2, c3}
  Lifetimes = {0, 1}
  MaxTime = 2
  MaxCloses = 2
  None = None
  Never = Never
SPECIFICATION FairSpec
INVARIANTS SingleFlight CacheIsNewest TokensRedacted
PROPERTIES RejectionNotMemoized CallsSettle
