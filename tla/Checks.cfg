CONSTANTS
  EqualDepth = 2
  WalkDepth = 4
  MaxArithDepth = 2
  RecentWindow = 5
  Now = 10
  HeaderNames <- MCHeaderNames
  LowerCase <- MCLowerCase
  Formats <- MCFormats
  TimeOf <- MCTimeOf
  Attempts <- MCAttempts
  Exchanges <- MCExchanges
  Replies <- MCReplies
  Parses <- AssertionParses
  Evaluated <- ParseAndEvaluate
SPECIFICATION Spec
CHECK_DEADLOCK FALSE
INVARIANTS
  VerdictsCohere
  ArithmeticMeansWhatIsWritten
  BoundQueryCarriesReferences
  UnansweredNeverPasses
