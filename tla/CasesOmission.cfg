\* The services of Cases.cfg; a required field of the items of an array.
CONSTANTS
  MaxDepth = 3
  Trials <- MCTrials
  NoResponse = NoResponse
  NoAttempt = NoAttempt
SPECIFICATION CasesSpec
INVARIANT OmissionOmits
