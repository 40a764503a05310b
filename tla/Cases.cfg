\* One or two endpoints of one URL, two workers, at most one defect.
CONSTANTS
  MaxDepth = 3
  Trials <- MCTrials
  NoResponse = NoResponse
  NoAttempt = NoAttempt
SPECIFICATION CasesSpec
INVARIANTS RequestsBite FailuresExplained DefectsCaught
