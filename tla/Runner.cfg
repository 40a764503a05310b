\* Three endpoints over two slots, the first of them possibly stuck, the
\* second rejecting even after its turn, with and
\* without the built-in sidecars.
CONSTANTS
  N = 3
  Workers = 2
  Skips = {TRUE, FALSE}
  Stuck = {1}
  Late = {2}
SPECIFICATION FairSpec
INVARIANTS
  NoUseAfterClose ReportComplete
  TimelyRejectionsReported PartialHoldsFinished
PROPERTIES LimiterSpec OthersGetResults
