\* Five calls share two slots, none of them need settle: both acquire paths,
\* both release paths and a queue of up to three.
CONSTANTS
  Tasks = {t1, t2, t3, t4, t5}
  MaxConcurrent = 2
SPECIFICATION Spec
INVARIANTS StartsInSubmissionOrder SlotsAccounted
PROPERTIES PoolSpec
