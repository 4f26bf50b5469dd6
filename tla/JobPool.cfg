SPECIFICATION Spec
CONSTANTS
  MaxJobs = 4
INVARIANTS
  AwaitedOnce
  NeverStuck
