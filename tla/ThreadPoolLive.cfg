SPECIFICATION FairSpec
CONSTANTS
  Workers = {w1, w2}
  Main = Main
  NoThread = NoThread
  MaxJobs = 2
  MaxRequeues = 1
  SpuriousWakeups = FALSE
  EndlessYields = FALSE
PROPERTIES
  Termination
  AwaitReturns
