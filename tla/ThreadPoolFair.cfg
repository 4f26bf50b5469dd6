SPECIFICATION FairSpec
CONSTANTS
  Workers = {w1, w2}
  Main = Main
  NoThread = NoThread
  MaxJobs = 3
  MaxRequeues = 0
  SpuriousWakeups = FALSE
  EndlessYields = TRUE
PROPERTIES
  QueuedIsServed
