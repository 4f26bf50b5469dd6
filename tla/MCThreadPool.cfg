SPECIFICATION Spec
CONSTANTS
  Workers = {w1, w2}
  Main = Main
  NoThread = NoThread
  MaxJobs = 3
  MaxRequeues = 2
  SpuriousWakeups = TRUE
  EndlessYields = FALSE
SYMMETRY WorkerSymmetry
INVARIANTS
  IInv
  OnePlace
  QuiescentReturn
  ErrorAccounted
  NeverDeadlocked
  NobodyOverslept
PROPERTIES
  ImplementsJobPool
