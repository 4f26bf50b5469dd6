---------------------------- MODULE MCThreadPool ----------------------------
(* Instances of ThreadPool for TLC.  The workers are interchangeable; jobs *)
(* are numbered by allocation and are not.                                 *)
EXTENDS ThreadPoolInv, ThreadPoolRefinement, TLC

WorkerSymmetry == Permutations(Workers)
=============================================================================
