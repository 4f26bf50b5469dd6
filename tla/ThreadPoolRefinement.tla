------------------------ MODULE ThreadPoolRefinement ------------------------
(* The thread pool implements JobPool: the state of a job is read off from *)
(* the places the implementation keeps it in.                              *)
EXTENDS ThreadPool

JobState(j) ==
  CASE heap[j] = "unused" -> "unused"
    [] \/ heap[j] = "freed"
       \/ \E w \in Workers : cur[w] = j /\ Finishing(w) -> "gone"
    [] \E w \in Workers : cur[w] = j /\ ~Finishing(w) -> "running"
    [] \/ \E i \in DOMAIN jobs : jobs[i] = j
       \/ \E t \in Threads : At(t, "insert") /\ tgt[t] = j -> "ready"
    [] OTHER -> "waiting"

JobParent(j) == IF JobState(j) = "gone" THEN NoJob ELSE parent[j]

Abstract == INSTANCE JobPool WITH
  state   <- [j \in Jobs |-> JobState(j)],
  parent  <- [j \in Jobs |-> JobParent(j)],
  error   <- errState,
  outcome <- err_state,
  phase   <- IF pc[Main] \in {"join", "done"} THEN "closed"
             ELSE IF pc[Main] \in ReturnedPC THEN "returned" ELSE "open"

(* Every behaviour of the pool's threads is a behaviour of the abstract    *)
(* pool (threadpool_add, _insert, _get, _worker, _wait and _deinit and the *)
(* calls that generated functions make to them).                           *)
ImplementsJobPool == Abstract!Spec
=============================================================================
