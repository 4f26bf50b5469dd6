------------------------------ MODULE JobPool -------------------------------
(***************************************************************************)
(* What the thread pool promises to the generated code, without threads,   *)
(* locks, wakeups or queue: every async call is a job that runs at most    *)
(* once at a time, an awaiting job runs again when its child has finished  *)
(* and then finds the error of that child, and the pool returns control to *)
(* main only when every job is gone or an error has reached the program.   *)
(***************************************************************************)
EXTENDS Integers, FiniteSets

CONSTANT MaxJobs
ASSUME MaxJobsAssumption == MaxJobs \in Nat

Jobs      == 1..MaxJobs
NoJob     == 0
NoError   == -1
MainError == 0
Errors    == MainError..MaxJobs

VARIABLES
  state,    \* of each job: unused, ready, running, waiting or gone
  parent,   \* the job that awaits this one
  error,    \* the error each job carries
  outcome,  \* the error of the program
  phase     \* of the pool: open, returned (control is with main), closed

vars == <<state, parent, error, outcome, phase>>

TypeOK ==
  /\ state \in [Jobs -> {"unused", "ready", "running", "waiting", "gone"}]
  /\ parent \in [Jobs -> Jobs \cup {NoJob}]
  /\ error \in [Jobs -> Errors \cup {NoError}]
  /\ outcome \in Errors \cup {NoError}
  /\ phase \in {"open", "returned", "closed"}

Init ==
  /\ state  = [j \in Jobs |-> "unused"]
  /\ parent = [j \in Jobs |-> NoJob]
  /\ error  = [j \in Jobs |-> NoError]
  /\ outcome = NoError
  /\ phase = "open"

(* Jobs come into being in order. *)
Fresh(c) == state[c] = "unused" /\ \A b \in Jobs : state[b] = "unused" => c <= b

Create(c, p, e) ==
  /\ Fresh(c)
  /\ parent' = [parent EXCEPT ![c] = p]
  /\ error' = [error EXCEPT ![c] = e]

Submit(c) ==
  /\ phase = "open"
  /\ Create(c, NoJob, outcome)
  /\ state' = [state EXCEPT ![c] = "ready"]
  /\ UNCHANGED <<outcome, phase>>

Fail ==
  /\ phase = "open"
  /\ outcome' = MainError
  /\ UNCHANGED <<state, parent, error, phase>>

(* A handler of main takes the error of the program, main's or a job's. *)
Recover ==
  /\ phase = "open" /\ outcome # NoError
  /\ outcome' = NoError
  /\ UNCHANGED <<state, parent, error, phase>>

Start(j) ==
  /\ state[j] = "ready"
  /\ state' = [state EXCEPT ![j] = "running"]
  /\ UNCHANGED <<parent, error, outcome, phase>>

(* A call that is not awaited has no parent. *)
SpawnParent_Caller(j) == j
SpawnParent(j) == NoJob

Spawn(j, c) ==
  /\ state[j] = "running"
  /\ Create(c, SpawnParent(j), error[j])
  /\ state' = [state EXCEPT ![c] = "ready"]
  /\ UNCHANGED <<outcome, phase>>

Await(j, c) ==
  /\ state[j] = "running"
  /\ Create(c, j, error[j])
  /\ state' = [state EXCEPT ![j] = "waiting", ![c] = "ready"]
  /\ UNCHANGED <<outcome, phase>>

(* A job lets others run, possibly because it has thrown. *)
Requeue(j) ==
  /\ state[j] = "running"
  /\ state' = [state EXCEPT ![j] = "ready"]
  /\ error' \in {error, [error EXCEPT ![j] = j]}
  /\ UNCHANGED <<parent, outcome, phase>>

Handle(j) ==
  /\ state[j] = "running"
  /\ error' = [error EXCEPT ![j] = NoError]
  /\ UNCHANGED <<state, parent, outcome, phase>>

(* The job is over; who awaits it goes on, with its error if it has one. *)
AfterFinish_NotResumed(j) == [state EXCEPT ![j] = "gone"]
AfterFinish(j) == [state EXCEPT ![j] = "gone", ![parent[j]] = "ready"]

Finish(j) ==
  /\ state[j] = "running"
  /\ IF parent[j] # NoJob
     THEN /\ state' = AfterFinish(j)
          /\ error' = IF error[j] = NoError THEN error
                      ELSE [error EXCEPT ![parent[j]] = error[j]]
          /\ UNCHANGED outcome
     ELSE /\ state' = [state EXCEPT ![j] = "gone"]
          /\ outcome' = IF error[j] = NoError THEN outcome ELSE error[j]
          /\ UNCHANGED error
  /\ parent' = [parent EXCEPT ![j] = NoJob]
  /\ UNCHANGED phase

Return ==
  /\ phase = "open"
  /\ outcome # NoError \/ \A j \in Jobs : state[j] \in {"unused", "gone"}
  /\ phase' = "returned"
  /\ UNCHANGED <<state, parent, error, outcome>>

(* Nothing runs when the pool is destroyed; what is ready is dropped. *)
Close ==
  /\ phase = "returned"
  /\ \A j \in Jobs : state[j] # "running"
  /\ phase' = "closed"
  /\ state' = [j \in Jobs |-> IF state[j] = "ready" THEN "gone" ELSE state[j]]
  /\ parent' = [j \in Jobs |-> IF state[j] = "ready" THEN NoJob ELSE parent[j]]
  /\ UNCHANGED <<error, outcome>>

Done == phase = "closed" /\ UNCHANGED vars

Next ==
  \/ Fail \/ Recover \/ Return \/ Close \/ Done
  \/ \E j \in Jobs :
       \/ Submit(j) \/ Start(j) \/ Requeue(j) \/ Handle(j) \/ Finish(j)
       \/ \E c \in Jobs : Spawn(j, c) \/ Await(j, c)

Spec == Init /\ [][Next]_vars

-----------------------------------------------------------------------------
Alive(j) == state[j] \in {"ready", "running", "waiting"}

(* A suspended call is awaiting exactly one call that is still alive, and  *)
(* a call that is awaited has a suspended caller (expr-await.cpp suspends, *)
(* the last cleanup of fn-decl.cpp resumes).                               *)
AwaitedOnce ==
  phase # "closed" =>
    \A j \in Jobs :
      /\ state[j] = "waiting" =>
           \E c \in Jobs : /\ Alive(c) /\ parent[c] = j
                          /\ \A d \in Jobs : parent[d] = j => d = c
      /\ \A c \in Jobs : parent[c] = j => state[j] = "waiting"

(* Async calls never all wait for one another: while one is suspended,     *)
(* another one is running or ready to run.                                 *)
NeverStuck ==
  phase # "closed" /\ (\E j \in Jobs : state[j] = "waiting") =>
    \E j \in Jobs : state[j] \in {"ready", "running"}
=============================================================================
