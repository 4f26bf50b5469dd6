--------------------------- MODULE JobPoolProofs ----------------------------
(* What the abstract pool guarantees for every number of jobs. *)
EXTENDS JobPool, IntervalLemmas

(***************************************************************************)
(* The inductive invariant.  Jobs are created in order, so that a job is   *)
(* younger than the one that awaits it: that excludes cycles of waiting.   *)
(***************************************************************************)
Ordered ==
  \A b, c \in Jobs : state[b] = "unused" /\ b <= c => state[c] = "unused"

ChildOfOlder ==
  \A c \in Jobs : parent[c] # NoJob => Alive(c) /\ parent[c] < c

OneChild ==
  \A c, d \in Jobs : parent[c] # NoJob /\ parent[d] = parent[c] => d = c

ParentWaits ==
  phase # "closed" =>
    \A c \in Jobs : parent[c] # NoJob => state[parent[c]] = "waiting"

WaitingHasChild ==
  phase # "closed" =>
    \A j \in Jobs : state[j] = "waiting" => \E c \in Jobs : parent[c] = j

ClosedIsQuiet ==
  phase = "closed" => \A j \in Jobs : state[j] \notin {"ready", "running"}

IInv == TypeOK /\ Ordered /\ ChildOfOlder /\ OneChild /\ ParentWaits
          /\ WaitingHasChild /\ ClosedIsQuiet

LEMMA InitInv == Init => IInv
BY MaxJobsAssumption DEF Init, IInv, TypeOK, Ordered, ChildOfOlder, OneChild,
   ParentWaits, WaitingHasChild, ClosedIsQuiet, Jobs, NoJob, NoError, Errors,
   MainError

(* The older end of a new edge of the await tree. *)
LEMMA RunningIsOlder ==
  ASSUME IInv, NEW j \in Jobs, NEW c \in Jobs,
         state[j] # "unused", state[c] = "unused"
  PROVE  j < c
BY DEF IInv, Ordered, Jobs

LEMMA StepInv == IInv /\ [Next]_vars => IInv'
<1> SUFFICES ASSUME IInv, [Next]_vars PROVE IInv'
  OBVIOUS
<1> USE MaxJobsAssumption
<1> USE DEF IInv, ClosedIsQuiet, Jobs, NoJob, NoError, Errors, MainError
<1>1. CASE Fail \/ Recover
  BY <1>1 DEF Fail, Recover, TypeOK, Ordered, ChildOfOlder, Alive, OneChild,
     ParentWaits, WaitingHasChild
<1>2. CASE Return
  BY <1>2 DEF Return, TypeOK, Ordered, ChildOfOlder, Alive, OneChild,
     ParentWaits, WaitingHasChild
<1>3. CASE Close
  BY <1>3 DEF Close, TypeOK, Ordered, ChildOfOlder, Alive, OneChild,
     ParentWaits, WaitingHasChild
<1>4. CASE UNCHANGED vars
  BY <1>4 DEF vars, TypeOK, Ordered, ChildOfOlder, Alive, OneChild, ParentWaits,
     WaitingHasChild
<1>5. ASSUME NEW j \in Jobs, Submit(j) PROVE IInv'
  BY <1>5 DEF Submit, Create, Fresh, TypeOK, Ordered, ChildOfOlder, Alive,
     OneChild, ParentWaits, WaitingHasChild
<1>6. ASSUME NEW j \in Jobs, Start(j) PROVE IInv'
  BY <1>6 DEF Start, TypeOK, Ordered, ChildOfOlder, Alive, OneChild,
     ParentWaits, WaitingHasChild
<1>7. ASSUME NEW j \in Jobs, Requeue(j) PROVE IInv'
  <2>1. TypeOK'
    <3>1. error' \in [Jobs -> Errors \cup {NoError}]
      BY <1>7 DEF Requeue, TypeOK
    <3> QED BY <1>7, <3>1 DEF Requeue, TypeOK
  <2>2. Ordered' /\ ChildOfOlder' /\ OneChild' /\ ParentWaits' /\ WaitingHasChild'
        /\ ClosedIsQuiet'
    BY <1>7 DEF Requeue, TypeOK, Ordered, ChildOfOlder, Alive, OneChild,
       ParentWaits, WaitingHasChild
  <2> QED BY <2>1, <2>2
<1>8. ASSUME NEW j \in Jobs, Handle(j) PROVE IInv'
  BY <1>8 DEF Handle, TypeOK, Ordered, ChildOfOlder, Alive, OneChild,
     ParentWaits, WaitingHasChild
<1>9. ASSUME NEW j \in Jobs, Finish(j) PROVE IInv'
  <2>1. TypeOK'
    BY <1>9 DEF Finish, AfterFinish, TypeOK
  <2>2. /\ parent' = [parent EXCEPT ![j] = NoJob]
        /\ phase' = phase
        /\ state' = IF parent[j] # NoJob THEN AfterFinish(j)
                    ELSE [state EXCEPT ![j] = "gone"]
        /\ state[j] = "running"
    BY <1>9 DEF Finish
  <2>3. parent[j] # NoJob => parent[j] \in Jobs /\ parent[j] # j
    BY DEF TypeOK, ChildOfOlder
  <2>4. Ordered'
    BY <2>2, <2>3 DEF AfterFinish, TypeOK, Ordered, ChildOfOlder, Alive, ParentWaits
  <2>5. ChildOfOlder' /\ OneChild'
    BY <2>2, <2>3 DEF AfterFinish, TypeOK, ChildOfOlder, Alive, OneChild
  <2>6. ParentWaits'
    BY <2>2, <2>3 DEF AfterFinish, TypeOK, OneChild, ParentWaits
  <2>7. WaitingHasChild'
    BY <2>2, <2>3 DEF AfterFinish, TypeOK, OneChild, ParentWaits, WaitingHasChild
  <2>8. ClosedIsQuiet'
    BY <2>2
  <2> QED BY <2>1, <2>4, <2>5, <2>6, <2>7, <2>8
<1>10. ASSUME NEW j \in Jobs, NEW c \in Jobs, Spawn(j, c) PROVE IInv'
  BY <1>10 DEF Spawn, SpawnParent, Create, Fresh, TypeOK, Ordered,
     ChildOfOlder, Alive, OneChild, ParentWaits, WaitingHasChild
<1>11. ASSUME NEW j \in Jobs, NEW c \in Jobs, Await(j, c) PROVE IInv'
  <2>1. /\ state[j] = "running" /\ state[c] = "unused"
        /\ parent' = [parent EXCEPT ![c] = j]
        /\ error' = [error EXCEPT ![c] = error[j]]
        /\ state' = [state EXCEPT ![j] = "waiting", ![c] = "ready"]
        /\ outcome' = outcome /\ phase' = phase
        /\ \A b \in Jobs : state[b] = "unused" => c <= b
    BY <1>11 DEF Await, Create, Fresh
  <2>2. j < c
    BY <2>1, RunningIsOlder
  <2>3. parent[c] = NoJob
    BY <2>1 DEF ChildOfOlder, Alive
  <2>4. \A d \in Jobs : parent[d] # j
    <3>1. phase # "closed" /\ j # NoJob
      BY <2>1
    <3> QED BY <2>1, <3>1 DEF ParentWaits
  <2>5. TypeOK'
    BY <2>1 DEF TypeOK
  <2>6. Ordered'
    BY <2>1, <2>2 DEF TypeOK, Ordered
  <2>7. ChildOfOlder' /\ OneChild'
    BY <2>1, <2>2, <2>4 DEF TypeOK, ChildOfOlder, Alive, OneChild
  <2>8. ParentWaits'
    BY <2>1, <2>2, <2>4 DEF TypeOK, ParentWaits
  <2>9. WaitingHasChild'
    BY <2>1, <2>2, <2>3 DEF TypeOK, WaitingHasChild
  <2>10. ClosedIsQuiet'
    BY <2>1
  <2> QED BY <2>5, <2>6, <2>7, <2>8, <2>9, <2>10
<1> QED
  BY <1>1, <1>2, <1>3, <1>4, <1>5, <1>6, <1>7, <1>8, <1>9, <1>10, <1>11
     DEF Next, Done

(* The abstract pool stays within its types and keeps the await tree in    *)
(* order (threadpool_add's parent, the suspension of expr-await.cpp).      *)
THEOREM InvariantHolds == Spec => []IInv
BY InitInv, StepInv, PTL DEF Spec

(* A suspended call awaits exactly one call that is alive, and an awaited  *)
(* call has a suspended caller: for every number of calls.                 *)
THEOREM AwaitedOnceHolds == Spec => []AwaitedOnce
<1>1. IInv => AwaitedOnce
  BY DEF IInv, AwaitedOnce, ChildOfOlder, OneChild, ParentWaits,
     WaitingHasChild, NoJob, Jobs
<1> QED BY <1>1, InvariantHolds, PTL

(* Async calls never all wait for one another.  The youngest suspended     *)
(* call awaits a younger one, which can then not be suspended.             *)
THEOREM NeverStuckHolds == Spec => []NeverStuck
<1>1. ASSUME IInv, phase # "closed", \E j \in Jobs : state[j] = "waiting"
      PROVE  \E j \in Jobs : state[j] \in {"ready", "running"}
  <2> DEFINE W == {j \in Jobs : state[j] = "waiting"}
  <2>1. PICK m \in W : \A x \in W : x <= m
    <3>1. W \in SUBSET (1..MaxJobs) /\ W # {}
      BY <1>1 DEF Jobs
    <3> HIDE DEF W
    <3> QED BY <3>1, MaxJobsAssumption, LargestMember
  <2>2. PICK c \in Jobs : parent[c] = m
    BY <1>1 DEF IInv, WaitingHasChild
  <2>3. Alive(c) /\ m < c
    BY <1>1, <2>2 DEF IInv, ChildOfOlder, NoJob, Jobs
  <2>4. c \notin W
    BY <2>1, <2>3 DEF Jobs
  <2> QED BY <2>3, <2>4 DEF Alive
<1>2. IInv => NeverStuck
  BY <1>1 DEF NeverStuck
<1> QED BY <1>2, InvariantHolds, PTL
=============================================================================
