---------------------- MODULE ThreadPoolRefinementProofs ----------------------
(***************************************************************************)
(* ThreadPool implements JobPool, for every number of workers, calls and   *)
(* requeues: the initial states map to initial states, and every step maps *)
(* to the step of a job or changes nothing that JobPool can see.           *)
(***************************************************************************)
EXTENDS ThreadPoolProofs, ThreadPoolRefinement

USE ThreadsAssumption, BoundsAssumption

(* The refinement mapping, read off from the places of a job. *)
StateOf(j) ==
  IF heap[j] = "unused" THEN "unused"
  ELSE IF Over(j) THEN "gone"
  ELSE IF Running(j) # {} THEN "running"
  ELSE IF Queued(j) \/ Inserting(j) # {} THEN "ready" ELSE "waiting"

Phase == IF Closed THEN "closed"
         ELSE IF pc[Main] \in ReturnedPC THEN "returned" ELSE "open"

(* Who holds a job, in a pool that is closed too. *)
LEMMA Held ==
  ASSUME Core, NEW j \in Jobs
  PROVE  /\ \A w \in Workers : cur[w] = j =>
              heap[j] = "live" /\ ~ Closed /\ Running(j) = {w} /\ Inserting(j) = {}
         /\ Queued(j) \/ Inserting(j) # {} =>
              heap[j] = "live" /\ ~ Closed /\ Running(j) = {}
         /\ \A c \in Jobs : ~ Closed /\ Awaited(c) /\ parent[c] = j =>
              heap[j] = "live" /\ Running(j) = {} /\ ~ Queued(j) /\ Inserting(j) = {}
<1> USE DEF Core
<1>1. CASE Placed /\ ~ Closed
  <2>1. ASSUME NEW w \in Workers, cur[w] = j
        PROVE  heap[j] = "live" /\ Running(j) = {w} /\ Inserting(j) = {}
    BY <1>1, <2>1, InWorker DEF In
  <2>2. ASSUME Queued(j) PROVE heap[j] = "live" /\ Running(j) = {}
    BY <1>1, <2>2, InQueue DEF In
  <2>3. ASSUME NEW t \in Threads, Ins(t) = j PROVE heap[j] = "live" /\ Running(j) = {}
    BY <1>1, <2>3, InInsert DEF In
  <2>4. ASSUME NEW c \in Jobs, Awaited(c), parent[c] = j
        PROVE  heap[j] = "live" /\ Running(j) = {} /\ ~ Queued(j) /\ Inserting(j) = {}
    BY <1>1, <2>4, InAwait DEF In
  <2> QED BY <1>1, <2>1, <2>2, <2>3, <2>4 DEF Inserting
<1>2. CASE Closed
  <2>1. ~ Queued(j)
    BY <1>2 DEF Drained, Queued
  <2>2. \A w \in Workers : pc[w] = "dead" /\ cur[w] = NoJob
    BY <1>2 DEF TInv, AllDead, Closed, Control, WorkerControl, HasJob, Returning
  <2>3. \A t \in Threads : Ins(t) = NoJob
    BY <1>2, <2>2 DEF Ins, At, Closed, Threads
  <2>4. \A w \in Workers : cur[w] # j
    BY <2>2, PlaceTypes
  <2>5. Inserting(j) = {}
    BY <2>3, PlaceTypes DEF Inserting
  <2> QED BY <1>2, <2>1, <2>4, <2>5
<1> QED BY <1>1, <1>2

LEMMA StateIs == Core => \A j \in Jobs : JobState(j) = StateOf(j)
<1> SUFFICES ASSUME Core, NEW j \in Jobs PROVE JobState(j) = StateOf(j)
  OBVIOUS
<1>1. /\ HandsOver(j) => heap[j] = "live"
      /\ Running(j) # {} => heap[j] = "live"
      /\ HandsOver(j) => ~ \E w \in Workers : cur[w] = j /\ ~ Finishing(w)
      /\ Queued(j) \/ Inserting(j) # {} => heap[j] = "live" /\ Running(j) = {}
  BY Held DEF HandsOver, Running
<1>2. /\ HandsOver(j) <=> \E w \in Workers : cur[w] = j /\ Finishing(w)
      /\ Queued(j) <=> \E i \in DOMAIN jobs : jobs[i] = j
      /\ Inserting(j) # {} <=> \E t \in Threads : At(t, "insert") /\ tgt[t] = j
      /\ ~ HandsOver(j) => (Running(j) # {} <=>
                              \E w \in Workers : cur[w] = j /\ ~ Finishing(w))
      /\ HandsOver(j) => Running(j) # {}
  BY DEF HandsOver, Queued, Inserting, Ins, Running, Jobs, NoJob
<1> DEFINE hands == \E w \in Workers : cur[w] = j /\ Finishing(w)
           runs  == \E w \in Workers : cur[w] = j /\ ~ Finishing(w)
           ready == \/ \E i \in DOMAIN jobs : jobs[i] = j
                    \/ \E t \in Threads : At(t, "insert") /\ tgt[t] = j
<1>3. JobState(j) = CASE heap[j] = "unused" -> "unused"
                      [] heap[j] = "freed" \/ hands -> "gone"
                      [] runs -> "running"
                      [] ready -> "ready"
                      [] OTHER -> "waiting"
  BY DEF JobState
<1>4. /\ HandsOver(j) <=> hands
      /\ Queued(j) \/ Inserting(j) # {} <=> ready
      /\ ~ HandsOver(j) => (Running(j) # {} <=> runs)
      /\ HandsOver(j) => ~ runs
      /\ HandsOver(j) => Running(j) # {}
  BY <1>1, <1>2
<1>5. heap[j] \in {"unused", "live", "freed"}
  BY DEF Core, TInv, JobTypes
<1> HIDE DEF hands, runs, ready
<1> QED BY <1>1, <1>3, <1>4, <1>5 DEF StateOf, Over

(* Which place means which state. *)
StatePlaced(j) ==
  /\ heap[j] = "unused" <=> JobState(j) = "unused"
  /\ heap[j] = "freed" => JobState(j) = "gone"
  /\ heap[j] # "live" => JobState(j) \in {"unused", "gone"}
  /\ Queued(j) => JobState(j) = "ready"
  /\ \A t \in Threads : Ins(t) = j => JobState(j) = "ready"
  /\ \A w \in Workers : cur[w] = j /\ Finishing(w) => JobState(j) = "gone"
  /\ \A w \in Workers : cur[w] = j /\ ~ Finishing(w) => JobState(j) = "running"
  /\ \A c \in Jobs : ~ Closed /\ Awaited(c) /\ parent[c] = j => JobState(j) = "waiting"
  /\ JobState(j) = "running" => \E w \in Workers : cur[w] = j
  /\ JobState(j) = "ready" => Queued(j) \/ \E t \in Threads : Ins(t) = j

LEMMA StateAt == Core => \A j \in Jobs : StatePlaced(j)
<1> SUFFICES ASSUME Core, NEW j \in Jobs PROVE StatePlaced(j)
  OBVIOUS
<1>1. JobState(j) = StateOf(j)
  BY StateIs
<1>2. heap[j] \in {"unused", "live", "freed"}
  BY DEF Core, TInv, JobTypes
<1>3. /\ heap[j] = "unused" <=> JobState(j) = "unused"
      /\ heap[j] = "freed" => JobState(j) = "gone"
      /\ heap[j] # "live" => JobState(j) \in {"unused", "gone"}
  BY <1>1, <1>2 DEF StateOf, Over
<1>4. ASSUME Queued(j) \/ Inserting(j) # {} PROVE JobState(j) = "ready"
  BY <1>1, <1>4, Held DEF StateOf, Over, HandsOver, Running
<1>5. ASSUME NEW w \in Workers, cur[w] = j
      PROVE  JobState(j) = IF Finishing(w) THEN "gone" ELSE "running"
  <2>1. heap[j] = "live" /\ Running(j) = {w}
    BY <1>5, Held
  <2>2. HandsOver(j) <=> Finishing(w)
    BY <1>5, <2>1 DEF HandsOver, Running
  <2> QED BY <1>1, <2>1, <2>2 DEF StateOf, Over
<1>6. ASSUME NEW c \in Jobs, ~ Closed, Awaited(c), parent[c] = j
      PROVE  JobState(j) = "waiting"
  BY <1>1, <1>6, Held DEF StateOf, Over, HandsOver, Running
<1>7. JobState(j) = "running" => \E w \in Workers : cur[w] = j
  BY <1>1 DEF StateOf, Running
<1>8. JobState(j) = "ready" => Queued(j) \/ \E t \in Threads : Ins(t) = j
  BY <1>1 DEF StateOf, Inserting
<1>9. \A t \in Threads : Ins(t) = j => JobState(j) = "ready"
  BY <1>4 DEF Inserting
<1> QED BY <1>3, <1>4, <1>5, <1>6, <1>7, <1>8, <1>9 DEF StatePlaced

(* The same of the next state. *)
LEMMA StateAtNext == Core' => \A j \in Jobs : StatePlaced(j)'
<1>1. (Core => \A j \in Jobs : StatePlaced(j))'
  BY StateAt, PTL
<1> QED BY <1>1

LEMMA StateIsNext == Core' => \A j \in Jobs : JobState(j)' = StateOf(j)'
<1>1. (Core => \A j \in Jobs : JobState(j) = StateOf(j))'
  BY StateIs, PTL
<1> QED BY <1>1

-----------------------------------------------------------------------------
(* What a step leaves alone in the eyes of JobPool. *)
SameView(j) == JobState(j)' = JobState(j) /\ JobParent(j)' = JobParent(j)

LEMMA SameStates ==
  ASSUME Core, Core', NEW j \in Jobs, SameAt(j), HandsOver(j)' <=> HandsOver(j),
         parent'[j] = parent[j]
  PROVE  SameView(j)
<1>1. StateOf(j)' = StateOf(j)
  BY DEF StateOf, SameAt, Over
<1> QED BY <1>1, StateIs, StateIsNext DEF SameView, JobParent

(* A step that moves no job and no error is invisible. *)
LEMMA Invisible ==
  ASSUME \A j \in Jobs : SameView(j), UNCHANGED <<errState, err_state>>, Phase' = Phase
  PROVE  UNCHANGED Abstract!vars
BY DEF SameView, Abstract!vars, Phase, Closed

LEMMA QuietKeepsStates ==
  ASSUME Core, Core', UNCHANGED <<jobs, cur, heap, parent>>,
         \A t \in Threads : Ins(t)' = Ins(t)
  PROVE  \A j \in Jobs : (HandsOver(j)' <=> HandsOver(j)) => SameView(j)
<1> SUFFICES ASSUME NEW j \in Jobs, HandsOver(j)' <=> HandsOver(j) PROVE SameView(j)
  OBVIOUS
<1>1. (Queued(j)' <=> Queued(j)) /\ Running(j)' = Running(j) /\ heap'[j] = heap[j]
  BY DEF Queued, Running
<1>2. Inserting(j)' = Inserting(j)
  BY DEF Inserting
<1>3. StateOf(j)' = StateOf(j)
  BY <1>1, <1>2 DEF StateOf, Over
<1> QED BY <1>3, StateIs, StateIsNext DEF SameView, JobParent

LEMMA WorkerKeepsPhase ==
  ASSUME Core, NEW w \in Workers, WorkerStep(w)
  PROVE  Phase' = Phase
BY WorkerLeavesOthers DEF Core, Phase, Closed, Threads

(* A thread goes on, and has no job in hand to be queued or resumed. *)
LEMMA GotoIsInvisible ==
  ASSUME Core, Core', NEW w \in Workers, WorkerStep(w), NEW q, Goto(w, q),
         UNCHANGED <<threadVars, jobs, heap, parent, errState, err_state>>,
         pc[w] \notin {"insert", "insertSignal", "jobDeinit"},
         q \notin {"insert", "insertSignal", "jobDeinit"}
  PROVE  UNCHANGED Abstract!vars
<1>1. \A u \in Threads : pc'[u] = IF u = w THEN q ELSE pc[u]
  BY GotoMoves DEF Core, Threads
<1>2. \A u \in Threads : Ins(u)' = Ins(u)
  BY <1>1 DEF Ins, At, threadVars
<1>3. ~ Finishing(w) /\ ~ Finishing(w)'
  BY <1>1 DEF Finishing, At, Threads
<1>4. \A j \in Jobs : HandsOver(j)' <=> HandsOver(j)
  BY <1>3, NothingHandedOver DEF Core
<1>5. \A j \in Jobs : SameView(j)
  BY <1>2, <1>4, QuietKeepsStates DEF threadVars
<1> QED BY <1>5, WorkerKeepsPhase, Invisible

-----------------------------------------------------------------------------
(* The steps that JobPool knows. *)

LEMMA NewIsFresh ==
  ASSUME Core, Placed, NEW c \in Jobs, c = count + 1, count < MaxJobs
  PROVE  Abstract!Fresh(c) /\ JobParent(c) = NoJob
<1>1. heap[c] = "unused" /\ parent[c] = NoJob
  BY Fresh DEF Core
<1>2. JobState(c) = "unused"
  BY <1>1, StateAt DEF StatePlaced
<1>3. ASSUME NEW b \in Jobs, JobState(b) = "unused" PROVE c <= b
  <2>1. heap[b] = "unused"
    BY <1>3, StateAt DEF StatePlaced
  <2> QED BY <2>1 DEF Core, TInv, JobTypes, Allocated, Jobs
<1> QED BY <1>1, <1>2, <1>3 DEF Abstract!Fresh, Abstract!Jobs, Jobs, JobParent

LEMMA MainAddSubmits ==
  ASSUME Core, Core', MainAdd
  PROVE  \E c \in Jobs : Abstract!Submit(c)
<1>1. Placed /\ Phase = "open"
  BY DEF MainAdd, At, Core, Closed, Phase, ReturnedPC
<1>2. PICK c \in Jobs : c = count + 1
  BY <1>1, Fresh DEF MainAdd, Alloc, Core
<1>3. Abstract!Fresh(c)
  BY <1>1, <1>2, NewIsFresh DEF MainAdd, Alloc
<1>4. /\ pc'[Main] = "insert" /\ tgt'[Main] = c
      /\ \A b \in Jobs : parent'[b] = IF b = c THEN NoJob ELSE parent[b]
      /\ errState' = [errState EXCEPT ![c] = err_state] /\ err_state' = err_state
  BY <1>2 DEF MainAdd, Alloc, Request, Goto, Core, TInv, Control, ThreadTypes, JobTypes,
     Threads
<1>5. JobState(c)' = "ready" /\ JobParent(c)' = NoJob
  <2>1. Ins(Main)' = c
    BY <1>4 DEF Ins, At
  <2>2. JobState(c)' = "ready"
    BY <2>1, StateAtNext DEF StatePlaced, Threads
  <2> QED BY <1>4, <2>2 DEF JobParent
<1>6. \A b \in Jobs \ {c} : SameView(b)
  <2>1. \A b \in Jobs \ {c} : SameAt(b)
    BY <1>1, <1>2, AllocPlaces DEF MainAdd, At, Threads, Core
  <2>2. \A b \in Jobs : HandsOver(b)' <=> HandsOver(b)
    BY MainHandsNothingOver DEF MainStep, Core
  <2> QED BY <1>4, <2>1, <2>2, SameStates
<1>7. Phase' = "open"
  BY <1>4 DEF Phase, Closed, ReturnedPC
<1> QED BY <1>1, <1>3, <1>4, <1>5, <1>6, <1>7
        DEF Abstract!Submit, Abstract!Create, Abstract!NoJob, NoJob, SameView, Phase,
            Closed

(* Main throws, or a handler of it takes the error of the program. *)
LEMMA MainFailsRefines ==
  ASSUME Core, Core', MainThrow \/ MainCatch
  PROVE  [Abstract!Fail \/ Abstract!Recover]_Abstract!vars
<1>1. /\ pc[Main] \in {"add", "unwind"}
      /\ \E q \in {"add", "unwind"} : Goto(Main, q)
      /\ UNCHANGED <<threadVars, jobs, heap, parent, errState>>
  BY DEF MainThrow, MainCatch, At
<1>2. Phase = "open" /\ Phase' = "open"
  BY <1>1, GotoMoves DEF Core, Closed, Phase, ReturnedPC, Threads
<1>3. \A t \in Threads : Ins(t)' = Ins(t)
  BY <1>1, GotoMoves DEF Core, Ins, At, threadVars, Threads
<1>4. MainStep
  BY DEF MainStep, MainFails
<1>5. \A j \in Jobs : SameView(j)
  BY <1>1, <1>3, <1>4, MainHandsNothingOver, QuietKeepsStates DEF Core, threadVars
<1>6. CASE MainThrow
  <2>1. err_state' = MainError
    BY <1>6 DEF MainThrow
  <2> QED BY <1>1, <1>2, <1>5, <2>1 DEF Abstract!Fail, Abstract!MainError, MainError,
             SameView, Phase, Closed
<1>7. CASE MainCatch /\ err_state # NoError
  <2>1. err_state' = NoError
    BY <1>7 DEF MainCatch, Unset
  <2> QED BY <1>1, <1>2, <1>5, <1>7, <2>1 DEF Abstract!Recover, Abstract!NoError, NoError,
             SameView, Phase, Closed
<1>8. CASE MainCatch /\ err_state = NoError
  <2>1. err_state' = err_state
    BY <1>8 DEF MainCatch, Unset
  <2> QED BY <1>1, <1>2, <1>5, <2>1, Invisible
<1> QED BY <1>6, <1>7, <1>8

LEMMA GetStarts ==
  ASSUME Core, Core', NEW w \in Workers, Get(w), jobs # <<>>
  PROVE  \E j \in Jobs : Abstract!Start(j)
<1>0. Placed /\ WorkerStep(w)
  BY DeadIsDone DEF WorkerStep, Core, TInv, AllDead, Closed
<1>1. PICK j \in Jobs : j = Head(jobs) /\ Queued(j)
  BY <1>0, TailElements, QueuedElements DEF Core, TInv, JobTypes, Placed
<1>2. /\ cur'[w] = j /\ parent' = parent /\ errState' = errState
      /\ err_state' = err_state /\ pc[w] = "get" /\ pc'[w] \in {"run", "getSignal"}
  BY <1>1 DEF Get, Goto, At, jobVars, Core, TInv, Control, ThreadTypes, Threads
<1>3. ~ Finishing(w) /\ ~ Finishing(w)'
  BY <1>2 DEF Finishing, At
<1>4. \A b \in Jobs : HandsOver(b)' <=> HandsOver(b)
  BY <1>0, <1>3, NothingHandedOver DEF Core
<1>5. JobState(j) = "ready" /\ JobState(j)' = "running"
  BY <1>1, <1>2, <1>3, StateAt, StateAtNext DEF StatePlaced
<1>6. \A b \in Jobs \ {j} : SameView(b)
  BY <1>0, <1>1, <1>2, <1>4, GetPlaces, SameStates DEF Core
<1>7. JobParent(j)' = JobParent(j)
  BY <1>2, <1>5 DEF JobParent
<1>8. Phase' = Phase
  BY <1>0, WorkerKeepsPhase
<1> QED BY <1>2, <1>5, <1>6, <1>7, <1>8 DEF Abstract!Start, SameView, Phase, Closed

(* The job that a worker runs. *)
LEMMA Runner ==
  ASSUME Core, NEW w \in Workers, pc[w] \in {"run", "errorAssign"}
  PROVE  /\ cur[w] \in Jobs /\ Placed /\ heap[cur[w]] = "live"
         /\ JobState(cur[w]) = "running" /\ JobParent(cur[w]) = parent[cur[w]]
         /\ ~ Finishing(w) /\ \A v \in Workers : cur[v] = cur[w] => v = w
<1>1. HasJob(w) /\ ~ Finishing(w) /\ Placed
  BY DEF HasJob, Finishing, At, Core, TInv, AllDead, Closed
<1>2. cur[w] \in Jobs
  BY <1>1, RunningHasJob DEF Core, TInv
<1>3. JobState(cur[w]) = "running"
  BY <1>1, <1>2, StateAt DEF StatePlaced
<1> QED BY <1>1, <1>2, <1>3, Holder DEF Core, JobParent

LEMMA SpawnSpawns ==
  ASSUME Core, Core', NEW w \in Workers, Spawn(w)
  PROVE  \E j \in Jobs : \E c \in Jobs : Abstract!Spawn(j, c)
<1>1. pc[w] = "run" /\ WorkerStep(w)
  BY DEF Spawn, Runs, At, WorkerStep
<1>2. PICK j \in Jobs : j = cur[w]
  BY <1>1, Runner
<1>3. PICK c \in Jobs : c = count + 1
  BY <1>1, Runner, Fresh DEF Spawn, Alloc, Core
<1>4. Abstract!Fresh(c)
  BY <1>1, <1>3, Runner, NewIsFresh DEF Spawn, Alloc
<1>5. /\ pc'[w] = "insert" /\ tgt'[w] = c /\ ret'[w] = "run"
      /\ \A b \in Jobs : parent'[b] = IF b = c THEN NoJob ELSE parent[b]
      /\ errState' = [errState EXCEPT ![c] = errState[j]] /\ err_state' = err_state
  BY <1>2, <1>3 DEF Spawn, SpawnParent, Alloc, Request, Goto, Core, TInv, Control,
     ThreadTypes, JobTypes, Threads
<1>6. JobState(c)' = "ready" /\ JobParent(c)' = NoJob
  <2>1. Ins(w)' = c
    BY <1>5 DEF Ins, At
  <2>2. JobState(c)' = "ready"
    BY <2>1, StateAtNext DEF StatePlaced, Threads
  <2> QED BY <1>5, <2>2 DEF JobParent
<1>7. \A b \in Jobs \ {c} : SameView(b)
  <2>1. \A b \in Jobs \ {c} : SameAt(b)
    <3>1. TInv /\ Placed
      BY <1>1, Runner DEF Core
    <3>2. /\ Alloc(NoJob, errState[j]) /\ Request(w, count + 1, "run")
          /\ UNCHANGED <<cur, jobs>> /\ w \in Threads
      BY <1>2 DEF Spawn, SpawnParent, Threads
    <3>3. \A b \in Jobs \ {count + 1} : SameAt(b)
      BY <1>1, <3>1, <3>2, AllocPlaces
    <3> QED BY <1>3, <3>3
  <2>2. ~ Finishing(w) /\ ~ Finishing(w)'
    BY <1>1, <1>5 DEF Finishing, At
  <2>3. \A b \in Jobs : HandsOver(b)' <=> HandsOver(b)
    BY <1>1, <2>2, NothingHandedOver DEF Core
  <2> QED BY <1>5, <2>1, <2>3, SameStates
<1>8. JobState(j) = "running" /\ Phase' = Phase
  BY <1>1, <1>2, Runner, WorkerKeepsPhase
<1>9. Abstract!SpawnParent(j) = NoJob
  BY DEF Abstract!SpawnParent, Abstract!NoJob, NoJob
<1>10. Abstract!Spawn(j, c)
  BY <1>4, <1>5, <1>6, <1>7, <1>8, <1>9
     DEF Abstract!Spawn, Abstract!Create, SameView, Phase, Closed
<1> QED BY <1>10

LEMMA AwaitAwaits ==
  ASSUME Core, Core', NEW w \in Workers, Await(w)
  PROVE  \E j \in Jobs : \E c \in Jobs : Abstract!Await(j, c)
<1>1. pc[w] = "run" /\ WorkerStep(w)
  BY DEF Await, Runs, At, WorkerStep
<1>2. PICK j \in Jobs : j = cur[w]
  BY <1>1, Runner
<1>3. PICK c \in Jobs : c = count + 1
  BY <1>1, Runner, Fresh DEF Await, Alloc, Core
<1>4. Abstract!Fresh(c)
  BY <1>1, <1>3, Runner, NewIsFresh DEF Await, Alloc
<1>5. /\ pc'[w] = "insert" /\ tgt'[w] = c /\ cur'[w] = NoJob /\ heap'[c] = "live"
      /\ \A b \in Jobs : parent'[b] = IF b = c THEN j ELSE parent[b]
      /\ errState' = [errState EXCEPT ![c] = errState[j]] /\ err_state' = err_state
  BY <1>2, <1>3 DEF Await, Alloc, Leave, Request, Goto, Core, TInv, Control,
     ThreadTypes, JobTypes, Threads
<1>6. JobState(j) = "running" /\ JobState(c) = "unused" /\ Phase' = Phase
  BY <1>1, <1>2, <1>4, Runner, WorkerKeepsPhase DEF Abstract!Fresh
<1>7. JobState(c)' = "ready"
  <2>1. Ins(w)' = c
    BY <1>5 DEF Ins, At
  <2> QED BY <2>1, StateAtNext DEF StatePlaced, Threads
<1>8. JobState(j)' = "waiting"
  <2>1. Awaited(c)'
    <3>1. \A v \in Workers : ~ (cur'[v] = c /\ Finishing(v)')
      BY <1>7, StateAtNext DEF StatePlaced
    <3> QED BY <1>5, <3>1 DEF Awaited, Jobs, NoJob
  <2>2. ~ Closed'
    BY <1>1, <1>6, Runner DEF Core, TInv, AllDead, Closed, Phase
  <2> QED BY <1>5, <2>1, <2>2, StateAtNext DEF StatePlaced
<1>9. JobParent(c)' = j /\ JobParent(j)' = JobParent(j)
  BY <1>1, <1>2, <1>5, <1>6, <1>7, <1>8, Runner DEF JobParent
<1>10. \A b \in Jobs \ {c, j} : SameView(b)
  <2>1. \A b \in Jobs \ {c, j} : SameAt(b)
    BY <1>1, <1>2, <1>3, Runner, AwaitPlaces DEF Core
  <2>2. \A b \in Jobs : HandsOver(b)' <=> HandsOver(b)
    BY <1>1, <1>5, PlaceTypes, Runner, NothingHandedOver DEF Core
  <2> QED BY <1>5, <2>1, <2>2, SameStates
<1> QED BY <1>4, <1>5, <1>6, <1>7, <1>8, <1>9, <1>10
        DEF Abstract!Await, Abstract!Create, SameView, Phase, Closed

LEMMA RequeueRequeues ==
  ASSUME Core, Core', NEW w \in Workers, At(w, "run"), WorkerStep(w), NEW s, Requeue(w, s),
         UNCHANGED <<jobs, heap, parent, err_state>>,
         errState' = errState \/ errState' = [errState EXCEPT ![cur[w]] = cur[w]]
  PROVE  \E j \in Jobs : Abstract!Requeue(j)
<1>1. PICK j \in Jobs : j = cur[w]
  BY Runner DEF At
<1>2. pc'[w] = "insert" /\ tgt'[w] = j /\ cur'[w] = NoJob
  BY <1>1 DEF Requeue, Leave, Request, Goto, Core, TInv, Control, ThreadTypes, Threads
<1>3. JobState(j) = "running" /\ JobParent(j) = parent[j] /\ Phase' = Phase
  BY <1>1, Runner, WorkerKeepsPhase DEF At
<1>4. JobState(j)' = "ready"
  <2>1. Ins(w)' = j
    BY <1>2 DEF Ins, At
  <2> QED BY <2>1, StateAtNext DEF StatePlaced, Threads
<1>5. JobParent(j)' = JobParent(j)
  BY <1>3, <1>4 DEF JobParent
<1>6. \A b \in Jobs \ {j} : SameView(b)
  <2>1. \A b \in Jobs \ {j} : SameAt(b)
    BY <1>1, Runner, RequeuePlaces DEF Core, At
  <2>2. \A b \in Jobs : HandsOver(b)' <=> HandsOver(b)
    BY <1>2, PlaceTypes, Runner, NothingHandedOver DEF Core, At
  <2> QED BY <2>1, <2>2, SameStates
<1> QED BY <1>1, <1>3, <1>4, <1>5, <1>6 DEF Abstract!Requeue, SameView, Phase, Closed

LEMMA HandleHandles ==
  ASSUME Core, Core', NEW w \in Workers, Handle(w)
  PROVE  \E j \in Jobs : Abstract!Handle(j)
<1>1. pc[w] = "run" /\ WorkerStep(w)
  BY DEF Handle, Runs, At, WorkerStep
<1>2. PICK j \in Jobs : j = cur[w]
  BY <1>1, Runner
<1>3. /\ UNCHANGED <<pc, cur, tgt, ret, jobs, heap, parent, err_state>>
      /\ errState' = [errState EXCEPT ![j] = NoError]
  BY <1>2 DEF Handle, threadVars
<1>4. \A b \in Jobs : SameView(b)
  <2>1. \A b \in Jobs : HandsOver(b)' <=> HandsOver(b)
    BY <1>3 DEF HandsOver, Finishing, At
  <2> QED BY <1>3, <2>1, QuietKeepsStates DEF Ins, At
<1>5. JobState(j) = "running" /\ Phase' = Phase
  BY <1>1, <1>2, Runner, WorkerKeepsPhase
<1> QED BY <1>3, <1>4, <1>5 DEF Abstract!Handle, Abstract!NoError, NoError, SameView,
           Phase, Closed

(* The end of a call that is awaited: JobPool sees it when the caller is   *)
(* about to be queued.                                                     *)
LEMMA FinishFinishes ==
  ASSUME Core, Core', NEW w \in Workers, Finish(w), parent[cur[w]] # NoJob
  PROVE  \E j \in Jobs : Abstract!Finish(j)
<1>1. pc[w] = "run" /\ WorkerStep(w)
  BY DEF Finish, Runs, At, WorkerStep
<1>2. PICK j \in Jobs : j = cur[w]
  BY <1>1, Runner
<1>3. PICK p \in Jobs : p = parent[j] /\ p # j
  BY <1>1, <1>2, Runner DEF Core, TInv, JobTypes, Placed, ChildIsYounger, Jobs
<1>4. /\ pc'[w] = "insert" /\ tgt'[w] = p /\ ret'[w] = "jobDeinit" /\ cur'[w] = j
      /\ parent' = parent /\ err_state' = err_state
      /\ errState' = IF errState[j] # NoError THEN [errState EXCEPT ![p] = errState[j]]
                     ELSE errState
  BY <1>2, <1>3 DEF Finish, Caller, ErrorToParent, Request, Goto, Core, TInv, Control,
     ThreadTypes, Threads
<1>5. /\ JobState(j) = "running" /\ JobParent(j) = p /\ Phase' = Phase
      /\ heap[j] = "live" /\ ~ Finishing(w) /\ \A v \in Workers : cur[v] = j => v = w
  BY <1>1, <1>2, <1>3, Runner, WorkerKeepsPhase
<1>6. JobState(p) = "waiting"
  <2>1. Awaited(j)
    BY <1>3, <1>5 DEF Awaited, Jobs, NoJob
  <2>2. ~ Closed
    BY <1>1 DEF Core, TInv, AllDead, Closed
  <2> QED BY <1>3, <2>1, <2>2, StateAt DEF StatePlaced
<1>7. JobState(p)' = "ready"
  <2>1. Ins(w)' = p
    BY <1>4 DEF Ins, At
  <2> QED BY <2>1, StateAtNext DEF StatePlaced, Threads
<1>8. JobState(j)' = "gone"
  <2>1. cur'[w] = j /\ Finishing(w)'
    BY <1>4 DEF Finishing
  <2> QED BY <2>1, StateAtNext DEF StatePlaced
<1>9. JobParent(j)' = NoJob /\ JobParent(p)' = JobParent(p)
  BY <1>4, <1>6, <1>7, <1>8 DEF JobParent
<1>10. \A b \in Jobs \ {j, p} : SameView(b)
  <2>1. \A b \in Jobs \ {p} : SameAt(b)
    BY <1>1, <1>2, <1>3, Runner, FinishPlaces DEF Core
  <2>2. \A b \in Jobs \ {j} : HandsOver(b)' <=> HandsOver(b)
    BY <1>1, <1>2, <1>4, OthersHandOver DEF Core, HandsOver
  <2> QED BY <1>4, <2>1, <2>2, SameStates
<1>11. p # Abstract!NoJob
  BY DEF Abstract!NoJob, Jobs
<1>12. [b \in Jobs |-> JobState(b)]' =
         [[b \in Jobs |-> JobState(b)] EXCEPT ![j] = "gone", ![p] = "ready"]
  BY <1>3, <1>7, <1>8, <1>10 DEF SameView
<1>13. [b \in Jobs |-> JobParent(b)]' =
         [[b \in Jobs |-> JobParent(b)] EXCEPT ![j] = NoJob]
  BY <1>3, <1>9, <1>10 DEF SameView
<1>14. Abstract!Finish(j)
  BY <1>4, <1>5, <1>11, <1>12, <1>13
     DEF Abstract!Finish, Abstract!AfterFinish, Abstract!NoError, NoError,
         Abstract!NoJob, NoJob, Phase, Closed
<1> QED BY <1>14

(* The end of a call that nobody awaits, with an error or without.         *)
LEMMA EndFinishes ==
  ASSUME Core, Core', NEW w \in Workers, WorkerStep(w), pc[w] \in {"run", "errorAssign"},
         parent[cur[w]] = NoJob, Goto(w, "jobDeinit"),
         UNCHANGED <<threadVars, jobs, heap, parent, errState>>,
         err_state' = IF errState[cur[w]] = NoError THEN err_state ELSE errState[cur[w]]
  PROVE  \E j \in Jobs : Abstract!Finish(j)
<1>1. PICK j \in Jobs : j = cur[w]
  BY Runner
<1>2. /\ JobState(j) = "running" /\ JobParent(j) = NoJob /\ Phase' = Phase
      /\ \A v \in Workers : cur[v] = j => v = w
  BY <1>1, Runner, WorkerKeepsPhase
<1>3. \A u \in Threads : pc'[u] = IF u = w THEN "jobDeinit" ELSE pc[u]
  BY GotoMoves DEF Core, Threads
<1>4. JobState(j)' = "gone"
  <2>1. cur'[w] = j /\ Finishing(w)'
    BY <1>1, <1>3 DEF Finishing, At, threadVars, Threads
  <2> QED BY <2>1, StateAtNext DEF StatePlaced
<1>5. JobParent(j)' = NoJob
  BY <1>4 DEF JobParent
<1>6. \A b \in Jobs \ {j} : SameView(b)
  <2>1. \A b \in Jobs \ {j} : HandsOver(b)' <=> HandsOver(b)
    BY <1>1, OthersHandOver DEF Core, HandsOver, threadVars
  <2>2. \A t \in Threads : Ins(t)' = Ins(t)
    BY <1>3 DEF Ins, At, threadVars
  <2> QED BY <2>1, <2>2, QuietKeepsStates DEF threadVars
<1>7. [b \in Jobs |-> JobState(b)]' = [[b \in Jobs |-> JobState(b)] EXCEPT ![j] = "gone"]
  BY <1>4, <1>6 DEF SameView
<1>8. [b \in Jobs |-> JobParent(b)]' =
        [[b \in Jobs |-> JobParent(b)] EXCEPT ![j] = NoJob]
  BY <1>5, <1>6 DEF SameView
<1>9. Abstract!Finish(j)
  BY <1>1, <1>2, <1>7, <1>8
     DEF Abstract!Finish, Abstract!NoError, NoError, Abstract!NoJob, NoJob, Phase, Closed
<1> QED BY <1>9

LEMMA WaitReturns ==
  ASSUME Core, Core', Wait, ~ Unfinished
  PROVE  Abstract!Return
<1>1. Goto(Main, "deinit") /\ pc[Main] = "wait" /\ ~ Closed
  BY DEF Wait, At, Closed
<1>2. \A u \in Threads : pc'[u] = IF u = Main THEN "deinit" ELSE pc[u]
  BY <1>1, GotoMoves DEF Core, Threads
<1>3. \A j \in Jobs : SameView(j)
  <2>1. \A t \in Threads : Ins(t)' = Ins(t)
    BY <1>1, <1>2 DEF Ins, At, Wait, threadVars
  <2>2. \A j \in Jobs : HandsOver(j)' <=> HandsOver(j)
    BY MainHandsNothingOver DEF MainStep, Core
  <2> QED BY <2>1, <2>2, QuietKeepsStates DEF Wait, threadVars, jobVars
<1>4. ASSUME err_state = NoError, NEW j \in Jobs
      PROVE  JobState(j) \in {"unused", "gone"}
  <2>1. working = 0 /\ jobs = <<>>
    BY <1>4 DEF Unfinished
  <2>2. heap[j] # "live"
    BY <1>1, <2>1, QuietIsEmpty DEF Core
  <2> QED BY <2>2, StateAt DEF StatePlaced
<1>5. Phase = "open" /\ Phase' = "returned"
  BY <1>1, <1>2 DEF Phase, Closed, ReturnedPC, Threads
<1>6. err_state # Abstract!NoError \/
        \A j \in Jobs : [b \in Jobs |-> JobState(b)][j] \in {"unused", "gone"}
  BY <1>4 DEF Abstract!NoError, NoError
<1>7. /\ [b \in Jobs |-> JobState(b)]' = [b \in Jobs |-> JobState(b)]
      /\ [b \in Jobs |-> JobParent(b)]' = [b \in Jobs |-> JobParent(b)]
      /\ errState' = errState /\ err_state' = err_state
  BY <1>3 DEF SameView, Wait, jobVars
<1> QED BY <1>5, <1>6, <1>7 DEF Abstract!Return, Abstract!Jobs, Jobs, Phase, Closed

LEMMA DrainCloses ==
  ASSUME Core, Core', Drain
  PROVE  Abstract!Close
<1>1. pc[Main] = "drain" /\ ~ Closed /\ \A w \in Workers : pc[w] = "dead"
  BY DEF Drain, At, Closed, Core, TInv, AllDead
<1>2. /\ pc'[Main] = "join" /\ jobs' = <<>>
      /\ \A j \in Jobs : heap'[j] = IF Queued(j) THEN "freed" ELSE heap[j]
      /\ \A w \in Workers : pc'[w] = "dead"
      /\ UNCHANGED <<cur, tgt, parent, errState, err_state>>
  BY <1>1, GotoMoves DEF Drain, Queued, threadVars, Core, Threads
<1>3. \A j \in Jobs : Running(j) = {} /\ ~ HandsOver(j) /\ Inserting(j) = {}
  <2>1. \A w \in Workers : cur[w] = NoJob
    BY <1>1 DEF Core, TInv, Control, WorkerControl, HasJob, Returning
  <2>2. \A t \in Threads : Ins(t) = NoJob
    BY <1>1 DEF Ins, At, Threads
  <2> QED BY <2>1, <2>2 DEF Running, HandsOver, Inserting, Jobs, NoJob
<1>4. \A j \in Jobs : Running(j)' = {} /\ ~ HandsOver(j)' /\ Inserting(j)' = {}
  <2>1. \A w \in Workers : cur'[w] = NoJob
    BY <1>1, <1>2 DEF Core, TInv, Control, WorkerControl, HasJob, Returning
  <2>2. \A t \in Threads : Ins(t)' = NoJob
    BY <1>2 DEF Ins, At, Threads
  <2> QED BY <2>1, <2>2 DEF Running, HandsOver, Inserting, Jobs, NoJob
<1>5. \A j \in Jobs : ~ Queued(j)'
  BY <1>2 DEF Queued
<1>6. ASSUME NEW j \in Jobs
      PROVE  /\ JobState(j) # "running" /\ JobState(j)' =
                  IF JobState(j) = "ready" THEN "gone" ELSE JobState(j)
             /\ JobState(j) = "ready" => JobState(j)' = "gone"
  <2>1. JobState(j) = StateOf(j) /\ JobState(j)' = StateOf(j)'
    BY StateIs, StateIsNext
  <2>2. Queued(j) => heap[j] = "live"
    BY Held
  <2>3. CASE Queued(j)
    BY <1>2, <1>3, <2>1, <2>2, <2>3 DEF StateOf, Over
  <2>4. CASE ~ Queued(j)
    BY <1>2, <1>3, <1>4, <1>5, <2>1, <2>4 DEF StateOf, Over
  <2> QED BY <2>3, <2>4
<1>7. \A j \in Jobs : JobParent(j)' = IF JobState(j) = "ready" THEN NoJob ELSE JobParent(j)
  BY <1>2, <1>6 DEF JobParent
<1>8. Phase = "returned" /\ Phase' = "closed"
  BY <1>1, <1>2 DEF Phase, Closed, ReturnedPC
<1> QED BY <1>2, <1>6, <1>7, <1>8
        DEF Abstract!Close, Abstract!Jobs, Jobs, Abstract!NoJob, NoJob, Phase, Closed

-----------------------------------------------------------------------------
(* The steps that JobPool does not see. *)

LEMMA InsertIsInvisible ==
  ASSUME Core, Core', NEW t \in Threads, Insert(t)
  PROVE  UNCHANGED Abstract!vars
<1>1. Placed /\ pc[t] = "insert" /\ Phase' = Phase
  <2>1. pc[t] = "insert" /\ \A u \in Threads : pc'[u] = IF u = t THEN "insertSignal"
                                                      ELSE pc[u]
    BY GotoMoves DEF Insert, At, Core
  <2> QED BY <2>1 DEF Core, TInv, AllDead, Phase, Closed, ReturnedPC, Threads
<1>2. PICK j \in Jobs : j = tgt[t]
  BY <1>1 DEF Core, TInv, Control, WorkerControl, MainControl, Threads
<1>3. \A b \in Jobs : HandsOver(b)' <=> HandsOver(b)
  BY <1>1, GotoMoves DEF Insert, Core, HandsOver, Finishing, At, threadVars, Threads
<1>4. \A b \in Jobs \ {j} : SameView(b)
  BY <1>1, <1>2, <1>3, InsertPlaces, SameStates DEF Core, Insert, jobVars
<1>5. JobState(j) = "ready"
  BY <1>1, <1>2, StateAt DEF StatePlaced, Ins, At
<1>6. JobState(j)' = "ready"
  <2>1. Queued(j)'
    <3>1. jobs \in Seq(Jobs) /\ jobs' = Append(jobs, j)
      BY <1>2 DEF Insert, Enqueue, Core, TInv, JobTypes
    <3>2. j \in Elements(jobs')
      BY <1>2, <3>1, AppendElements
    <3> QED BY <3>2 DEF Queued, Elements
  <2> QED BY <2>1, StateAtNext DEF StatePlaced
<1>7. SameView(j)
  BY <1>5, <1>6 DEF SameView, JobParent, Insert, jobVars
<1> QED BY <1>1, <1>4, <1>7, Invisible DEF Insert, jobVars

LEMMA InsertSignalIsInvisible ==
  ASSUME Core, Core', NEW t \in Threads, InsertSignal(t)
  PROVE  UNCHANGED Abstract!vars
<1>1. /\ Placed /\ pc[t] = "insertSignal" /\ Phase' = Phase
      /\ \A u \in Threads : pc'[u] = IF u = t THEN ret[t] ELSE pc[u]
      /\ \A u \in Threads \ {t} : ret'[u] = ret[u]
  <2>1. pc[t] = "insertSignal" /\ \A u \in Threads : pc'[u] = IF u = t THEN ret[t]
                                                            ELSE pc[u]
    BY GotoMoves DEF InsertSignal, At, Core
  <2>2. t = Main => ret[t] = "add"
    BY <2>1 DEF Core, TInv, Control, MainControl, Returning
  <2> QED BY <2>1, <2>2
          DEF InsertSignal, Core, TInv, AllDead, Phase, Closed, ReturnedPC, Threads,
              Control, ThreadTypes
<1>2. \A w \in Workers : Finishing(w)' <=> Finishing(w)
  <2>1. t \in Workers => ret[t] \in {"run", "idle", "jobDeinit"}
    BY <1>1 DEF Core, TInv, Control, WorkerControl, Returning
  <2> QED BY <1>1, <2>1 DEF Finishing, At, Threads
<1>3. \A b \in Jobs : HandsOver(b)' <=> HandsOver(b)
  BY <1>2 DEF HandsOver, InsertSignal
<1>4. \A b \in Jobs : SameView(b)
  BY <1>1, <1>3, InsertSignalPlaces, SameStates DEF Core, InsertSignal, jobVars
<1> QED BY <1>1, <1>4, Invisible DEF InsertSignal, jobVars

LEMMA JobDeinitIsInvisible ==
  ASSUME Core, Core', NEW w \in Workers, JobDeinit(w)
  PROVE  UNCHANGED Abstract!vars
<1>1. WorkerStep(w) /\ pc[w] = "jobDeinit" /\ HasJob(w) /\ Finishing(w) /\ Placed
  BY DEF JobDeinit, At, WorkerStep, HasJob, Finishing, Core, TInv, AllDead, Closed
<1>2. PICK j \in Jobs : j = cur[w]
  BY <1>1, RunningHasJob DEF Core, TInv
<1>3. \A v \in Workers : cur'[v] = IF v = w THEN NoJob ELSE cur[v]
  BY DEF JobDeinit, Core, TInv, Control, ThreadTypes, Threads
<1>4. \A b \in Jobs \ {j} : HandsOver(b)' <=> HandsOver(b)
  BY <1>1, <1>2, <1>3, OthersHandOver DEF Core, HandsOver, Jobs, NoJob
<1>5. \A b \in Jobs \ {j} : parent'[b] = parent[b]
  BY <1>2 DEF JobDeinit, Core, TInv, JobTypes
<1>6. \A b \in Jobs \ {j} : SameView(b)
  BY <1>1, <1>2, <1>4, <1>5, JobDeinitPlaces, SameStates DEF Core
<1>7. JobState(j) = "gone"
  BY <1>1, <1>2, StateAt DEF StatePlaced
<1>8. JobState(j)' = "gone"
  <2>1. heap'[j] = "freed"
    BY <1>2 DEF JobDeinit, Core, TInv, JobTypes
  <2> QED BY <2>1, StateAtNext DEF StatePlaced
<1>9. SameView(j)
  BY <1>7, <1>8 DEF SameView, JobParent
<1>10. Phase' = Phase /\ UNCHANGED <<errState, err_state>>
  BY <1>1, WorkerKeepsPhase DEF JobDeinit
<1> QED BY <1>6, <1>9, <1>10, Invisible

(* A step of nobody, or of a job that goes on where it was. *)
LEMMA StayIsInvisible ==
  ASSUME Core, Core',
         UNCHANGED <<pc, threadVars, jobs, heap, parent, errState, err_state>>
  PROVE  UNCHANGED Abstract!vars
<1>1. \A j \in Jobs : HandsOver(j)' <=> HandsOver(j)
  BY DEF HandsOver, Finishing, At, threadVars
<1>2. \A j \in Jobs : SameView(j)
  BY <1>1, QuietKeepsStates DEF Ins, At, threadVars
<1> QED BY <1>2, Invisible DEF Phase, Closed

(* Main goes on without a job in hand, on the same side of a return. *)
LEMMA MainIsInvisible ==
  ASSUME Core, Core', MainStep, Phase' = Phase,
         UNCHANGED <<threadVars, jobs, heap, parent, errState, err_state>>,
         pc[Main] # "insert", pc'[Main] # "insert"
  PROVE  UNCHANGED Abstract!vars
<1>1. \A t \in Threads : Ins(t)' = Ins(t)
  <2>1. \A w \in Workers : pc'[w] # pc[w] => pc[w] = "unborn" /\ pc'[w] = "start"
    BY MainLeavesWorkers DEF Core
  <2> QED BY <2>1 DEF Ins, At, threadVars, Threads
<1>2. \A j \in Jobs : HandsOver(j)' <=> HandsOver(j)
  BY MainHandsNothingOver DEF Core
<1>3. \A j \in Jobs : SameView(j)
  BY <1>1, <1>2, QuietKeepsStates DEF threadVars
<1> QED BY <1>3, Invisible

-----------------------------------------------------------------------------
(* Every step of a worker. *)
LEMMA LoopRefines ==
  ASSUME Core, Core', NEW w \in Workers,
         \/ Start(w) \/ Loop(w) \/ CheckActive(w) \/ CheckJobs(w) \/ Recheck(w)
         \/ Busy(w) \/ Get(w) \/ GetSignal(w) \/ Idle(w) \/ Exit(w)
  PROVE  [Abstract!Next]_Abstract!vars
<1>1. WorkerStep(w)
  BY DEF WorkerStep
<1>2. CASE Get(w) /\ jobs # <<>>
  BY <1>2, GetStarts DEF Abstract!Next, Abstract!Jobs, Jobs
<1>3. CASE ~ (Get(w) /\ jobs # <<>>)
  <2>1. PICK q \in WorkerPC : Goto(w, q) /\ q \notin {"insert", "insertSignal", "jobDeinit"}
    BY <1>3 DEF Start, Loop, CheckActive, CheckJobs, Recheck, Busy, Get, GetSignal,
       Idle, Exit, WorkerPC, BusyPC
  <2>2. UNCHANGED <<threadVars, jobs, heap, parent, errState, err_state>>
    BY <1>3 DEF Start, Loop, CheckActive, CheckJobs, Recheck, Busy, Get, GetSignal,
       Idle, Exit, jobVars, threadVars
  <2>3. pc[w] \notin {"insert", "insertSignal", "jobDeinit"}
    BY DEF Start, Loop, CheckActive, CheckJobs, Recheck, Busy, Get, GetSignal, Idle,
       Exit, At
  <2> QED BY <1>1, <2>1, <2>2, <2>3, GotoIsInvisible
<1> QED BY <1>2, <1>3

LEMMA FinishRefines ==
  ASSUME Core, Core', NEW w \in Workers, Finish(w) \/ ErrorAssign(w) \/ JobDeinit(w)
  PROVE  [Abstract!Next]_Abstract!vars
<1>1. WorkerStep(w)
  BY DEF WorkerStep
<1>2. CASE Finish(w) /\ parent[cur[w]] # NoJob
  BY <1>2, FinishFinishes DEF Abstract!Next, Abstract!Jobs, Jobs
<1>3. CASE Finish(w) /\ parent[cur[w]] = NoJob
  <2>1. /\ pc[w] = "run"
        /\ UNCHANGED <<threadVars, jobs, heap, parent, errState, err_state>>
        /\ Goto(w, IF errState[cur[w]] # NoError THEN "errorAssign" ELSE "jobDeinit")
    BY <1>3 DEF Finish, Caller, Runs, At, threadVars
  <2>2. CASE errState[cur[w]] # NoError
    BY <1>1, <2>1, <2>2, GotoIsInvisible
  <2>3. CASE errState[cur[w]] = NoError
    BY <1>1, <1>3, <2>1, <2>3, EndFinishes DEF Abstract!Next, Abstract!Jobs, Jobs
  <2> QED BY <2>2, <2>3
<1>4. CASE ErrorAssign(w)
  <2>1. /\ pc[w] = "errorAssign" /\ Goto(w, "jobDeinit")
        /\ errState[cur[w]] # NoError /\ parent[cur[w]] = NoJob
        /\ err_state' = errState[cur[w]]
        /\ UNCHANGED <<threadVars, jobs, heap, parent, errState>>
    BY <1>4 DEF ErrorAssign, At, Core, AssignsError, jobVars
  <2> QED BY <1>1, <2>1, EndFinishes DEF Abstract!Next, Abstract!Jobs, Jobs
<1>5. CASE JobDeinit(w)
  BY <1>5, JobDeinitIsInvisible
<1> QED BY <1>2, <1>3, <1>4, <1>5

LEMMA RunRefines ==
  ASSUME Core, Core', NEW w \in Workers,
         \/ Spawn(w) \/ Await(w) \/ Resume(w) \/ Yield(w) \/ Throw(w) \/ Catch(w)
         \/ Unwind(w) \/ Handle(w)
  PROVE  [Abstract!Next]_Abstract!vars
<1>1. WorkerStep(w) /\ At(w, "run")
  BY DEF WorkerStep, Spawn, Await, Resume, Yield, Throw, Catch, Unwind, Handle, Runs
<1>2. CASE Spawn(w)
  BY <1>2, SpawnSpawns DEF Abstract!Next, Abstract!Jobs, Jobs
<1>3. CASE Await(w)
  BY <1>3, AwaitAwaits DEF Abstract!Next, Abstract!Jobs, Jobs
<1>4. CASE Handle(w)
  BY <1>4, HandleHandles DEF Abstract!Next, Abstract!Jobs, Jobs
<1>5. CASE Resume(w) /\ errState[cur[w]] = NoError
  <2>1. UNCHANGED <<pc, threadVars, jobs, heap, parent, errState, err_state>>
    BY <1>5 DEF Resume
  <2> QED BY <2>1, StayIsInvisible
<1>6. CASE \/ Resume(w) /\ errState[cur[w]] # NoError
           \/ Yield(w) \/ Throw(w) \/ Catch(w) \/ Unwind(w)
  <2>1. PICK s \in Steps : Requeue(w, s)
    BY <1>6 DEF Resume, Yield, Throw, Catch, Unwind, ErrorStep, Steps
  <2>2. /\ UNCHANGED <<jobs, heap, parent, err_state>>
        /\ errState' = errState \/ errState' = [errState EXCEPT ![cur[w]] = cur[w]]
    BY <1>6 DEF Resume, Yield, Throw, Catch, Unwind
  <2> QED BY <1>1, <2>1, <2>2, RequeueRequeues DEF Abstract!Next, Abstract!Jobs, Jobs
<1> QED BY <1>2, <1>3, <1>4, <1>5, <1>6

LEMMA MainRefines ==
  ASSUME Core, Core', MainStep
  PROVE  [Abstract!Next]_Abstract!vars
<1>1. CASE MainAdd
  BY <1>1, MainAddSubmits DEF Abstract!Next, Abstract!Jobs, Jobs
<1>2. CASE MainThrow \/ MainCatch
  BY <1>2, MainFailsRefines DEF Abstract!Next
<1>3. CASE Wait /\ ~ Unfinished
  BY <1>3, WaitReturns DEF Abstract!Next
<1>4. CASE Drain
  BY <1>4, DrainCloses DEF Abstract!Next
<1>5. CASE Insert(Main) \/ InsertSignal(Main)
  BY <1>5, InsertIsInvisible, InsertSignalIsInvisible DEF Threads
<1>6. CASE Wait /\ Unfinished
  <2>1. UNCHANGED <<pc, threadVars, jobs, heap, parent, errState, err_state>>
    BY <1>6 DEF Wait, jobVars
  <2> QED BY <2>1, StayIsInvisible
<1>7. CASE \/ \E w \in Workers : CreateThread(w)
           \/ MainNotice \/ MainUncaught
           \/ InitWait \/ MainEnd \/ Deinit \/ DeinitCheck \/ DeinitSignal \/ Join
  <2>1. UNCHANGED <<threadVars, jobs, heap, parent, errState, err_state>>
    BY <1>7 DEF CreateThread, MainNotice, MainUncaught, InitWait, MainEnd, Deinit,
       DeinitCheck, DeinitSignal, Join, jobVars
  <2>2. Phase' = Phase /\ pc[Main] # "insert" /\ pc'[Main] # "insert"
    <3>1. CASE \E w \in Workers : CreateThread(w)
      BY <3>1 DEF CreateThread, At, Core, TInv, Control, ThreadTypes, Phase, Closed,
         ReturnedPC, Threads
    <3>2. CASE \/ MainNotice \/ MainUncaught \/ InitWait \/ MainEnd
               \/ Deinit \/ DeinitCheck \/ DeinitSignal \/ Join
      BY <3>2 DEF MainNotice, MainUncaught, InitWait, MainEnd, Deinit, DeinitCheck,
         DeinitSignal, Join, At, Goto, Core, TInv, Control, ThreadTypes, Phase,
         Closed, ReturnedPC, Threads
    <3> QED BY <1>7, <3>1, <3>2
  <2> QED BY <2>1, <2>2, MainIsInvisible
<1> QED BY <1>1, <1>2, <1>3, <1>4, <1>5, <1>6, <1>7 DEF MainStep, MainFails

LEMMA InitRefines == Init => Abstract!Init
<1> SUFFICES ASSUME Init PROVE Abstract!Init
  OBVIOUS
<1>1. Core
  BY InitCore
<1>2. \A j \in Jobs : heap[j] = "unused" /\ parent[j] = NoJob
  BY DEF Init
<1>3. \A j \in Jobs : JobState(j) = "unused" /\ JobParent(j) = NoJob
  BY <1>1, <1>2, StateAt DEF StatePlaced, JobParent
<1>4. pc[Main] = "create"
  BY DEF Init, Threads
<1> QED BY <1>3, <1>4
        DEF Init, Abstract!Init, Abstract!Jobs, Jobs, Abstract!NoJob, NoJob,
            Abstract!NoError, NoError, ReturnedPC

LEMMA StepRefines ==
  ASSUME Core, Core', [Next]_vars
  PROVE  [Abstract!Next]_Abstract!vars
<1>1. CASE MainStep
  BY <1>1, MainRefines
<1>2. ASSUME NEW w \in Workers, WorkerStep(w) PROVE [Abstract!Next]_Abstract!vars
  <2>1. CASE Insert(w) \/ InsertSignal(w)
    BY <2>1, InsertIsInvisible, InsertSignalIsInvisible DEF Threads
  <2> QED BY <1>2, <2>1, LoopRefines, FinishRefines, RunRefines DEF WorkerStep
<1>3. CASE (\E t \in Threads : SpuriousWakeup(t)) \/ Terminated \/ UNCHANGED vars
  <2>1. UNCHANGED <<pc, threadVars, jobs, heap, parent, errState, err_state>>
    BY <1>3 DEF SpuriousWakeup, Terminated, vars, jobVars, threadVars
  <2> QED BY <2>1, StayIsInvisible
<1> QED BY <1>1, <1>2, <1>3 DEF Next

(* Whatever the threads do, whatever the order in which they take the      *)
(* locks and the number of workers and calls, threadpool_add, _insert,     *)
(* _get, _worker, _wait and _deinit and the generated calls behave as      *)
(* JobPool promises: an async call runs at most once at a time, its caller *)
(* goes on after it with its error, and main after all of them or an error.*)
THEOREM ImplementsJobPoolHolds == Spec => ImplementsJobPool
<1>1. Core /\ Core' /\ [Next]_vars => [Abstract!Next]_Abstract!vars
  BY StepRefines
<1> QED BY <1>1, InitRefines, CoreHolds, PTL DEF Spec, ImplementsJobPool, Abstract!Spec

-----------------------------------------------------------------------------
(* What is proved of JobPool therefore holds of the pool's threads.        *)
Proved == INSTANCE JobPoolProofs WITH
  state   <- [j \in Jobs |-> JobState(j)],
  parent  <- [j \in Jobs |-> JobParent(j)],
  error   <- errState,
  outcome <- err_state,
  phase   <- IF pc[Main] \in {"join", "done"} THEN "closed"
             ELSE IF pc[Main] \in ReturnedPC THEN "returned" ELSE "open"

LEMMA SameSpecification ==
  /\ Abstract!Init => Proved!Init
  /\ [Abstract!Next]_Abstract!vars => [Proved!Next]_Proved!vars
<1>1. UNCHANGED Abstract!vars => UNCHANGED Proved!vars
  BY DEF Abstract!vars, Proved!vars
<1>2. Abstract!Init => Proved!Init
  BY DEF Abstract!Init, Proved!Init, Abstract!Jobs, Proved!Jobs, Abstract!NoJob,
     Proved!NoJob, Abstract!NoError, Proved!NoError
<1>3. Abstract!Next => Proved!Next
  BY DEF Abstract!Next, Proved!Next, Abstract!Jobs, Proved!Jobs, Abstract!NoJob,
     Proved!NoJob, Abstract!NoError, Proved!NoError, Abstract!MainError,
     Proved!MainError, Abstract!Fail, Proved!Fail, Abstract!Recover, Proved!Recover,
     Abstract!Return, Proved!Return,
     Abstract!Close, Proved!Close, Abstract!Done, Proved!Done, Abstract!vars,
     Proved!vars, Abstract!Submit, Proved!Submit, Abstract!Start, Proved!Start,
     Abstract!Requeue, Proved!Requeue, Abstract!Handle, Proved!Handle,
     Abstract!Finish, Proved!Finish, Abstract!AfterFinish, Proved!AfterFinish,
     Abstract!Spawn, Proved!Spawn, Abstract!SpawnParent, Proved!SpawnParent,
     Abstract!Await, Proved!Await, Abstract!Create, Proved!Create, Abstract!Fresh,
     Proved!Fresh
<1> QED BY <1>1, <1>2, <1>3

(* Calls of generated async functions never all wait for one another, and  *)
(* a suspended call awaits exactly one call that is alive and will queue   *)
(* it: of the threads of thread.cpp too, until threadpool_deinit drops the *)
(* queue.                                                                  *)
THEOREM AwaitsInThePoolHold == Spec => [](Abstract!AwaitedOnce /\ Abstract!NeverStuck)
<1>1. Abstract!Spec => Proved!Spec
  BY SameSpecification, PTL DEF Abstract!Spec, Proved!Spec
<1>2. Proved!Spec => []Proved!AwaitedOnce /\ []Proved!NeverStuck
  BY Proved!AwaitedOnceHolds, Proved!NeverStuckHolds, BoundsAssumption
     DEF Proved!MaxJobsAssumption
<1>3. Proved!AwaitedOnce /\ Proved!NeverStuck => Abstract!AwaitedOnce /\ Abstract!NeverStuck
  BY DEF Proved!AwaitedOnce, Abstract!AwaitedOnce, Proved!NeverStuck,
     Abstract!NeverStuck, Proved!Jobs, Abstract!Jobs, Proved!Alive, Abstract!Alive
<1> QED BY <1>1, <1>2, <1>3, ImplementsJobPoolHolds, PTL DEF ImplementsJobPool
=============================================================================
