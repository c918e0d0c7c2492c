-------------------------- MODULE ThreadPoolProofs --------------------------
(***************************************************************************)
(* For any number of workers and submitters: the pool implements TaskPool, *)
(* no worker sleeps while a task is queued, the destructor leaves no       *)
(* thread behind, and it aborts only over a thread that never ran.         *)
(***************************************************************************)
EXTENDS ThreadPool, TLAPS

Destroying == {"stop", "signal", "join", "destroyed", "aborted"}

\* Workers the owner has not started have no thread; all others have one.
StartInv ==
  \A w \in Workers : wpc[w] = "none" <=> owner = "init" /\ current <= w

\* A worker that runs a task has popped one.
RunInv == \A w \in Workers : wpc[w] = "run" => task[w] \in Tasks

\* Only workers that stop() has reached are told to stop, and only those end.
ShutdownInv ==
  \A w \in Workers :
    /\ shutdown[w] => /\ owner \in Destroying
                      /\ w < current \/ (w = current /\ owner = "join")
    /\ wpc[w] \in {"ending", "ended"} => shutdown[w]

\* What _workerState tells about the thread.
StateInv ==
  \A w \in Workers : state[w] = "STOPPED" => wpc[w] \in {"none", "created", "ended"}

\* The worker that is being stopped exists; afterwards all are through.
CurrentInv ==
  /\ owner \in {"signal", "join", "aborted"} => current \in Workers
  /\ owner = "destroyed" => current = NumWorkers

IInv ==
  /\ TypeOK
  /\ StartInv
  /\ RunInv
  /\ ShutdownInv
  /\ StateInv
  /\ CurrentInv
  /\ NoSleepingOnWork
  /\ DestroyedMeansEnded
  /\ AbortOnlyBeforeFirstRun

\* The parts that only speak of the worker threads and the owner.
ThreadInv ==
  StartInv /\ RunInv /\ ShutdownInv /\ StateInv /\ CurrentInv
  /\ DestroyedMeansEnded /\ AbortOnlyBeforeFirstRun

-----------------------------------------------------------------------------

\* The tasks of a call are tasks.
LEMMA BatchType ==
  ASSUME NEW id \in TaskIds, NEW copies \in Nat
  PROVE  Batch(id, copies) \in Seq(Tasks)
BY DEF Batch, Tasks

\* The invariant holds initially.
LEMMA InitInv == Init => IInv
<1> SUFFICES ASSUME Init PROVE IInv
  OBVIOUS
<1>1. TypeOK
  BY ThreadPoolAssumption DEF Init, TypeOK, OwnerStates, WorkerLabels
<1>2. ThreadInv
  BY ThreadPoolAssumption DEF Init, ThreadInv, StartInv, RunInv, ShutdownInv, StateInv, CurrentInv,
    DestroyedMeansEnded, AbortOnlyBeforeFirstRun, Workers
<1>3. NoSleepingOnWork
  BY DEF Init, NoSleepingOnWork
<1> QED
  BY <1>1, <1>2, <1>3 DEF IInv, ThreadInv

\* A call of queue(): tasks arrive together with a pending notification.
LEMMA PushTasksInv ==
  ASSUME IInv, NEW s \in Submitters, PushTasks(s)
  PROVE  IInv'
<1>1. UNCHANGED <<workerVars, ownerVars>> /\ notifying' = notifying \cup {s}
  BY DEF PushTasks
<1>2. PICK id \in TaskIds, copies \in 0 .. MaxCopies :
        queue' = queue \o Batch(id, copies) /\ submitted' = submitted + copies
  BY DEF PushTasks
<1>3. TypeOK'
  <2>1. Batch(id, copies) \in Seq(Tasks) /\ copies \in Nat
    BY BatchType, ThreadPoolAssumption
  <2> QED
    BY <1>1, <1>2, <2>1 DEF IInv, TypeOK, workerVars, ownerVars
<1>4. ThreadInv'
  BY <1>1 DEF IInv, ThreadInv, StartInv, RunInv, ShutdownInv, StateInv, CurrentInv,
    DestroyedMeansEnded, AbortOnlyBeforeFirstRun, workerVars, ownerVars
<1>5. NoSleepingOnWork'
  BY <1>1 DEF NoSleepingOnWork
<1> QED
  BY <1>3, <1>4, <1>5 DEF IInv, ThreadInv

\* notify_all() moves the sleepers and nobody else.
LEMMA WokenType ==
  ASSUME TypeOK
  PROVE  /\ Woken \in [Workers -> WorkerLabels]
         /\ \A w \in Workers : /\ Woken[w] # "waiting"
                               /\ Woken[w] # wpc[w] => wpc[w] = "waiting" /\ Woken[w] = "woken"
BY DEF TypeOK, Woken, WorkerLabels

LEMMA NotifyAllInv ==
  ASSUME IInv, NEW s \in Submitters, NotifyAll(s)
  PROVE  IInv'
<1>1. TypeOK'
  BY WokenType DEF IInv, TypeOK, NotifyAll, ownerVars
<1>2. ThreadInv'
  BY WokenType DEF IInv, NotifyAll, ThreadInv, StartInv, RunInv, ShutdownInv, StateInv, CurrentInv,
    DestroyedMeansEnded, AbortOnlyBeforeFirstRun, ownerVars, Workers
<1>3. NoSleepingOnWork'
  BY WokenType DEF IInv, NotifyAll, NoSleepingOnWork
<1> QED
  BY <1>1, <1>2, <1>3 DEF IInv, ThreadInv

\* A step of worker w moves w alone and leaves the owner where it is.
LEMMA WorkInv ==
  ASSUME IInv, NEW w \in Workers, Work(w)
  PROVE  IInv'
<1>1. /\ UNCHANGED <<ownerVars, notifying, submitted>>
      /\ owner # "aborted"
      /\ \A v \in Workers \ {w} : wpc'[v] = wpc[v] /\ state'[v] = state[v] /\ task'[v] = task[v]
  BY DEF Work, Begin, WaitQueue, WakeUp, AfterWait, FinishTask, CheckShutdown, End,
    PopTask, Goto, SetState, Alive, IInv, TypeOK
<1>2. TypeOK'
  <2>1. CASE Begin(w) \/ WakeUp(w) \/ CheckShutdown(w) \/ End(w) \/ FinishTask(w)
    BY <2>1, <1>1 DEF Begin, WakeUp, CheckShutdown, End, FinishTask, Goto, SetState,
      IInv, TypeOK, WorkerLabels, ownerVars
  <2>2. CASE (WaitQueue(w) \/ AfterWait(w)) /\ PopTask(w)
    <3>1. Head(queue) \in Tasks /\ Tail(queue) \in Seq(Tasks)
      BY <2>2 DEF PopTask, IInv, TypeOK
    <3> QED
      BY <2>2, <3>1, <1>1 DEF WaitQueue, AfterWait, PopTask, Goto, SetState,
        IInv, TypeOK, WorkerLabels, ownerVars
  <2>3. CASE (WaitQueue(w) \/ AfterWait(w)) /\ ~PopTask(w)
    BY <2>3, <1>1 DEF WaitQueue, AfterWait, Goto, SetState, IInv, TypeOK, WorkerLabels, ownerVars
  <2> QED
    BY <2>1, <2>2, <2>3 DEF Work
<1>3. RunInv'
  <2>1. CASE PopTask(w)
    BY <1>1, <2>1 DEF IInv, RunInv, PopTask, Goto, TypeOK
  <2>2. CASE ~PopTask(w)
    BY <1>1, <2>2 DEF IInv, RunInv, Work, Begin, WaitQueue, WakeUp, AfterWait, FinishTask,
      CheckShutdown, End, Goto, TypeOK
  <2> QED
    BY <2>1, <2>2
<1>4. StartInv'
  <2>1. wpc[w] # "none" /\ wpc'[w] # "none"
    BY DEF Work, Begin, WaitQueue, WakeUp, AfterWait, FinishTask, CheckShutdown, End,
      PopTask, Goto, IInv, TypeOK
  <2> QED
    BY <1>1, <2>1 DEF IInv, StartInv, ownerVars
<1>5. ShutdownInv' /\ CurrentInv'
  <2>1. wpc'[w] \in {"ending", "ended"} => shutdown[w]
    BY DEF Work, Begin, WaitQueue, WakeUp, AfterWait, FinishTask, CheckShutdown, End,
      PopTask, Goto, IInv, TypeOK, ShutdownInv
  <2> QED
    BY <1>1, <2>1 DEF IInv, ShutdownInv, CurrentInv, ownerVars
<1>6. StateInv'
  <2>1. state'[w] = "STOPPED" => wpc'[w] = "ended"
    BY DEF Work, Begin, WaitQueue, WakeUp, AfterWait, FinishTask, CheckShutdown, End,
      PopTask, Goto, SetState, IInv, TypeOK, StateInv
  <2> QED
    BY <1>1, <2>1 DEF IInv, StateInv
<1>7. NoSleepingOnWork'
  <2>1. wpc'[w] = "waiting" => queue' = <<>>
    BY DEF Work, Begin, WaitQueue, WakeUp, AfterWait, FinishTask, CheckShutdown, End,
      PopTask, Goto, IInv, TypeOK
  <2>2. queue' # <<>> => queue # <<>>
    <3>1. CASE PopTask(w)
      BY <3>1 DEF PopTask
    <3>2. CASE ~PopTask(w)
      BY <3>2 DEF Work, Begin, WaitQueue, WakeUp, AfterWait, FinishTask, CheckShutdown, End
    <3> QED
      BY <3>1, <3>2
  <2> QED
    BY <1>1, <2>1, <2>2 DEF IInv, NoSleepingOnWork
<1>8. DestroyedMeansEnded' /\ AbortOnlyBeforeFirstRun'
  <2>1. wpc[w] # "ended"
    BY DEF Work, Begin, WaitQueue, WakeUp, AfterWait, FinishTask, CheckShutdown, End
  <2> QED
    BY <1>1, <2>1 DEF IInv, DestroyedMeansEnded, AbortOnlyBeforeFirstRun, ownerVars
<1> QED
  BY <1>2, <1>3, <1>4, <1>5, <1>6, <1>7, <1>8 DEF IInv

\* The constructor.
LEMMA StartWorkerInv ==
  ASSUME IInv, StartWorker
  PROVE  IInv'
<1>1. TypeOK'
  <2>1. CASE current \in Workers
    <3>1. current + 1 \in 0 .. NumWorkers
      BY <2>1, ThreadPoolAssumption DEF Workers
    <3>2. wpc' \in [Workers -> WorkerLabels]
      BY <2>1 DEF StartWorker, Goto, IInv, TypeOK, WorkerLabels
    <3> QED
      BY <2>1, <3>1, <3>2 DEF StartWorker, IInv, TypeOK
  <2>2. CASE current \notin Workers
    BY <2>2 DEF StartWorker, IInv, TypeOK, OwnerStates
  <2> QED
    BY <2>1, <2>2
<1> USE ThreadPoolAssumption DEF IInv, StartWorker, Goto
<1>2. StartInv' /\ CurrentInv'
  BY DEF TypeOK, StartInv, CurrentInv, Workers
<1>3. RunInv' /\ StateInv'
  BY DEF TypeOK, StartInv, RunInv, StateInv, Workers
<1>4. ShutdownInv'
  BY DEF TypeOK, StartInv, ShutdownInv, Destroying, Workers
<1>5. NoSleepingOnWork'
  BY DEF TypeOK, NoSleepingOnWork
<1>6. DestroyedMeansEnded' /\ AbortOnlyBeforeFirstRun'
  BY DEF DestroyedMeansEnded, AbortOnlyBeforeFirstRun
<1> QED
  BY <1>1, <1>2, <1>3, <1>4, <1>5, <1>6

\* The destructor: begin, stop the next worker, wake it, join it.
LEMMA DestructorInv ==
  ASSUME IInv, Destroy \/ Destructor
  PROVE  IInv'
<1> USE ThreadPoolAssumption DEF IInv
<1>1. CASE Destroy
  <2> USE <1>1 DEF Destroy, workerVars
  <2>1. TypeOK' /\ NoSleepingOnWork'
    BY DEF TypeOK, NoSleepingOnWork, OwnerStates
  <2>2. StartInv' /\ RunInv' /\ StateInv' /\ CurrentInv' /\ AbortOnlyBeforeFirstRun'
    BY DEF StartInv, RunInv, StateInv, CurrentInv, AbortOnlyBeforeFirstRun
  <2>3. ShutdownInv' /\ DestroyedMeansEnded'
    BY DEF ShutdownInv, DestroyedMeansEnded, Destroying, Workers
  <2> QED
    BY <2>1, <2>2, <2>3
<1>2. CASE StopWorker
  <2> USE <1>2 DEF StopWorker, workerVars
  <2>1. TypeOK' /\ NoSleepingOnWork'
    BY DEF TypeOK, NoSleepingOnWork, OwnerStates
  <2>2. RunInv' /\ StateInv' /\ StartInv'
    BY DEF RunInv, StateInv, StartInv
  <2>3. CurrentInv'
    BY DEF CurrentInv, TypeOK, Workers
  <2>4. ShutdownInv'
    BY DEF ShutdownInv, Destroying, TypeOK, Workers
  <2>5. DestroyedMeansEnded'
    BY DEF DestroyedMeansEnded, TypeOK, Workers
  <2>6. AbortOnlyBeforeFirstRun'
    BY DEF AbortOnlyBeforeFirstRun, StateInv, StartInv, ShutdownInv, TypeOK, Workers
  <2> QED
    BY <2>1, <2>2, <2>3, <2>4, <2>5, <2>6
<1>3. CASE SignalWorker
  <2> USE <1>3 DEF SignalWorker
  <2>1. /\ wpc' \in [Workers -> WorkerLabels]
        /\ \A w \in Workers : wpc'[w] # wpc[w] => wpc[w] = "waiting" /\ wpc'[w] = "woken"
    BY WokenType DEF TypeOK
  <2>2. TypeOK'
    BY <2>1 DEF TypeOK, OwnerStates
  <2>3. NoSleepingOnWork' /\ RunInv' /\ StateInv' /\ StartInv' /\ CurrentInv'
    BY <2>1 DEF NoSleepingOnWork, RunInv, StateInv, StartInv, CurrentInv
  <2>4. ShutdownInv'
    BY <2>1 DEF ShutdownInv, Destroying, TypeOK, CurrentInv, Workers
  <2>5. DestroyedMeansEnded' /\ AbortOnlyBeforeFirstRun'
    BY <2>1 DEF DestroyedMeansEnded, AbortOnlyBeforeFirstRun
  <2> QED
    BY <2>2, <2>3, <2>4, <2>5
<1>4. CASE JoinWorker
  <2> USE <1>4 DEF JoinWorker, workerVars
  <2>1. TypeOK' /\ NoSleepingOnWork'
    BY DEF TypeOK, NoSleepingOnWork, OwnerStates, CurrentInv, Workers
  <2>2. RunInv' /\ StateInv' /\ StartInv' /\ CurrentInv' /\ AbortOnlyBeforeFirstRun'
    BY DEF RunInv, StateInv, StartInv, CurrentInv, AbortOnlyBeforeFirstRun
  <2>3. ShutdownInv'
    BY DEF ShutdownInv, Destroying, TypeOK, CurrentInv, Workers
  <2>4. DestroyedMeansEnded'
    BY DEF DestroyedMeansEnded, TypeOK, CurrentInv, Workers
  <2> QED
    BY <2>1, <2>2, <2>3, <2>4
<1> QED
  BY <1>1, <1>2, <1>3, <1>4 DEF Destructor

\* The invariant is inductive.
LEMMA StepInv == IInv /\ [Next]_vars => IInv'
<1> SUFFICES ASSUME IInv, [Next]_vars PROVE IInv'
  OBVIOUS
<1>1. CASE Next
  BY <1>1, StartWorkerInv, DestructorInv, PushTasksInv, NotifyAllInv, WorkInv DEF Next
<1>2. CASE UNCHANGED vars
  BY <1>2 DEF vars, workerVars, ownerVars, IInv, TypeOK, StartInv, RunInv, ShutdownInv, StateInv,
    CurrentInv, NoSleepingOnWork, DestroyedMeansEnded, AbortOnlyBeforeFirstRun
<1> QED
  BY <1>1, <1>2

-----------------------------------------------------------------------------

\* The invariant holds in every reachable state.
THEOREM Invariance == Spec => []IInv
BY InitInv, StepInv, PTL DEF Spec

\* Every reachable state of the pool is well-typed.
THEOREM TypeCorrect == Spec => []TypeOK
<1>1. IInv => TypeOK
  BY DEF IInv
<1> QED
  BY <1>1, Invariance, PTL

\* queueTask() may notify outside the mutex: no wake-up gets lost.
THEOREM NoLostWakeUp == Spec => []NoSleepingOnWork
<1>1. IInv => NoSleepingOnWork
  BY DEF IInv
<1> QED
  BY <1>1, Invariance, PTL

\* ~ThreadPool() frees nothing that a worker thread could still use.
THEOREM NoThreadOutlivesPool == Spec => []DestroyedMeansEnded
<1>1. IInv => DestroyedMeansEnded
  BY DEF IInv
<1> QED
  BY <1>1, Invariance, PTL

\* stop() aborts the process only if a thread had no chance to run before.
THEOREM AbortOnlyOverNewThread == Spec => []AbortOnlyBeforeFirstRun
<1>1. IInv => AbortOnlyBeforeFirstRun
  BY DEF IInv
<1> QED
  BY <1>1, Invariance, PTL

-----------------------------------------------------------------------------
(* Refinement                                                              *)

\* A worker that pops a task starts it in TaskPool.
LEMMA PopStarts ==
  ASSUME IInv, NEW w \in Workers, PopTask(w), wpc[w] \in {"lock", "woken"}
  PROVE  Pool!Start(w)
<1>1. Running[w] = None /\ Running' = [Running EXCEPT ![w] = Head(queue)]
  BY DEF IInv, TypeOK, PopTask, Goto, Running
<1> QED
  BY <1>1 DEF PopTask, Pool!Start

\* Every step of a worker is a step of TaskPool or leaves it unchanged.
LEMMA WorkRefines ==
  ASSUME IInv, NEW w \in Workers, Work(w)
  PROVE  Pool!Start(w) \/ Pool!Finish(w) \/ UNCHANGED <<queue, Running>>
<1>1. CASE (WaitQueue(w) \/ AfterWait(w)) /\ PopTask(w)
  BY <1>1, PopStarts DEF WaitQueue, AfterWait
<1>2. CASE FinishTask(w)
  <2>1. Running[w] # None
    BY <1>2, ThreadPoolAssumption DEF FinishTask, Running, IInv, RunInv, Tasks
  <2>2. Running' = [Running EXCEPT ![w] = None]
    BY <1>2 DEF FinishTask, Goto, Running, IInv, TypeOK
  <2> QED
    BY <1>2, <2>1, <2>2 DEF FinishTask, Pool!Finish
<1>3. CASE (WaitQueue(w) \/ AfterWait(w)) /\ ~PopTask(w)
  BY <1>3 DEF WaitQueue, AfterWait, Goto, Running, IInv, TypeOK
<1>4. CASE Begin(w) \/ WakeUp(w) \/ CheckShutdown(w) \/ End(w)
  BY <1>4 DEF Begin, WakeUp, CheckShutdown, End, Goto, Running, IInv, TypeOK
<1> QED
  BY <1>1, <1>2, <1>3, <1>4 DEF Work

\* Every step of the pool is one of TaskPool or leaves it unchanged.
LEMMA NextRefines ==
  ASSUME IInv, [Next]_vars
  PROVE  [Pool!Next]_<<queue, Running>>
<1>1. ASSUME NEW s \in Submitters, PushTasks(s) PROVE Pool!Submit
  <2>1. Running' = Running
    BY <1>1 DEF PushTasks, workerVars, Running
  <2> QED
    BY <1>1, <2>1 DEF PushTasks, Batch, Pool!Submit, Pool!Batch
<1>2. ASSUME NEW s \in Submitters, NotifyAll(s) PROVE UNCHANGED <<queue, Running>>
  <2>1. \A w \in Workers : wpc'[w] = "run" <=> wpc[w] = "run"
    BY <1>2, WokenType DEF NotifyAll, IInv
  <2> QED
    BY <1>2, <2>1 DEF NotifyAll, Running
<1>3. ASSUME NEW w \in Workers, Work(w) PROVE [Pool!Next]_<<queue, Running>>
  BY <1>3, WorkRefines DEF Pool!Next, Pool!Workers, Workers
<1>4. CASE StartWorker
  <2>1. current \in Workers => wpc[current] = "none" /\ current \in 0 .. NumWorkers
    BY <1>4 DEF StartWorker, IInv, TypeOK, StartInv, Workers
  <2>2. \A w \in Workers : wpc'[w] = "run" <=> wpc[w] = "run"
    BY <1>4, <2>1 DEF StartWorker, Goto, IInv, TypeOK
  <2> QED
    BY <1>4, <2>2 DEF StartWorker, Running
<1>5. CASE Destroy \/ StopWorker \/ JoinWorker
  BY <1>5 DEF Destroy, StopWorker, JoinWorker, workerVars, Running
<1>6. CASE SignalWorker
  <2>1. \A w \in Workers : wpc'[w] = "run" <=> wpc[w] = "run"
    BY <1>6, WokenType DEF SignalWorker, IInv
  <2> QED
    BY <1>6, <2>1 DEF SignalWorker, Running
<1>7. CASE UNCHANGED vars
  BY <1>7 DEF vars, workerVars, Running
<1> QED
  BY <1>1, <1>2, <1>3, <1>4, <1>5, <1>6, <1>7 DEF Next, Destructor, Pool!Next

\* ThreadPool implements TaskPool: tasks start in the order in which they were
\* queued, each once, whatever the interleaving of callers, workers, wake-ups
\* and the destructor.
THEOREM Refinement == Spec => ImplementsTaskPool
<1>1. Init => Pool!Init
  BY DEF Init, Pool!Init, Running, Pool!Workers, Workers
<1>2. IInv /\ [Next]_vars => [Pool!Next]_<<queue, Running>>
  BY NextRefines
<1> QED
  BY <1>1, <1>2, Invariance, PTL DEF Spec, ImplementsTaskPool, Pool!Spec

=============================================================================
