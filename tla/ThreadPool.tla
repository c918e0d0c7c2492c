----------------------------- MODULE ThreadPool -----------------------------
(***************************************************************************)
(* Class ThreadPool: workers that share one task queue, guarded by a mutex *)
(* and a condition variable, from the constructor to the end of the        *)
(* destructor.                                                             *)
(*                                                                         *)
(* A section that holds the mutex is one action: only the flags that are   *)
(* read without it (_workerState, _shutdown) can be seen to change, and    *)
(* those changes are actions of their own.  Callers keep the contract of a *)
(* destructor: when it begins no call is under way, and none follows.      *)
(***************************************************************************)
EXTENDS Naturals, Sequences

CONSTANTS
  NumWorkers,
  Submitters, \* the threads that queue tasks
  TaskIds,
  MaxCopies,  \* bound on the tasks queued by one call
  MaxTasks,   \* bound on the tasks queued in all
  None

ASSUME ThreadPoolAssumption ==
  /\ NumWorkers \in Nat
  /\ MaxCopies \in Nat
  /\ None \notin [id : TaskIds, subId : Nat]

VARIABLES
  queue,      \* _taskQueue
  wpc,        \* where each worker thread is
  state,      \* _workerState
  task,       \* the task a worker has popped
  shutdown,   \* _shutdown
  notifying,  \* submitters that have pushed their tasks and not yet notified
  owner,      \* what the owning thread is doing: see OwnerStates
  current,    \* the worker the owner is starting or stopping
  submitted   \* number of tasks queued so far

workerVars == <<wpc, state, task>>
ownerVars == <<shutdown, owner, current>>
vars == <<queue, wpc, state, task, shutdown, notifying, owner, current, submitted>>

Workers == 0 .. NumWorkers - 1

Tasks == [id : TaskIds, subId : Nat]

\* "aborted": std::terminate() ended the process.
OwnerStates == {"init", "ready", "stop", "signal", "join", "destroyed", "aborted"}

\* "waiting" is the wait set of the condition variable, "woken" the way back
\* from it to the mutex.
WorkerLabels ==
  {"none", "created", "lock", "waiting", "woken", "run", "idle", "ending", "ended"}

Alive == owner # "aborted"

\* init() holds the mutex while it starts the workers.
MutexFree == owner # "init"

Init ==
  /\ queue = <<>>
  /\ wpc = [w \in Workers |-> "none"]
  /\ state = [w \in Workers |-> "STOPPED"]
  /\ task = [w \in Workers |-> None]
  /\ shutdown = [w \in Workers |-> FALSE]
  /\ notifying = {}
  /\ owner = "init"
  /\ current = 0
  /\ submitted = 0

-----------------------------------------------------------------------------
(* queue()                                                                 *)

\* The tasks of one call.  A call with a number of copies and a call with a
\* vector of runnables both number their tasks from 0.
Batch(id, copies) == [n \in 1 .. copies |-> [id |-> id, subId |-> n - 1]]

PushTasks(s) ==
  /\ owner = "ready"
  /\ s \notin notifying
  /\ \E id \in TaskIds, copies \in 0 .. MaxCopies :
       /\ submitted + copies <= MaxTasks
       /\ queue' = queue \o Batch(id, copies)
       /\ submitted' = submitted + copies
  /\ notifying' = notifying \cup {s}
  /\ UNCHANGED <<workerVars, ownerVars>>

\* notify_all() empties the wait set.
Woken == [w \in Workers |-> IF wpc[w] = "waiting" THEN "woken" ELSE wpc[w]]

\* Mutant of NotifyAll: the tasks are pushed and nobody is told.
NotifyForgotten(s) ==
  /\ s \in notifying
  /\ notifying' = notifying \ {s}
  /\ UNCHANGED <<queue, workerVars, ownerVars, submitted>>

\* queueTask() notifies after it has released the mutex.
NotifyAll(s) ==
  /\ s \in notifying
  /\ wpc' = Woken
  /\ notifying' = notifying \ {s}
  /\ UNCHANGED <<queue, state, task, ownerVars, submitted>>

-----------------------------------------------------------------------------
(* Workers                                                                 *)

Goto(w, label) == wpc' = [wpc EXCEPT ![w] = label]

SetState(w, value) == state' = [state EXCEPT ![w] = value]

\* Mutant of Begin: _workerState keeps the value the constructor gave it.
BeginStopped(w) ==
  /\ Alive
  /\ wpc[w] = "created"
  /\ Goto(w, "lock")
  /\ UNCHANGED <<queue, state, task, ownerVars, notifying, submitted>>

\* The operating system runs the new thread.
Begin(w) ==
  /\ Alive
  /\ wpc[w] = "created"
  /\ SetState(w, "STARTUP")
  /\ Goto(w, "lock")
  /\ UNCHANGED <<queue, task, ownerVars, notifying, submitted>>

\* Mutant of PopTask: the task stays in the queue.
PopCopy(w) ==
  /\ queue # <<>>
  /\ task' = [task EXCEPT ![w] = Head(queue)]
  /\ Goto(w, "run")
  /\ UNCHANGED queue

PopTask(w) ==
  /\ queue # <<>>
  /\ task' = [task EXCEPT ![w] = Head(queue)]
  /\ queue' = Tail(queue)
  /\ Goto(w, "run")

\* waitQueue() takes a task that is there without a look at _shutdown, and
\* otherwise waits, without a look at it either.
WaitQueue(w) ==
  /\ Alive
  /\ MutexFree
  /\ wpc[w] = "lock"
  /\ \/ PopTask(w) /\ UNCHANGED state
     \/ queue = <<>> /\ SetState(w, "WAITING") /\ Goto(w, "waiting") /\ UNCHANGED <<queue, task>>
  /\ UNCHANGED <<ownerVars, notifying, submitted>>

\* Mutant of WakeUp: wait() instead of wait_for().
NeverWakeUp(w) == FALSE /\ UNCHANGED vars

\* wait_for() gives up after a second, or wakes spuriously.
WakeUp(w) ==
  /\ Alive
  /\ wpc[w] = "waiting"
  /\ Goto(w, "woken")
  /\ UNCHANGED <<queue, state, task, ownerVars, notifying, submitted>>

\* The rest of waitQueue(), after the wait: a worker that is to stop takes no
\* task, even if there is one.
AfterWait(w) ==
  /\ Alive
  /\ wpc[w] = "woken"
  /\ SetState(w, "STARTUP")
  /\ \/ ~shutdown[w] /\ PopTask(w)
     \/ (shutdown[w] \/ queue = <<>>) /\ Goto(w, "idle") /\ UNCHANGED <<queue, task>>
  /\ UNCHANGED <<ownerVars, notifying, submitted>>

\* Mutant of FinishTask: the thread returns after its task.
FinishAndQuit(w) ==
  /\ Alive
  /\ wpc[w] = "run"
  /\ task' = [task EXCEPT ![w] = None]
  /\ Goto(w, "ended")
  /\ UNCHANGED <<queue, state, ownerVars, notifying, submitted>>

\* The task that the worker runs returns.
FinishTask(w) ==
  /\ Alive
  /\ wpc[w] = "run"
  /\ task' = [task EXCEPT ![w] = None]
  /\ Goto(w, "lock")
  /\ UNCHANGED <<queue, state, ownerVars, notifying, submitted>>

\* waitQueue() returned false: end the loop if the worker is to stop.
CheckShutdown(w) ==
  /\ Alive
  /\ wpc[w] = "idle"
  /\ IF shutdown[w] THEN SetState(w, "SHUTDOWN") /\ Goto(w, "ending")
                    ELSE Goto(w, "lock") /\ UNCHANGED state
  /\ UNCHANGED <<queue, task, ownerVars, notifying, submitted>>

End(w) ==
  /\ Alive
  /\ wpc[w] = "ending"
  /\ SetState(w, "STOPPED")
  /\ Goto(w, "ended")
  /\ UNCHANGED <<queue, task, ownerVars, notifying, submitted>>

Work(w) ==
  \/ Begin(w) \/ WaitQueue(w) \/ WakeUp(w) \/ AfterWait(w)
  \/ FinishTask(w) \/ CheckShutdown(w) \/ End(w)

-----------------------------------------------------------------------------
(* The owner                                                               *)

\* init() starts one worker after the other and releases the mutex.
StartWorker ==
  /\ owner = "init"
  /\ IF current \in Workers
       THEN /\ shutdown' = [shutdown EXCEPT ![current] = FALSE]
            /\ Goto(current, "created")
            /\ current' = current + 1
            /\ UNCHANGED owner
       ELSE /\ owner' = "ready"
            /\ UNCHANGED <<shutdown, wpc, current>>
  /\ UNCHANGED <<queue, state, task, notifying, submitted>>

Destroy ==
  /\ owner = "ready"
  /\ notifying = {}
  /\ owner' = "stop"
  /\ current' = 0
  /\ UNCHANGED <<queue, workerVars, shutdown, notifying, submitted>>

\* stop() of the next worker.  It takes one whose thread has not run yet for
\* one that has ended, and deletes it without join(): the destructor of a
\* std::thread that is joinable calls std::terminate().
StopWorker ==
  /\ owner = "stop"
  /\ owner' = IF current \notin Workers THEN "destroyed"
              ELSE IF state[current] = "STOPPED" THEN "aborted" ELSE "signal"
  /\ UNCHANGED <<queue, workerVars, shutdown, current, notifying, submitted>>

\* The part of stop() that holds the mutex: wake the workers if this one waits.
SignalWorker ==
  /\ owner = "signal"
  /\ shutdown' = [shutdown EXCEPT ![current] = TRUE]
  /\ wpc' = IF state[current] = "WAITING" THEN Woken ELSE wpc
  /\ owner' = "join"
  /\ UNCHANGED <<queue, state, task, current, notifying, submitted>>

\* Mutant of JoinWorker: the worker is deleted at once.
JoinForgotten ==
  /\ owner = "join"
  /\ owner' = "stop"
  /\ current' = current + 1
  /\ UNCHANGED <<queue, workerVars, shutdown, notifying, submitted>>

JoinWorker ==
  /\ owner = "join"
  /\ wpc[current] = "ended"
  /\ owner' = "stop"
  /\ current' = current + 1
  /\ UNCHANGED <<queue, workerVars, shutdown, notifying, submitted>>

Destructor == StopWorker \/ SignalWorker \/ JoinWorker

-----------------------------------------------------------------------------

Next ==
  \/ StartWorker
  \/ Destroy
  \/ Destructor
  \/ \E s \in Submitters : PushTasks(s) \/ NotifyAll(s)
  \/ \E w \in Workers : Work(w)

\* Every thread keeps running, tasks return, and a second passes.
Fairness ==
  /\ WF_vars(StartWorker)
  /\ WF_vars(Destructor)
  /\ \A s \in Submitters : WF_vars(NotifyAll(s))
  /\ \A w \in Workers : WF_vars(Work(w))

Spec == Init /\ [][Next]_vars /\ Fairness

-----------------------------------------------------------------------------
(* Properties                                                              *)

\* The pool's fields, and what its threads do, have the values of their types.
TypeOK ==
  /\ queue \in Seq(Tasks)
  /\ wpc \in [Workers -> WorkerLabels]
  /\ state \in [Workers -> {"STOPPED", "STARTUP", "WAITING", "SHUTDOWN"}]
  /\ task \in [Workers -> Tasks \cup {None}]
  /\ shutdown \in [Workers -> BOOLEAN]
  /\ notifying \subseteq Submitters
  /\ owner \in OwnerStates
  /\ current \in 0 .. NumWorkers
  /\ submitted \in Nat

\* No worker sleeps while there is work: if a task is queued and a worker is
\* in the wait set, the notification for it is still to come.  (queueTask()
\* notifies outside the mutex; a wake-up lost there would cost a second.)
NoSleepingOnWork ==
  queue # <<>> /\ (\E w \in Workers : wpc[w] = "waiting") => notifying # {}

\* When the destructor is done no thread is left that could still touch the
\* queue, the mutex or its worker object, which are freed.
DestroyedMeansEnded ==
  /\ owner = "destroyed" => \A w \in Workers : wpc[w] = "ended"
  /\ owner \in {"stop", "signal", "join"} =>
       \A w \in Workers : w < current => wpc[w] = "ended"

\* The destructor ends the process only over a thread that never ran.
AbortOnlyBeforeFirstRun == owner = "aborted" => wpc[current] = "created"

\* The worker's task is the one it runs.
Running == [w \in Workers |-> IF wpc[w] = "run" THEN task[w] ELSE None]

Pool == INSTANCE TaskPool WITH pending <- queue, running <- Running

\* The pool starts every queued task at most once and in order.
ImplementsTaskPool == Pool!Spec

\* The workers take every queued task, unless the pool is destroyed.
TasksStarted == queue # <<>> ~> queue = <<>> \/ owner \notin {"init", "ready"}

\* The destructor comes to its end.  A worker that misses notify_all() because
\* it is not waiting yet goes to sleep with _shutdown set: only the time-out
\* of wait_for() brings it back.
DestructorEnds == owner = "stop" ~> owner \in {"destroyed", "aborted"}

=============================================================================
