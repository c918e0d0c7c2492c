------------------------------ MODULE TaskPool ------------------------------
(***************************************************************************)
(* What a thread pool promises: tasks are started in the order in which    *)
(* they were queued, each by one worker and only once, and no worker runs  *)
(* two tasks at a time.                                                    *)
(***************************************************************************)
EXTENDS Naturals, Sequences

CONSTANTS
  NumWorkers,
  TaskIds,    \* what a caller passes as taskId
  MaxCopies,  \* bound on the tasks queued by one call
  None        \* not a task

VARIABLES
  pending,    \* tasks that are queued
  running     \* the task of each worker, or None

Workers == 0 .. NumWorkers - 1

Tasks == [id : TaskIds, subId : Nat]

\* The tasks of one call, numbered from 0.
Batch(id, copies) == [n \in 1 .. copies |-> [id |-> id, subId |-> n - 1]]

Init ==
  /\ pending = <<>>
  /\ running = [w \in Workers |-> None]

Submit ==
  /\ \E id \in TaskIds, copies \in 0 .. MaxCopies : pending' = pending \o Batch(id, copies)
  /\ UNCHANGED running

Start(w) ==
  /\ running[w] = None
  /\ pending # <<>>
  /\ running' = [running EXCEPT ![w] = Head(pending)]
  /\ pending' = Tail(pending)

Finish(w) ==
  /\ running[w] # None
  /\ running' = [running EXCEPT ![w] = None]
  /\ UNCHANGED pending

Next == Submit \/ \E w \in Workers : Start(w) \/ Finish(w)

Spec == Init /\ [][Next]_<<pending, running>>

=============================================================================
