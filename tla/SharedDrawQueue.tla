--------------------------- MODULE SharedDrawQueue ---------------------------
(***************************************************************************)
(* One DrawQueue shared by any number of producer threads, which allocate  *)
(* and fill elements, and one owner, which iterates over it and clears it. *)
(* Producers and the iterating owner interleave at every access to shared  *)
(* memory.  clear() runs only while nobody else uses the queue: the class  *)
(* leaves that to its callers (module DrawIF models the actual caller).    *)
(***************************************************************************)
EXTENDS DrawQueue, FiniteSets

CONSTANTS Producers

\* The counter overshoots the end of the buffer by at most one element for
\* each thread; a buffer size so close to 2^32 that this wraps is excluded.
ASSUME ProducersAssumption ==
  /\ IsFiniteSet(Producers)
  /\ MaxQueueSize + ElementSize * Cardinality(Producers) < WordSize

VARIABLES
  queue,      \* the DrawQueue
  pc,         \* where each producer is in allocateDrawOpRaw()
  cmd,        \* the command it wants to queue
  index,      \* elementIndex, its claimed offset
  tail,       \* the _lastElementIndex it linked or is going to link behind
  missing,    \* the halves of the command it has not copied yet
  it,         \* the owner's iterator: its _index, and whether increment() has
              \* still to compare it with _allocIndex
  accepted    \* history: the completed allocations since the last clear()

producerVars == <<pc, cmd, index, tail, missing>>
vars == <<queue, pc, cmd, index, tail, missing, it, accepted>>

Halves == {"pos", "color"}

Labels == {"idle", "check", "claim", "init", "hook",
           "first", "readTail", "setLast", "link", "fill"}

NoCommand == [pos |-> Blank, color |-> Blank]

Goto(p, label) == pc' = [pc EXCEPT ![p] = label]

\* The call returns and its locals are gone.
Return(p) ==
  /\ Goto(p, "idle")
  /\ cmd' = [cmd EXCEPT ![p] = NoCommand]
  /\ index' = [index EXCEPT ![p] = 0]
  /\ tail' = [tail EXCEPT ![p] = 0]

Init ==
  /\ queue = FreshQueue
  /\ pc = [p \in Producers |-> "idle"]
  /\ cmd = [p \in Producers |-> NoCommand]
  /\ index = [p \in Producers |-> 0]
  /\ tail = [p \in Producers |-> 0]
  /\ missing = [p \in Producers |-> {}]
  /\ it = [index |-> INVALID_INDEX, pending |-> FALSE]
  /\ accepted = {}

-----------------------------------------------------------------------------
(* Producers                                                               *)

\* A call of allocateDrawOpRaw() for some command.
Call(p) ==
  /\ pc[p] = "idle"
  /\ \E c \in Commands : cmd' = [cmd EXCEPT ![p] = c]
  /\ Goto(p, "check")
  /\ UNCHANGED <<queue, index, tail, missing, it, accepted>>

\* The queue may already be full: nullptr.
CheckFull(p) ==
  /\ pc[p] = "check"
  /\ IF IsFull(queue)
       THEN Return(p)
       ELSE Goto(p, "claim") /\ UNCHANGED <<cmd, index, tail>>
  /\ UNCHANGED <<queue, missing, it, accepted>>

\* Claim the element, or give up (nullptr) when it does not fit; the counter
\* stays advanced in that case.
Claim(p) ==
  /\ pc[p] = "claim"
  /\ queue' = FetchAdd(queue)
  /\ IF Fits(queue.alloc)
       THEN /\ index' = [index EXCEPT ![p] = queue.alloc]
            /\ Goto(p, "init")
            /\ UNCHANGED <<cmd, tail>>
       ELSE Return(p)
  /\ UNCHANGED <<missing, it, accepted>>

InitElement(p) ==
  /\ pc[p] = "init"
  /\ queue' = InitNext(queue, index[p])
  /\ Goto(p, "hook")
  /\ UNCHANGED <<cmd, index, tail, missing, it, accepted>>

\* hookInLast() tests _lastElementIndex; with no tail yet only the element at
\* offset 0 is going to be hooked in.
HookTest(p) ==
  /\ pc[p] = "hook"
  /\ IF queue.last # INVALID_INDEX
       THEN Goto(p, "readTail") /\ UNCHANGED missing
       ELSE IF index[p] = 0
         THEN Goto(p, "first") /\ UNCHANGED missing
         ELSE Goto(p, "fill") /\ missing' = [missing EXCEPT ![p] = Halves]
  /\ UNCHANGED <<queue, cmd, index, tail, it, accepted>>

HookFirst(p) ==
  /\ pc[p] = "first"
  /\ queue' = SetLast(queue, 0)
  /\ Goto(p, "fill")
  /\ missing' = [missing EXCEPT ![p] = Halves]
  /\ UNCHANGED <<cmd, index, tail, it, accepted>>

\* _lastElementIndex is read a second time to find the element to link from.
ReadTail(p) ==
  /\ pc[p] = "readTail"
  /\ tail' = [tail EXCEPT ![p] = queue.last]
  /\ Goto(p, "setLast")
  /\ UNCHANGED <<queue, cmd, index, missing, it, accepted>>

HookLast(p) ==
  /\ pc[p] = "setLast"
  /\ queue' = SetLast(queue, index[p])
  /\ Goto(p, "link")
  /\ UNCHANGED <<cmd, index, tail, missing, it, accepted>>

HookLink(p) ==
  /\ pc[p] = "link"
  /\ queue' = Link(queue, tail[p], index[p])
  /\ Goto(p, "fill")
  /\ missing' = [missing EXCEPT ![p] = Halves]
  /\ UNCHANGED <<cmd, index, tail, it, accepted>>

\* The caller copies the command into the element it was given; memcpy makes
\* no promise about the order of its stores.
Fill(p) ==
  /\ pc[p] = "fill"
  /\ \E h \in missing[p] :
       /\ queue' = Store(queue, index[p], h, cmd[p])
       /\ missing' = [missing EXCEPT ![p] = @ \ {h}]
       /\ IF missing[p] = {h}
            THEN /\ Return(p)
                 /\ accepted' = accepted \cup {[index |-> index[p], cmd |-> cmd[p]]}
            ELSE UNCHANGED <<pc, cmd, index, tail, accepted>>
  /\ UNCHANGED it

Produce(p) ==
  \/ CheckFull(p)
  \/ Claim(p)
  \/ InitElement(p)
  \/ HookTest(p)
  \/ HookFirst(p)
  \/ ReadTail(p)
  \/ HookLast(p)
  \/ HookLink(p)
  \/ Fill(p)

-----------------------------------------------------------------------------
(* The owner                                                               *)

\* The loop over the queue has not come to its end.
Iterating == it.pending \/ ~AtEnd(it.index)

\* begin() is offset 0, whether or not the queue holds an element.
Begin ==
  /\ ~Iterating
  /\ it' = [index |-> 0, pending |-> FALSE]
  /\ UNCHANGED <<queue, producerVars, accepted>>

\* increment() reads the link of the element, and then _allocIndex.
FollowLink ==
  /\ Iterating /\ ~it.pending
  /\ it' = [index |-> queue.next[it.index], pending |-> TRUE]
  /\ UNCHANGED <<queue, producerVars, accepted>>

CutLink ==
  /\ it.pending
  /\ it' = [index |-> Cut(queue, it.index), pending |-> FALSE]
  /\ UNCHANGED <<queue, producerVars, accepted>>

Increment == FollowLink \/ CutLink

Clear ==
  /\ ~Iterating
  /\ \A p \in Producers : pc[p] = "idle"
  /\ queue' = ClearLast(ClearAlloc(queue))
  /\ accepted' = {}
  /\ UNCHANGED <<producerVars, it>>

Next ==
  \/ \E p \in Producers : Call(p) \/ Produce(p)
  \/ Begin
  \/ Increment
  \/ Clear

\* Threads that are inside a call keep running; nobody has to make a call.
Fairness ==
  /\ \A p \in Producers : WF_vars(Produce(p))
  /\ WF_vars(Increment)

Spec == Init /\ [][Next]_vars /\ Fairness

-----------------------------------------------------------------------------
(* Properties                                                              *)

\* Offsets of the completed elements of this round.
Accepted == {r.index : r \in accepted}

Quiet == \A p \in Producers : pc[p] = "idle"

\* The words of the queue and the producers' locals stay in a uint32_t, and
\* every allocation under way is at a step of allocateDrawOpRaw().
TypeOK ==
  /\ queue \in Queues
  /\ pc \in [Producers -> Labels]
  /\ cmd \in [Producers -> Payloads]
  /\ index \in [Producers -> Word]
  /\ tail \in [Producers -> Word]
  /\ missing \in [Producers -> SUBSET Halves]
  /\ it \in [index : Word, pending : BOOLEAN]
  /\ accepted \subseteq [index : Word, cmd : Commands]

\* The producer is between its successful claim and its return.
Owns(p) ==
  pc[p] \in {"init", "hook", "first", "readTail", "setLast", "link", "fill"}

\* Two elements share no byte.
Disjoint(i, j) == i + ElementSize <= j \/ j + ElementSize <= i

\* The elements that producers are filling and those that are complete lie
\* inside the buffer, and no two of them overlap, however the allocations of
\* the threads interleave.
ElementsDisjoint ==
  /\ \A p \in Producers : Owns(p) =>
       /\ index[p] + ElementSize <= MaxQueueSize
       /\ \A q \in Producers \ {p} : Owns(q) => Disjoint(index[p], index[q])
       /\ \A r \in accepted : Disjoint(index[p], r.index)
  /\ \A r \in accepted :
       /\ r.index + ElementSize <= MaxQueueSize
       /\ \A s \in accepted \ {r} : Disjoint(r.index, s.index)

\* A completed element keeps its command until clear(), whatever the other
\* producers allocate, hook in and fill meanwhile.
AcceptedIntact ==
  \A r \in accepted : r.index \in Offsets /\ queue.op[r.index] = r.cmd

\* _allocIndex never wraps around, although producers that passed the first
\* capacity check still advance it beyond the end of the buffer.
CounterBounded ==
  queue.alloc < MaxQueueSize + ElementSize * Cardinality(Producers)

\* Once the producers are quiet, a non-empty queue begins with a completed
\* element, and from a completed element of this round the iterator only gets to
\* another one or to the end: it visits no element of an earlier round.
VisitedAccepted ==
  Quiet /\ accepted # {} =>
    /\ 0 \in Accepted
    /\ \A i \in Accepted : LET next == Successor(queue, i) IN AtEnd(next) \/ next \in Accepted

\* An iteration that has begun ends, even while elements are added.
IterationEnds == Iterating ~> ~Iterating

\* Most elements that fit in the buffer.
Capacity == MaxQueueSize \div ElementSize

\* The offsets that incrementing an iterator at i goes through.
After(i) ==
  LET Walk[n \in 0 .. Capacity] ==
        IF n = 0 THEN {Successor(queue, i)}
        ELSE LET W == Walk[n - 1]
             IN W \cup {Successor(queue, j) : j \in {k \in W : ~AtEnd(k)}}
  IN Walk[Capacity]

\* What an iteration over the queue as it is now would visit.
Visited == {0} \cup {i \in After(0) : ~AtEnd(i)}

\* "This queue for pending draw commands is thread safe without locking": once
\* the threads are done, an iteration reaches the elements of all of them.
NothingLost == Quiet => Accepted \subseteq Visited

=============================================================================
