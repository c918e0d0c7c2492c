------------------------------- MODULE DrawIF -------------------------------
(***************************************************************************)
(* FloodFillDrawIF and the thread that renders.  Producers queue commands  *)
(* into the write queue, inside SpinLock; once per frame the main loop     *)
(* exchanges the two queues, inside the same lock, clears the new write    *)
(* queue and renders what the other one holds.  All threads interleave     *)
(* between their accesses to shared memory; Clamp, Swap and Fill take      *)
(* several of them in one step.                                            *)
(*                                                                         *)
(* One coordinate stands for x and y; a command at Width lies outside.     *)
(***************************************************************************)
EXTENDS DrawQueue, SpinLock, Sequences, FiniteSets

CONSTANTS
  Producers,  \* the threads that call queueDrawCmd()
  Width       \* positions from 0 to Width - 1 are inside the image

ASSUME DrawIFAssumption ==
  /\ IsFiniteSet(Producers)
  /\ Width \in Nat \ {0}
  /\ Positions \subseteq Nat
  /\ 0 .. Width - 1 \subseteq Positions
  /\ ElementSize < MaxQueueSize
  /\ MaxQueueSize + ElementSize * Cardinality(Producers) < WordSize

VARIABLES
  lock,       \* _lockState
  queues,     \* the two DrawQueues
  write,      \* which of them _drawQueues[0] points to
  prod,       \* the locals of each producer's call
  main,       \* where the main loop is, the element its iterator is at, and the
              \* link that increment() has read there
  frame,      \* the commands drawn in this frame
  crashed,    \* "no", or the invalid access that ended the process
  accepted,   \* history: what was queued into each queue since its clear()
  raced       \* history: see below

vars == <<lock, queues, write, prod, main, frame, crashed, accepted, raced>>

TwoQueues == {1, 2}

read == 3 - write

NoCommand == [pos |-> Blank, color |-> Blank]

\* Elements that fit into an empty queue, given the off-by-one of Fits.
Capacity == (MaxQueueSize - 1) \div ElementSize

\* Only so many draws of a frame are recorded; more are a frame gone wrong.
MaxFrame == Capacity + 1

\* Both halves of a payload.
StoreAll(q, i, c) == Store(Store(q, i, "pos", c), i, "color", c)

Idle == [pc |-> "idle", cmd |-> NoCommand, q |-> 1, index |-> 0, tail |-> 0]

\* The producer works on queue q: it has read the pointer and not unlocked.
Holds(p, q) == prod[p].pc \notin {"idle", "lock", "get", "unlock"} /\ prod[p].q = q

Init ==
  /\ lock = Unlocked
  /\ queues = [q \in TwoQueues |-> FreshQueue]
  /\ write = 1
  /\ prod = [p \in Producers |-> Idle]
  /\ main = [pc |-> "lock", it |-> INVALID_INDEX, link |-> 0]
  /\ frame = <<>>
  /\ crashed = "no"
  /\ accepted = [q \in TwoQueues |-> <<>>]
  /\ raced = [q \in TwoQueues |-> FALSE]

\* Note which queues are raced.  What is queued into those and drawn from them
\* is not recorded.
Race(disturbed) ==
  /\ raced' = disturbed
  /\ accepted' = [q \in TwoQueues |-> IF disturbed[q] THEN <<>> ELSE accepted[q]]

-----------------------------------------------------------------------------
(* queueDrawCmd()                                                          *)

At(p, label) == crashed = "no" /\ prod[p].pc = label

Goto(p, label) == prod' = [prod EXCEPT ![p].pc = label]

mainVars == <<write, main, frame>>
history == <<crashed, accepted, raced>>

Call(p) ==
  /\ At(p, "idle")
  /\ \E c \in Commands : prod' = [prod EXCEPT ![p] = [Idle EXCEPT !.pc = "lock", !.cmd = c]]
  /\ UNCHANGED <<lock, queues, mainVars, history>>

Lock(p) ==
  /\ At(p, "lock")
  /\ lock' = CompareExchange(lock)
  /\ IF LockAgain(lock) THEN UNCHANGED prod ELSE Goto(p, "get")
  /\ UNCHANGED <<queues, mainVars, history>>

\* getCurrentWriteQueue().  It races with the switch when the main thread has
\* exchanged the pointers and not yet cleared the queue they now lead to.
GetQueue(p) ==
  /\ At(p, "get")
  /\ prod' = [prod EXCEPT ![p].q = write, ![p].pc = "check"]
  /\ Race([raced EXCEPT ![write] = @ \/ main.pc \in {"clearAlloc", "clearLast"}])
  /\ UNCHANGED <<lock, queues, mainVars, crashed>>

\* allocateDrawOpRaw() on the queue whose pointer the call has read.
Queue(p) == queues[prod[p].q]

Update(p, queue) == queues' = [queues EXCEPT ![prod[p].q] = queue]

\* The queue is full: allocateDrawOpRaw() returns nullptr, which queueDrawCmd()
\* hands to memcpy.
CheckFull(p) ==
  /\ At(p, "check")
  /\ IF IsFull(Queue(p))
       THEN crashed' = "null" /\ UNCHANGED prod
       ELSE Goto(p, "claim") /\ UNCHANGED crashed
  /\ UNCHANGED <<lock, queues, mainVars, accepted, raced>>

Claim(p) ==
  /\ At(p, "claim")
  /\ Update(p, FetchAdd(Queue(p)))
  /\ LET i == Queue(p).alloc
     IN IF Fits(i)
          THEN prod' = [prod EXCEPT ![p].index = i, ![p].pc = "init"] /\ UNCHANGED crashed
          ELSE crashed' = "null" /\ UNCHANGED prod
  /\ UNCHANGED <<lock, mainVars, accepted, raced>>

InitElement(p) ==
  /\ At(p, "init")
  /\ Update(p, InitNext(Queue(p), prod[p].index))
  /\ Goto(p, "hook")
  /\ UNCHANGED <<lock, mainVars, history>>

HookTest(p) ==
  /\ At(p, "hook")
  /\ \/ Queue(p).last # INVALID_INDEX /\ Goto(p, "readTail")
     \/ Queue(p).last = INVALID_INDEX /\ prod[p].index = 0 /\ Goto(p, "first")
     \/ Queue(p).last = INVALID_INDEX /\ prod[p].index # 0 /\ Goto(p, "fill")
  /\ UNCHANGED <<lock, queues, mainVars, history>>

HookFirst(p) ==
  /\ At(p, "first")
  /\ Update(p, SetLast(Queue(p), 0))
  /\ Goto(p, "fill")
  /\ UNCHANGED <<lock, mainVars, history>>

ReadTail(p) ==
  /\ At(p, "readTail")
  /\ prod' = [prod EXCEPT ![p].tail = Queue(p).last, ![p].pc = "setLast"]
  /\ UNCHANGED <<lock, queues, mainVars, history>>

HookLast(p) ==
  /\ At(p, "setLast")
  /\ Update(p, SetLast(Queue(p), prod[p].index))
  /\ Goto(p, "link")
  /\ UNCHANGED <<lock, mainVars, history>>

\* A clear() between the two reads of _lastElementIndex leaves a tail that is
\* no offset: the link is written 4 GB behind the start of the buffer.
HookLink(p) ==
  /\ At(p, "link")
  /\ IF prod[p].tail \in Offsets
       THEN /\ Update(p, Link(Queue(p), prod[p].tail, prod[p].index))
            /\ prod' = [prod EXCEPT ![p].tail = 0, ![p].pc = "fill"]
            /\ UNCHANGED crashed
       ELSE crashed' = "wild" /\ UNCHANGED <<queues, prod>>
  /\ UNCHANGED <<lock, mainVars, accepted, raced>>

\* memcpy of the command into the element.  (Its single stores are told apart
\* in SharedDrawQueue; here nothing is claimed of a payload that is read while
\* it is copied.)
Fill(p) ==
  /\ At(p, "fill")
  /\ Update(p, StoreAll(Queue(p), prod[p].index, prod[p].cmd))
  /\ prod' = [prod EXCEPT ![p] = [Idle EXCEPT !.pc = "unlock"]]
  /\ accepted' = [accepted EXCEPT ![prod[p].q] =
                    IF raced[prod[p].q] THEN <<>> ELSE Append(@, prod[p].cmd)]
  /\ UNCHANGED <<lock, mainVars, crashed, raced>>

Unlock(p) ==
  /\ At(p, "unlock")
  /\ lock' = Unlocked
  /\ Goto(p, "idle")
  /\ UNCHANGED <<queues, mainVars, history>>

QueueDrawCmd(p) ==
  \/ Lock(p) \/ GetQueue(p)
  \/ CheckFull(p) \/ Claim(p) \/ InitElement(p)
  \/ HookTest(p) \/ HookFirst(p) \/ ReadTail(p) \/ HookLast(p) \/ HookLink(p)
  \/ Fill(p) \/ Unlock(p)

-----------------------------------------------------------------------------
(* One round of the main loop: exchangeQueues(), then renderDrawQueue()    *)

MainAt(label) == crashed = "no" /\ main.pc = label

MainGoto(label) == main' = [main EXCEPT !.pc = label]

MainLock ==
  /\ MainAt("lock")
  /\ lock' = CompareExchange(lock)
  /\ IF LockAgain(lock) THEN UNCHANGED main ELSE MainGoto("swap")
  /\ UNCHANGED <<queues, write, prod, frame, history>>

\* std::swap of the two pointers; producers only read the first of them.  A
\* queue is raced from here on while a producer still works on it.
Swap ==
  /\ MainAt("swap")
  /\ write' = read
  /\ Race([raced EXCEPT ![write] = @ \/ \E p \in Producers : Holds(p, write),
                        ![read] = \E p \in Producers : Holds(p, read)])
  /\ MainGoto("clearAlloc")
  /\ UNCHANGED <<lock, queues, prod, frame, crashed>>

ClearWriteAlloc ==
  /\ MainAt("clearAlloc")
  /\ queues' = [queues EXCEPT ![write] = ClearAlloc(@)]
  /\ MainGoto("clearLast")
  /\ UNCHANGED <<lock, write, prod, frame, history>>

ClearWriteLast ==
  /\ MainAt("clearLast")
  /\ queues' = [queues EXCEPT ![write] = ClearLast(@)]
  /\ accepted' = [accepted EXCEPT ![write] = <<>>]
  /\ MainGoto("unlock")
  /\ UNCHANGED <<lock, write, prod, frame, crashed, raced>>

\* exchangeQueues() returns and renderDrawQueue() begins at offset 0.
MainUnlock ==
  /\ MainAt("unlock")
  /\ lock' = Unlocked
  /\ main' = [pc |-> "draw", it |-> 0, link |-> 0]
  /\ UNCHANGED <<queues, write, prod, frame, history>>

\* Mutant of Inside: the test and the edge are one too far out.
InsideOrNext(pos) == IF pos > Width THEN Width ELSE pos

\* The position the renderer moves a command to.
Inside(pos) == IF pos >= Width THEN Width - 1 ELSE pos

\* Look at the element, unless it is blank and so has no operation type.  A
\* position outside the image is moved to its edge, in the element.
Clamp ==
  /\ MainAt("draw")
  /\ LET op == queues[read].op[main.it]
     IN IF op.pos = Blank
          THEN UNCHANGED queues /\ MainGoto("increment")
          ELSE /\ queues' = [queues EXCEPT ![read].op[main.it].pos = Inside(@)]
               /\ MainGoto("point")
  /\ UNCHANGED <<lock, write, prod, frame, history>>

\* drawPoint() with what the element holds by now.
DrawPoint ==
  /\ MainAt("point")
  /\ frame' = IF ~raced[read] /\ Len(frame) < MaxFrame
                THEN Append(frame, queues[read].op[main.it]) ELSE frame
  /\ MainGoto("increment")
  /\ UNCHANGED <<lock, queues, write, prod, history>>

\* increment() reads the link of the element, and then _allocIndex.
FollowLink ==
  /\ MainAt("increment")
  /\ main' = [main EXCEPT !.pc = "cut", !.link = queues[read].next[main.it]]
  /\ UNCHANGED <<lock, queues, write, prod, frame, history>>

CutLink ==
  /\ MainAt("cut")
  /\ LET next == Cut(queues[read], main.link)
     IN main' = [pc |-> IF AtEnd(next) THEN "present" ELSE "draw", it |-> next, link |-> 0]
  /\ UNCHANGED <<lock, queues, write, prod, frame, history>>

\* The render targets show the image, and the next round begins; the records
\* of this one are dropped.
Present ==
  /\ MainAt("present")
  /\ main' = [pc |-> "lock", it |-> INVALID_INDEX, link |-> 0]
  /\ frame' = <<>>
  /\ accepted' = [accepted EXCEPT ![read] = <<>>]
  /\ UNCHANGED <<lock, queues, write, prod, crashed, raced>>

Render == Clamp \/ DrawPoint \/ FollowLink \/ CutLink

MainLoop ==
  \/ MainLock \/ Swap \/ ClearWriteAlloc \/ ClearWriteLast \/ MainUnlock
  \/ Render \/ Present

-----------------------------------------------------------------------------

Next == MainLoop \/ \E p \in Producers : Call(p) \/ QueueDrawCmd(p)

\* The main thread keeps running, and so does a producer inside a call.
Fairness == WF_vars(MainLoop) /\ \A p \in Producers : WF_vars(QueueDrawCmd(p))

Spec == Init /\ [][Next]_vars /\ Fairness

-----------------------------------------------------------------------------
(* Properties                                                              *)

\* The members of FloodFillDrawIF, the locals of the calls and the iterator of
\* the main loop have the values of their types.
TypeOK ==
  /\ lock \in {0, 1}
  /\ queues \in [TwoQueues -> Queues]
  /\ write \in TwoQueues
  /\ prod \in [Producers ->
       [pc : {"idle", "lock", "get", "check", "claim", "init", "hook", "first", "readTail",
              "setLast", "link", "fill", "unlock"},
        cmd : Commands \cup {NoCommand}, q : TwoQueues, index : Offsets, tail : Word]]
  /\ main \in
       [pc : {"lock", "swap", "clearAlloc", "clearLast", "unlock", "draw", "point", "increment",
              "cut", "present"},
        it : Word, link : Word]
  /\ frame \in Seq(Payloads)
  /\ crashed \in {"no", "null", "wild"}
  /\ accepted \in [TwoQueues -> Seq(Commands)]
  /\ raced \in [TwoQueues -> BOOLEAN]

Rendering == main.pc \in {"draw", "point", "increment", "cut"}

Distance(x, y) == IF x < y THEN y - x ELSE x - y

\* What a command is meant to paint: the nearest pixel of the image.
Meant(c) == [c EXCEPT !.pos = CHOOSE x \in 0 .. Width - 1 :
                                \A y \in 0 .. Width - 1 : Distance(x, c.pos) <= Distance(y, c.pos)]

\* A queue no producer raced with is drawn exactly: every command that was
\* queued into it, once, in the order of the calls, inside the image.  If none
\* was queued, at most the first element of an earlier round is drawn again.
FrameExact ==
  MainAt("present") /\ ~raced[read] =>
    IF accepted[read] = <<>>
      THEN Len(frame) <= 1
      ELSE frame = [n \in DOMAIN accepted[read] |-> Meant(accepted[read][n])]

\* The process dies in queueDrawCmd() only when the write queue of the frame is
\* full or the call raced with a switch.
CrashOnlyFullOrRaced ==
  crashed # "no" =>
    \E q \in TwoQueues :
      \/ raced[q]
      \/ crashed = "null" /\ q = write /\ Len(accepted[q]) = Capacity

\* Even when calls race with switches the renderer only reads elements that
\* begin where one was allocated and lie inside the buffer.
ReadsWholeElements ==
  Rendering => main.it % ElementSize = 0 /\ main.it + ElementSize < MaxQueueSize

\* drawPoint() tests nothing: between the look at an element and the drawing
\* nobody may bring a position outside the image back, or the store leaves the
\* pixel storage.  Only a call that raced with a switch can.
DrawsInside == MainAt("point") /\ ~raced[read] => queues[read].op[main.it].pos < Width

\* Rendering a queue that no producer raced with gets nearer to the end of the
\* buffer with every element, and so it ends, whatever was in the buffer before.
RenderAdvances == [][MainAt("cut") /\ main' # main /\ ~raced[read] => main'.it > main.it]_vars

\* "Additionally this function is completely thread safe": whatever the calls
\* do meanwhile, the main loop comes to the end of the frame (or the process
\* dies because a queue is full).
FrameEnds == Rendering ~> main.pc = "present" \/ crashed # "no"

=============================================================================
