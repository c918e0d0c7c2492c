---------------------------- MODULE DrawIFProofs ----------------------------
(***************************************************************************)
(* What holds of the two queues and the frame drawn from them, for every   *)
(* size of the buffer, of its elements and of the image.                   *)
(*                                                                         *)
(* However many threads queue commands, the renderer reads whole elements, *)
(* and draws inside the image what no call has disturbed.  With a single   *)
(* one, as in the program, a frame is exactly what was queued for it.      *)
(***************************************************************************)
EXTENDS DrawIF, DrawQueueProofs, FiniteSetTheorems, TLAPS

\* Where the element number k begins, from 0.
Off(k) == k * ElementSize

\* Where an element may begin.
Starts == {i \in Offsets : (\E k \in Nat : i = Off(k)) /\ i + ElementSize < MaxQueueSize}

Links == Starts \cup {INVALID_INDEX}

Labels ==
  {"idle", "lock", "get", "check", "claim", "init", "hook", "first", "readTail", "setLast",
   "link", "fill", "unlock"}

Locals ==
  [pc : Labels, cmd : Commands \cup {NoCommand}, q : TwoQueues, index : Offsets, tail : Word]

\* Labels at which a call has no pointer to a queue.
Outside == {"idle", "lock", "get", "unlock"}

\* Elements are cut from the buffer one after the other, and no link leads
\* anywhere but to the beginning of one.
QueueShape(queue) ==
  /\ queue \in Queues
  /\ \E k \in Nat : queue.alloc = Off(k)
  /\ queue.last \in Links
  /\ \A i \in Starts : queue.next[i] \in Links

LocalsShape(l) ==
  /\ l \in Locals
  /\ l.index \in Starts
  /\ l.tail \in Links
  /\ l.pc \notin {"idle", "unlock"} => l.cmd \in Commands

Shape ==
  /\ \A q \in TwoQueues : QueueShape(queues[q])
  /\ \A p \in Producers : LocalsShape(prod[p])
  /\ crashed = "no" => \A q \in TwoQueues : queues[q].alloc < MaxQueueSize
  /\ Rendering => main.it \in Starts
  /\ main.pc = "cut" => main.link \in Links

\* A queue that is not raced is only in the hands of calls while it is the
\* write queue, and cleared.
NotHeld ==
  \A q \in TwoQueues : ~raced[q] => \A p \in Producers : Holds(p, q) =>
    q = write /\ main.pc \notin {"clearAlloc", "clearLast"}

Clamped ==
  main.pc = "point" /\ ~raced[read] => queues[read].op[main.it].pos \in 0 .. Width - 1

SafeInv == TypeOK /\ Shape /\ NotHeld /\ Clamped

-----------------------------------------------------------------------------
(* Offsets                                                                 *)

LEMMA OffNat == ASSUME NEW k \in Nat PROVE Off(k) \in Nat
BY QueueAssumption DEF Off

LEMMA OffNext == ASSUME NEW k \in Nat PROVE Off(k + 1) = Off(k) + ElementSize
BY QueueAssumption DEF Off

LEMMA OffZero == Off(0) = 0
BY QueueAssumption DEF Off

\* Elements follow each other without overlap.
LEMMA OffLess ==
  ASSUME NEW k \in Nat, NEW j \in Nat, k < j
  PROVE  Off(k) + ElementSize <= Off(j) /\ Off(k) < Off(j)
<1>1. PICK d \in Nat : j = k + 1 + d
  <2>1. j - k - 1 \in Nat /\ j = k + 1 + (j - k - 1)
    OBVIOUS
  <2> QED
    BY <2>1
<1>2. Off(j) = Off(k) + ElementSize + d * ElementSize
  BY <1>1, QueueAssumption DEF Off
<1>3. d * ElementSize \in Nat
  BY QueueAssumption
<1>4. Off(k) \in Nat
  BY OffNat
<1> QED
  BY <1>2, <1>3, <1>4, QueueAssumption

LEMMA OffInjective ==
  ASSUME NEW k \in Nat, NEW j \in Nat, Off(k) = Off(j)
  PROVE  k = j
<1>1. ~(k < j) /\ ~(j < k)
  BY OffLess, OffNat
<1> QED
  BY <1>1

LEMMA OffWhole == ASSUME NEW k \in Nat PROVE Off(k) % ElementSize = 0
BY QueueAssumption DEF Off

\* How many elements fit.
LEMMA CapacityBound ==
  ASSUME NEW n \in Nat
  PROVE  Off(n) < MaxQueueSize <=> n <= Capacity
<1>1. Capacity \in Nat
  BY QueueAssumption DEF Capacity
<1>2. Off(Capacity) <= MaxQueueSize - 1 /\ MaxQueueSize - 1 < Off(Capacity) + ElementSize
  BY QueueAssumption DEF Off, Capacity
<1>3. Off(n) \in Nat /\ Off(Capacity) \in Nat
  BY <1>1, OffNat
<1>4. CASE n <= Capacity
  BY <1>1, <1>2, <1>3, <1>4, OffLess, QueueAssumption
<1>5. CASE Capacity < n
  <2>1. Off(Capacity) + ElementSize <= Off(n)
    BY <1>1, <1>5, OffLess
  <2> QED
    BY <1>1, <1>2, <1>3, <1>5, <2>1, QueueAssumption
<1> QED
  BY <1>1, <1>4, <1>5

LEMMA StartsWords ==
  /\ Starts \subseteq Offsets /\ Starts \subseteq Word /\ Starts \subseteq Nat
  /\ Links \subseteq Word
  /\ 0 \in Starts
  /\ INVALID_INDEX \in Word /\ INVALID_INDEX \notin Offsets /\ INVALID_INDEX >= MaxQueueSize
<1>1. 0 \in Starts
  BY OffZero, QueueAssumption, DrawIFAssumption DEF Starts, Offsets
<1> QED
  BY <1>1, Words, QueueAssumption DEF Starts, Links, Offsets, INVALID_INDEX

\* The counter has room for one more element than fits into the buffer.
LEMMA RoomForOne ==
  ASSUME NEW p \in Producers
  PROVE  MaxQueueSize + ElementSize < WordSize
<1>1. Cardinality(Producers) \in Nat /\ Cardinality(Producers) # 0
  BY DrawIFAssumption, FS_CardinalityType, FS_EmptySet
<1>2. ElementSize * Cardinality(Producers) >= ElementSize
  BY <1>1, QueueAssumption
<1>3. ElementSize * Cardinality(Producers) \in Int
  BY <1>1, QueueAssumption
<1> QED
  BY <1>2, <1>3, QueueAssumption, DrawIFAssumption

-----------------------------------------------------------------------------
(* What the accesses to a queue keep                                       *)

LEMMA FreshShape == QueueShape(FreshQueue)
<1>1. \A i \in Starts : FreshQueue.next[i] = 0
  BY StartsWords DEF FreshQueue
<1> QED
  BY <1>1, FreshQueueType, StartsWords, OffZero DEF QueueShape, Links

LEMMA ClearShape ==
  ASSUME NEW queue, QueueShape(queue)
  PROVE  /\ QueueShape(ClearAlloc(queue)) /\ ClearAlloc(queue).alloc = 0
         /\ QueueShape(ClearLast(queue)) /\ ClearLast(queue).alloc = queue.alloc
<1>1. queue \in Queues
  BY DEF QueueShape
<1>2. /\ ClearAlloc(queue) \in Queues /\ ClearAlloc(queue).alloc = 0
      /\ ClearAlloc(queue).last = queue.last /\ ClearAlloc(queue).next = queue.next
  BY <1>1, Words DEF ClearAlloc, Queues
<1>3. /\ ClearLast(queue) \in Queues /\ ClearLast(queue).alloc = queue.alloc
      /\ ClearLast(queue).last = INVALID_INDEX /\ ClearLast(queue).next = queue.next
  BY <1>1, Words DEF ClearLast, Queues
<1>4. 0 \in Nat /\ INVALID_INDEX \in Links
  BY DEF Links
<1> QED
  BY <1>2, <1>3, <1>4, OffZero DEF QueueShape

\* An element that fits begins where the counter stood, and the counter does
\* not wrap.
LEMMA ClaimShape ==
  ASSUME NEW p \in Producers, NEW queue, QueueShape(queue), queue.alloc < MaxQueueSize
  PROVE  /\ QueueShape(FetchAdd(queue))
         /\ FetchAdd(queue).alloc = queue.alloc + ElementSize
         /\ Fits(queue.alloc) => queue.alloc \in Starts
         /\ Fits(queue.alloc) <=> FetchAdd(queue).alloc < MaxQueueSize
         /\ FetchAdd(queue).op = queue.op
<1>1. queue \in Queues /\ queue.alloc \in Nat
  BY DEF QueueShape, Queues, Word
<1>2. queue.alloc + ElementSize < WordSize
  BY <1>1, RoomForOne, QueueAssumption
<1>3. PICK k \in Nat : queue.alloc = Off(k)
  BY DEF QueueShape
<1>4. FetchAdd(queue).alloc = Off(k + 1) /\ k + 1 \in Nat
  BY <1>1, <1>2, <1>3, FetchAddType, OffNext
<1>5. FetchAdd(queue).next = queue.next
  BY <1>1 DEF FetchAdd, Queues
<1>6. Fits(queue.alloc) <=> queue.alloc + ElementSize < MaxQueueSize
  BY <1>1, <1>2, FetchAddType
<1>7. Fits(queue.alloc) => queue.alloc \in Starts
  BY <1>1, <1>3, <1>6, QueueAssumption DEF Starts, Offsets
<1>8. /\ FetchAdd(queue) \in Queues
      /\ FetchAdd(queue).alloc = queue.alloc + ElementSize
      /\ FetchAdd(queue).last = queue.last
      /\ FetchAdd(queue).op = queue.op
  BY <1>1, <1>2, FetchAddType
<1>9. QueueShape(FetchAdd(queue))
  BY <1>4, <1>5, <1>8 DEF QueueShape
<1> QED
  BY <1>6, <1>7, <1>8, <1>9

LEMMA LinkShape ==
  ASSUME NEW queue, QueueShape(queue), NEW i \in Starts, NEW j \in Starts
  PROVE  /\ QueueShape(InitNext(queue, i))
         /\ QueueShape(SetLast(queue, i))
         /\ QueueShape(Link(queue, i, j))
<1>1. i \in Offsets /\ j \in Offsets /\ i \in Links /\ j \in Links /\ INVALID_INDEX \in Links
  BY StartsWords DEF Links
<1>2. queue \in Queues
  BY DEF QueueShape
<1>3. /\ InitNext(queue, i).next = [queue.next EXCEPT ![i] = INVALID_INDEX]
      /\ SetLast(queue, i).next = queue.next
      /\ Link(queue, i, j).next = [queue.next EXCEPT ![i] = j]
  BY <1>2 DEF InitNext, SetLast, Link, Queues
<1>4. queue.next \in [Offsets -> Word] /\ \A k \in Starts : k \in Offsets
  BY <1>2, StartsWords DEF Queues
<1> QED
  <2>1. QueueShape(InitNext(queue, i))
    BY <1>1, <1>2, <1>3, <1>4, InitNextType DEF QueueShape
  <2>2. QueueShape(SetLast(queue, i))
    BY <1>1, <1>2, <1>3, <1>4, SetLastType DEF QueueShape
  <2>3. QueueShape(Link(queue, i, j))
    BY <1>1, <1>2, <1>3, <1>4, LinkType DEF QueueShape
  <2> QED
    BY <2>1, <2>2, <2>3

\* Copying a command changes its element, and no link.
LEMMA StoreAllEffect ==
  ASSUME NEW queue \in Queues, NEW i \in Offsets, NEW c \in Commands
  PROVE  /\ StoreAll(queue, i, c) \in Queues
         /\ StoreAll(queue, i, c).alloc = queue.alloc
         /\ StoreAll(queue, i, c).last = queue.last
         /\ StoreAll(queue, i, c).next = queue.next
         /\ StoreAll(queue, i, c).op = [queue.op EXCEPT ![i] = c]
<1> DEFINE half == Store(queue, i, "pos", c)
           all == Store(half, i, "color", c)
<1>1. /\ half \in Queues /\ half.alloc = queue.alloc /\ half.last = queue.last
      /\ \A j \in Offsets \ {i} : half.op[j] = queue.op[j]
      /\ half.op[i]["pos"] = c["pos"]
  BY StoreType
<1>2. half.next = queue.next
  BY DEF Store, Queues
<1> HIDE DEF half
<1>3. /\ all \in Queues /\ all.alloc = half.alloc /\ all.last = half.last
      /\ \A j \in Offsets \ {i} : all.op[j] = half.op[j]
      /\ all.op[i]["pos"] = half.op[i]["pos"] /\ all.op[i]["color"] = c["color"]
  BY <1>1, StoreType
<1>4. all.next = half.next
  BY <1>1 DEF Store, Queues
<1> HIDE DEF all
<1>5. all.op = [queue.op EXCEPT ![i] = c]
  <2>1. all.op \in [Offsets -> Payloads] /\ queue.op \in [Offsets -> Payloads]
    BY <1>3 DEF Queues
  <2>2. all.op[i] \in Payloads /\ all.op[i].pos = c.pos /\ all.op[i].color = c.color
    BY <1>1, <1>3, <2>1
  <2>3. all.op[i] = c
    BY <2>2 DEF Payloads, Commands
  <2> QED
    BY <1>1, <1>3, <2>1, <2>3
<1> QED
  BY <1>1, <1>2, <1>3, <1>4, <1>5 DEF StoreAll, half, all

LEMMA StoreAllShape ==
  ASSUME NEW queue, QueueShape(queue), NEW i \in Starts, NEW c \in Commands
  PROVE  QueueShape(StoreAll(queue, i, c))
<1>1. queue \in Queues /\ i \in Offsets
  BY StartsWords DEF QueueShape
<1> QED
  BY <1>1, StoreAllEffect DEF QueueShape

\* A link that is cut is one, or leads to the end.
LEMMA CutShape ==
  ASSUME NEW queue, NEW i \in Links
  PROVE  Cut(queue, i) \in Links
BY DEF Cut, Links

-----------------------------------------------------------------------------
(* Any number of calls                                                     *)

LEMMA MainAndWrite ==
  ASSUME TypeOK
  PROVE  /\ read \in TwoQueues /\ read # write
         /\ TwoQueues = {read, write}
         /\ main.it \in Word /\ main.link \in Word
BY DEF TypeOK, TwoQueues, read

LEMMA InitSafe == Init => SafeInv
<1> SUFFICES ASSUME Init PROVE SafeInv
  OBVIOUS
<1>1. Idle \in Locals /\ LocalsShape(Idle)
  BY StartsWords DEF Idle, Locals, Labels, TwoQueues, LocalsShape, Links
<1>2. TypeOK
  <2>1. prod \in [Producers -> Locals]
    BY <1>1 DEF Init
  <2>2. queues \in [TwoQueues -> Queues]
    BY FreshQueueType DEF Init
  <2>3. frame \in Seq(Payloads) /\ accepted \in [TwoQueues -> Seq(Commands)]
    BY DEF Init
  <2> QED
    BY <2>1, <2>2, <2>3, StartsWords DEF Init, TypeOK, Locals, Labels, TwoQueues, Unlocked
<1>3. Shape
  BY <1>1, FreshShape, FreshQueueType, QueueAssumption DEF Init, Shape, Rendering
<1>4. NotHeld /\ Clamped
  BY DEF Init, NotHeld, Holds, Idle, Clamped
<1> QED
  BY <1>2, <1>3, <1>4 DEF SafeInv

\* A step of a call: it changes its locals and, while it has a pointer to a
\* queue, that queue, keeping both in shape, and the record of what was queued.
Moves(p, l, queue) ==
  /\ prod' = [prod EXCEPT ![p] = l]
  /\ queues' = [queues EXCEPT ![prod[p].q] = queue]
  /\ l.pc \notin Outside => prod[p].pc \notin Outside /\ l.q = prod[p].q
  /\ prod[p].pc \in Outside => queue = queues[prod[p].q]
  /\ UNCHANGED <<write, main, frame, raced>>

CallStep(p, l, queue) ==
  /\ Moves(p, l, queue)
  /\ crashed' = "no" => queue.alloc < MaxQueueSize
  /\ crashed' \in {"no", "null", "wild"}
  /\ lock' \in {0, 1}
  /\ accepted' \in [TwoQueues -> Seq(Commands)]

LEMMA CallStepSafe ==
  ASSUME SafeInv, NEW p \in Producers, crashed = "no",
         NEW l, LocalsShape(l), NEW queue, QueueShape(queue), CallStep(p, l, queue)
  PROVE  SafeInv'
<1> USE DEF SafeInv, CallStep, Moves
<1> DEFINE q == prod[p].q
<1>1. q \in TwoQueues /\ prod \in [Producers -> Locals] /\ queues \in [TwoQueues -> Queues]
  BY DEF TypeOK, Locals, Labels
<1>2. l \in Locals /\ queue \in Queues
  BY DEF LocalsShape, QueueShape
<1>3. prod' \in [Producers -> Locals] /\ queues' \in [TwoQueues -> Queues]
  BY <1>1, <1>2
<1>4. TypeOK'
  BY <1>3 DEF TypeOK, Locals, Labels
<1>5. Shape'
  <2>1. \A r \in TwoQueues : QueueShape(queues'[r])
    BY <1>1 DEF Shape
  <2>2. \A r \in Producers : LocalsShape(prod'[r])
    BY <1>1 DEF Shape
  <2>3. crashed' = "no" => \A r \in TwoQueues : queues'[r].alloc < MaxQueueSize
    BY <1>1 DEF Shape
  <2> QED
    BY <2>1, <2>2, <2>3 DEF Shape, Rendering
<1>6. NotHeld'
  <2>1. \A r \in TwoQueues, s \in Producers : Holds(s, r)' => Holds(s, r)
    BY <1>1 DEF Holds, Outside
  <2> QED
    BY <2>1 DEF NotHeld
<1>7. Clamped'
  <2> SUFFICES ASSUME main.pc = "point", ~raced[read]
               PROVE  queues'[read].op[main.it].pos \in 0 .. Width - 1
    BY DEF Clamped, read
  <2>1. queues[read].op[main.it].pos \in 0 .. Width - 1
    BY DEF Clamped
  <2>2. CASE prod[p].pc \in Outside
    BY <1>1, <2>1, <2>2
  <2>3. CASE prod[p].pc \notin Outside
    <3>1. Holds(p, q)
      BY <2>3 DEF Holds, Outside
    <3>2. q # read
      BY <3>1, MainAndWrite DEF NotHeld
    <3> QED
      BY <1>1, <2>1, <3>2, MainAndWrite
  <2> QED
    BY <2>2, <2>3
<1> QED
  BY <1>4, <1>5, <1>6, <1>7

\* The common case: the queues stay as they are.
LEMMA LocalStepSafe ==
  ASSUME SafeInv, NEW p \in Producers, crashed = "no",
         NEW l, LocalsShape(l), prod' = [prod EXCEPT ![p] = l],
         l.pc \notin Outside => prod[p].pc \notin Outside /\ l.q = prod[p].q,
         crashed' \in {"no", "null", "wild"}, lock' \in {0, 1},
         UNCHANGED <<queues, write, main, frame, accepted, raced>>
  PROVE  SafeInv'
<1>1. prod[p].q \in TwoQueues /\ queues \in [TwoQueues -> Queues]
  BY DEF SafeInv, TypeOK
<1>2. queues' = [queues EXCEPT ![prod[p].q] = queues[prod[p].q]]
  BY <1>1
<1>3. CallStep(p, l, queues[prod[p].q])
  BY <1>1, <1>2 DEF CallStep, Moves, SafeInv, Shape, TypeOK
<1>4. QueueShape(queues[prod[p].q])
  BY <1>1 DEF SafeInv, Shape
<1> QED
  BY <1>3, <1>4, CallStepSafe

\* The locals of a call that goes on to a label keep their shape.
LEMMA GotoShape ==
  ASSUME SafeInv, NEW p \in Producers, NEW label \in Labels \ Outside,
         prod[p].pc \notin {"idle", "unlock"}
  PROVE  /\ LocalsShape([prod[p] EXCEPT !.pc = label])
         /\ [prod[p] EXCEPT !.pc = label].pc = label
         /\ [prod[p] EXCEPT !.pc = label].q = prod[p].q
         /\ Goto(p, label) => prod' = [prod EXCEPT ![p] = [prod[p] EXCEPT !.pc = label]]
<1>1. prod[p] \in Locals /\ prod \in [Producers -> Locals] /\ LocalsShape(prod[p])
  BY DEF SafeInv, Shape, TypeOK, Locals, Labels
<1> QED
  BY <1>1 DEF Goto, LocalsShape, Locals, Outside

LEMMA CallSafe ==
  ASSUME SafeInv, NEW p \in Producers, Call(p)
  PROVE  SafeInv'
<1>1. PICK c \in Commands : prod' = [prod EXCEPT ![p] = [Idle EXCEPT !.pc = "lock", !.cmd = c]]
  BY DEF Call
<1> DEFINE l == [Idle EXCEPT !.pc = "lock", !.cmd = c]
<1>2. Idle \in Locals /\ Idle.index = 0 /\ Idle.tail = 0
  BY StartsWords DEF Idle, Locals, Labels, TwoQueues
<1>3. LocalsShape(l) /\ l.pc \in Outside
  BY <1>2, StartsWords DEF LocalsShape, Locals, Labels, Outside, Links
<1> HIDE DEF l
<1>4. crashed = "no" /\ crashed' = crashed /\ lock' = lock
      /\ UNCHANGED <<queues, write, main, frame, accepted, raced>>
  BY DEF Call, At, mainVars, history
<1>5. prod' = [prod EXCEPT ![p] = l]
  BY <1>1 DEF l
<1> QED
  BY <1>3, <1>4, <1>5, LocalStepSafe DEF SafeInv, TypeOK

LEMMA LockSafe ==
  ASSUME SafeInv, NEW p \in Producers, Lock(p)
  PROVE  SafeInv'
<1>1. /\ prod[p].pc = "lock" /\ crashed = "no" /\ crashed' = crashed /\ lock' = 1
      /\ prod' = prod \/ Goto(p, "get")
      /\ UNCHANGED <<queues, write, main, frame, accepted, raced>>
  BY DEF Lock, At, mainVars, history, CompareExchange
<1>2. prod[p] \in Locals /\ prod \in [Producers -> Locals] /\ LocalsShape(prod[p])
  BY DEF SafeInv, Shape, TypeOK, Locals, Labels
<1> DEFINE l == IF prod' = prod THEN prod[p] ELSE [prod[p] EXCEPT !.pc = "get"]
<1>3. prod' = [prod EXCEPT ![p] = l]
  BY <1>1, <1>2 DEF Goto
<1>4. LocalsShape(l) /\ l.pc \in Outside
  BY <1>1, <1>2 DEF LocalsShape, Locals, Labels, Outside
<1> HIDE DEF l
<1> QED
  BY <1>1, <1>3, <1>4, LocalStepSafe DEF SafeInv, TypeOK

\* A call takes the pointer to the write queue.
LEMMA GetQueueSafe ==
  ASSUME SafeInv, NEW p \in Producers, GetQueue(p)
  PROVE  SafeInv'
<1> USE DEF SafeInv
<1>1. /\ prod[p].pc = "get" /\ crashed = "no"
      /\ prod' = [prod EXCEPT ![p].q = write, ![p].pc = "check"]
      /\ Race([raced EXCEPT ![write] = @ \/ main.pc \in {"clearAlloc", "clearLast"}])
      /\ UNCHANGED <<lock, queues, write, main, frame, crashed>>
  BY DEF GetQueue, At, mainVars
<1>2. /\ prod[p] \in Locals /\ prod \in [Producers -> Locals] /\ LocalsShape(prod[p])
      /\ write \in TwoQueues /\ raced \in [TwoQueues -> BOOLEAN]
  BY DEF Shape, TypeOK, Locals, Labels
<1> DEFINE l == [prod[p] EXCEPT !.q = write, !.pc = "check"]
<1>3. /\ l \in Locals /\ LocalsShape(l) /\ l.q = write /\ l.pc = "check"
      /\ prod' = [prod EXCEPT ![p] = l]
  BY <1>1, <1>2 DEF LocalsShape, Locals, Labels
<1> HIDE DEF l
<1>4. /\ raced' = [raced EXCEPT ![write] = @ \/ main.pc \in {"clearAlloc", "clearLast"}]
      /\ accepted' = [q \in TwoQueues |-> IF raced'[q] THEN <<>> ELSE accepted[q]]
  BY <1>1 DEF Race
<1>5. /\ \A q \in TwoQueues \ {write} : raced'[q] = raced[q]
      /\ raced'[write] = (raced[write] \/ main.pc \in {"clearAlloc", "clearLast"})
      /\ raced' \in [TwoQueues -> BOOLEAN]
  <2> DEFINE b == main.pc \in {"clearAlloc", "clearLast"}
  <2>1. raced' = [raced EXCEPT ![write] = raced[write] \/ b]
    BY <1>4
  <2> HIDE DEF b
  <2>2. (raced[write] \/ b) \in BOOLEAN
    OBVIOUS
  <2>3. raced' \in [TwoQueues -> BOOLEAN] /\ raced'[write] = (raced[write] \/ b)
    BY <1>2, <2>1, <2>2
  <2>4. \A q \in TwoQueues \ {write} : raced'[q] = raced[q]
    BY <1>2, <2>1
  <2> QED
    BY <2>3, <2>4 DEF b
<1>6. TypeOK'
  <2>1. prod' \in [Producers -> Locals]
    BY <1>2, <1>3
  <2>2. accepted' \in [TwoQueues -> Seq(Commands)]
    BY <1>4 DEF TypeOK
  <2> QED
    BY <1>1, <1>5, <2>1, <2>2 DEF TypeOK, Locals, Labels
<1>7. Shape'
  BY <1>1, <1>2, <1>3 DEF Shape, Rendering
<1>8. NotHeld'
  <2> SUFFICES ASSUME NEW q \in TwoQueues, ~raced'[q], NEW s \in Producers, Holds(s, q)'
               PROVE  q = write /\ main.pc \notin {"clearAlloc", "clearLast"}
    BY <1>1 DEF NotHeld
  <2>1. CASE s = p
    BY <1>2, <1>3, <1>5, <2>1 DEF Holds
  <2>2. CASE s # p
    <3>1. Holds(s, q)
      BY <1>2, <1>3, <2>2 DEF Holds
    <3> QED
      BY <1>5, <3>1 DEF NotHeld
  <2> QED
    BY <2>1, <2>2
<1>9. Clamped'
  BY <1>1, <1>5, MainAndWrite DEF Clamped, read
<1> QED
  BY <1>6, <1>7, <1>8, <1>9

\* The steps of allocateDrawOpRaw() and of the copying, on the call's queue.
LEMMA CheckFullSafe ==
  ASSUME SafeInv, NEW p \in Producers, CheckFull(p)
  PROVE  SafeInv'
<1>1. /\ prod[p].pc = "check" /\ crashed = "no" /\ lock' = lock
      /\ UNCHANGED <<queues, write, main, frame, accepted, raced>>
  BY DEF CheckFull, At, mainVars
<1>2. prod \in [Producers -> Locals] /\ LocalsShape(prod[p])
  BY DEF SafeInv, Shape, TypeOK, Locals, Labels
<1>3. CASE IsFull(Queue(p))
  <2>1. crashed' = "null" /\ prod' = prod
    BY <1>3 DEF CheckFull
  <2>2. prod' = [prod EXCEPT ![p] = prod[p]]
    BY <1>2, <2>1
  <2> QED
    BY <1>1, <1>2, <2>1, <2>2, LocalStepSafe DEF SafeInv, TypeOK, Outside
<1>4. CASE ~IsFull(Queue(p))
  <2>1. crashed' = crashed /\ Goto(p, "claim")
    BY <1>4 DEF CheckFull
  <2>2. "claim" \in Labels \ Outside
    BY DEF Labels, Outside
  <2> QED
    BY <1>1, <2>1, <2>2, GotoShape, LocalStepSafe DEF SafeInv, TypeOK, Outside
<1> QED
  BY <1>3, <1>4

LEMMA ClaimSafe ==
  ASSUME SafeInv, NEW p \in Producers, Claim(p)
  PROVE  SafeInv'
<1> DEFINE queue == queues[prod[p].q]
<1>1. /\ prod[p].pc = "claim" /\ crashed = "no"
      /\ queues' = [queues EXCEPT ![prod[p].q] = FetchAdd(queue)]
      /\ IF Fits(queue.alloc)
           THEN prod' = [prod EXCEPT ![p].index = queue.alloc, ![p].pc = "init"]
                /\ crashed' = crashed
           ELSE crashed' = "null" /\ prod' = prod
      /\ UNCHANGED <<lock, write, main, frame, accepted, raced>>
  BY DEF Claim, At, mainVars, Queue, Update
<1>2. prod \in [Producers -> Locals] /\ LocalsShape(prod[p]) /\ prod[p] \in Locals
  BY DEF SafeInv, Shape, TypeOK, Locals, Labels
<1>3. QueueShape(queue) /\ queue.alloc < MaxQueueSize
  BY <1>1, <1>2 DEF SafeInv, Shape, Locals
<1> HIDE DEF queue
<1>4. /\ QueueShape(FetchAdd(queue))
      /\ Fits(queue.alloc) => queue.alloc \in Starts
      /\ Fits(queue.alloc) <=> FetchAdd(queue).alloc < MaxQueueSize
  BY <1>3, ClaimShape
<1>5. CASE Fits(queue.alloc)
  <2> DEFINE l == [prod[p] EXCEPT !.index = queue.alloc, !.pc = "init"]
  <2>1. l \in Locals /\ LocalsShape(l) /\ l.q = prod[p].q /\ l.pc = "init"
    BY <1>1, <1>2, <1>4, <1>5, StartsWords DEF LocalsShape, Locals, Labels
  <2>2. prod' = [prod EXCEPT ![p] = l]
    BY <1>1, <1>2, <1>5
  <2> HIDE DEF l
  <2>3. CallStep(p, l, FetchAdd(queue))
    BY <1>1, <1>4, <1>5, <2>1, <2>2 DEF CallStep, Moves, Outside, SafeInv, TypeOK
  <2> QED
    BY <1>1, <1>4, <2>1, <2>3, CallStepSafe
<1>6. CASE ~Fits(queue.alloc)
  <2>1. prod' = [prod EXCEPT ![p] = prod[p]]
    BY <1>1, <1>2, <1>6
  <2>2. CallStep(p, prod[p], FetchAdd(queue))
    BY <1>1, <1>4, <1>6, <2>1 DEF CallStep, Moves, Outside, SafeInv, TypeOK
  <2> QED
    BY <1>1, <1>2, <1>4, <2>2, CallStepSafe
<1> QED
  BY <1>5, <1>6

\* Steps that write to the queue and go on to a label.
LEMMA WriteStepSafe ==
  ASSUME SafeInv, NEW p \in Producers, crashed = "no", crashed' = crashed,
         NEW label \in Labels \ Outside, prod[p].pc \notin Outside, Goto(p, label),
         NEW queue, QueueShape(queue), queue.alloc = Queue(p).alloc, Update(p, queue),
         UNCHANGED <<lock, mainVars, accepted, raced>>
  PROVE  SafeInv'
<1> DEFINE l == [prod[p] EXCEPT !.pc = label]
<1>1. LocalsShape(l) /\ l.pc = label /\ l.q = prod[p].q /\ prod' = [prod EXCEPT ![p] = l]
  BY GotoShape DEF Outside
<1> HIDE DEF l
<1>2. prod[p].q \in TwoQueues
  BY DEF SafeInv, TypeOK
<1>3. queue.alloc < MaxQueueSize
  BY <1>2 DEF SafeInv, Shape, Queue
<1>4. CallStep(p, l, queue)
  BY <1>1, <1>3 DEF CallStep, Moves, Update, mainVars, SafeInv, TypeOK
<1> QED
  BY <1>1, <1>4, CallStepSafe

LEMMA OwnQueue ==
  ASSUME SafeInv, NEW p \in Producers
  PROVE  /\ QueueShape(Queue(p)) /\ Queue(p) \in Queues
         /\ prod[p].index \in Starts /\ prod[p].index \in Offsets
         /\ prod[p].tail \in Links
         /\ prod[p].q \in TwoQueues
BY StartsWords DEF SafeInv, TypeOK, Shape, Queue, QueueShape, LocalsShape

LEMMA HookStepsSafe ==
  ASSUME SafeInv, NEW p \in Producers, InitElement(p) \/ HookFirst(p) \/ HookLast(p)
  PROVE  SafeInv'
<1>1. /\ crashed = "no" /\ crashed' = crashed
      /\ prod[p].pc \notin Outside
      /\ UNCHANGED <<lock, mainVars, accepted, raced>>
  BY DEF InitElement, HookFirst, HookLast, At, history, Outside
<1>2. {"hook", "fill", "link"} \subseteq Labels \ Outside
  BY DEF Labels, Outside
<1> USE OwnQueue, LinkShape, InitNextType, SetLastType, StartsWords
<1>3. CASE InitElement(p)
  BY <1>1, <1>2, <1>3, WriteStepSafe DEF InitElement
<1>4. CASE HookFirst(p)
  BY <1>1, <1>2, <1>4, WriteStepSafe DEF HookFirst
<1>5. CASE HookLast(p)
  BY <1>1, <1>2, <1>5, WriteStepSafe DEF HookLast
<1> QED
  BY <1>3, <1>4, <1>5

LEMMA HookTestSafe ==
  ASSUME SafeInv, NEW p \in Producers, HookTest(p)
  PROVE  SafeInv'
<1>1. PICK label \in {"readTail", "first", "fill"} : Goto(p, label)
  BY DEF HookTest
<1>2. /\ prod[p].pc = "hook" /\ crashed = "no" /\ crashed' = crashed /\ lock' = lock
      /\ UNCHANGED <<queues, write, main, frame, accepted, raced>>
  BY DEF HookTest, At, mainVars, history
<1>3. label \in Labels \ Outside
  BY <1>1 DEF Labels, Outside
<1> QED
  BY <1>1, <1>2, <1>3, GotoShape, LocalStepSafe DEF SafeInv, TypeOK, Outside

LEMMA ReadTailSafe ==
  ASSUME SafeInv, NEW p \in Producers, ReadTail(p)
  PROVE  SafeInv'
<1> DEFINE l == [prod[p] EXCEPT !.tail = Queue(p).last, !.pc = "setLast"]
<1>1. /\ prod[p].pc = "readTail" /\ crashed = "no" /\ crashed' = crashed /\ lock' = lock
      /\ prod' = [prod EXCEPT ![p].tail = Queue(p).last, ![p].pc = "setLast"]
      /\ UNCHANGED <<queues, write, main, frame, accepted, raced>>
  BY DEF ReadTail, At, mainVars, history
<1>2. prod \in [Producers -> Locals] /\ LocalsShape(prod[p]) /\ prod[p] \in Locals
  BY DEF SafeInv, Shape, TypeOK, Locals, Labels
<1>3. Queue(p).last \in Links /\ Queue(p).last \in Word
  BY OwnQueue, StartsWords DEF QueueShape
<1>4. LocalsShape(l) /\ l.q = prod[p].q /\ prod' = [prod EXCEPT ![p] = l]
  BY <1>1, <1>2, <1>3 DEF LocalsShape, Locals, Labels
<1> HIDE DEF l
<1> QED
  BY <1>1, <1>4, LocalStepSafe DEF SafeInv, TypeOK, Outside

LEMMA HookLinkSafe ==
  ASSUME SafeInv, NEW p \in Producers, HookLink(p)
  PROVE  SafeInv'
<1>1. prod[p].pc = "link" /\ crashed = "no" /\ UNCHANGED <<lock, mainVars, accepted, raced>>
  BY DEF HookLink, At
<1>2. prod \in [Producers -> Locals] /\ LocalsShape(prod[p]) /\ prod[p] \in Locals
  BY DEF SafeInv, Shape, TypeOK, Locals, Labels
<1>3. CASE prod[p].tail \in Offsets
  <2> DEFINE l == [prod[p] EXCEPT !.tail = 0, !.pc = "fill"]
             queue == Link(Queue(p), prod[p].tail, prod[p].index)
  <2>1. /\ queues' = [queues EXCEPT ![prod[p].q] = queue]
        /\ prod' = [prod EXCEPT ![p].tail = 0, ![p].pc = "fill"]
        /\ crashed' = crashed
    BY <1>3 DEF HookLink, Update
  <2>2. prod[p].tail \in Starts
    BY <1>3, OwnQueue, StartsWords DEF Links
  <2>3. QueueShape(queue) /\ queue.alloc = Queue(p).alloc
    BY <2>2, OwnQueue, LinkShape, LinkType, StartsWords
  <2>4. LocalsShape(l) /\ l.q = prod[p].q /\ prod' = [prod EXCEPT ![p] = l]
    BY <1>1, <1>2, <2>1, StartsWords DEF LocalsShape, Locals, Labels, Links
  <2>5. queue.alloc < MaxQueueSize
    BY <1>1, <2>3, OwnQueue DEF SafeInv, Shape, Queue
  <2> HIDE DEF l, queue
  <2>6. CallStep(p, l, queue)
    BY <1>1, <2>1, <2>4, <2>5 DEF CallStep, Moves, mainVars, SafeInv, TypeOK, Outside
  <2> QED
    BY <1>1, <2>3, <2>4, <2>6, CallStepSafe
<1>4. CASE prod[p].tail \notin Offsets
  <2>1. crashed' = "wild" /\ queues' = queues /\ prod' = prod
    BY <1>4 DEF HookLink
  <2>2. prod' = [prod EXCEPT ![p] = prod[p]]
    BY <1>2, <2>1
  <2> QED
    BY <1>1, <1>2, <2>1, <2>2, LocalStepSafe DEF SafeInv, TypeOK, Outside, mainVars
<1> QED
  BY <1>3, <1>4

LEMMA FillSafe ==
  ASSUME SafeInv, NEW p \in Producers, Fill(p)
  PROVE  SafeInv'
<1> DEFINE l == [Idle EXCEPT !.pc = "unlock"]
           queue == StoreAll(Queue(p), prod[p].index, prod[p].cmd)
<1>1. /\ prod[p].pc = "fill" /\ crashed = "no" /\ crashed' = crashed /\ lock' = lock
      /\ queues' = [queues EXCEPT ![prod[p].q] = queue]
      /\ prod' = [prod EXCEPT ![p] = l]
      /\ accepted' = [accepted EXCEPT ![prod[p].q] =
                        IF raced[prod[p].q] THEN <<>> ELSE Append(@, prod[p].cmd)]
      /\ UNCHANGED <<write, main, frame, raced>>
  BY DEF Fill, At, mainVars, Update
<1>2. prod[p].cmd \in Commands /\ prod[p].q \in TwoQueues
  BY <1>1 DEF SafeInv, Shape, LocalsShape, TypeOK
<1>3. /\ Idle \in Locals /\ Idle.index = 0 /\ Idle.tail = 0
  BY StartsWords DEF Idle, Locals, Labels, TwoQueues
<1>4. LocalsShape(l) /\ l.pc \in Outside
  BY <1>3, StartsWords DEF LocalsShape, Locals, Labels, Outside, Links
<1>5. QueueShape(queue) /\ queue.alloc = Queue(p).alloc
  BY <1>2, OwnQueue, StoreAllShape, StoreAllEffect
<1>6. queue.alloc < MaxQueueSize
  BY <1>1, <1>2, <1>5 DEF SafeInv, Shape, Queue
<1>7. accepted' \in [TwoQueues -> Seq(Commands)]
  <2>1. accepted \in [TwoQueues -> Seq(Commands)]
    BY DEF SafeInv, TypeOK
  <2> DEFINE v == IF raced[prod[p].q] THEN <<>> ELSE Append(accepted[prod[p].q], prod[p].cmd)
  <2>2. v \in Seq(Commands)
    BY <1>2, <2>1
  <2>3. accepted' = [accepted EXCEPT ![prod[p].q] = v]
    BY <1>1
  <2> HIDE DEF v
  <2> QED
    BY <2>1, <2>2, <2>3
<1> HIDE DEF l, queue
<1>8. CallStep(p, l, queue)
  BY <1>1, <1>4, <1>6, <1>7 DEF CallStep, Moves, SafeInv, TypeOK, Outside
<1> QED
  BY <1>1, <1>4, <1>5, <1>8, CallStepSafe

LEMMA UnlockSafe ==
  ASSUME SafeInv, NEW p \in Producers, Unlock(p)
  PROVE  SafeInv'
<1>1. /\ prod[p].pc = "unlock" /\ crashed = "no" /\ crashed' = crashed /\ lock' = 0
      /\ prod' = [prod EXCEPT ![p].pc = "idle"]
      /\ UNCHANGED <<queues, write, main, frame, accepted, raced>>
  BY DEF Unlock, At, mainVars, history, Goto, Unlocked
<1>2. prod \in [Producers -> Locals] /\ LocalsShape(prod[p]) /\ prod[p] \in Locals
  BY DEF SafeInv, Shape, TypeOK, Locals, Labels
<1> DEFINE l == [prod[p] EXCEPT !.pc = "idle"]
<1>3. LocalsShape(l) /\ l.pc \in Outside /\ prod' = [prod EXCEPT ![p] = l]
  BY <1>1, <1>2 DEF LocalsShape, Locals, Labels, Outside
<1> HIDE DEF l
<1> QED
  BY <1>1, <1>3, LocalStepSafe DEF SafeInv, TypeOK

\* Steps of the main loop that leave the queues, the records and the calls
\* alone.
LEMMA MainStepSafe ==
  ASSUME SafeInv, main' \in [pc : {"lock", "swap", "clearAlloc", "clearLast", "unlock", "draw",
                                   "point", "increment", "cut", "present"}, it : Word, link : Word],
         main'.pc \in {"draw", "point", "increment", "cut"} => main'.it \in Starts,
         main'.pc = "cut" => main'.link \in Links,
         main'.pc \in {"clearAlloc", "clearLast"} => main.pc \in {"clearAlloc", "clearLast"},
         main'.pc = "point" => main = main',
         frame' \in Seq(Payloads), lock' \in {0, 1}, accepted' \in [TwoQueues -> Seq(Commands)],
         UNCHANGED <<queues, write, prod, crashed, raced>>
  PROVE  SafeInv'
<1> USE DEF SafeInv
<1>1. TypeOK'
  BY DEF TypeOK
<1>2. Shape'
  BY DEF Shape, Rendering
<1>3. NotHeld'
  BY DEF NotHeld, Holds
<1>4. Clamped'
  BY DEF Clamped, read
<1> QED
  BY <1>1, <1>2, <1>3, <1>4

LEMMA MainQuietSafe ==
  ASSUME SafeInv, MainLock \/ MainUnlock \/ Present
  PROVE  SafeInv'
<1>1. main \in [pc : {"lock", "swap", "clearAlloc", "clearLast", "unlock", "draw",
                      "point", "increment", "cut", "present"}, it : Word, link : Word]
      /\ accepted \in [TwoQueues -> Seq(Commands)] /\ frame \in Seq(Payloads) /\ lock \in {0, 1}
      /\ read \in TwoQueues
  BY MainAndWrite DEF SafeInv, TypeOK
<1>2. CASE MainLock
  <2>1. /\ main.pc = "lock" /\ lock' = 1 /\ (main' = main \/ main' = [main EXCEPT !.pc = "swap"])
        /\ UNCHANGED <<queues, write, prod, frame, crashed, accepted, raced>>
    BY <1>2 DEF MainLock, MainAt, MainGoto, history, CompareExchange
  <2>2. main'.pc \in {"lock", "swap"} /\ main' \in [pc : {"lock", "swap", "clearAlloc", "clearLast", "unlock", "draw",
                                                "point", "increment", "cut", "present"}, it : Word, link : Word]
    BY <1>1, <2>1
  <2>3. accepted' = accepted /\ frame' = frame
    BY <2>1
  <2> QED
    BY <1>1, <2>1, <2>2, <2>3, MainStepSafe
<1>3. CASE MainUnlock
  <2>1. /\ lock' = 0 /\ main' = [pc |-> "draw", it |-> 0, link |-> 0]
        /\ UNCHANGED <<queues, write, prod, frame, crashed, accepted, raced>>
    BY <1>3 DEF MainUnlock, history, Unlocked
  <2> QED
    BY <1>1, <2>1, StartsWords, MainStepSafe
<1>4. CASE Present
  <2>1. /\ main' = [pc |-> "lock", it |-> INVALID_INDEX, link |-> 0] /\ frame' = <<>>
        /\ accepted' = [accepted EXCEPT ![read] = <<>>]
        /\ UNCHANGED <<lock, queues, write, prod, crashed, raced>>
    BY <1>4 DEF Present
  <2>2. accepted' \in [TwoQueues -> Seq(Commands)]
    BY <1>1, <2>1
  <2> QED
    BY <1>1, <2>1, <2>2, StartsWords, MainStepSafe
<1> QED
  BY <1>2, <1>3, <1>4

\* The exchange marks the queues that calls are still at work on.
SwapMarks ==
  [raced EXCEPT ![write] = raced[write] \/ \E p \in Producers : Holds(p, write),
                ![read] = \E p \in Producers : Holds(p, read)]

LEMMA SwapMarked ==
  ASSUME TypeOK, Swap
  PROVE  /\ raced' \in [TwoQueues -> BOOLEAN]
         /\ raced'[write] = (raced[write] \/ \E p \in Producers : Holds(p, write))
         /\ raced'[read] = (\E p \in Producers : Holds(p, read))
         /\ accepted' = [q \in TwoQueues |-> IF raced'[q] THEN <<>> ELSE accepted[q]]
<1> DEFINE a == \E p \in Producers : Holds(p, write)
           b == \E p \in Producers : Holds(p, read)
<1>1. /\ raced' = [raced EXCEPT ![write] = raced[write] \/ a, ![read] = b]
      /\ accepted' = [q \in TwoQueues |-> IF raced'[q] THEN <<>> ELSE accepted[q]]
  BY DEF Swap, Race, TypeOK
<1>2. a \in BOOLEAN /\ b \in BOOLEAN
  OBVIOUS
<1> HIDE DEF a, b
<1>3. (raced[write] \/ a) \in BOOLEAN
  OBVIOUS
<1>4. raced \in [TwoQueues -> BOOLEAN] /\ write \in TwoQueues
  BY DEF TypeOK
<1>5. /\ raced' \in [TwoQueues -> BOOLEAN]
      /\ raced'[write] = (raced[write] \/ a)
      /\ raced'[read] = b
  BY <1>1, <1>2, <1>3, <1>4, MainAndWrite
<1> QED
  BY <1>1, <1>5 DEF a, b

LEMMA SwapSafe ==
  ASSUME SafeInv, Swap
  PROVE  SafeInv'
<1> USE DEF SafeInv
<1>1. /\ main.pc = "swap" /\ crashed' = crashed
      /\ write' = read /\ main' = [main EXCEPT !.pc = "clearAlloc"]
      /\ UNCHANGED <<lock, queues, prod, frame>>
  BY DEF Swap, MainAt, MainGoto
<1>2. main' = [pc |-> "clearAlloc", it |-> main.it, link |-> main.link]
  BY <1>1 DEF TypeOK
<1>3. read' = write /\ write' # write
  BY <1>1 DEF read, TypeOK, TwoQueues
<1>4. accepted' \in [TwoQueues -> Seq(Commands)]
  <2>1. \A q \in TwoQueues : accepted[q] \in Seq(Commands) /\ <<>> \in Seq(Commands)
    BY DEF TypeOK
  <2> QED
    BY <2>1, SwapMarked
<1>5. TypeOK'
  BY <1>1, <1>2, <1>4, SwapMarked, MainAndWrite DEF TypeOK
<1>6. Shape' /\ Clamped'
  BY <1>1, <1>2 DEF Shape, Rendering, Clamped
<1>7. NotHeld'
  <2> SUFFICES ASSUME NEW q \in TwoQueues, ~raced'[q], NEW p \in Producers, Holds(p, q)
               PROVE  FALSE
    BY <1>1 DEF NotHeld, Holds
  <2> QED
    BY SwapMarked, MainAndWrite
<1> QED
  BY <1>5, <1>6, <1>7

LEMMA ClearSafe ==
  ASSUME SafeInv, ClearWriteAlloc \/ ClearWriteLast
  PROVE  SafeInv'
<1> USE DEF SafeInv
<1>1. PICK queue \in {ClearAlloc(queues[write]), ClearLast(queues[write])} :
        /\ queues' = [queues EXCEPT ![write] = queue]
        /\ main.pc \in {"clearAlloc", "clearLast"}
        /\ crashed = "no" /\ crashed' = crashed
        /\ \E label \in {"clearLast", "unlock"} : main' = [main EXCEPT !.pc = label]
        /\ accepted' \in {accepted, [accepted EXCEPT ![write] = <<>>]}
        /\ UNCHANGED <<lock, write, prod, frame, raced>>
  BY DEF ClearWriteAlloc, ClearWriteLast, MainAt, MainGoto, history
<1>2. write \in TwoQueues /\ QueueShape(queues[write]) /\ queues \in [TwoQueues -> Queues]
      /\ queues[write].alloc < MaxQueueSize
  BY <1>1 DEF TypeOK, Shape
<1>3. QueueShape(queue) /\ queue.alloc < MaxQueueSize /\ queue \in Queues
  BY <1>1, <1>2, ClearShape, QueueAssumption DEF QueueShape
<1>4. main'.pc \in {"clearLast", "unlock"} /\ main'.it = main.it
      /\ main' \in [pc : {"clearLast", "unlock"}, it : Word, link : Word]
  BY <1>1 DEF TypeOK
<1>5. TypeOK'
  <2>1. accepted' \in [TwoQueues -> Seq(Commands)]
    <3>1. accepted \in [TwoQueues -> Seq(Commands)] /\ <<>> \in Seq(Commands)
      BY DEF TypeOK
    <3>2. [accepted EXCEPT ![write] = <<>>] \in [TwoQueues -> Seq(Commands)]
      BY <3>1
    <3> QED
      BY <1>1, <3>1, <3>2
  <2>2. queues' \in [TwoQueues -> Queues]
    BY <1>1, <1>2, <1>3
  <2>3. main' \in [pc : {"lock", "swap", "clearAlloc", "clearLast", "unlock", "draw",
                         "point", "increment", "cut", "present"}, it : Word, link : Word]
    BY <1>4
  <2> QED
    BY <1>1, <2>1, <2>2, <2>3 DEF TypeOK
<1>6. Shape'
  BY <1>1, <1>2, <1>3, <1>4 DEF Shape, Rendering
<1>7. NotHeld'
  BY <1>1, <1>4 DEF NotHeld, Holds
<1>8. Clamped'
  BY <1>4 DEF Clamped
<1> QED
  BY <1>5, <1>6, <1>7, <1>8

\* A position that is moved lands on the image.
LEMMA InsideImage ==
  ASSUME NEW x \in Positions
  PROVE  Inside(x) \in 0 .. Width - 1 /\ Inside(x) \in Positions
BY DrawIFAssumption DEF Inside

\* Clamping touches one position, and no link.
LEMMA ClampEffect ==
  ASSUME SafeInv, Clamp, queues[read].op[main.it].pos # Blank
  PROVE  /\ main.it \in Starts /\ main' = [main EXCEPT !.pc = "point"]
         /\ \E queue \in Queues :
              /\ queues' = [queues EXCEPT ![read] = queue]
              /\ queue.alloc = queues[read].alloc
              /\ queue.last = queues[read].last
              /\ queue.next = queues[read].next
              /\ \A i \in Offsets \ {main.it} : queue.op[i] = queues[read].op[i]
              /\ queue.op[main.it] =
                   [pos |-> Inside(queues[read].op[main.it].pos),
                    color |-> queues[read].op[main.it].color]
<1> DEFINE old == queues[read]
           queue == [old EXCEPT !.op[main.it].pos = Inside(@)]
<1>1. main.it \in Starts /\ main.it \in Offsets
  BY StartsWords DEF Clamp, MainAt, SafeInv, Shape, Rendering
<1>2. /\ main' = [main EXCEPT !.pc = "point"]
      /\ queues' = [queues EXCEPT ![read].op[main.it].pos = Inside(@)]
  BY DEF Clamp, MainGoto
<1>3. queues \in [TwoQueues -> Queues] /\ old \in Queues
  BY MainAndWrite DEF SafeInv, TypeOK
<1>4. queues' = [queues EXCEPT ![read] = queue]
  BY <1>2, <1>3
<1> HIDE DEF old
<1>5. old.op[main.it] \in Payloads /\ old.op[main.it].pos # Blank
  BY <1>1, <1>3 DEF Queues, old
<1>6. Inside(old.op[main.it].pos) \in Positions
  BY <1>5, InsideImage DEF Payloads
<1> DEFINE new == [pos |-> Inside(old.op[main.it].pos), color |-> old.op[main.it].color]
<1>7. new \in Payloads
  BY <1>5, <1>6 DEF Payloads
<1>8. queue.alloc = old.alloc /\ queue.last = old.last /\ queue.next = old.next
      /\ queue.op = [old.op EXCEPT ![main.it] = [old.op[main.it] EXCEPT !.pos = Inside(@)]]
      /\ queue \in [alloc : {old.alloc}, last : {old.last}, next : {old.next}, op : {queue.op}]
  BY <1>3 DEF Queues
<1>9. [old.op[main.it] EXCEPT !.pos = Inside(@)] = new
  BY <1>5 DEF Payloads
<1> HIDE DEF queue, new
<1>10. queue.op = [old.op EXCEPT ![main.it] = new]
  BY <1>8, <1>9
<1>11. queue \in Queues
  BY <1>3, <1>7, <1>8, <1>10, <1>1 DEF Queues
<1> QED
  BY <1>1, <1>2, <1>3, <1>4, <1>8, <1>10, <1>11 DEF Queues, old, new

LEMMA ClampSafe ==
  ASSUME SafeInv, Clamp
  PROVE  SafeInv'
<1> USE DEF SafeInv
<1>1. /\ main.pc = "draw" /\ crashed = "no" /\ crashed' = crashed
      /\ UNCHANGED <<lock, write, prod, frame, accepted, raced>>
  BY DEF Clamp, MainAt, history
<1>2. main.it \in Starts /\ main.it \in Offsets /\ main.it \in Word
  BY <1>1, StartsWords, MainAndWrite DEF Shape, Rendering
<1>3. CASE queues[read].op[main.it].pos = Blank
  <2>1. queues' = queues /\ main' = [main EXCEPT !.pc = "increment"]
    BY <1>3 DEF Clamp, MainGoto
  <2>2. main' = [pc |-> "increment", it |-> main.it, link |-> main.link]
    BY <2>1 DEF TypeOK
  <2> QED
    BY <1>1, <1>2, <2>1, <2>2, MainStepSafe DEF TypeOK
<1>4. CASE queues[read].op[main.it].pos # Blank
  <2>1. PICK queue \in Queues :
          /\ queues' = [queues EXCEPT ![read] = queue]
          /\ queue.alloc = queues[read].alloc
          /\ queue.last = queues[read].last
          /\ queue.next = queues[read].next
          /\ queue.op[main.it] =
               [pos |-> Inside(queues[read].op[main.it].pos),
                color |-> queues[read].op[main.it].color]
    BY <1>4, ClampEffect
  <2>2. main' = [pc |-> "point", it |-> main.it, link |-> main.link]
    BY <1>4, ClampEffect DEF TypeOK
  <2>3. queues \in [TwoQueues -> Queues] /\ read \in TwoQueues
    BY MainAndWrite DEF TypeOK
  <2>4. queues' \in [TwoQueues -> Queues]
    BY <2>1, <2>3
  <2>5. TypeOK'
    BY <1>1, <1>2, <2>2, <2>4 DEF TypeOK
  <2>6. QueueShape(queue) /\ queue.alloc < MaxQueueSize
    BY <1>1, <2>1, <2>3 DEF Shape, QueueShape
  <2>7. Shape'
    BY <1>1, <1>2, <2>1, <2>2, <2>3, <2>6 DEF Shape, Rendering
  <2>8. NotHeld'
    BY <1>1, <2>2 DEF NotHeld, Holds
  <2>9. Clamped'
    <3>1. queues[read].op[main.it] \in Payloads
      BY <1>2, <2>3 DEF Queues
    <3>2. Inside(queues[read].op[main.it].pos) \in 0 .. Width - 1
      BY <1>4, <3>1, InsideImage DEF Payloads
    <3>3. queues'[read].op[main.it].pos \in 0 .. Width - 1
      BY <2>1, <2>3, <3>2
    <3> QED
      BY <1>1, <2>2, <3>3 DEF Clamped, read
  <2> QED
    BY <2>5, <2>7, <2>8, <2>9
<1> QED
  BY <1>3, <1>4

LEMMA DrawSafe ==
  ASSUME SafeInv, DrawPoint \/ FollowLink \/ CutLink
  PROVE  SafeInv'
<1>1. /\ main.it \in Starts /\ main.it \in Offsets /\ main.it \in Word
      /\ read \in TwoQueues /\ QueueShape(queues[read])
      /\ queues[read] \in Queues
  BY StartsWords, MainAndWrite
    DEF DrawPoint, FollowLink, CutLink, MainAt, SafeInv, Shape, Rendering, QueueShape
<1>2. /\ main \in [pc : {"lock", "swap", "clearAlloc", "clearLast", "unlock", "draw",
                         "point", "increment", "cut", "present"}, it : Word, link : Word]
      /\ lock \in {0, 1} /\ accepted \in [TwoQueues -> Seq(Commands)] /\ frame \in Seq(Payloads)
  BY DEF SafeInv, TypeOK
<1>3. CASE DrawPoint
  <2>1. /\ main' = [main EXCEPT !.pc = "increment"]
        /\ UNCHANGED <<lock, queues, write, prod, crashed, accepted, raced>>
        /\ frame' \in {frame, Append(frame, queues[read].op[main.it])}
    BY <1>3 DEF DrawPoint, MainGoto, history
  <2>2. main' = [pc |-> "increment", it |-> main.it, link |-> main.link]
    BY <1>2, <2>1
  <2>3. queues[read].op[main.it] \in Payloads
    BY <1>1 DEF Queues
  <2>4. frame' \in Seq(Payloads)
    <3>1. \A x \in Payloads : Append(frame, x) \in Seq(Payloads)
      BY <1>2
    <3> QED
      BY <1>2, <2>1, <2>3, <3>1
  <2> QED
    BY <1>1, <1>2, <2>1, <2>2, <2>4, MainStepSafe
<1>4. CASE FollowLink
  <2> DEFINE next == queues[read].next[main.it]
  <2>1. /\ main' = [main EXCEPT !.pc = "cut", !.link = next]
        /\ UNCHANGED <<lock, queues, write, prod, frame, crashed, accepted, raced>>
    BY <1>4 DEF FollowLink, history
  <2>2. next \in Links /\ next \in Word
    BY <1>1, StartsWords DEF QueueShape
  <2> HIDE DEF next
  <2>3. main' = [pc |-> "cut", it |-> main.it, link |-> next]
    BY <1>2, <2>1
  <2> QED
    BY <1>1, <1>2, <2>1, <2>2, <2>3, MainStepSafe
<1>5. CASE CutLink
  <2> DEFINE next == Cut(queues[read], main.link)
  <2>1. /\ main' = [pc |-> IF AtEnd(next) THEN "present" ELSE "draw", it |-> next, link |-> 0]
        /\ UNCHANGED <<lock, queues, write, prod, frame, crashed, accepted, raced>>
    BY <1>5 DEF CutLink, history
  <2>2. next \in Links /\ next \in Word
    <3>1. main.link \in Links
      BY <1>5 DEF CutLink, MainAt, SafeInv, Shape
    <3> QED
      BY <3>1, CutShape, StartsWords
  <2>3. ~AtEnd(next) => next \in Starts
    BY <2>2, StartsWords DEF Links, AtEnd
  <2>4. 0 \in Word
    BY StartsWords
  <2> HIDE DEF next
  <2> QED
    BY <1>2, <2>1, <2>2, <2>3, <2>4, MainStepSafe
<1> QED
  BY <1>3, <1>4, <1>5

LEMMA StepSafe ==
  ASSUME SafeInv, [Next]_vars
  PROVE  SafeInv'
<1>1. ASSUME NEW p \in Producers, Call(p) \/ QueueDrawCmd(p) PROVE SafeInv'
  BY <1>1, CallSafe, LockSafe, GetQueueSafe, CheckFullSafe, ClaimSafe, HookStepsSafe,
     HookTestSafe, ReadTailSafe, HookLinkSafe, FillSafe, UnlockSafe DEF QueueDrawCmd
<1>2. CASE MainLoop
  BY <1>2, MainQuietSafe, SwapSafe, ClearSafe, ClampSafe, DrawSafe DEF MainLoop, Render
<1>3. CASE UNCHANGED vars
  <2> USE DEF SafeInv, vars
  <2>1. TypeOK' /\ Shape'
    BY <1>3 DEF TypeOK, Shape, Rendering
  <2>2. NotHeld' /\ Clamped'
    BY <1>3 DEF NotHeld, Holds, Clamped, read
  <2> QED
    BY <2>1, <2>2
<1> QED
  BY <1>1, <1>2, <1>3 DEF Next

THEOREM SafeInvariance == Spec => []SafeInv
<1>1. Init => SafeInv
  BY InitSafe
<1>2. SafeInv /\ [Next]_vars => SafeInv'
  BY StepSafe
<1> QED
  BY <1>1, <1>2, PTL DEF Spec

\* The members of FloodFillDrawIF, the locals of queueDrawCmd() and the iterator
\* of the main loop keep to their types.
THEOREM TypeCorrect == Spec => []TypeOK
<1>1. SafeInv => TypeOK
  BY DEF SafeInv
<1> QED
  BY <1>1, SafeInvariance, PTL

\* Whatever the calls of any number of threads do to the queues, the iterator
\* of the renderer stands at the beginning of an element inside the buffer.
THEOREM ElementsReadWhole == Spec => []ReadsWholeElements
<1>1. SafeInv => ReadsWholeElements
  <2> SUFFICES ASSUME SafeInv, Rendering
               PROVE  main.it % ElementSize = 0 /\ main.it + ElementSize < MaxQueueSize
    BY DEF ReadsWholeElements
  <2>1. main.it \in Starts
    BY DEF SafeInv, Shape
  <2>2. PICK k \in Nat : main.it = Off(k)
    BY <2>1 DEF Starts
  <2> QED
    BY <2>1, <2>2, OffWhole DEF Starts
<1> QED
  BY <1>1, SafeInvariance, PTL

\* Between the clamping of a position and drawPoint() no call of any number of
\* threads moves it out of the image, unless it raced with the exchange.
THEOREM PointsInside == Spec => []DrawsInside
<1>1. SafeInv => DrawsInside
  BY DrawIFAssumption DEF SafeInv, Clamped, DrawsInside, MainAt
<1> QED
  BY <1>1, SafeInvariance, PTL

-----------------------------------------------------------------------------
(* A single source of calls                                                *)
(*                                                                         *)
(* main() adds one draw source, which queues from one thread.  Then each   *)
(* queue that is not raced is a chain of whole elements in the order of    *)
(* the calls, but for the last one while the call is at work on it.        *)

\* The queue counts for a frame: it has been cleared and is filled, or it was
\* filled and is drawn.
Live(q) ==
  IF q = write THEN main.pc \notin {"clearAlloc", "clearLast"}
               ELSE main.pc \notin {"lock", "swap"}

Records ==
  /\ \A q \in TwoQueues : raced[q] \/ ~Live(q) => accepted[q] = <<>>
  /\ main.pc = "clearLast" /\ ~raced[write] => queues[write].alloc = 0
  /\ main.pc \notin {"draw", "point", "increment", "cut", "present"} => frame = <<>>

LastOff(n) == IF n = 0 THEN INVALID_INDEX ELSE Off(n - 1)

\* n elements follow each other.
Linked(queue, n) == \A k \in 1 .. n - 1 : queue.next[Off(k - 1)] = Off(k)

\* ... and no call is at work on the next one.
Rest(queue, n) ==
  /\ queue.alloc = Off(n)
  /\ queue.last = LastOff(n)
  /\ n > 0 => queue.next[Off(n - 1)] = INVALID_INDEX

\* ... and a call is, with the locals l.
Working(queue, n, l) ==
  /\ l.pc \in {"check", "claim"} => queue.alloc = Off(n)
  /\ l.pc \notin {"check", "claim"} =>
       queue.alloc = Off(n + 1) /\ Off(n + 1) < MaxQueueSize /\ l.index = Off(n)
  /\ l.pc \notin {"link", "fill"} => queue.last = LastOff(n)
  /\ l.pc # "fill" /\ n > 0 => queue.next[Off(n - 1)] = INVALID_INDEX
  /\ l.pc \notin {"check", "claim", "init"} => queue.next[Off(n)] = INVALID_INDEX
  /\ l.pc = "first" => n = 0
  /\ l.pc \in {"readTail", "setLast", "link"} => n > 0
  /\ l.pc \in {"setLast", "link"} => l.tail = Off(n - 1)
  /\ l.pc \in {"link", "fill"} => queue.last = Off(n)
  /\ l.pc = "fill" /\ n > 0 => queue.next[Off(n - 1)] = Off(n)

\* What the renderer has not come to.
Untouched(q, k) ==
  q = read /\ main.pc \in {"draw", "point", "increment", "cut", "present"} =>
    Off(k) > main.it \/ (Off(k) = main.it /\ main.pc = "draw")

Chain(q) ==
  LET n == Len(accepted[q])
  IN /\ Off(n) < MaxQueueSize
     /\ Linked(queues[q], n)
     /\ \A k \in 0 .. n - 1 : Untouched(q, k) => queues[q].op[Off(k)] = accepted[q][k + 1]
     /\ \A p \in Producers :
          IF Holds(p, q) THEN Working(queues[q], n, prod[p]) ELSE Rest(queues[q], n)

ChainInv == crashed = "no" => \A q \in TwoQueues : Live(q) /\ ~raced[q] => Chain(q)

\* The first j commands, as they are meant to be drawn.
Painted(cmds, j) == [k \in 1 .. j |-> Meant(cmds[k])]

\* The renderer has drawn the first commands of the chain.
RenderInv ==
  crashed = "no" /\ ~raced[read] =>
    LET cmds == accepted[read]
        n == Len(cmds)
    IN /\ Rendering /\ n > 0 =>
            \E j \in 0 .. n - 1 :
              /\ main.it = Off(j)
              /\ frame = Painted(cmds, IF main.pc \in {"increment", "cut"} THEN j + 1 ELSE j)
              /\ main.pc = "point" => queues[read].op[main.it] = Meant(cmds[j + 1])
       /\ Rendering /\ n = 0 =>
            main.it = 0 /\ Len(frame) <= IF main.pc \in {"increment", "cut"} THEN 1 ELSE 0
       /\ main.pc = "cut" => main.link = queues[read].next[main.it]
       /\ FrameExact

IInv == SafeInv /\ Records /\ ChainInv /\ RenderInv /\ CrashOnlyFullOrRaced

\* The queue is a chain that holds the commands.
Settled(queue, cmds) ==
  /\ Off(Len(cmds)) < MaxQueueSize
  /\ Linked(queue, Len(cmds))
  /\ \A k \in 0 .. Len(cmds) - 1 : queue.op[Off(k)] = cmds[k + 1]

LEMMA InitOne == Init => IInv
<1> SUFFICES ASSUME Init PROVE IInv
  OBVIOUS
<1>1. SafeInv
  BY InitSafe
<1>2. /\ write = 1 /\ main.pc = "lock" /\ crashed = "no" /\ frame = <<>>
      /\ \A q \in TwoQueues : accepted[q] = <<>> /\ ~raced[q]
      /\ \A p \in Producers, q \in TwoQueues : ~Holds(p, q)
      /\ \A q \in TwoQueues : queues[q] = FreshQueue
  BY DEF Init, Holds, Idle
<1>3. Records
  BY <1>2 DEF Records
<1>4. \A q \in TwoQueues : Chain(q)
  <2> SUFFICES ASSUME NEW q \in TwoQueues PROVE Chain(q)
    OBVIOUS
  <2>1. Len(accepted[q]) = 0
    BY <1>2
  <2>2. Off(0) < MaxQueueSize
    BY OffZero, QueueAssumption
  <2>3. Linked(queues[q], 0)
    BY DEF Linked
  <2>4. Rest(queues[q], 0)
    <3>1. queues[q] = FreshQueue
      BY DEF Init
    <3>2. LastOff(0) = INVALID_INDEX
      BY DEF LastOff
    <3> QED
      BY <3>1, <3>2, FreshQueueType, OffZero DEF Rest
  <2> QED
    BY <1>2, <2>1, <2>2, <2>3, <2>4 DEF Chain
<1>5. ChainInv /\ RenderInv /\ CrashOnlyFullOrRaced
  BY <1>2, <1>4 DEF ChainInv, RenderInv, Rendering, FrameExact, MainAt, CrashOnlyFullOrRaced
<1> QED
  BY <1>1, <1>3, <1>5 DEF IInv

\* A call at work on a queue that is not raced has the write queue, in order.
LEMMA OwnChain ==
  ASSUME IInv, NEW p \in Producers, crashed = "no", prod[p].pc \notin Outside,
         ~raced[prod[p].q]
  PROVE  /\ prod[p].q = write
         /\ Live(prod[p].q)
         /\ Settled(Queue(p), accepted[prod[p].q])
         /\ Working(Queue(p), Len(accepted[prod[p].q]), prod[p])
         /\ accepted[prod[p].q] \in Seq(Commands)
         /\ Len(accepted[prod[p].q]) \in Nat
<1> DEFINE q == prod[p].q
<1>1. q \in TwoQueues /\ accepted[q] \in Seq(Commands) /\ Holds(p, q)
  BY DEF IInv, SafeInv, TypeOK, Holds, Outside
<1>2. q = write /\ Live(q)
  BY <1>1 DEF IInv, SafeInv, NotHeld, Live
<1>3. Chain(q)
  BY <1>1, <1>2 DEF IInv, ChainInv
<1>4. \A k \in Nat : Untouched(q, k)
  BY <1>2, MainAndWrite DEF Untouched, IInv, SafeInv
<1>5. Settled(Queue(p), accepted[q]) /\ Working(Queue(p), Len(accepted[q]), prod[p])
  BY <1>1, <1>3, <1>4 DEF Chain, Settled, Queue
<1> QED
  BY <1>1, <1>2, <1>5

\* A step of the call disturbs nothing but the chain it is at work on.
LEMMA CallStepOne ==
  ASSUME IInv, NEW p, Producers = {p}, crashed = "no", SafeInv',
         NEW l, NEW queue, Moves(p, l, queue),
         crashed' \in {"no", "null", "wild"},
         \A q \in TwoQueues \ {prod[p].q} : accepted'[q] = accepted[q],
         prod[p].pc \in Outside => accepted' = accepted,
         raced[prod[p].q] => accepted'[prod[p].q] = <<>>,
         crashed' # "no" => CrashOnlyFullOrRaced',
         crashed' = "no" /\ prod[p].pc \notin Outside /\ ~raced[prod[p].q] =>
           /\ Settled(queue, accepted'[prod[p].q])
           /\ IF l.pc \notin Outside THEN Working(queue, Len(accepted'[prod[p].q]), l)
                                     ELSE Rest(queue, Len(accepted'[prod[p].q]))
  PROVE  IInv'
<1> USE DEF Moves
<1> DEFINE q0 == prod[p].q
<1>1. /\ q0 \in TwoQueues /\ p \in Producers
      /\ queues \in [TwoQueues -> Queues] /\ prod \in [Producers -> Locals]
      /\ read \in TwoQueues /\ read # write /\ TwoQueues = {read, write} /\ read' = read
  BY MainAndWrite DEF IInv, SafeInv, TypeOK, Locals, Labels, read
<1>2. prod'[p] = l /\ queues'[q0] = queue
      /\ \A q \in TwoQueues \ {q0} : queues'[q] = queues[q]
  BY <1>1
<1>3. prod[p].pc \notin Outside /\ ~raced[q0] => q0 = write /\ Live(q0)
  BY <1>1, OwnChain
<1>4. prod[p].pc \in Outside => queues' = queues
  BY <1>1
<1>5. \A q \in TwoQueues : /\ Holds(p, q) <=> prod[p].pc \notin Outside /\ q = q0
                           /\ Holds(p, q)' <=> l.pc \notin Outside /\ q = q0
  BY <1>1, <1>2 DEF Holds, Outside
<1>6. \A q : Live(q)' <=> Live(q)
  BY DEF Live
<1>7. Records'
  <2>1. \A q \in TwoQueues : raced'[q] \/ ~Live(q)' => accepted'[q] = <<>>
    BY <1>1, <1>3, <1>6 DEF IInv, Records
  <2>2. main'.pc = "clearLast" /\ ~raced'[write'] => queues'[write'].alloc = 0
    BY <1>1, <1>2, <1>3, <1>4 DEF IInv, Records, Live
  <2>3. main'.pc \notin {"draw", "point", "increment", "cut", "present"} => frame' = <<>>
    BY DEF IInv, Records
  <2> QED
    BY <2>1, <2>2, <2>3 DEF Records
<1>8. ChainInv'
  <2> SUFFICES ASSUME crashed' = "no", NEW q \in TwoQueues, Live(q), ~raced[q]
               PROVE  Chain(q)'
    BY <1>6 DEF ChainInv
  <2>1. Chain(q)
    BY DEF IInv, ChainInv
  <2>2. \A k : Untouched(q, k)' <=> Untouched(q, k)
    BY <1>1 DEF Untouched
  <2>3. CASE q = q0 /\ prod[p].pc \notin Outside
    <3> DEFINE n == Len(accepted'[q])
    <3>1. /\ Off(n) < MaxQueueSize /\ Linked(queues'[q], n)
          /\ \A k \in 0 .. n - 1 : queues'[q].op[Off(k)] = accepted'[q][k + 1]
      BY <1>2, <2>3 DEF Settled
    <3>2. IF Holds(p, q)' THEN Working(queues'[q], n, prod'[p]) ELSE Rest(queues'[q], n)
      BY <1>2, <1>5, <2>3
    <3> QED
      BY <3>1, <3>2 DEF Chain
  <2>4. CASE ~(q = q0 /\ prod[p].pc \notin Outside)
    <3>1. queues'[q] = queues[q] /\ accepted'[q] = accepted[q]
      BY <1>2, <1>4, <2>4
    <3>2. ~Holds(p, q) /\ ~Holds(p, q)'
      BY <1>5, <2>4
    <3> QED
      BY <2>1, <2>2, <3>1, <3>2 DEF Chain
  <2> QED
    BY <2>3, <2>4
<1>9. RenderInv'
  <2> SUFFICES ASSUME crashed' = "no", ~raced[read] PROVE RenderInv'
    BY <1>1 DEF RenderInv
  <2>1. queues'[read] = queues[read] /\ accepted'[read] = accepted[read]
    BY <1>1, <1>2, <1>3, <1>4
  <2>2. RenderInv
    BY DEF IInv
  <2> QED
    BY <1>1, <2>1, <2>2 DEF RenderInv, Rendering, FrameExact, MainAt
<1>10. CrashOnlyFullOrRaced'
  BY DEF CrashOnlyFullOrRaced
<1> QED
  BY <1>7, <1>8, <1>9, <1>10 DEF IInv

LEMMA ChainOffsets ==
  ASSUME NEW n \in Nat, Off(n) < MaxQueueSize
  PROVE  /\ Off(n) \in Offsets /\ Off(n) \in Nat
         /\ \A k \in Nat : k < n => /\ Off(k) \in Offsets /\ Off(k) \in Nat
                                    /\ Off(k) < Off(n) /\ Off(k) # Off(n)
         /\ \A k \in Nat, j \in Nat : k # j => Off(k) # Off(j)
BY OffNat, OffLess, OffInjective, QueueAssumption DEF Offsets

\* The locals of a call inside TypeOK.
LEMMA OwnLocals ==
  ASSUME SafeInv, NEW p \in Producers
  PROVE  /\ prod \in [Producers -> Locals] /\ prod[p] \in Locals /\ LocalsShape(prod[p])
         /\ prod[p].q \in TwoQueues
         /\ queues \in [TwoQueues -> Queues]
         /\ queues = [queues EXCEPT ![prod[p].q] = Queue(p)]
         /\ prod = [prod EXCEPT ![p] = prod[p]]
BY DEF SafeInv, TypeOK, Shape, Locals, Labels, Queue

\* Steps that only move a call on.
LEMMA QuietStepOne ==
  ASSUME IInv, NEW p, Producers = {p}, crashed = "no", crashed' = crashed, SafeInv',
         NEW l, prod' = [prod EXCEPT ![p] = l],
         l.pc \notin Outside => prod[p].pc \notin Outside /\ l.q = prod[p].q,
         prod[p].pc \notin Outside => l.pc \notin Outside,
         prod[p].pc \notin Outside /\ ~raced[prod[p].q] =>
           Working(Queue(p), Len(accepted[prod[p].q]), l),
         UNCHANGED <<queues, write, main, frame, accepted, raced>>
  PROVE  IInv'
<1>1. p \in Producers
  OBVIOUS
<1>2. Moves(p, l, Queue(p))
  BY <1>1, OwnLocals DEF Moves, Queue, IInv
<1>3. prod[p].pc \notin Outside /\ ~raced[prod[p].q] => Settled(Queue(p), accepted[prod[p].q])
  BY <1>1, OwnChain
<1>4. raced[prod[p].q] => accepted[prod[p].q] = <<>>
  BY <1>1, OwnLocals DEF IInv, Records
<1> QED
  BY <1>1, <1>2, <1>3, <1>4, CallStepOne

\* call, lock() and unlock(): no queue is at stake.
LEMMA OutsideStepOne ==
  ASSUME IInv, NEW p, Producers = {p}, SafeInv', Call(p) \/ Lock(p) \/ Unlock(p)
  PROVE  IInv'
<1> USE DEF IInv
<1>1. p \in Producers /\ prod \in [Producers -> Locals] /\ prod[p] \in Locals
  BY OwnLocals
<1>2. /\ crashed = "no" /\ crashed' = crashed
      /\ prod[p].pc \in {"idle", "lock", "unlock"}
      /\ UNCHANGED <<queues, write, main, frame, accepted, raced>>
  BY DEF Call, Lock, Unlock, At, mainVars, history
<1>3. prod'[p].pc \in Outside /\ prod' = [prod EXCEPT ![p] = prod'[p]]
  <2>1. CASE Call(p)
    <3>1. PICK c \in Commands :
            prod' = [prod EXCEPT ![p] = [Idle EXCEPT !.pc = "lock", !.cmd = c]]
      BY <2>1 DEF Call
    <3>2. Idle \in Locals
      BY StartsWords DEF Idle, Locals, Labels, TwoQueues
    <3> QED
      BY <1>1, <3>1, <3>2 DEF Outside, Locals
  <2>2. CASE Lock(p)
    <3>1. prod' = prod \/ prod' = [prod EXCEPT ![p].pc = "get"]
      BY <2>2 DEF Lock, Goto
    <3> QED
      BY <1>1, <1>2, <3>1 DEF Outside, Locals
  <2>3. CASE Unlock(p)
    <3>1. prod' = [prod EXCEPT ![p].pc = "idle"]
      BY <2>3 DEF Unlock, Goto
    <3> QED
      BY <1>1, <3>1 DEF Outside, Locals
  <2> QED
    BY <2>1, <2>2, <2>3
<1> DEFINE l == prod'[p]
<1> HIDE DEF l
<1>4. l.pc \in Outside /\ prod' = [prod EXCEPT ![p] = l]
  BY <1>3 DEF l
<1> QED
  BY <1>1, <1>2, <1>4, QuietStepOne DEF Outside

\* A call that finds the write queue cleared finds it in order.
LEMMA GetQueueOne ==
  ASSUME IInv, NEW p, Producers = {p}, SafeInv', GetQueue(p)
  PROVE  IInv'
<1> USE DEF IInv
<1>1. p \in Producers /\ prod \in [Producers -> Locals] /\ prod[p] \in Locals
      /\ raced \in [TwoQueues -> BOOLEAN] /\ write \in TwoQueues
  BY OwnLocals DEF SafeInv, TypeOK
<1>2. /\ crashed = "no" /\ crashed' = crashed /\ prod[p].pc = "get"
      /\ prod' = [prod EXCEPT ![p].q = write, ![p].pc = "check"]
      /\ Race([raced EXCEPT ![write] = @ \/ main.pc \in {"clearAlloc", "clearLast"}])
      /\ UNCHANGED <<queues, write, main, frame>>
  BY DEF GetQueue, At, mainVars
<1>3. prod'[p].pc = "check" /\ prod'[p].q = write
  BY <1>1, <1>2 DEF Locals
<1>4. /\ \A q \in TwoQueues \ {write} : raced'[q] = raced[q]
      /\ ~raced'[write] => ~raced[write] /\ main.pc \notin {"clearAlloc", "clearLast"}
      /\ raced[write] => raced'[write]
      /\ accepted' = [q \in TwoQueues |-> IF raced'[q] THEN <<>> ELSE accepted[q]]
  <2> DEFINE b == main.pc \in {"clearAlloc", "clearLast"}
  <2>1. raced' = [raced EXCEPT ![write] = raced[write] \/ b]
        /\ accepted' = [q \in TwoQueues |-> IF raced'[q] THEN <<>> ELSE accepted[q]]
    BY <1>2 DEF Race
  <2> HIDE DEF b
  <2>2. raced'[write] = (raced[write] \/ b) /\ \A q \in TwoQueues \ {write} : raced'[q] = raced[q]
    BY <1>1, <2>1
  <2> QED
    BY <2>1, <2>2 DEF b
<1>5. \A q \in TwoQueues : ~raced'[q] => ~raced[q] /\ accepted'[q] = accepted[q]
  BY <1>1, <1>4
<1>6. \A q : (Live(q)' <=> Live(q)) /\ \A k : Untouched(q, k)' <=> Untouched(q, k)
  BY <1>2 DEF Live, Untouched, read
<1>7. \A q \in TwoQueues : accepted[q] = <<>> => accepted'[q] = <<>>
  BY <1>4
<1>8. Records'
  <2>1. \A q \in TwoQueues : raced'[q] \/ ~Live(q) => accepted'[q] = <<>>
    BY <1>4, <1>7 DEF Records
  <2> QED
    BY <1>2, <1>5, <1>1, <1>6, <2>1 DEF Records
<1>9. ChainInv'
  <2> SUFFICES ASSUME NEW q \in TwoQueues, Live(q), ~raced'[q] PROVE Chain(q)'
    BY <1>6 DEF ChainInv
  <2>1. Chain(q) /\ ~Holds(p, q)
    BY <1>2, <1>5 DEF ChainInv, Holds
  <2>2. Rest(queues[q], Len(accepted[q]))
    BY <1>1, <2>1 DEF Chain
  <2>3. Working(queues[q], Len(accepted[q]), prod'[p])
    BY <1>3, <2>2 DEF Working, Rest
  <2> QED
    BY <1>2, <1>5, <1>6, <2>1, <2>2, <2>3 DEF Chain
<1>10. RenderInv'
  <2> SUFFICES ASSUME ~raced'[read] PROVE RenderInv'
    BY <1>2 DEF RenderInv, read
  <2>1. accepted'[read] = accepted[read] /\ ~raced[read] /\ read' = read
    BY <1>2, <1>5, MainAndWrite DEF SafeInv, read
  <2> QED
    BY <1>2, <2>1 DEF RenderInv, Rendering, FrameExact, MainAt
<1>11. CrashOnlyFullOrRaced'
  BY <1>2 DEF CrashOnlyFullOrRaced
<1> QED
  BY <1>8, <1>9, <1>10, <1>11

LEMMA CheckFullOne ==
  ASSUME IInv, NEW p, Producers = {p}, SafeInv', CheckFull(p)
  PROVE  IInv'
<1> DEFINE n == Len(accepted[prod[p].q])
<1>1. /\ prod[p].pc = "check" /\ crashed = "no" /\ p \in Producers
      /\ UNCHANGED <<queues, write, main, frame, accepted, raced>>
      /\ prod[p].pc \notin Outside
  BY DEF CheckFull, At, mainVars, Outside
<1>2. ~raced[prod[p].q] => ~IsFull(Queue(p)) /\ Working(Queue(p), n, prod[p])
  <2> SUFFICES ASSUME ~raced[prod[p].q] PROVE ~IsFull(Queue(p)) /\ Working(Queue(p), n, prod[p])
    OBVIOUS
  <2>1. Settled(Queue(p), accepted[prod[p].q]) /\ Working(Queue(p), n, prod[p]) /\ n \in Nat
    BY <1>1, OwnChain
  <2>2. Queue(p).alloc = Off(n) /\ Off(n) < MaxQueueSize /\ Off(n) \in Nat
    BY <1>1, <2>1, OffNat DEF Working, Settled
  <2> QED
    BY <2>1, <2>2, QueueAssumption DEF IsFull
<1>3. CASE IsFull(Queue(p))
  <2>1. crashed' = "null" /\ prod' = prod /\ raced[prod[p].q] /\ prod[p].q \in TwoQueues
    BY <1>1, <1>2, <1>3, OwnLocals DEF CheckFull, IInv
  <2>2. CrashOnlyFullOrRaced'
    BY <1>1, <2>1 DEF CrashOnlyFullOrRaced
  <2>3. Moves(p, prod[p], Queue(p))
    BY <1>1, <2>1, OwnLocals DEF Moves, IInv
  <2>4. accepted[prod[p].q] = <<>>
    BY <2>1 DEF IInv, Records
  <2> QED
    BY <1>1, <2>1, <2>2, <2>3, <2>4, CallStepOne
<1>4. CASE ~IsFull(Queue(p))
  <2> DEFINE l == [prod[p] EXCEPT !.pc = "claim"]
  <2>1. crashed' = crashed /\ Goto(p, "claim")
    BY <1>4 DEF CheckFull
  <2>2. l.pc = "claim" /\ l.q = prod[p].q /\ prod' = [prod EXCEPT ![p] = l]
    BY <1>1, <2>1, OwnLocals DEF Goto, Locals, IInv
  <2> HIDE DEF l
  <2>3. ~raced[prod[p].q] => Working(Queue(p), n, l)
    BY <1>1, <1>2, <2>2 DEF Working
  <2> QED
    BY <1>1, <2>1, <2>2, <2>3, QuietStepOne DEF Outside
<1> QED
  BY <1>3, <1>4

LEMMA ClaimOne ==
  ASSUME IInv, NEW p, Producers = {p}, SafeInv', Claim(p)
  PROVE  IInv'
<1> DEFINE q == prod[p].q
           cmds == accepted[q]
           n == Len(cmds)
           old == Queue(p)
           queue == FetchAdd(old)
<1>1. /\ prod[p].pc = "claim" /\ crashed = "no" /\ p \in Producers
      /\ queues' = [queues EXCEPT ![q] = queue]
      /\ IF Fits(old.alloc)
           THEN prod' = [prod EXCEPT ![p].index = old.alloc, ![p].pc = "init"]
                /\ crashed' = crashed
           ELSE crashed' = "null" /\ prod' = prod
      /\ UNCHANGED <<write, main, frame, accepted, raced>>
      /\ prod[p].pc \notin Outside
  BY DEF Claim, At, mainVars, Update, Outside
<1>2. /\ q \in TwoQueues /\ prod \in [Producers -> Locals] /\ prod[p] \in Locals
      /\ old.alloc < MaxQueueSize /\ QueueShape(old) /\ old \in Queues
  BY <1>1, OwnLocals, OwnQueue DEF IInv, SafeInv, Shape, Queue
<1>3. raced[q] => accepted[q] = <<>>
  BY <1>2 DEF IInv, Records
<1>4. /\ queue.alloc = old.alloc + ElementSize
      /\ Fits(old.alloc) <=> queue.alloc < MaxQueueSize
      /\ queue.op = old.op
  BY <1>1, <1>2, ClaimShape
<1>5. queue.last = old.last /\ queue.next = old.next
  BY <1>2 DEF FetchAdd, Queues
<1>6. ~raced[q] => /\ q = write
                   /\ n \in Nat /\ Off(n) \in Nat /\ Off(n) < MaxQueueSize
                   /\ Settled(old, cmds) /\ Working(old, n, prod[p])
                   /\ old.alloc = Off(n) /\ queue.alloc = Off(n + 1)
                   /\ Settled(queue, cmds)
  <2> SUFFICES ASSUME ~raced[q]
               PROVE  /\ q = write
                      /\ n \in Nat /\ Off(n) \in Nat /\ Off(n) < MaxQueueSize
                      /\ Settled(old, cmds) /\ Working(old, n, prod[p])
                      /\ old.alloc = Off(n) /\ queue.alloc = Off(n + 1)
                      /\ Settled(queue, cmds)
    OBVIOUS
  <2>1. q = write /\ n \in Nat /\ Settled(old, cmds) /\ Working(old, n, prod[p])
    BY <1>1, OwnChain
  <2>2. old.alloc = Off(n)
    BY <1>1, <2>1 DEF Working
  <2>3. Settled(queue, cmds)
    BY <1>4, <1>5, <2>1 DEF Settled, Linked
  <2> QED
    BY <1>4, <2>1, <2>2, <2>3, OffNext, OffNat DEF Settled
<1> HIDE DEF queue, old, cmds, n
<1>7. CASE Fits(old.alloc)
  <2> DEFINE l == [prod[p] EXCEPT !.index = old.alloc, !.pc = "init"]
  <2>1. /\ l.pc = "init" /\ l.q = q /\ l.index = old.alloc /\ l.tail = prod[p].tail
        /\ prod' = [prod EXCEPT ![p] = l]
    BY <1>1, <1>2, <1>7 DEF Locals
  <2> HIDE DEF l
  <2>2. Moves(p, l, queue) /\ crashed' = "no"
    BY <1>1, <1>7, <2>1 DEF Moves, Outside
  <2>3. ~raced[q] => Working(queue, n, l)
    BY <1>1, <1>4, <1>5, <1>6, <1>7, <2>1 DEF Working
  <2>4. l.pc \notin Outside
    BY <2>1 DEF Outside
  <2> QED
    BY <1>1, <1>3, <1>6, <2>2, <2>3, <2>4, CallStepOne DEF cmds, n
<1>8. CASE ~Fits(old.alloc)
  <2>1. crashed' = "null" /\ prod' = [prod EXCEPT ![p] = prod[p]]
    BY <1>1, <1>2, <1>8
  <2>2. Moves(p, prod[p], queue)
    BY <1>1, <2>1 DEF Moves, Outside
  <2>3. CrashOnlyFullOrRaced'
    <3>1. CASE raced[q]
      BY <1>1, <1>2, <3>1 DEF CrashOnlyFullOrRaced
    <3>2. CASE ~raced[q]
      <4>1. n <= Capacity /\ ~(n + 1 <= Capacity) /\ Capacity \in Nat
        BY <1>4, <1>6, <1>8, <3>2, CapacityBound, QueueAssumption DEF Capacity
      <4>2. n = Capacity
        BY <1>6, <3>2, <4>1
      <4> QED
        BY <1>1, <1>2, <1>6, <2>1, <3>2, <4>2 DEF CrashOnlyFullOrRaced, n, cmds
    <3> QED
      BY <3>1, <3>2
  <2> QED
    BY <1>1, <1>3, <2>1, <2>2, <2>3, CallStepOne
<1> QED
  BY <1>7, <1>8

\* Steps that write to the queue, leave its commands and go on to a label.
LEMMA WriteStepOne ==
  ASSUME IInv, NEW p, Producers = {p}, crashed = "no", crashed' = crashed, SafeInv',
         NEW label \in Labels \ Outside, prod[p].pc \notin Outside, Goto(p, label),
         NEW queue, Update(p, queue),
         UNCHANGED <<write, main, frame, accepted, raced>>,
         ASSUME ~raced[prod[p].q],
                NEW n \in Nat, n = Len(accepted[prod[p].q]),
                Off(n) < MaxQueueSize,
                Working(Queue(p), n, prod[p]), Linked(Queue(p), n),
                NEW l, l.pc = label, l.index = prod[p].index, l.tail = prod[p].tail
         PROVE  Working(queue, n, l) /\ Linked(queue, n) /\ queue.op = Queue(p).op
  PROVE  IInv'
<1> DEFINE q == prod[p].q
           l == [prod[p] EXCEPT !.pc = label]
<1>1. p \in Producers /\ prod[p] \in Locals /\ prod \in [Producers -> Locals] /\ q \in TwoQueues
  BY OwnLocals DEF IInv
<1>2. /\ l.pc = label /\ l.index = prod[p].index /\ l.tail = prod[p].tail /\ l.q = q
      /\ prod' = [prod EXCEPT ![p] = l]
  BY <1>1 DEF Goto, Locals
<1> HIDE DEF l
<1>3. Moves(p, l, queue)
  BY <1>2 DEF Moves, Update
<1>4. raced[q] => accepted[q] = <<>>
  BY <1>1 DEF IInv, Records
<1>5. ~raced[q] => Settled(queue, accepted[q]) /\ Working(queue, Len(accepted[q]), l)
  <2> SUFFICES ASSUME ~raced[q]
               PROVE  Settled(queue, accepted[q]) /\ Working(queue, Len(accepted[q]), l)
    OBVIOUS
  <2>1. /\ Settled(Queue(p), accepted[q]) /\ Working(Queue(p), Len(accepted[q]), prod[p])
        /\ Len(accepted[q]) \in Nat
    BY <1>1, OwnChain
  <2>2. Off(Len(accepted[q])) < MaxQueueSize /\ Linked(Queue(p), Len(accepted[q]))
    BY <2>1 DEF Settled
  <2>3. /\ Working(queue, Len(accepted[q]), l) /\ Linked(queue, Len(accepted[q]))
        /\ queue.op = Queue(p).op
    BY <1>2, <2>1, <2>2
  <2> QED
    BY <2>1, <2>3 DEF Settled
<1> QED
  BY <1>1, <1>2, <1>3, <1>4, <1>5, CallStepOne

\* The links of a chain are not those of the element that a call is at work on.
LEMMA LinkedElsewhere ==
  ASSUME NEW n \in Nat, Off(n) < MaxQueueSize, NEW queue, Linked(queue, n), NEW new,
         NEW j \in {n, n - 1},
         \A i \in Offsets : i # Off(j) => new.next[i] = queue.next[i]
  PROVE  Linked(new, n)
<1> SUFFICES ASSUME NEW k \in 1 .. n - 1 PROVE new.next[Off(k - 1)] = Off(k)
  BY DEF Linked
<1>1. k - 1 \in Nat /\ k - 1 < n /\ k - 1 # j
  OBVIOUS
<1>2. j \in Nat
  OBVIOUS
<1>3. Off(k - 1) \in Offsets /\ Off(k - 1) # Off(j)
  BY <1>1, <1>2, ChainOffsets
<1> QED
  BY <1>3 DEF Linked

LEMMA InitElementOne ==
  ASSUME IInv, NEW p, Producers = {p}, SafeInv', InitElement(p)
  PROVE  IInv'
<1> DEFINE queue == InitNext(Queue(p), prod[p].index)
<1>1. /\ prod[p].pc = "init" /\ crashed = "no" /\ crashed' = crashed /\ p \in Producers
      /\ Update(p, queue) /\ Goto(p, "hook")
      /\ UNCHANGED <<write, main, frame, accepted, raced>>
      /\ prod[p].pc \notin Outside /\ "hook" \in Labels \ Outside
  BY DEF InitElement, At, mainVars, history, Outside, Labels
<1>2. Queue(p) \in Queues /\ prod[p].index \in Offsets
  BY OwnQueue DEF IInv
<1>3. /\ queue.alloc = Queue(p).alloc /\ queue.last = Queue(p).last /\ queue.op = Queue(p).op
      /\ \A i \in Offsets : queue.next[i] = IF i = prod[p].index THEN INVALID_INDEX
                                                                  ELSE Queue(p).next[i]
  BY <1>2 DEF InitNext, Queues
<1> HIDE DEF queue
<1>4. ASSUME NEW n \in Nat, Off(n) < MaxQueueSize,
             Working(Queue(p), n, prod[p]), Linked(Queue(p), n),
             NEW l, l.pc = "hook", l.index = prod[p].index, l.tail = prod[p].tail
      PROVE  Working(queue, n, l) /\ Linked(queue, n) /\ queue.op = Queue(p).op
  <2>1. prod[p].index = Off(n)
    BY <1>1, <1>4 DEF Working
  <2>2. Linked(queue, n)
    BY <1>3, <1>4, <2>1, LinkedElsewhere
  <2>3. n > 0 => Off(n - 1) \in Offsets /\ Off(n - 1) # Off(n)
    BY <1>4, ChainOffsets
  <2>4. Working(queue, n, l)
    BY <1>1, <1>2, <1>3, <1>4, <2>1, <2>3 DEF Working
  <2> QED
    BY <1>3, <2>2, <2>4
<1> QED
  BY <1>1, <1>4, WriteStepOne

LEMMA HookFirstOne ==
  ASSUME IInv, NEW p, Producers = {p}, SafeInv', HookFirst(p)
  PROVE  IInv'
<1> DEFINE queue == SetLast(Queue(p), 0)
<1>1. /\ prod[p].pc = "first" /\ crashed = "no" /\ crashed' = crashed /\ p \in Producers
      /\ Update(p, queue) /\ Goto(p, "fill")
      /\ UNCHANGED <<write, main, frame, accepted, raced>>
      /\ prod[p].pc \notin Outside /\ "fill" \in Labels \ Outside
  BY DEF HookFirst, At, mainVars, history, Outside, Labels
<1>2. Queue(p) \in Queues
  BY OwnQueue DEF IInv
<1>3. /\ queue.alloc = Queue(p).alloc /\ queue.last = 0 /\ queue.op = Queue(p).op
      /\ queue.next = Queue(p).next
  BY <1>2 DEF SetLast, Queues
<1> HIDE DEF queue
<1>4. ASSUME NEW n \in Nat, Off(n) < MaxQueueSize,
             Working(Queue(p), n, prod[p]), Linked(Queue(p), n),
             NEW l, l.pc = "fill", l.index = prod[p].index, l.tail = prod[p].tail
      PROVE  Working(queue, n, l) /\ Linked(queue, n) /\ queue.op = Queue(p).op
  <2>1. n = 0 /\ Off(n) = 0
    BY <1>1, <1>4, OffZero DEF Working
  <2>2. Working(queue, n, l)
    BY <1>1, <1>3, <1>4, <2>1 DEF Working
  <2> QED
    BY <1>3, <1>4, <2>2 DEF Linked
<1> QED
  BY <1>1, <1>4, WriteStepOne

LEMMA HookLastOne ==
  ASSUME IInv, NEW p, Producers = {p}, SafeInv', HookLast(p)
  PROVE  IInv'
<1> DEFINE queue == SetLast(Queue(p), prod[p].index)
<1>1. /\ prod[p].pc = "setLast" /\ crashed = "no" /\ crashed' = crashed /\ p \in Producers
      /\ Update(p, queue) /\ Goto(p, "link")
      /\ UNCHANGED <<write, main, frame, accepted, raced>>
      /\ prod[p].pc \notin Outside /\ "link" \in Labels \ Outside
  BY DEF HookLast, At, mainVars, history, Outside, Labels
<1>2. Queue(p) \in Queues
  BY OwnQueue DEF IInv
<1>3. /\ queue.alloc = Queue(p).alloc /\ queue.last = prod[p].index /\ queue.op = Queue(p).op
      /\ queue.next = Queue(p).next
  BY <1>2 DEF SetLast, Queues
<1> HIDE DEF queue
<1>4. ASSUME NEW n \in Nat, Off(n) < MaxQueueSize,
             Working(Queue(p), n, prod[p]), Linked(Queue(p), n),
             NEW l, l.pc = "link", l.index = prod[p].index, l.tail = prod[p].tail
      PROVE  Working(queue, n, l) /\ Linked(queue, n) /\ queue.op = Queue(p).op
  <2>1. Working(queue, n, l)
    BY <1>1, <1>3, <1>4 DEF Working
  <2> QED
    BY <1>3, <1>4, <2>1 DEF Linked
<1> QED
  BY <1>1, <1>4, WriteStepOne

\* The tail is an offset as soon as there is an element, and the first element
\* is the one that has none.
LEMMA HookTestOne ==
  ASSUME IInv, NEW p, Producers = {p}, SafeInv', HookTest(p)
  PROVE  IInv'
<1>1. PICK label \in {"readTail", "first", "fill"} :
        /\ Goto(p, label)
        /\ label = "readTail" => Queue(p).last # INVALID_INDEX
        /\ label = "first" => Queue(p).last = INVALID_INDEX /\ prod[p].index = 0
        /\ label = "fill" => Queue(p).last = INVALID_INDEX /\ prod[p].index # 0
  BY DEF HookTest
<1>2. /\ prod[p].pc = "hook" /\ crashed = "no" /\ crashed' = crashed /\ p \in Producers
      /\ UNCHANGED <<queues, write, main, frame, accepted, raced>>
      /\ prod[p].pc \notin Outside /\ label \in Labels \ Outside
  BY <1>1 DEF HookTest, At, mainVars, history, Outside, Labels
<1>3. Update(p, Queue(p))
  BY <1>2, OwnLocals DEF Update, IInv
<1>4. ASSUME NEW n \in Nat, Off(n) < MaxQueueSize,
             Working(Queue(p), n, prod[p]), Linked(Queue(p), n),
             NEW l, l.pc = label, l.index = prod[p].index, l.tail = prod[p].tail
      PROVE  Working(Queue(p), n, l) /\ Linked(Queue(p), n) /\ Queue(p).op = Queue(p).op
  <2>1. Queue(p).last = LastOff(n) /\ prod[p].index = Off(n)
    BY <1>2, <1>4 DEF Working
  <2>2. n > 0 => LastOff(n) \in Offsets /\ Off(n) # 0
    BY <1>4, OffZero, ChainOffsets DEF LastOff
  <2>3. INVALID_INDEX \notin Offsets
    BY StartsWords
  <2>4. n = 0 => LastOff(n) = INVALID_INDEX /\ Off(n) = 0
    BY OffZero DEF LastOff
  <2>5. (label = "readTail" => n > 0) /\ (label = "first" => n = 0) /\ label # "fill"
    BY <1>1, <2>1, <2>2, <2>3, <2>4
  <2> QED
    BY <1>1, <1>2, <1>4, <2>5 DEF Working
<1> QED
  BY <1>1, <1>2, <1>3, <1>4, WriteStepOne

LEMMA ReadTailOne ==
  ASSUME IInv, NEW p, Producers = {p}, SafeInv', ReadTail(p)
  PROVE  IInv'
<1> DEFINE l == [prod[p] EXCEPT !.tail = Queue(p).last, !.pc = "setLast"]
<1>1. /\ prod[p].pc = "readTail" /\ crashed = "no" /\ crashed' = crashed /\ p \in Producers
      /\ prod' = [prod EXCEPT ![p].tail = Queue(p).last, ![p].pc = "setLast"]
      /\ UNCHANGED <<queues, write, main, frame, accepted, raced>>
      /\ prod[p].pc \notin Outside
  BY DEF ReadTail, At, mainVars, history, Outside
<1>2. prod \in [Producers -> Locals] /\ prod[p] \in Locals
  BY <1>1, OwnLocals DEF IInv
<1>3. /\ l.pc = "setLast" /\ l.tail = Queue(p).last /\ l.index = prod[p].index
      /\ l.q = prod[p].q /\ prod' = [prod EXCEPT ![p] = l]
  BY <1>1, <1>2 DEF Locals
<1> HIDE DEF l
<1>4. ~raced[prod[p].q] => Working(Queue(p), Len(accepted[prod[p].q]), l)
  <2> SUFFICES ASSUME ~raced[prod[p].q] PROVE Working(Queue(p), Len(accepted[prod[p].q]), l)
    OBVIOUS
  <2>1. Working(Queue(p), Len(accepted[prod[p].q]), prod[p])
    BY <1>1, OwnChain
  <2> QED
    BY <1>1, <1>3, <2>1 DEF Working, LastOff
<1>5. /\ crashed = "no" /\ crashed' = crashed /\ prod[p].pc \notin Outside
      /\ UNCHANGED <<queues, write, main, frame, accepted, raced>>
      /\ l.pc \notin Outside /\ l.q = prod[p].q /\ prod' = [prod EXCEPT ![p] = l]
  BY <1>1, <1>3 DEF Outside
<1> QED
  BY <1>4, <1>5, QuietStepOne

\* The tail that has been read is still the end of the chain.
LEMMA HookLinkOne ==
  ASSUME IInv, NEW p, Producers = {p}, SafeInv', HookLink(p)
  PROVE  IInv'
<1> DEFINE q == prod[p].q
           old == Queue(p)
           tail == prod[p].tail
           queue == Link(old, tail, prod[p].index)
           l == [prod[p] EXCEPT !.tail = 0, !.pc = "fill"]
<1>1. /\ prod[p].pc = "link" /\ crashed = "no" /\ p \in Producers
      /\ UNCHANGED <<write, main, frame, accepted, raced>>
      /\ prod[p].pc \notin Outside
  BY DEF HookLink, At, mainVars, Outside
<1>2. /\ prod \in [Producers -> Locals] /\ prod[p] \in Locals /\ q \in TwoQueues
      /\ old \in Queues
  BY <1>1, OwnLocals, OwnQueue DEF IInv
<1>3. raced[q] => accepted[q] = <<>>
  BY <1>2 DEF IInv, Records
<1>4. CASE tail \in Offsets
  <2>1. /\ queues' = [queues EXCEPT ![q] = queue]
        /\ prod' = [prod EXCEPT ![p].tail = 0, ![p].pc = "fill"]
        /\ crashed' = "no"
    BY <1>1, <1>4 DEF HookLink, Update
  <2>2. l.pc = "fill" /\ l.index = prod[p].index /\ l.q = q /\ prod' = [prod EXCEPT ![p] = l]
    BY <1>2, <2>1 DEF Locals
  <2>3. /\ queue.alloc = old.alloc /\ queue.last = old.last /\ queue.op = old.op
        /\ \A i \in Offsets : queue.next[i] = IF i = tail THEN prod[p].index ELSE old.next[i]
    BY <1>2 DEF Link, Queues
  <2> HIDE DEF l, queue
  <2>4. Moves(p, l, queue)
    BY <1>1, <2>1, <2>2 DEF Moves, Outside
  <2>5. ~raced[q] => Settled(queue, accepted[q]) /\ Working(queue, Len(accepted[q]), l)
    <3> SUFFICES ASSUME ~raced[q]
                 PROVE  Settled(queue, accepted[q]) /\ Working(queue, Len(accepted[q]), l)
      OBVIOUS
    <3> DEFINE n == Len(accepted[q])
    <3>1. Settled(old, accepted[q]) /\ Working(old, n, prod[p]) /\ n \in Nat
      BY <1>1, OwnChain
    <3> HIDE DEF n
    <3>2. Off(n) < MaxQueueSize /\ Linked(old, n)
      BY <3>1 DEF Settled, n
    <3>3. n > 0 /\ tail = Off(n - 1) /\ prod[p].index = Off(n)
      BY <1>1, <3>1 DEF Working
    <3>4. \A i \in Offsets : i # Off(n - 1) => queue.next[i] = old.next[i]
      BY <2>3, <3>3
    <3>5. Linked(queue, n)
      BY <3>1, <3>2, <3>4, LinkedElsewhere
    <3>6. Settled(queue, accepted[q])
      BY <2>3, <3>1, <3>5 DEF Settled, n
    <3>7. n - 1 \in Nat /\ Off(n - 1) # Off(n) /\ Off(n) \in Offsets
      BY <3>1, <3>2, <3>3, ChainOffsets
    <3>8. queue.next[Off(n - 1)] = Off(n) /\ queue.next[Off(n)] = old.next[Off(n)]
      BY <1>4, <2>3, <3>3, <3>7
    <3>9. Working(queue, n, l)
      BY <1>1, <2>2, <2>3, <3>1, <3>3, <3>8 DEF Working
    <3> QED
      BY <3>6, <3>9 DEF n
  <2>6. l.pc \notin Outside
    BY <2>2 DEF Outside
  <2> QED
    BY <1>1, <1>3, <2>1, <2>4, <2>5, <2>6, CallStepOne
<1>5. CASE tail \notin Offsets
  <2>1. crashed' = "wild" /\ queues' = queues /\ prod' = prod
    BY <1>5 DEF HookLink
  <2>2. raced[q]
    <3> SUFFICES ASSUME ~raced[q] PROVE FALSE
      OBVIOUS
    <3> DEFINE n == Len(accepted[q])
    <3>1. Settled(old, accepted[q]) /\ Working(old, n, prod[p]) /\ n \in Nat
      BY <1>1, OwnChain
    <3> HIDE DEF n
    <3>2. n > 0 /\ tail = Off(n - 1) /\ Off(n) < MaxQueueSize
      BY <1>1, <3>1 DEF Working, Settled, n
    <3> QED
      BY <1>5, <3>1, <3>2, ChainOffsets
  <2>3. CrashOnlyFullOrRaced'
    BY <1>1, <1>2, <2>2 DEF CrashOnlyFullOrRaced
  <2>4. Moves(p, prod[p], old)
    BY <1>1, <2>1, OwnLocals DEF Moves, IInv
  <2> QED
    BY <1>1, <1>3, <2>1, <2>2, <2>3, <2>4, CallStepOne
<1> QED
  BY <1>4, <1>5

\* A command that has been copied is the next one of the chain.
LEMMA FillOne ==
  ASSUME IInv, NEW p, Producers = {p}, SafeInv', Fill(p)
  PROVE  IInv'
<1> DEFINE q == prod[p].q
           old == Queue(p)
           c == prod[p].cmd
           i == prod[p].index
           queue == StoreAll(old, i, c)
           l == [Idle EXCEPT !.pc = "unlock"]
<1>1. /\ prod[p].pc = "fill" /\ crashed = "no" /\ crashed' = "no" /\ p \in Producers
      /\ queues' = [queues EXCEPT ![q] = queue]
      /\ prod' = [prod EXCEPT ![p] = l]
      /\ accepted' = [accepted EXCEPT ![q] = IF raced[q] THEN <<>> ELSE Append(@, c)]
      /\ UNCHANGED <<write, main, frame, raced>>
      /\ prod[p].pc \notin Outside
  BY DEF Fill, At, mainVars, Update, Outside
<1>2. /\ q \in TwoQueues /\ c \in Commands /\ i \in Offsets /\ old \in Queues
      /\ accepted \in [TwoQueues -> Seq(Commands)]
  BY <1>1, OwnLocals, OwnQueue DEF IInv, SafeInv, TypeOK, LocalsShape
<1>3. l.pc = "unlock"
  BY DEF Idle
<1> HIDE DEF l, old, i, c
<1>4. /\ queue.alloc = old.alloc /\ queue.last = old.last /\ queue.next = old.next
      /\ queue.op = [old.op EXCEPT ![i] = c]
      /\ old.op \in [Offsets -> Payloads]
  <2>1. old.op \in [Offsets -> Payloads]
    BY <1>2 DEF Queues
  <2> QED
    BY <1>2, <2>1, StoreAllEffect
<1> HIDE DEF queue
<1> USE DEF old, i, c
<1>5. Moves(p, l, queue)
  BY <1>1, <1>3 DEF Moves, Outside
<1>6. \A r \in TwoQueues \ {q} : accepted'[r] = accepted[r]
  BY <1>1, <1>2
<1>7. accepted'[q] = IF raced[q] THEN <<>> ELSE Append(accepted[q], c)
  BY <1>1, <1>2
<1>8. ~raced[q] => Settled(queue, accepted'[q]) /\ Rest(queue, Len(accepted'[q]))
  <2> SUFFICES ASSUME ~raced[q]
               PROVE  Settled(queue, accepted'[q]) /\ Rest(queue, Len(accepted'[q]))
    OBVIOUS
  <2> DEFINE n == Len(accepted[q])
             cmds == Append(accepted[q], c)
  <2>1. Settled(old, accepted[q]) /\ Working(old, n, prod[p]) /\ n \in Nat
    BY <1>1, OwnChain
  <2>2. /\ Len(cmds) = n + 1 /\ cmds[n + 1] = c
        /\ \A k \in 1 .. n : cmds[k] = accepted[q][k]
    BY <1>2, <2>1
  <2>3. accepted'[q] = cmds
    BY <1>7
  <2>4. /\ Linked(old, n)
        /\ \A k \in 0 .. n - 1 : old.op[Off(k)] = accepted[q][k + 1]
    BY <2>1 DEF Settled
  <2> HIDE DEF n, cmds
  <2>5. /\ old.alloc = Off(n + 1) /\ Off(n + 1) < MaxQueueSize /\ i = Off(n)
        /\ old.last = Off(n)
        /\ n > 0 => old.next[Off(n - 1)] = Off(n)
        /\ old.next[Off(n)] = INVALID_INDEX
    BY <1>1, <2>1 DEF Working
  <2>6. Linked(queue, n + 1)
    <3> SUFFICES ASSUME NEW k \in 1 .. n PROVE queue.next[Off(k - 1)] = Off(k)
      BY <2>1 DEF Linked
    <3>1. CASE k = n
      BY <1>4, <2>5, <3>1
    <3>2. CASE k # n
      <4>1. k \in 1 .. n - 1
        BY <2>1, <3>2
      <4> QED
        BY <1>4, <2>4, <4>1 DEF Linked
    <3> QED
      BY <3>1, <3>2
  <2>7. ASSUME NEW k \in 0 .. n PROVE queue.op[Off(k)] = cmds[k + 1]
    <3>1. CASE k = n
      BY <1>2, <1>4, <2>2, <2>5, <3>1
    <3>2. CASE k # n
      <4>1. k \in 0 .. n - 1 /\ k \in Nat /\ k + 1 \in 1 .. n
        BY <2>1, <3>2
      <4>2. Off(k) # Off(n) /\ Off(k) \in Offsets
        <5>1. k < n + 1 /\ n + 1 \in Nat
          BY <2>1
        <5> QED
          BY <2>1, <2>5, <3>2, <4>1, <5>1, ChainOffsets
      <4>3. queue.op[Off(k)] = old.op[Off(k)]
        BY <1>4, <2>5, <4>2
      <4> QED
        BY <2>2, <2>4, <4>1, <4>3
    <3> QED
      BY <3>1, <3>2
  <2>8. Settled(queue, cmds)
    BY <2>1, <2>2, <2>5, <2>6, <2>7 DEF Settled
  <2>9. Rest(queue, n + 1)
    BY <1>4, <2>1, <2>5 DEF Rest, LastOff
  <2> QED
    BY <2>2, <2>3, <2>8, <2>9
<1> QED
  BY <1>1, <1>3, <1>5, <1>6, <1>7, <1>8, CallStepOne DEF Outside

LEMMA CallsOne ==
  ASSUME IInv, NEW p, Producers = {p}, SafeInv', Call(p) \/ QueueDrawCmd(p)
  PROVE  IInv'
BY OutsideStepOne, GetQueueOne, CheckFullOne, ClaimOne, InitElementOne, HookTestOne,
   HookFirstOne, ReadTailOne, HookLastOne, HookLinkOne, FillOne DEF QueueDrawCmd


\* A position is moved to the pixel that is nearest to it.
LEMMA MeantInside ==
  ASSUME NEW c \in Commands
  PROVE  Meant(c) = [pos |-> Inside(c.pos), color |-> c.color]
<1> DEFINE Nearest(x) == \A y \in 0 .. Width - 1 : Distance(x, c.pos) <= Distance(y, c.pos)
           m == CHOOSE x \in 0 .. Width - 1 : Nearest(x)
<1>1. c.pos \in Nat /\ Width \in Nat \ {0} /\ Inside(c.pos) \in 0 .. Width - 1
  BY DrawIFAssumption, InsideImage DEF Commands
<1>2. Nearest(Inside(c.pos))
  BY <1>1 DEF Inside, Distance
<1>3. ASSUME NEW x \in 0 .. Width - 1, Nearest(x) PROVE x = Inside(c.pos)
  <2>1. Distance(x, c.pos) <= Distance(Inside(c.pos), c.pos)
    BY <1>1, <1>3
  <2> QED
    BY <1>1, <2>1 DEF Inside, Distance
<1> HIDE DEF Nearest
<1>4. m = Inside(c.pos)
  BY <1>1, <1>2, <1>3
<1>5. Meant(c) = [c EXCEPT !.pos = m]
  BY DEF Meant, Nearest
<1> HIDE DEF m
<1>6. [c EXCEPT !.pos = m] = [pos |-> m, color |-> c.color]
  BY DEF Commands
<1> QED
  BY <1>4, <1>5, <1>6

\* What stays in order while the main thread works.
LEMMA ChainKept ==
  ASSUME IInv, crashed = "no", NEW q \in TwoQueues, Live(q), ~raced[q], prod' = prod,
         accepted'[q] = accepted[q],
         queues'[q].alloc = queues[q].alloc,
         queues'[q].last = queues[q].last,
         queues'[q].next = queues[q].next,
         \A k \in 0 .. Len(accepted[q]) - 1 : Untouched(q, k)' =>
           Untouched(q, k) /\ queues'[q].op[Off(k)] = queues[q].op[Off(k)]
  PROVE  Chain(q)'
<1>1. Chain(q)
  BY DEF IInv, ChainInv
<1> DEFINE n == Len(accepted[q])
<1>2. /\ Off(n) < MaxQueueSize /\ Linked(queues[q], n)
      /\ \A k \in 0 .. n - 1 : Untouched(q, k) => queues[q].op[Off(k)] = accepted[q][k + 1]
      /\ \A p \in Producers :
           IF Holds(p, q) THEN Working(queues[q], n, prod[p]) ELSE Rest(queues[q], n)
  BY <1>1 DEF Chain
<1>3. Linked(queues'[q], n)
  BY <1>2 DEF Linked
<1>4. \A p \in Producers :
        IF Holds(p, q)' THEN Working(queues'[q], n, prod'[p]) ELSE Rest(queues'[q], n)
  BY <1>2 DEF Holds, Working, Rest
<1>5. \A k \in 0 .. n - 1 : Untouched(q, k)' => queues'[q].op[Off(k)] = accepted'[q][k + 1]
  BY <1>2
<1>6. Len(accepted'[q]) = n
  OBVIOUS
<1> HIDE DEF n
<1> QED
  BY <1>2, <1>3, <1>4, <1>5, <1>6 DEF Chain

LEMMA MainLockOne ==
  ASSUME IInv, SafeInv', MainLock
  PROVE  IInv'
<1>1. /\ main.pc = "lock" /\ main'.pc \in {"lock", "swap"} /\ crashed = "no"
      /\ UNCHANGED <<queues, write, prod, frame, crashed, accepted, raced>>
  BY DEF MainLock, MainAt, MainGoto, history, IInv, SafeInv, TypeOK
<1>2. \A q : Live(q)' <=> Live(q)
  BY <1>1 DEF Live
<1>3. Records'
  BY <1>1, <1>2 DEF IInv, Records
<1>4. ChainInv'
  BY <1>1, <1>2, ChainKept DEF ChainInv, Untouched
<1>5. RenderInv' /\ CrashOnlyFullOrRaced'
  BY <1>1 DEF RenderInv, Rendering, FrameExact, MainAt, CrashOnlyFullOrRaced
<1> QED
  BY <1>3, <1>4, <1>5 DEF IInv

\* The exchange: what has been filled is drawn, unless a call is at work on it.
LEMMA SwapOne ==
  ASSUME IInv, SafeInv', Swap
  PROVE  IInv'
<1> USE DEF IInv
<1>1. /\ main.pc = "swap" /\ main'.pc = "clearAlloc" /\ crashed = "no" /\ crashed' = "no"
      /\ write' = read /\ read' = write
      /\ UNCHANGED <<queues, prod, frame>>
  BY DEF Swap, MainAt, MainGoto, SafeInv, TypeOK, TwoQueues, read
<1>2. /\ write \in TwoQueues /\ read \in TwoQueues /\ write # read /\ TwoQueues = {read, write}
  BY MainAndWrite DEF SafeInv, TypeOK
<1>3. /\ ~raced'[write] => ~raced[write] /\ \A p \in Producers : ~Holds(p, write)
      /\ \A q \in TwoQueues : accepted'[q] = IF raced'[q] THEN <<>> ELSE accepted[q]
  BY SwapMarked DEF SafeInv
<1>4. Live(write) /\ ~Live(read) /\ accepted[read] = <<>>
  BY <1>1, <1>2 DEF Live, Records
<1>5. \A q \in TwoQueues : Live(q)' <=> q = write
  BY <1>1, <1>2 DEF Live
<1>6. Records'
  <2>1. \A q \in TwoQueues : raced'[q] \/ ~Live(q)' => accepted'[q] = <<>>
    BY <1>2, <1>3, <1>4, <1>5
  <2>2. frame' = <<>>
    BY <1>1 DEF Records
  <2> QED
    BY <1>1, <2>1, <2>2 DEF Records
<1>7. ChainInv'
  <2> SUFFICES ASSUME NEW q \in TwoQueues, q = write, ~raced'[q] PROVE Chain(q)'
    BY <1>5 DEF ChainInv
  <2>1. ~raced[q] /\ accepted'[q] = accepted[q] /\ queues'[q] = queues[q]
    BY <1>1, <1>3
  <2>2. Chain(q)
    BY <1>1, <1>4, <2>1 DEF ChainInv
  <2>3. \A k : Untouched(q, k)
    BY <1>2 DEF Untouched
  <2>4. \A p \in Producers : ~Holds(p, q) /\ ~Holds(p, q)'
    BY <1>1, <1>3 DEF Holds
  <2> DEFINE n == Len(accepted[q])
  <2>5. /\ Off(n) < MaxQueueSize /\ Linked(queues[q], n)
        /\ \A k \in 0 .. n - 1 : queues[q].op[Off(k)] = accepted[q][k + 1]
        /\ \A p \in Producers : Rest(queues[q], n)
    BY <2>2, <2>3, <2>4 DEF Chain
  <2> QED
    BY <2>1, <2>4, <2>5 DEF Chain
<1>8. RenderInv' /\ CrashOnlyFullOrRaced'
  BY <1>1 DEF RenderInv, Rendering, FrameExact, MainAt, CrashOnlyFullOrRaced
<1> QED
  BY <1>6, <1>7, <1>8

\* clear(), first store.
LEMMA ClearAllocOne ==
  ASSUME IInv, SafeInv', ClearWriteAlloc
  PROVE  IInv'
<1> USE DEF IInv
<1>1. /\ main.pc = "clearAlloc" /\ main'.pc = "clearLast" /\ crashed = "no"
      /\ queues' = [queues EXCEPT ![write] = ClearAlloc(queues[write])]
      /\ UNCHANGED <<write, prod, frame, crashed, accepted, raced>>
  BY DEF ClearWriteAlloc, MainAt, MainGoto, history, SafeInv, TypeOK
<1>2. /\ write \in TwoQueues /\ read \in TwoQueues /\ write # read /\ TwoQueues = {read, write}
      /\ queues \in [TwoQueues -> Queues] /\ read' = read
  BY <1>1, MainAndWrite DEF SafeInv, TypeOK, read
<1>3. queues'[read] = queues[read] /\ queues'[write].alloc = 0
  BY <1>1, <1>2 DEF ClearAlloc, Queues
<1>4. /\ \A q : Live(q)' <=> Live(q)
      /\ ~Live(write)
  BY <1>1 DEF Live
<1>5. Records'
  BY <1>1, <1>3, <1>4 DEF Records
<1>6. ChainInv'
  <2> SUFFICES ASSUME NEW q \in TwoQueues, Live(q)', ~raced'[q] PROVE Chain(q)'
    BY DEF ChainInv
  <2>1. q = read /\ Live(q) /\ ~raced[q]
    BY <1>1, <1>2, <1>4
  <2>2. \A k : Untouched(q, k)
    BY <1>1 DEF Untouched
  <2> QED
    BY <1>1, <1>3, <2>1, <2>2, ChainKept
<1>7. RenderInv' /\ CrashOnlyFullOrRaced'
  BY <1>1 DEF RenderInv, Rendering, FrameExact, MainAt, CrashOnlyFullOrRaced
<1> QED
  BY <1>5, <1>6, <1>7

\* clear(), second store: the queue is empty and no call is at work on it.
LEMMA ClearLastOne ==
  ASSUME IInv, SafeInv', ClearWriteLast
  PROVE  IInv'
<1> USE DEF IInv
<1>1. /\ main.pc = "clearLast" /\ main'.pc = "unlock" /\ crashed = "no"
      /\ queues' = [queues EXCEPT ![write] = ClearLast(queues[write])]
      /\ accepted' = [accepted EXCEPT ![write] = <<>>]
      /\ UNCHANGED <<write, prod, frame, crashed, raced>>
  BY DEF ClearWriteLast, MainAt, MainGoto, SafeInv, TypeOK
<1>2. /\ write \in TwoQueues /\ read \in TwoQueues /\ write # read /\ TwoQueues = {read, write}
      /\ queues \in [TwoQueues -> Queues] /\ accepted \in [TwoQueues -> Seq(Commands)]
      /\ read' = read
  BY <1>1, MainAndWrite DEF SafeInv, TypeOK, read
<1>3. /\ queues'[read] = queues[read] /\ accepted'[read] = accepted[read]
      /\ queues'[write].alloc = queues[write].alloc /\ queues'[write].last = INVALID_INDEX
      /\ accepted'[write] = <<>>
  BY <1>1, <1>2 DEF ClearLast, Queues
<1>4. Live(read) /\ \A q \in TwoQueues : Live(q)'
  BY <1>1, <1>2 DEF Live
<1>5. Records'
  <2>1. \A q \in TwoQueues : raced'[q] \/ ~Live(q)' => accepted'[q] = <<>>
    BY <1>1, <1>2, <1>3, <1>4 DEF Records
  <2> QED
    BY <1>1, <2>1 DEF Records
<1>6. ChainInv'
  <2>1. ASSUME ~raced[read] PROVE Chain(read)'
    <3>1. \A k : Untouched(read, k)
      BY <1>1 DEF Untouched
    <3>2. Chain(read)
      BY <1>1, <1>2, <1>4, <2>1 DEF ChainInv
    <3> QED
      BY <1>1, <1>2, <1>3, <1>4, <2>1, <3>1, ChainKept DEF Chain
  <2>2. ASSUME ~raced[write] PROVE Chain(write)'
    <3>1. queues'[write].alloc = Off(0) /\ Off(0) < MaxQueueSize
      BY <1>1, <1>3, <2>2, OffZero, QueueAssumption DEF Records
    <3>2. LastOff(0) = INVALID_INDEX
      BY DEF LastOff
    <3>3. Rest(queues'[write], 0) /\ Linked(queues'[write], 0)
      BY <1>3, <3>1, <3>2 DEF Rest, Linked
    <3>4. \A p \in Producers : ~Holds(p, write)'
      BY <1>1, <1>2, <2>2 DEF SafeInv, NotHeld, Holds
    <3>5. Len(accepted'[write]) = 0
      BY <1>3
    <3> QED
      BY <1>1, <3>1, <3>3, <3>4, <3>5 DEF Chain
  <2> QED
    BY <1>1, <1>2, <2>1, <2>2 DEF ChainInv, Chain
<1>7. RenderInv' /\ CrashOnlyFullOrRaced'
  BY <1>1 DEF RenderInv, Rendering, FrameExact, MainAt, CrashOnlyFullOrRaced
<1> QED
  BY <1>5, <1>6, <1>7

\* Rendering begins with the first command.
LEMMA MainUnlockOne ==
  ASSUME IInv, SafeInv', MainUnlock
  PROVE  IInv'
<1> USE DEF IInv
<1>1. /\ main.pc = "unlock" /\ main'.pc = "draw" /\ main'.it = 0 /\ crashed = "no"
      /\ UNCHANGED <<queues, write, prod, frame, crashed, accepted, raced>>
  BY DEF MainUnlock, MainAt, history
<1>2. /\ read \in TwoQueues /\ read' = read /\ accepted[read] \in Seq(Commands)
  BY <1>1, MainAndWrite DEF SafeInv, TypeOK, read
<1>3. \A q : Live(q)' <=> Live(q)
  BY <1>1 DEF Live
<1>4. frame = <<>>
  BY <1>1 DEF Records
<1>5. Records'
  BY <1>1, <1>3 DEF Records
<1>6. ChainInv'
  <2>1. \A q, k : Untouched(q, k)
    BY <1>1 DEF Untouched
  <2> QED
    BY <1>1, <1>3, <2>1, ChainKept DEF ChainInv
<1>7. RenderInv'
  <2> DEFINE cmds == accepted[read]
             n == Len(cmds)
  <2>1. n > 0 => 0 \in 0 .. n - 1 /\ main'.it = Off(0) /\ frame' = Painted(cmds, 0)
    <3>1. Painted(cmds, 0) = <<>>
      BY DEF Painted
    <3>2. n \in Nat
      BY <1>2
    <3> QED
      BY <1>1, <1>4, <3>1, <3>2, OffZero
  <2>2. main'.it = 0 /\ Len(frame') <= 0
    BY <1>1, <1>4
  <2>3. FrameExact'
    BY <1>1 DEF FrameExact, MainAt
  <2> QED
    BY <1>1, <1>2, <2>1, <2>2, <2>3 DEF RenderInv
<1>8. CrashOnlyFullOrRaced'
  BY <1>1 DEF CrashOnlyFullOrRaced
<1> QED
  BY <1>5, <1>6, <1>7, <1>8

\* The end of the frame drops its records.
LEMMA PresentOne ==
  ASSUME IInv, SafeInv', Present
  PROVE  IInv'
<1> USE DEF IInv
<1>1. /\ main.pc = "present" /\ main'.pc = "lock" /\ frame' = <<>> /\ crashed = "no"
      /\ accepted' = [accepted EXCEPT ![read] = <<>>]
      /\ UNCHANGED <<queues, write, prod, crashed, raced>>
  BY DEF Present, MainAt
<1>2. /\ write \in TwoQueues /\ read \in TwoQueues /\ write # read /\ TwoQueues = {read, write}
      /\ accepted \in [TwoQueues -> Seq(Commands)] /\ read' = read
  BY <1>1, MainAndWrite DEF SafeInv, TypeOK, read
<1>3. accepted'[write] = accepted[write] /\ accepted'[read] = <<>>
  BY <1>1, <1>2
<1>4. Live(write) /\ \A q \in TwoQueues : Live(q)' <=> q = write
  BY <1>1, <1>2 DEF Live
<1>5. Records'
  BY <1>1, <1>2, <1>3, <1>4 DEF Records
<1>6. ChainInv'
  <2> SUFFICES ASSUME NEW q \in TwoQueues, Live(q)', ~raced'[q] PROVE Chain(q)'
    BY DEF ChainInv
  <2>1. q = write /\ Live(q) /\ ~raced[q]
    BY <1>1, <1>4
  <2>2. \A k : Untouched(q, k)
    BY <1>2, <2>1 DEF Untouched
  <2> QED
    BY <1>1, <1>3, <2>1, <2>2, ChainKept
<1>7. RenderInv' /\ CrashOnlyFullOrRaced'
  BY <1>1 DEF RenderInv, Rendering, FrameExact, MainAt, CrashOnlyFullOrRaced
<1> QED
  BY <1>5, <1>6, <1>7

\* What the queue that is drawn looks like when no call raced with the exchange.
LEMMA ReadChain ==
  ASSUME IInv, NEW p, Producers = {p}, crashed = "no", Rendering, ~raced[read]
  PROVE  /\ Live(read) /\ read \in TwoQueues
         /\ accepted[read] \in Seq(Commands) /\ Len(accepted[read]) \in Nat
         /\ Off(Len(accepted[read])) < MaxQueueSize
         /\ Linked(queues[read], Len(accepted[read]))
         /\ Rest(queues[read], Len(accepted[read]))
         /\ \A k \in 0 .. Len(accepted[read]) - 1 : Untouched(read, k) =>
              queues[read].op[Off(k)] = accepted[read][k + 1]
<1> USE DEF IInv
<1>1. read \in TwoQueues /\ read # write /\ accepted[read] \in Seq(Commands)
  BY MainAndWrite DEF SafeInv, TypeOK
<1>2. Live(read)
  BY <1>1 DEF Live, Rendering
<1>3. Chain(read)
  BY <1>1, <1>2 DEF ChainInv
<1>4. p \in Producers /\ ~Holds(p, read)
  BY <1>1 DEF SafeInv, NotHeld
<1> QED
  BY <1>1, <1>2, <1>3, <1>4 DEF Chain

\* The element that is looked at holds the command that was queued into it.
LEMMA ClampOne ==
  ASSUME IInv, NEW p, Producers = {p}, SafeInv', Clamp
  PROVE  IInv'
<1> USE DEF IInv
<1> DEFINE cmds == accepted[read]
           n == Len(cmds)
           op == queues[read].op[main.it]
<1>1. /\ main.pc = "draw" /\ crashed = "no"
      /\ UNCHANGED <<write, prod, frame, crashed, accepted, raced>>
      /\ Rendering
  BY DEF Clamp, MainAt, history, Rendering
<1>2. /\ read \in TwoQueues /\ read' = read /\ main.it \in Starts /\ main.it \in Offsets
      /\ queues \in [TwoQueues -> Queues]
      /\ main \in [pc : {"lock", "swap", "clearAlloc", "clearLast", "unlock", "draw", "point",
                         "increment", "cut", "present"}, it : Word, link : Word]
  BY <1>1, MainAndWrite, StartsWords DEF SafeInv, TypeOK, Shape, read
<1>3. main'.it = main.it /\ main'.pc = IF op.pos = Blank THEN "increment" ELSE "point"
  BY <1>2, ClampEffect DEF Clamp, MainGoto
<1>4. \A q : Live(q)' <=> Live(q)
  BY <1>1, <1>3 DEF Live
<1>5. ASSUME NEW q \in TwoQueues
      PROVE  /\ queues'[q].alloc = queues[q].alloc
             /\ queues'[q].last = queues[q].last
             /\ queues'[q].next = queues[q].next
             /\ \A i \in Offsets : queues'[q].op[i] # queues[q].op[i] => q = read /\ i = main.it
  <2>1. CASE op.pos = Blank
    BY <2>1 DEF Clamp
  <2>2. CASE op.pos # Blank
    <3>1. PICK queue \in Queues :
              /\ queues' = [queues EXCEPT ![read] = queue]
              /\ queue.alloc = queues[read].alloc
              /\ queue.last = queues[read].last
              /\ queue.next = queues[read].next
              /\ \A i \in Offsets \ {main.it} : queue.op[i] = queues[read].op[i]
      BY <2>2, ClampEffect
    <3> QED
      BY <1>2, <3>1
  <2> QED
    BY <2>1, <2>2
<1>6. Records'
  BY <1>1, <1>3, <1>4 DEF Records
<1>7. ChainInv'
  <2> SUFFICES ASSUME NEW q \in TwoQueues, Live(q), ~raced[q] PROVE Chain(q)'
    BY <1>1, <1>4 DEF ChainInv
  <2> DEFINE m == Len(accepted[q])
  <2>1. m \in Nat /\ Off(m) < MaxQueueSize
    BY <1>1 DEF ChainInv, Chain, SafeInv, TypeOK
  <2>2. ASSUME NEW k \in 0 .. m - 1, Untouched(q, k)'
        PROVE  Untouched(q, k) /\ queues'[q].op[Off(k)] = queues[q].op[Off(k)]
    <3>1. Off(k) \in Offsets /\ Off(k) \in Int
      BY <2>1, ChainOffsets
    <3>2. main.it \in Int
      BY <1>2 DEF Offsets
    <3>3. q = read => Off(k) > main.it
      BY <1>1, <1>2, <1>3, <2>2 DEF Untouched
    <3> QED
      BY <1>1, <1>5, <3>1, <3>2, <3>3 DEF Untouched
  <2> QED
    BY <1>1, <1>5, <2>2, ChainKept
<1>8. RenderInv'
  <2> SUFFICES ASSUME ~raced[read]
               PROVE  /\ n > 0 =>
                           \E j \in 0 .. n - 1 :
                             /\ main'.it = Off(j)
                             /\ frame' = Painted(cmds, IF main'.pc = "increment" THEN j + 1 ELSE j)
                             /\ main'.pc = "point" => queues'[read].op[main'.it] = Meant(cmds[j + 1])
                      /\ n = 0 => main'.it = 0 /\ Len(frame') <= 1 /\ (main'.pc # "increment" => Len(frame') <= 0)
    BY <1>1, <1>2, <1>3 DEF RenderInv, FrameExact, MainAt
  <2>1. cmds \in Seq(Commands) /\ n \in Nat
        /\ \A k \in 0 .. n - 1 : Untouched(read, k) => queues[read].op[Off(k)] = cmds[k + 1]
    BY <1>1, ReadChain
  <2>2. ASSUME n > 0
        PROVE  \E j \in 0 .. n - 1 :
                 /\ main'.it = Off(j)
                 /\ frame' = Painted(cmds, IF main'.pc = "increment" THEN j + 1 ELSE j)
                 /\ main'.pc = "point" => queues'[read].op[main'.it] = Meant(cmds[j + 1])
    <3>1. PICK j \in 0 .. n - 1 : main.it = Off(j) /\ frame = Painted(cmds, j)
      BY <1>1, <2>2 DEF RenderInv
    <3>2. op = cmds[j + 1] /\ cmds[j + 1] \in Commands
      <4>1. Untouched(read, j)
        BY <1>1, <3>1 DEF Untouched
      <4>2. j + 1 \in 1 .. n
        BY <2>1
      <4> QED
        BY <2>1, <3>1, <4>1, <4>2
    <3> HIDE DEF op
    <3>3. op.pos # Blank
      BY <3>2, QueueAssumption DEF Commands
    <3>4. main'.pc = "point"
      BY <1>3, <3>3
    <3>5. queues'[read].op[main.it] = [pos |-> Inside(op.pos), color |-> op.color]
      <4>1. PICK queue \in Queues :
              /\ queues' = [queues EXCEPT ![read] = queue]
              /\ queue.op[main.it] = [pos |-> Inside(op.pos), color |-> op.color]
        BY <3>3, ClampEffect DEF op
      <4> QED
        BY <1>2, <4>1
    <3>6. queues'[read].op[main'.it] = Meant(cmds[j + 1])
      BY <1>3, <3>2, <3>5, MeantInside
    <3> QED
      BY <1>1, <1>3, <3>1, <3>4, <3>6
  <2>3. n = 0 => main'.it = 0 /\ Len(frame') <= 0
    BY <1>1, <1>3 DEF RenderInv
  <2>4. Len(frame') \in Int
    BY DEF SafeInv, TypeOK
  <2> QED
    BY <2>2, <2>3, <2>4
<1>9. CrashOnlyFullOrRaced'
  BY <1>1 DEF CrashOnlyFullOrRaced
<1> QED
  BY <1>6, <1>7, <1>8, <1>9

\* The command that is drawn is the next one of the frame.
LEMMA DrawPointOne ==
  ASSUME IInv, NEW p, Producers = {p}, SafeInv', DrawPoint
  PROVE  IInv'
<1> USE DEF IInv
<1> DEFINE cmds == accepted[read]
           n == Len(cmds)
           op == queues[read].op[main.it]
<1>1. /\ main.pc = "point" /\ main'.pc = "increment" /\ main'.it = main.it /\ crashed = "no"
      /\ UNCHANGED <<queues, write, prod, crashed, accepted, raced>>
      /\ frame' = IF ~raced[read] /\ Len(frame) < MaxFrame THEN Append(frame, op) ELSE frame
      /\ Rendering
  BY DEF DrawPoint, MainAt, MainGoto, history, Rendering, SafeInv, TypeOK
<1>2. read' = read /\ frame \in Seq(Payloads) /\ read \in TwoQueues
  BY <1>1, MainAndWrite DEF read, SafeInv, TypeOK
<1>3. \A q : Live(q)' <=> Live(q)
  BY <1>1 DEF Live
<1>4. Records'
  BY <1>1, <1>3 DEF Records
<1>5. ChainInv'
  <2>1. \A q, k : Untouched(q, k)' => Untouched(q, k)
    BY <1>1, <1>2 DEF Untouched
  <2> QED
    BY <1>1, <1>3, <2>1, ChainKept DEF ChainInv
<1>6. RenderInv'
  <2> SUFFICES ASSUME ~raced[read]
               PROVE  /\ n > 0 =>
                           \E j \in 0 .. n - 1 :
                             main'.it = Off(j) /\ frame' = Painted(cmds, j + 1)
                      /\ n = 0 => main'.it = 0 /\ Len(frame') <= 1
    BY <1>1, <1>2 DEF RenderInv, FrameExact, MainAt
  <2>1. n \in Nat /\ Off(n) < MaxQueueSize /\ Len(frame) \in Nat
    BY <1>1, <1>2, ReadChain
  <2>2. n <= Capacity /\ Capacity \in Nat
    BY <2>1, CapacityBound, QueueAssumption DEF Capacity
  <2>3. ASSUME n > 0
        PROVE  \E j \in 0 .. n - 1 : main'.it = Off(j) /\ frame' = Painted(cmds, j + 1)
    <3>1. PICK j \in 0 .. n - 1 : /\ main.it = Off(j) /\ frame = Painted(cmds, j)
                                  /\ op = Meant(cmds[j + 1])
      BY <1>1, <2>3 DEF RenderInv
    <3>2. j \in Nat /\ j < n
      BY <2>1
    <3> HIDE DEF op, n, cmds
    <3>3. Len(frame) = j
      BY <3>1, <3>2 DEF Painted
    <3>4. frame' = Append(frame, op)
      BY <1>1, <2>1, <2>2, <3>2, <3>3 DEF MaxFrame
    <3>5. Append(Painted(cmds, j), Meant(cmds[j + 1])) = Painted(cmds, j + 1)
      BY <3>2 DEF Painted
    <3> QED
      BY <1>1, <3>1, <3>4, <3>5
  <2>4. ASSUME n = 0 PROVE main'.it = 0 /\ Len(frame') <= 1
    <3>1. main.it = 0 /\ Len(frame) <= 0
      BY <1>1, <2>4 DEF RenderInv
    <3>2. Len(frame') <= 1
      <4>1. op \in Payloads
        <5>1. main.it \in Offsets
          BY <1>1, StartsWords DEF SafeInv, Shape
        <5>2. queues[read] \in Queues
          BY <1>2 DEF SafeInv, TypeOK
        <5> QED
          BY <5>1, <5>2 DEF Queues
      <4>2. Len(Append(frame, op)) = Len(frame) + 1
        BY <1>2, <4>1
      <4> HIDE DEF op
      <4> QED
        BY <1>1, <2>1, <3>1, <4>2
    <3> QED
      BY <1>1, <3>1, <3>2
  <2> QED
    BY <2>3, <2>4
<1>7. CrashOnlyFullOrRaced'
  BY <1>1 DEF CrashOnlyFullOrRaced
<1> QED
  BY <1>4, <1>5, <1>6, <1>7

\* The link that is read stays the one of the element: nobody writes it.
LEMMA FollowLinkOne ==
  ASSUME IInv, NEW p, Producers = {p}, SafeInv', FollowLink
  PROVE  IInv'
<1> USE DEF IInv
<1>1. /\ main.pc = "increment" /\ main'.pc = "cut" /\ main'.it = main.it /\ crashed = "no"
      /\ main'.link = queues[read].next[main.it]
      /\ UNCHANGED <<queues, write, prod, frame, crashed, accepted, raced>>
      /\ Rendering
  BY DEF FollowLink, MainAt, history, Rendering, SafeInv, TypeOK
<1>2. read' = read /\ read \in TwoQueues
  BY <1>1, MainAndWrite DEF read, SafeInv
<1>3. \A q : Live(q)' <=> Live(q)
  BY <1>1 DEF Live
<1>4. Records'
  BY <1>1, <1>3 DEF Records
<1>5. ChainInv'
  <2>1. \A q, k : Untouched(q, k)' => Untouched(q, k)
    BY <1>1, <1>2 DEF Untouched
  <2> QED
    BY <1>1, <1>3, <2>1, ChainKept DEF ChainInv
<1>6. RenderInv'
  BY <1>1, <1>2 DEF RenderInv, Rendering, FrameExact, MainAt
<1>7. CrashOnlyFullOrRaced'
  BY <1>1 DEF CrashOnlyFullOrRaced
<1> QED
  BY <1>4, <1>5, <1>6, <1>7

\* The renderer goes on to the next element of the chain, and from the last one
\* to the end.  A queue into which nothing was queued ends after its first.
LEMMA SuccessorOne ==
  ASSUME IInv, NEW p, Producers = {p}, MainAt("cut"), ~raced[read]
  PROVE  LET next == Cut(queues[read], main.link)
             n == Len(accepted[read])
         IN /\ n = 0 => main.it = 0 /\ next = INVALID_INDEX
            /\ \A j \in 0 .. n - 1 : main.it = Off(j) =>
                 next = IF j = n - 1 THEN INVALID_INDEX ELSE Off(j + 1)
            /\ next > main.it
<1> USE DEF IInv
<1> DEFINE n == Len(accepted[read])
           queue == queues[read]
           next == Cut(queue, main.link)
<1>1. crashed = "no" /\ Rendering
  BY DEF MainAt, Rendering
<1>2. n \in Nat /\ Off(n) < MaxQueueSize /\ Linked(queue, n) /\ Rest(queue, n)
  BY <1>1, ReadChain
<1>3. main.it \in Offsets /\ main.it \in Nat /\ main.it < MaxQueueSize
  <2>1. main.it \in Starts
    BY <1>1 DEF SafeInv, Shape
  <2>2. main.it \in Offsets
    BY <2>1, StartsWords
  <2> QED
    BY <2>2, QueueAssumption DEF Offsets
<1>4. /\ n > 0 => \E j \in 0 .. n - 1 : main.it = Off(j)
      /\ n = 0 => main.it = 0
      /\ main.link = queue.next[main.it]
  BY <1>1 DEF RenderInv, MainAt
<1>5. queue.alloc = Off(n) /\ (n > 0 => queue.next[Off(n - 1)] = INVALID_INDEX)
  BY <1>2 DEF Rest
<1>6. INVALID_INDEX \in Int /\ INVALID_INDEX >= MaxQueueSize /\ MaxQueueSize \in Int
  BY StartsWords, QueueAssumption DEF INVALID_INDEX
<1>7. n = 0 => next = INVALID_INDEX
  <2>1. queue.next[main.it] \in Word
    <3>1. queue \in Queues
      BY <1>1, ReadChain DEF SafeInv, TypeOK
    <3> QED
      BY <1>3, <3>1 DEF Queues
  <2> QED
    BY <1>4, <1>5, <2>1, OffZero DEF Cut, Word
<1> HIDE DEF n, queue
<1>8. ASSUME NEW j \in 0 .. n - 1, main.it = Off(j)
      PROVE  next = IF j = n - 1 THEN INVALID_INDEX ELSE Off(j + 1)
  <2>1. CASE j = n - 1
    BY <1>2, <1>4, <1>5, <1>8, <2>1 DEF Cut
  <2>2. CASE j # n - 1
    <3>1. j + 1 \in 1 .. n - 1 /\ j + 1 \in Nat /\ j + 1 < n
      BY <1>2, <2>2
    <3>2. queue.next[Off(j)] = Off(j + 1)
      BY <1>2, <3>1 DEF Linked
    <3>3. Off(j + 1) \in Offsets /\ Off(j + 1) \in Nat /\ Off(n) \in Nat /\ Off(j + 1) < Off(n)
      BY <1>2, <3>1, ChainOffsets
    <3>4. Off(j + 1) # INVALID_INDEX
      BY <3>3, StartsWords
    <3>5. ~(Off(j + 1) >= Off(n))
      BY <3>3
    <3> QED
      BY <1>4, <1>5, <1>8, <2>2, <3>2, <3>4, <3>5 DEF Cut
  <2> QED
    BY <2>1, <2>2
<1>9. next > main.it
  <2>1. CASE next = INVALID_INDEX
    BY <1>3, <1>6, <2>1
  <2>2. CASE next # INVALID_INDEX
    <3>1. PICK j \in 0 .. n - 1 : main.it = Off(j)
      BY <1>2, <1>4, <1>7, <2>2
    <3>2. next = Off(j + 1)
      BY <1>8, <2>2, <3>1
    <3>3. Off(j) < Off(j + 1) /\ Off(j) \in Nat /\ Off(j + 1) \in Nat
      BY <1>2, OffLess, OffNat
    <3> QED
      BY <3>1, <3>2, <3>3
  <2> QED
    BY <2>1, <2>2
<1> QED
  BY <1>4, <1>7, <1>8, <1>9 DEF n, queue

\* The frame is complete when the end is reached.
LEMMA CutLinkOne ==
  ASSUME IInv, NEW p, Producers = {p}, SafeInv', CutLink
  PROVE  IInv'
<1> USE DEF IInv
<1> DEFINE cmds == accepted[read]
           n == Len(cmds)
           next == Cut(queues[read], main.link)
<1>1. /\ main.pc = "cut" /\ crashed = "no" /\ Rendering /\ MainAt("cut")
      /\ main'.it = next /\ main'.pc = IF AtEnd(next) THEN "present" ELSE "draw"
      /\ UNCHANGED <<queues, write, prod, frame, crashed, accepted, raced>>
  BY DEF CutLink, MainAt, history, Rendering
<1>2. read' = read /\ read \in TwoQueues
  BY <1>1, MainAndWrite DEF read, SafeInv
<1>3. \A q : Live(q)' <=> Live(q)
  BY <1>1 DEF Live
<1>4. Records'
  BY <1>1, <1>3 DEF Records
<1>5. main.it \in Nat /\ (main'.it \in Int)
  <2>1. main.it \in Word /\ main'.it \in Word
    BY DEF SafeInv, TypeOK
  <2> QED
    BY <2>1 DEF Word
<1>6. ~raced[read] => /\ n = 0 => main.it = 0 /\ next = INVALID_INDEX
                      /\ \A j \in 0 .. n - 1 : main.it = Off(j) =>
                           next = IF j = n - 1 THEN INVALID_INDEX ELSE Off(j + 1)
                      /\ next > main.it
  BY <1>1, SuccessorOne
<1> HIDE DEF next
<1>7. ChainInv'
  <2> SUFFICES ASSUME NEW q \in TwoQueues, Live(q), ~raced[q] PROVE Chain(q)'
    BY <1>1, <1>3 DEF ChainInv
  <2> DEFINE m == Len(accepted[q])
  <2>1. m \in Nat /\ Off(m) < MaxQueueSize
    BY <1>1 DEF ChainInv, Chain, SafeInv, TypeOK
  <2>2. ASSUME NEW k \in 0 .. m - 1, Untouched(q, k)' PROVE Untouched(q, k)
    <3>1. CASE q = read
      <4>1. Off(k) \in Nat
        BY <2>1, ChainOffsets
      <4>2. main'.it > main.it
        BY <1>1, <1>6, <3>1
      <4>3. Off(k) >= main'.it
        BY <1>1, <1>2, <1>5, <2>2, <3>1, <4>1 DEF Untouched
      <4> QED
        BY <1>5, <4>1, <4>2, <4>3 DEF Untouched
    <3>2. CASE q # read
      BY <3>2 DEF Untouched
    <3> QED
      BY <3>1, <3>2
  <2> QED
    BY <1>1, <2>2, ChainKept
<1>8. RenderInv'
  <2> SUFFICES ASSUME ~raced[read]
               PROVE  /\ main'.pc = "draw" /\ n > 0 =>
                           \E j \in 0 .. n - 1 :
                             main'.it = Off(j) /\ frame' = Painted(cmds, j)
                      /\ main'.pc = "draw" => n # 0
                      /\ main'.pc = "present" =>
                           IF cmds = <<>>
                             THEN Len(frame') <= 1
                             ELSE frame' = [k \in DOMAIN cmds |-> Meant(cmds[k])]
    BY <1>1, <1>2 DEF RenderInv, Rendering, FrameExact, MainAt
  <2>1. cmds \in Seq(Commands) /\ n \in Nat /\ Off(n) < MaxQueueSize
    BY <1>1, ReadChain
  <2>2. AtEnd(INVALID_INDEX)
    BY StartsWords DEF AtEnd
  <2>3. CASE n = 0
    <3>1. main'.pc = "present"
      BY <1>1, <1>6, <2>2, <2>3
    <3>2. cmds = <<>> /\ Len(frame') <= 1
      BY <1>1, <2>1, <2>3 DEF RenderInv
    <3> QED
      BY <2>3, <3>1, <3>2
  <2>4. CASE n # 0
    <3>1. PICK j \in 0 .. n - 1 : main.it = Off(j) /\ frame = Painted(cmds, j + 1)
      BY <1>1, <2>1, <2>4 DEF RenderInv
    <3>2. next = IF j = n - 1 THEN INVALID_INDEX ELSE Off(j + 1)
      BY <1>6, <3>1
    <3>3. CASE j = n - 1
      <4>1. main'.pc = "present"
        BY <1>1, <2>2, <3>2, <3>3
      <4>2. DOMAIN cmds = 1 .. n /\ cmds # <<>> /\ j + 1 = n
        BY <2>1, <2>4, <3>3
      <4>3. frame' = [k \in DOMAIN cmds |-> Meant(cmds[k])]
        BY <1>1, <3>1, <4>2 DEF Painted
      <4> QED
        BY <4>1, <4>2, <4>3
    <3>4. CASE j # n - 1
      <4>1. j + 1 \in 0 .. n - 1 /\ j + 1 \in Nat /\ j + 1 < n
        BY <2>1, <3>4
      <4>2. ~AtEnd(Off(j + 1))
        <5>1. Off(j + 1) \in Offsets
          BY <2>1, <4>1, ChainOffsets
        <5> QED
          BY <5>1, QueueAssumption DEF Offsets, AtEnd
      <4>3. main'.pc = "draw" /\ main'.it = Off(j + 1)
        BY <1>1, <3>2, <3>4, <4>2
      <4> QED
        BY <1>1, <2>4, <3>1, <4>1, <4>3
    <3> QED
      BY <3>3, <3>4
  <2> QED
    BY <2>3, <2>4
<1>9. CrashOnlyFullOrRaced'
  BY <1>1 DEF CrashOnlyFullOrRaced
<1> QED
  BY <1>4, <1>7, <1>8, <1>9

LEMMA StepOne ==
  ASSUME IInv, NEW p, Producers = {p}, [Next]_vars
  PROVE  IInv'
<1>1. SafeInv'
  BY StepSafe DEF IInv
<1>2. CASE \E r \in Producers : Call(r) \/ QueueDrawCmd(r)
  BY <1>1, <1>2, CallsOne
<1>3. CASE MainLoop
  BY <1>1, <1>3, MainLockOne, SwapOne, ClearAllocOne, ClearLastOne, MainUnlockOne, ClampOne,
     DrawPointOne, FollowLinkOne, CutLinkOne, PresentOne DEF MainLoop, Render
<1>4. CASE UNCHANGED vars
  <2> USE DEF vars, IInv
  <2>1. Records'
    BY <1>4 DEF Records, Live
  <2>2. ChainInv'
    <3>1. \A q : (Live(q)' <=> Live(q)) /\ \A k : Untouched(q, k)' <=> Untouched(q, k)
      BY <1>4 DEF Live, Untouched, read
    <3> QED
      BY <1>4, <3>1, ChainKept DEF ChainInv
  <2>3. RenderInv'
    BY <1>4 DEF RenderInv, Rendering, FrameExact, MainAt, read
  <2>4. CrashOnlyFullOrRaced'
    BY <1>4 DEF CrashOnlyFullOrRaced
  <2> QED
    BY <1>1, <2>1, <2>2, <2>3, <2>4
<1> QED
  BY <1>2, <1>3, <1>4 DEF Next

\* The queues stay chains of whole elements, and the frame follows the chain.
THEOREM OneInvariance ==
  ASSUME NEW p, Producers = {p}
  PROVE  Spec => []IInv
<1>1. Init => IInv
  BY InitOne
<1>2. IInv /\ [Next]_vars => IInv'
  BY StepOne
<1> QED
  BY <1>1, <1>2, PTL DEF Spec

\* Every command that a single thread has queued, unless the call raced with an
\* exchange, is drawn once, in order, inside the image, in the next frame.
THEOREM FramesExact ==
  ASSUME NEW p, Producers = {p}
  PROVE  Spec => []FrameExact
<1>1. IInv => FrameExact
  <2> SUFFICES ASSUME IInv PROVE FrameExact
    OBVIOUS
  <2> QED
    BY DEF IInv, RenderInv, FrameExact, MainAt
<1> QED
  BY <1>1, OneInvariance, PTL

\* With a single thread the process dies in queueDrawCmd() for two reasons only:
\* the queue is full, or the call raced with an exchange.
THEOREM CrashesExplained ==
  ASSUME NEW p, Producers = {p}
  PROVE  Spec => []CrashOnlyFullOrRaced
<1>1. IInv => CrashOnlyFullOrRaced
  BY DEF IInv
<1> QED
  BY <1>1, OneInvariance, PTL

\* Rendering a queue that no call raced with comes nearer to the end of the
\* buffer with every element: it reads each at most once, and no cycle of links.
THEOREM RenderingAdvances ==
  ASSUME NEW p, Producers = {p}
  PROVE  Spec => RenderAdvances
<1>1. IInv /\ [Next]_vars =>
        [MainAt("cut") /\ main' # main /\ ~raced[read] => main'.it > main.it]_vars
  <2> SUFFICES ASSUME IInv, [Next]_vars, MainAt("cut"), main' # main, ~raced[read]
               PROVE  main'.it > main.it
    OBVIOUS
  <2>1. CutLink
    <3>1. MainLoop
      BY DEF Next, vars, mainVars, Call, QueueDrawCmd, Lock, GetQueue, CheckFull, Claim,
             InitElement, HookTest, HookFirst, ReadTail, HookLast, HookLink, Fill, Unlock
    <3> QED
      BY <3>1 DEF MainLoop, Render, MainAt, MainLock, Swap, ClearWriteAlloc, ClearWriteLast,
                  MainUnlock, Clamp, DrawPoint, FollowLink, Present
  <2>2. main'.it = Cut(queues[read], main.link)
    BY <2>1 DEF CutLink
  <2> QED
    BY <2>2, SuccessorOne
<1> QED
  BY <1>1, OneInvariance, PTL DEF Spec, RenderAdvances

=============================================================================
