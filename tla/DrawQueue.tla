------------------------------ MODULE DrawQueue ------------------------------
(***************************************************************************)
(* The data structure of class DrawQueue: one buffer of MaxQueueSize bytes *)
(* from which elements are cut by advancing _allocIndex, each starting     *)
(* with a word that holds the offset of the next element.  A queue is a    *)
(* record; every operator below is one access to it by one thread, so that *)
(* the modules that use it can interleave threads between any two of them. *)
(*                                                                         *)
(* All draw commands of the program have the size DRAW_PIXEL_OP_SIZE, so   *)
(* every element takes the same ElementSize bytes.  A payload has two      *)
(* halves, the position and the colour, which memcpy writes separately.    *)
(***************************************************************************)
EXTENDS Integers

CONSTANTS
  MaxQueueSize,   \* size of the buffer in bytes, a uint32_t
  ElementSize,    \* bytes of one element, the word of its link included
  WordSize,       \* number of values of a uint32_t
  Positions,      \* what x and y of a draw command can be
  Colors,         \* what its colour can be
  Blank           \* the zero bytes of memory that was never written

ASSUME QueueAssumption ==
  /\ MaxQueueSize \in Nat \ {0}
  /\ ElementSize \in Nat \ {0}
  /\ WordSize \in Nat
  /\ MaxQueueSize < WordSize
  /\ Blank \notin Positions \cup Colors

Word == 0 .. WordSize - 1

INVALID_INDEX == WordSize - 1

\* Where an element can start.
Offsets == 0 .. MaxQueueSize - 1

Commands == [pos : Positions, color : Colors]

\* What the bytes of a payload can hold: halves of commands, or nothing yet.
Payloads == [pos : Positions \cup {Blank}, color : Colors \cup {Blank}]

Queues == [alloc : Word, last : Word,
           next : [Offsets -> Word], op : [Offsets -> Payloads]]

-----------------------------------------------------------------------------

\* The constructor.  A buffer of 1<<30 bytes comes from fresh, zeroed pages,
\* so the link words read 0 and no payload has an operation type.
FreshQueue ==
  [alloc |-> 0, last |-> INVALID_INDEX,
   next |-> [i \in Offsets |-> 0],
   op |-> [i \in Offsets |-> [pos |-> Blank, color |-> Blank]]]

\* Mutant of ClearAlloc: the counter keeps its value.
ClearAllocForgotten(q) == q

\* clear() makes two stores; the buffer keeps its bytes.
ClearAlloc(q) == [q EXCEPT !.alloc = 0]

ClearLast(q) == [q EXCEPT !.last = INVALID_INDEX]

\* Mutant of IsFull: no early return.
NeverFull(q) == FALSE

\* The early return of allocateDrawOpRaw().
IsFull(q) == q.alloc >= MaxQueueSize

\* Mutants of FetchAdd: no reservation, and one without the link word.
FetchAddForgotten(q) == q

FetchAddPayloadOnly(q) == [q EXCEPT !.alloc = (@ + ElementSize - 1) % WordSize]

\* _allocIndex.fetch_add(elementSize); the offset handed out is the old value.
FetchAdd(q) == [q EXCEPT !.alloc = (@ + ElementSize) % WordSize]

\* The second capacity check, on the claimed offset, in uint32_t arithmetic.
\* An element that would end exactly at the end of the buffer is refused too.
Fits(i) == (i + ElementSize) % WordSize < MaxQueueSize

\* Mutant of InitNext: forgotten.
InitNextForgotten(q, i) == q

InitNext(q, i) == [q EXCEPT !.next[i] = INVALID_INDEX]

\* Mutant of SetLast.
SetLastForgotten(q, i) == q

\* The two stores of hookInLast(): the new tail, then the link to it.
SetLast(q, i) == [q EXCEPT !.last = i]

\* Mutants of Link: to the payload, and with the offset of the tail.
LinkToPayload(q, prev, i) == [q EXCEPT !.next[prev] = i + 1]

LinkToItself(q, prev, i) == [q EXCEPT !.next[prev] = prev]

Link(q, prev, i) == [q EXCEPT !.next[prev] = i]

\* One of the two stores with which memcpy puts a command into an element.
Store(q, i, h, c) == [q EXCEPT !.op[i][h] = c[h]]

\* Iterator::increment() copies a link to _index, and then cuts it when it leads
\* beyond _allocIndex.
Cut(q, n) == IF n # INVALID_INDEX /\ n >= q.alloc THEN INVALID_INDEX ELSE n

\* What increment() comes to while nobody changes the queue.
Successor(q, i) == Cut(q, q.next[i])

\* Iterator::operator== against end(): every offset outside the buffer is end.
AtEnd(i) == i >= MaxQueueSize

=============================================================================
