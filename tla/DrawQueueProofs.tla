--------------------------- MODULE DrawQueueProofs ---------------------------
(* What the accesses to a DrawQueue return and what they leave alone.       *)
EXTENDS DrawQueue, TLAPS

\* A new queue is empty and well-formed.
LEMMA FreshQueueType ==
  FreshQueue \in Queues /\ FreshQueue.alloc = 0 /\ FreshQueue.last = INVALID_INDEX
BY QueueAssumption DEF FreshQueue, Queues, Word, INVALID_INDEX, Offsets, Payloads

\* Offsets are words, and so is the mark for "no element".
LEMMA Words == Offsets \subseteq Word /\ INVALID_INDEX \in Word /\ 0 \in Word
               /\ INVALID_INDEX \notin Offsets
BY QueueAssumption DEF Offsets, Word, INVALID_INDEX

\* clear() empties the queue and leaves the bytes of the buffer.
LEMMA ClearType ==
  ASSUME NEW q \in Queues
  PROVE  /\ ClearLast(ClearAlloc(q)) \in Queues
         /\ ClearLast(ClearAlloc(q)).alloc = 0
         /\ ClearLast(ClearAlloc(q)).last = INVALID_INDEX
         /\ ClearLast(ClearAlloc(q)).op = q.op
BY Words DEF ClearLast, ClearAlloc, Queues

\* Claiming an element that does not wrap the counter only advances it.
LEMMA FetchAddType ==
  ASSUME NEW q \in Queues, q.alloc + ElementSize < WordSize
  PROVE  /\ FetchAdd(q) \in Queues
         /\ FetchAdd(q).alloc = q.alloc + ElementSize
         /\ FetchAdd(q).last = q.last
         /\ FetchAdd(q).op = q.op
         /\ Fits(q.alloc) <=> q.alloc + ElementSize < MaxQueueSize
<1>1. (q.alloc + ElementSize) % WordSize = q.alloc + ElementSize
  BY QueueAssumption DEF Queues, Word
<1> QED
  BY <1>1, QueueAssumption DEF FetchAdd, Fits, Queues, Word

\* Writing a link leaves the counter, the tail and the payloads alone.
LEMMA InitNextType ==
  ASSUME NEW q \in Queues, NEW i \in Offsets
  PROVE  /\ InitNext(q, i) \in Queues
         /\ InitNext(q, i).alloc = q.alloc
         /\ InitNext(q, i).last = q.last
         /\ InitNext(q, i).op = q.op
BY Words DEF InitNext, Queues

LEMMA LinkType ==
  ASSUME NEW q \in Queues, NEW prev \in Offsets, NEW i \in Offsets
  PROVE  /\ Link(q, prev, i) \in Queues
         /\ Link(q, prev, i).alloc = q.alloc
         /\ Link(q, prev, i).last = q.last
         /\ Link(q, prev, i).op = q.op
BY Words DEF Link, Queues

LEMMA SetLastType ==
  ASSUME NEW q \in Queues, NEW i \in Offsets
  PROVE  /\ SetLast(q, i) \in Queues
         /\ SetLast(q, i).alloc = q.alloc
         /\ SetLast(q, i).last = i
         /\ SetLast(q, i).op = q.op
BY Words DEF SetLast, Queues

\* Copying half a command changes that half of that element and nothing else.
LEMMA StoreType ==
  ASSUME NEW q \in Queues, NEW i \in Offsets, NEW h \in {"pos", "color"},
         NEW c \in Commands
  PROVE  /\ Store(q, i, h, c) \in Queues
         /\ Store(q, i, h, c).alloc = q.alloc
         /\ Store(q, i, h, c).last = q.last
         /\ \A j \in Offsets \ {i} : Store(q, i, h, c).op[j] = q.op[j]
         /\ \A g \in {"pos", "color"} :
              Store(q, i, h, c).op[i][g] = IF g = h THEN c[h] ELSE q.op[i][g]
BY DEF Store, Queues, Payloads, Commands

\* An iterator only ever goes to a word, and never beyond the counter.
LEMMA CutType ==
  ASSUME NEW q \in Queues, NEW i \in Word
  PROVE  /\ Cut(q, i) \in Word
         /\ Cut(q, i) = INVALID_INDEX \/ Cut(q, i) < q.alloc
BY QueueAssumption DEF Cut, Queues, Word, INVALID_INDEX

=============================================================================
