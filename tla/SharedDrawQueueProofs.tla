----------------------- MODULE SharedDrawQueueProofs -----------------------
(***************************************************************************)
(* What holds of a DrawQueue for every size of the buffer and every number *)
(* of producers: elements never overlap and never leave the buffer, a      *)
(* completed element keeps its command, the counter never wraps, and the   *)
(* links lead from completed elements to completed elements.               *)
(***************************************************************************)
EXTENDS SharedDrawQueue, DrawQueueProofs, FiniteSetTheorems, TLAPS

\* Producers that passed the first capacity check and have not yet advanced
\* the counter: each of them may still push it one element further.
Claiming == {p \in Producers : pc[p] = "claim"}

CounterInv ==
  queue.alloc + ElementSize * Cardinality(Claiming)
    < MaxQueueSize + ElementSize * Cardinality(Producers)

\* An element at offset i was claimed in this round and fits in the buffer.
Claimed(i) == i \in Nat /\ i + ElementSize <= queue.alloc /\ i + ElementSize < MaxQueueSize

\* What a producer knows at each step of its call.
LocalsInv ==
  \A p \in Producers :
    /\ pc[p] # "idle" => cmd[p] \in Commands
    /\ Owns(p) => Claimed(index[p])
    /\ pc[p] = "readTail" => queue.last # INVALID_INDEX
    /\ pc[p] \in {"setLast", "link"} => tail[p] \in Offsets

LastInv == queue.last = INVALID_INDEX \/ Claimed(queue.last)

OwnedDisjoint ==
  \A p, q \in Producers : Owns(p) /\ Owns(q) /\ p # q => Disjoint(index[p], index[q])

OwnedAcceptedDisjoint ==
  \A p \in Producers, r \in accepted : Owns(p) => Disjoint(index[p], r.index)

AcceptedDisjoint ==
  \A r, s \in accepted : r # s => Disjoint(r.index, s.index)

AcceptedInv ==
  \A r \in accepted : Claimed(r.index) /\ queue.op[r.index] = r.cmd

\* The halves that are copied are those of the command.
FillInv ==
  \A p \in Producers :
    /\ missing[p] # {} => pc[p] = "fill"
    /\ pc[p] = "fill" => /\ missing[p] # {}
                         /\ \A h \in Halves \ missing[p] : queue.op[index[p]][h] = cmd[p][h]

IInv ==
  /\ TypeOK
  /\ CounterInv
  /\ LocalsInv
  /\ LastInv
  /\ OwnedDisjoint
  /\ OwnedAcceptedDisjoint
  /\ AcceptedDisjoint
  /\ AcceptedInv
  /\ FillInv

-----------------------------------------------------------------------------

\* The counter has room for one more element while a producer is claiming.
LEMMA RoomToClaim ==
  ASSUME TypeOK, CounterInv, NEW p \in Producers, pc[p] = "claim"
  PROVE  queue.alloc + ElementSize < WordSize
<1>1. IsFiniteSet(Claiming) /\ Cardinality(Claiming) \in Nat
  BY ProducersAssumption, FS_Subset, FS_CardinalityType DEF Claiming
<1>2. Cardinality(Claiming) # 0
  BY <1>1, FS_EmptySet DEF Claiming
<1>3. Cardinality(Producers) \in Nat
  BY ProducersAssumption, FS_CardinalityType
<1>4. ElementSize * Cardinality(Claiming) >= ElementSize
  BY <1>1, <1>2, QueueAssumption
<1>5. /\ ElementSize * Cardinality(Claiming) \in Int
      /\ ElementSize * Cardinality(Producers) \in Int
  BY <1>1, <1>3, QueueAssumption
<1> QED
  BY <1>4, <1>5, ProducersAssumption, QueueAssumption DEF CounterInv, TypeOK, Queues, Word

\* A call that returns leaves locals of the right types.
LEMMA ReturnType ==
  ASSUME TypeOK, NEW p \in Producers, Return(p)
  PROVE  /\ pc' \in [Producers -> Labels]
         /\ cmd' \in [Producers -> Payloads]
         /\ index' \in [Producers -> Word]
         /\ tail' \in [Producers -> Word]
<1>1. NoCommand \in Payloads
  BY DEF NoCommand, Payloads
<1>2. "idle" \in Labels
  BY DEF Labels
<1> QED
  BY <1>1, <1>2, Words DEF TypeOK, Return, Goto

\* The invariant holds initially.
LEMMA InitInv == Init => IInv
<1> SUFFICES ASSUME Init PROVE IInv
  OBVIOUS
<1>1. TypeOK
  BY FreshQueueType, Words DEF Init, TypeOK, NoCommand, Payloads, Labels
<1>2. CounterInv
  <2>1. Claiming = {}
    BY DEF Claiming, Init
  <2>2. Cardinality(Claiming) = 0 /\ Cardinality(Producers) \in Nat
    BY <2>1, FS_EmptySet, FS_CardinalityType, ProducersAssumption
  <2>3. ElementSize * Cardinality(Producers) >= 0 /\ ElementSize * Cardinality(Claiming) = 0
    BY <2>2, QueueAssumption
  <2> QED
    BY <2>2, <2>3, QueueAssumption, FreshQueueType DEF Init, CounterInv
<1>3. LocalsInv /\ LastInv /\ OwnedDisjoint /\ FillInv
  BY FreshQueueType DEF Init, LocalsInv, LastInv, OwnedDisjoint, FillInv, Owns
<1>4. OwnedAcceptedDisjoint /\ AcceptedDisjoint /\ AcceptedInv
  BY DEF Init, OwnedAcceptedDisjoint, AcceptedDisjoint, AcceptedInv
<1> QED
  BY <1>1, <1>2, <1>3, <1>4 DEF IInv

-----------------------------------------------------------------------------
(* Each step preserves the invariant.                                      *)

\* A call begins: only its own producer's locals change.
LEMMA CallInv ==
  ASSUME IInv, NEW p \in Producers, Call(p)
  PROVE  IInv'
<1> USE DEF IInv, Call, Goto
<1>1. TypeOK'
  BY DEF TypeOK, Commands, Payloads, Labels
<1>2. CounterInv'
  <2>1. Claiming' = Claiming
    BY DEF Claiming, TypeOK
  <2> QED
    BY <2>1 DEF CounterInv
<1>3. LocalsInv' /\ LastInv'
  BY DEF LocalsInv, LastInv, Owns, Claimed, TypeOK
<1>4. OwnedDisjoint' /\ OwnedAcceptedDisjoint' /\ AcceptedDisjoint'
  BY DEF OwnedDisjoint, OwnedAcceptedDisjoint, AcceptedDisjoint, Owns, Disjoint, TypeOK
<1>5. AcceptedInv' /\ FillInv'
  BY DEF AcceptedInv, FillInv, Claimed, TypeOK
<1> QED
  BY <1>1, <1>2, <1>3, <1>4, <1>5

\* A producer that passes the check joins those that may still claim.
LEMMA CheckFullInv ==
  ASSUME IInv, NEW p \in Producers, CheckFull(p)
  PROVE  IInv'
<1>1. TypeOK'
  BY ReturnType DEF IInv, CheckFull, Goto, TypeOK, Labels
<1> USE DEF IInv, CheckFull, Goto, Return
<1>2. CounterInv'
  <2>1. CASE IsFull(queue)
    <3>1. Claiming' = Claiming
      BY <2>1 DEF Claiming, TypeOK
    <3> QED
      BY <3>1 DEF CounterInv
  <2>2. CASE ~IsFull(queue)
    <3>1. Claiming' \in SUBSET Producers /\ p \in Claiming'
      BY <2>2 DEF Claiming, TypeOK
    <3>2. /\ Cardinality(Claiming') \in Nat
          /\ Cardinality(Producers) \in Nat
          /\ Cardinality(Claiming') <= Cardinality(Producers)
      BY <3>1, ProducersAssumption, FS_Subset, FS_CardinalityType
    <3>3. ElementSize * Cardinality(Claiming') <= ElementSize * Cardinality(Producers)
      BY <3>2, QueueAssumption
    <3>4. queue.alloc < MaxQueueSize /\ queue.alloc \in Int /\ queue' = queue
      BY <2>2, QueueAssumption DEF IsFull, TypeOK, Queues, Word
    <3>5. /\ ElementSize * Cardinality(Claiming') \in Int
          /\ ElementSize * Cardinality(Producers) \in Int
      BY <3>2, QueueAssumption
    <3> HIDE DEF IInv, CheckFull
    <3> QED
      BY <3>3, <3>4, <3>5, QueueAssumption DEF CounterInv
  <2> QED
    BY <2>1, <2>2
<1>3. LocalsInv' /\ LastInv'
  BY DEF LocalsInv, LastInv, Owns, Claimed, TypeOK
<1>4. OwnedDisjoint' /\ OwnedAcceptedDisjoint' /\ AcceptedDisjoint'
  BY DEF OwnedDisjoint, OwnedAcceptedDisjoint, AcceptedDisjoint, Owns, Disjoint, TypeOK
<1>5. AcceptedInv' /\ FillInv'
  BY DEF AcceptedInv, FillInv, Claimed, TypeOK
<1> QED
  BY <1>1, <1>2, <1>3, <1>4, <1>5

\* The element moves from the claims still possible to the counter.
LEMMA ClaimCounter ==
  ASSUME TypeOK, CounterInv, NEW p \in Producers, Claim(p)
  PROVE  CounterInv'
<1>1. Claiming' = Claiming \ {p} /\ p \in Claiming
  BY DEF Claim, Goto, Return, Claiming, TypeOK
<1>2. IsFiniteSet(Claiming) /\ Cardinality(Claiming) \in Nat
  BY ProducersAssumption, FS_Subset, FS_CardinalityType DEF Claiming
<1>3. Cardinality(Claiming') = Cardinality(Claiming) - 1
  BY <1>1, <1>2, FS_RemoveElement
<1>4. ElementSize * Cardinality(Claiming') = ElementSize * Cardinality(Claiming) - ElementSize
  BY <1>2, <1>3, QueueAssumption
<1>5. queue \in Queues /\ queue.alloc \in Int /\ queue' = FetchAdd(queue) /\ pc[p] = "claim"
  BY DEF TypeOK, Queues, Word, Claim
<1>6. queue'.alloc = queue.alloc + ElementSize
  BY <1>5, RoomToClaim, FetchAddType
<1>7. /\ ElementSize * Cardinality(Claiming) \in Int
      /\ ElementSize * Cardinality(Producers) \in Int
  BY <1>2, ProducersAssumption, FS_CardinalityType, QueueAssumption
<1> QED
  BY <1>4, <1>5, <1>6, <1>7, QueueAssumption DEF CounterInv

\* The claimed element begins where all earlier ones have ended.
LEMMA ClaimInv ==
  ASSUME IInv, NEW p \in Producers, Claim(p)
  PROVE  IInv'
<1> USE DEF IInv
<1> DEFINE i == queue.alloc
<1>1. /\ i \in Nat /\ i \in Word
      /\ queue \in Queues /\ queue' = FetchAdd(queue)
      /\ pc[p] = "claim"
  BY QueueAssumption DEF Claim, TypeOK, Queues, Word
<1>2. /\ queue' \in Queues
      /\ queue'.alloc = i + ElementSize
      /\ queue'.last = queue.last
      /\ queue'.op = queue.op
      /\ Fits(i) <=> i + ElementSize < MaxQueueSize
  BY <1>1, RoomToClaim, FetchAddType
<1>3. CASE ~Fits(i)
  <2>1. TypeOK'
    BY <1>2, <1>3, ReturnType DEF Claim, TypeOK
  <2> USE <1>3 DEF Claim, Goto, Return
  <2>2. LocalsInv' /\ LastInv'
    BY <1>1, <1>2, QueueAssumption DEF LocalsInv, LastInv, Owns, Claimed, TypeOK
  <2>3. OwnedDisjoint' /\ OwnedAcceptedDisjoint' /\ AcceptedDisjoint'
    BY DEF OwnedDisjoint, OwnedAcceptedDisjoint, AcceptedDisjoint, Owns, Disjoint, TypeOK
  <2>4. AcceptedInv' /\ FillInv'
    BY <1>1, <1>2, QueueAssumption DEF AcceptedInv, FillInv, Claimed, TypeOK
  <2> QED
    BY <2>1, <2>2, <2>3, <2>4, ClaimCounter
<1>4. CASE Fits(i)
  <2> USE <1>4 DEF Claim, Goto
  <2>1. TypeOK'
    BY <1>1, <1>2 DEF TypeOK, Labels
  <2>2. LocalsInv' /\ LastInv'
    BY <1>1, <1>2, QueueAssumption DEF LocalsInv, LastInv, Owns, Claimed, TypeOK
  <2>3. OwnedDisjoint' /\ OwnedAcceptedDisjoint' /\ AcceptedDisjoint'
    BY <1>1, QueueAssumption DEF LocalsInv, Claimed, AcceptedInv,
      OwnedDisjoint, OwnedAcceptedDisjoint, AcceptedDisjoint, Owns, Disjoint, TypeOK
  <2>4. AcceptedInv' /\ FillInv'
    BY <1>1, <1>2, QueueAssumption DEF AcceptedInv, FillInv, Claimed, TypeOK
  <2> QED
    BY <2>1, <2>2, <2>3, <2>4, ClaimCounter
<1> QED
  BY <1>3, <1>4

\* The offset a producer owns is one of the buffer.
LEMMA OwnedOffset ==
  ASSUME TypeOK, LocalsInv, NEW p \in Producers, Owns(p)
  PROVE  index[p] \in Offsets /\ Claimed(index[p])
BY QueueAssumption DEF LocalsInv, Claimed, Offsets

\* Hooking an element in moves neither the counter nor any payload, so the
\* parts of the invariant about those are kept by each of its steps.
LEMMA HookingKeeps ==
  ASSUME IInv, NEW p \in Producers, Owns(p), Owns(p)',
         pc' = [pc EXCEPT ![p] = pc'[p]],
         queue'.alloc = queue.alloc, queue'.op = queue.op,
         UNCHANGED <<cmd, index, accepted>>
  PROVE  CounterInv' /\ OwnedDisjoint' /\ OwnedAcceptedDisjoint' /\ AcceptedDisjoint' /\ AcceptedInv'
<1> USE DEF IInv
<1>1. CounterInv'
  <2>1. Claiming' = Claiming
    BY DEF Claiming, Owns, TypeOK
  <2> QED
    BY <2>1 DEF CounterInv
<1>2. \A r \in Producers : Owns(r)' => Owns(r)
  BY DEF Owns, TypeOK
<1>3. OwnedDisjoint' /\ OwnedAcceptedDisjoint' /\ AcceptedDisjoint'
  BY <1>2 DEF OwnedDisjoint, OwnedAcceptedDisjoint, AcceptedDisjoint, Disjoint
<1>4. AcceptedInv'
  BY DEF AcceptedInv, Claimed
<1> QED
  BY <1>1, <1>3, <1>4

\* Each step of a producer that hooks its element in.
LEMMA InitElementInv ==
  ASSUME IInv, NEW p \in Producers, InitElement(p)
  PROVE  IInv'
<1>1. Owns(p) /\ Owns(p)' /\ pc' = [pc EXCEPT ![p] = "hook"]
  BY DEF InitElement, Goto, Owns, IInv, TypeOK
<1>2. index[p] \in Offsets /\ queue \in Queues
  BY <1>1, OwnedOffset DEF IInv, TypeOK
<1>3. /\ queue' \in Queues
      /\ queue'.alloc = queue.alloc
      /\ queue'.last = queue.last
      /\ queue'.op = queue.op
  BY <1>2, InitNextType DEF InitElement
<1>4. CounterInv' /\ OwnedDisjoint' /\ OwnedAcceptedDisjoint' /\ AcceptedDisjoint' /\ AcceptedInv'
  BY <1>1, <1>3, HookingKeeps DEF InitElement, IInv, TypeOK
<1>5. TypeOK'
  BY <1>1, <1>3 DEF IInv, TypeOK, InitElement, Labels
<1>6. LocalsInv' /\ LastInv'
  BY <1>1, <1>3 DEF IInv, LocalsInv, LastInv, InitElement, Owns, Claimed, TypeOK
<1>7. FillInv'
  BY <1>1, <1>3 DEF IInv, FillInv, InitElement, TypeOK
<1> QED
  BY <1>4, <1>5, <1>6, <1>7 DEF IInv

LEMMA HookTestInv ==
  ASSUME IInv, NEW p \in Producers, HookTest(p)
  PROVE  IInv'
<1>1. Owns(p) /\ Owns(p)' /\ pc' = [pc EXCEPT ![p] = pc'[p]]
  BY DEF HookTest, Goto, Owns, IInv, TypeOK
<1>2. CounterInv' /\ OwnedDisjoint' /\ OwnedAcceptedDisjoint' /\ AcceptedDisjoint' /\ AcceptedInv'
  BY <1>1, HookingKeeps DEF HookTest
<1>3. TypeOK'
  BY DEF IInv, TypeOK, HookTest, Goto, Labels
<1>4. LocalsInv' /\ LastInv'
  BY DEF IInv, LocalsInv, LastInv, HookTest, Goto, Owns, Claimed, TypeOK
<1>5. FillInv'
  <2>1. pc[p] = "hook" /\ UNCHANGED <<queue, cmd, index>> /\ FillInv
    BY DEF HookTest, IInv
  <2>2. pc \in [Producers -> Labels] /\ missing \in [Producers -> SUBSET Halves]
    BY DEF IInv, TypeOK
  <2>3. \/ /\ pc' = [pc EXCEPT ![p] = "fill"]
           /\ missing' = [missing EXCEPT ![p] = Halves]
        \/ /\ \E label \in {"readTail", "first"} : pc' = [pc EXCEPT ![p] = label]
           /\ missing' = missing
    BY DEF HookTest, Goto
  <2> QED
    BY <2>1, <2>2, <2>3 DEF FillInv, Halves
<1> QED
  BY <1>2, <1>3, <1>4, <1>5 DEF IInv

LEMMA HookFirstInv ==
  ASSUME IInv, NEW p \in Producers, HookFirst(p)
  PROVE  IInv'
<1>1. Owns(p) /\ Owns(p)' /\ pc' = [pc EXCEPT ![p] = "fill"]
  BY DEF HookFirst, Goto, Owns, IInv, TypeOK
<1>2. index[p] \in Offsets /\ Claimed(index[p]) /\ queue \in Queues
  BY <1>1, OwnedOffset DEF IInv, TypeOK
<1>3. 0 \in Offsets /\ Claimed(0)
  BY <1>2, QueueAssumption DEF Claimed, Offsets, Queues, Word
<1>4. /\ queue' \in Queues
      /\ queue'.alloc = queue.alloc
      /\ queue'.last = 0
      /\ queue'.op = queue.op
  BY <1>2, <1>3, SetLastType DEF HookFirst
<1>5. CounterInv' /\ OwnedDisjoint' /\ OwnedAcceptedDisjoint' /\ AcceptedDisjoint' /\ AcceptedInv'
  BY <1>1, <1>4, HookingKeeps DEF HookFirst, IInv, TypeOK
<1>6. TypeOK'
  BY <1>1, <1>4 DEF IInv, TypeOK, HookFirst, Labels
<1>7. LocalsInv' /\ LastInv'
  BY <1>1, <1>3, <1>4, Words DEF IInv, LocalsInv, LastInv, HookFirst, Owns, Claimed, TypeOK
<1>8. FillInv'
  BY <1>1, <1>4 DEF IInv, FillInv, HookFirst, Halves, TypeOK
<1> QED
  BY <1>5, <1>6, <1>7, <1>8 DEF IInv

LEMMA ReadTailInv ==
  ASSUME IInv, NEW p \in Producers, ReadTail(p)
  PROVE  IInv'
<1>1. Owns(p) /\ Owns(p)' /\ pc' = [pc EXCEPT ![p] = "setLast"]
  BY DEF ReadTail, Goto, Owns, IInv, TypeOK
<1>2. CounterInv' /\ OwnedDisjoint' /\ OwnedAcceptedDisjoint' /\ AcceptedDisjoint' /\ AcceptedInv'
  BY <1>1, HookingKeeps DEF ReadTail, IInv, TypeOK
<1>3. TypeOK'
  BY <1>1 DEF IInv, TypeOK, ReadTail, Labels, Queues
<1>4. queue.last \in Offsets
  BY QueueAssumption DEF IInv, LocalsInv, LastInv, ReadTail, Claimed, Offsets
<1>5. LocalsInv' /\ LastInv'
  BY <1>1, <1>4 DEF IInv, LocalsInv, LastInv, ReadTail, Owns, Claimed, TypeOK
<1>6. FillInv'
  BY <1>1 DEF IInv, FillInv, ReadTail, TypeOK
<1> QED
  BY <1>2, <1>3, <1>5, <1>6 DEF IInv

LEMMA HookLastInv ==
  ASSUME IInv, NEW p \in Producers, HookLast(p)
  PROVE  IInv'
<1>1. Owns(p) /\ Owns(p)' /\ pc' = [pc EXCEPT ![p] = "link"]
  BY DEF HookLast, Goto, Owns, IInv, TypeOK
<1>2. index[p] \in Offsets /\ Claimed(index[p]) /\ queue \in Queues
  BY <1>1, OwnedOffset DEF IInv, TypeOK
<1>3. /\ queue' \in Queues
      /\ queue'.alloc = queue.alloc
      /\ queue'.last = index[p]
      /\ queue'.op = queue.op
  BY <1>2, SetLastType DEF HookLast
<1>4. CounterInv' /\ OwnedDisjoint' /\ OwnedAcceptedDisjoint' /\ AcceptedDisjoint' /\ AcceptedInv'
  BY <1>1, <1>3, HookingKeeps DEF HookLast, IInv, TypeOK
<1>5. TypeOK'
  BY <1>1, <1>3 DEF IInv, TypeOK, HookLast, Labels
<1>6. queue'.last # INVALID_INDEX
  BY <1>2, <1>3, Words
<1>7. LocalsInv' /\ LastInv'
  BY <1>1, <1>2, <1>3, <1>6 DEF IInv, LocalsInv, LastInv, HookLast, Owns, Claimed, TypeOK
<1>8. FillInv'
  BY <1>1, <1>3 DEF IInv, FillInv, HookLast, TypeOK
<1> QED
  BY <1>4, <1>5, <1>7, <1>8 DEF IInv

LEMMA HookLinkInv ==
  ASSUME IInv, NEW p \in Producers, HookLink(p)
  PROVE  IInv'
<1>1. Owns(p) /\ Owns(p)' /\ pc' = [pc EXCEPT ![p] = "fill"] /\ pc[p] = "link"
  BY DEF HookLink, Goto, Owns, IInv, TypeOK
<1>2. index[p] \in Offsets /\ tail[p] \in Offsets /\ queue \in Queues
  BY <1>1, OwnedOffset DEF IInv, TypeOK, LocalsInv
<1>3. /\ queue' \in Queues
      /\ queue'.alloc = queue.alloc
      /\ queue'.last = queue.last
      /\ queue'.op = queue.op
  BY <1>2, LinkType DEF HookLink
<1>4. CounterInv' /\ OwnedDisjoint' /\ OwnedAcceptedDisjoint' /\ AcceptedDisjoint' /\ AcceptedInv'
  BY <1>1, <1>3, HookingKeeps DEF HookLink, IInv, TypeOK
<1>5. TypeOK'
  BY <1>1, <1>3 DEF IInv, TypeOK, HookLink, Labels, Halves
<1>6. LocalsInv' /\ LastInv'
  BY <1>1, <1>3 DEF IInv, LocalsInv, LastInv, HookLink, Owns, Claimed, TypeOK
<1>7. FillInv'
  BY <1>1, <1>3 DEF IInv, FillInv, HookLink, Halves, TypeOK
<1> QED
  BY <1>4, <1>5, <1>6, <1>7 DEF IInv

\* Copying one half touches only the producer's own element; with the last
\* half the element holds its command and becomes an accepted one.
LEMMA FillStepInv ==
  ASSUME IInv, NEW p \in Producers, Fill(p)
  PROVE  IInv'
<1> USE DEF IInv
<1>1. PICK h \in missing[p] :
        /\ queue' = Store(queue, index[p], h, cmd[p])
        /\ missing' = [missing EXCEPT ![p] = @ \ {h}]
        /\ IF missing[p] = {h}
             THEN /\ Return(p)
                  /\ accepted' = accepted \cup {[index |-> index[p], cmd |-> cmd[p]]}
             ELSE UNCHANGED <<pc, cmd, index, tail, accepted>>
  BY DEF Fill
<1>2. pc[p] = "fill" /\ Owns(p) /\ it' = it /\ cmd[p] \in Commands
  BY DEF Fill, Owns, LocalsInv
<1>3. index[p] \in Offsets /\ Claimed(index[p]) /\ queue \in Queues /\ h \in Halves
  BY <1>1, <1>2, OwnedOffset DEF TypeOK
<1>4. /\ queue' \in Queues
      /\ queue'.alloc = queue.alloc
      /\ queue'.last = queue.last
      /\ \A j \in Offsets \ {index[p]} : queue'.op[j] = queue.op[j]
      /\ \A g \in Halves :
           queue'.op[index[p]][g] = IF g = h THEN cmd[p][h] ELSE queue.op[index[p]][g]
  BY <1>1, <1>2, <1>3, StoreType DEF Halves
<1>5. \A r \in accepted : r.index \in Offsets \ {index[p]}
  BY <1>2, <1>3, QueueAssumption
    DEF AcceptedInv, OwnedAcceptedDisjoint, Disjoint, Claimed, Offsets
<1>6. \A q \in Producers \ {p} : Owns(q) => index[q] \in Offsets \ {index[p]}
  BY <1>2, <1>3, OwnedOffset, QueueAssumption DEF OwnedDisjoint, Disjoint, Claimed, Offsets
<1>7. missing' \in [Producers -> SUBSET Halves]
  BY <1>1 DEF TypeOK
<1>8. CASE missing[p] = {h}
  <2>1. /\ Return(p)
        /\ accepted' = accepted \cup {[index |-> index[p], cmd |-> cmd[p]]}
        /\ pc' = [pc EXCEPT ![p] = "idle"]
    BY <1>1, <1>8 DEF Return, Goto
  <2>2. queue'.op[index[p]] = cmd[p]
    <3>1. \A g \in Halves : queue'.op[index[p]][g] = cmd[p][g]
      BY <1>2, <1>3, <1>4, <1>8 DEF FillInv
    <3>2. queue'.op[index[p]] \in Payloads /\ cmd[p] \in Payloads
      BY <1>2, <1>3, <1>4 DEF TypeOK, Queues
    <3> QED
      BY <3>1, <3>2 DEF Payloads, Halves
  <2>3. TypeOK'
    <3>1. [index |-> index[p], cmd |-> cmd[p]] \in [index : Word, cmd : Commands]
      BY <1>2, <1>3, Words
    <3> QED
      BY <1>2, <1>4, <1>7, <2>1, <3>1, ReturnType DEF TypeOK
  <2>4. CounterInv'
    <3>1. Claiming' = Claiming
      BY <1>2, <2>1 DEF Claiming, TypeOK
    <3> QED
      BY <1>4, <3>1 DEF CounterInv
  <2>5. LocalsInv' /\ LastInv'
    BY <1>4, <2>1 DEF Return, LocalsInv, LastInv, Owns, Claimed, TypeOK
  <2>6. \A q \in Producers : Owns(q)' => Owns(q) /\ q # p /\ index'[q] = index[q]
    BY <2>1 DEF Return, Owns, TypeOK
  <2>7. OwnedDisjoint' /\ OwnedAcceptedDisjoint' /\ AcceptedDisjoint'
    BY <1>2, <2>1, <2>6
      DEF OwnedDisjoint, OwnedAcceptedDisjoint, AcceptedDisjoint, Disjoint
  <2>8. AcceptedInv'
    BY <1>3, <1>4, <1>5, <2>1, <2>2 DEF AcceptedInv, Claimed
  <2>9. FillInv'
    <3>1. \A q \in Producers \ {p} : pc'[q] = pc[q] /\ missing'[q] = missing[q]
                                      /\ cmd'[q] = cmd[q] /\ index'[q] = index[q]
      BY <1>1, <2>1 DEF Return, TypeOK
    <3>2. pc'[p] = "idle" /\ missing'[p] = {}
      BY <1>1, <1>8, <2>1 DEF TypeOK
    <3> QED
      BY <1>4, <1>6, <3>1, <3>2 DEF FillInv, Owns
  <2> QED
    BY <2>3, <2>4, <2>5, <2>7, <2>8, <2>9
<1>9. CASE missing[p] # {h}
  <2>1. UNCHANGED <<pc, cmd, index, tail, accepted>>
    BY <1>1, <1>9
  <2>2. TypeOK'
    BY <1>2, <1>4, <1>7, <2>1 DEF TypeOK
  <2>3. CounterInv' /\ LocalsInv' /\ LastInv'
    BY <1>4, <2>1 DEF CounterInv, Claiming, LocalsInv, LastInv, Owns, Claimed
  <2>4. OwnedDisjoint' /\ OwnedAcceptedDisjoint' /\ AcceptedDisjoint'
    BY <2>1 DEF OwnedDisjoint, OwnedAcceptedDisjoint, AcceptedDisjoint, Owns, Disjoint
  <2>5. AcceptedInv'
    BY <1>4, <1>5, <2>1 DEF AcceptedInv, Claimed
  <2>6. FillInv'
    <3>1. \A q \in Producers \ {p} : missing'[q] = missing[q]
      BY <1>1 DEF TypeOK
    <3>2. missing'[p] = missing[p] \ {h} /\ missing'[p] # {}
      BY <1>1, <1>9 DEF TypeOK
    <3> QED
      BY <1>2, <1>3, <1>4, <1>6, <2>1, <3>1, <3>2 DEF FillInv, Owns
  <2> QED
    BY <2>2, <2>3, <2>4, <2>5, <2>6
<1> QED
  BY <1>8, <1>9

\* The iterator changes nothing but itself.
LEMMA IterateInv ==
  ASSUME IInv, Begin \/ Increment
  PROVE  IInv'
<1>1. it' \in [index : Word, pending : BOOLEAN]
  <2>1. CASE Begin
    BY <2>1, Words DEF Begin
  <2>2. CASE FollowLink
    <3>1. it.index \in Offsets /\ queue \in Queues
      BY <2>2, QueueAssumption DEF FollowLink, Iterating, AtEnd, IInv, TypeOK, Word, Offsets
    <3>2. queue.next[it.index] \in Word
      BY <3>1 DEF Queues
    <3> QED
      BY <2>2, <3>2 DEF FollowLink
  <2>3. CASE CutLink
    <3>1. it.index \in Word /\ queue \in Queues
      BY DEF IInv, TypeOK
    <3> QED
      BY <2>3, <3>1, CutType DEF CutLink
  <2> QED
    BY <2>1, <2>2, <2>3 DEF Increment
<1>2. UNCHANGED <<queue, producerVars, accepted>>
  BY DEF Begin, Increment, FollowLink, CutLink
<1> QED
  BY <1>1, <1>2 DEF IInv, TypeOK, producerVars, CounterInv, Claiming, LocalsInv, LastInv,
    OwnedDisjoint, OwnedAcceptedDisjoint, AcceptedDisjoint, AcceptedInv, FillInv,
    Owns, Claimed, Disjoint

\* Nobody owns an element when the queue is cleared.
LEMMA ClearInv ==
  ASSUME IInv, Clear
  PROVE  IInv'
<1>1. /\ queue' \in Queues
      /\ queue'.alloc = 0
      /\ queue'.last = INVALID_INDEX
  BY ClearType DEF Clear, IInv, TypeOK
<1>2. accepted' = {} /\ UNCHANGED <<producerVars, it>> /\ \A p \in Producers : pc[p] = "idle"
  BY DEF Clear
<1>3. TypeOK'
  BY <1>1, <1>2 DEF IInv, TypeOK, producerVars
<1>4. CounterInv'
  <2>1. Claiming' = {}
    BY <1>2 DEF Claiming, producerVars
  <2>2. Cardinality(Claiming') = 0 /\ Cardinality(Producers) \in Nat
    BY <2>1, FS_EmptySet, FS_CardinalityType, ProducersAssumption
  <2>3. ElementSize * Cardinality(Claiming') = 0 /\ ElementSize * Cardinality(Producers) >= 0
    BY <2>2, QueueAssumption
  <2> QED
    BY <1>1, <2>2, <2>3, QueueAssumption DEF CounterInv
<1>5. LocalsInv' /\ LastInv' /\ OwnedDisjoint' /\ FillInv'
  BY <1>1, <1>2 DEF IInv, LocalsInv, LastInv, OwnedDisjoint, FillInv, Owns, producerVars
<1>6. OwnedAcceptedDisjoint' /\ AcceptedDisjoint' /\ AcceptedInv'
  BY <1>2 DEF OwnedAcceptedDisjoint, AcceptedDisjoint, AcceptedInv
<1> QED
  BY <1>3, <1>4, <1>5, <1>6 DEF IInv

\* The invariant is inductive.
LEMMA StepInv == IInv /\ [Next]_vars => IInv'
<1> SUFFICES ASSUME IInv, [Next]_vars PROVE IInv'
  OBVIOUS
<1>1. ASSUME NEW p \in Producers, Call(p) PROVE IInv'
  BY <1>1, CallInv
<1>2. ASSUME NEW p \in Producers, Produce(p) PROVE IInv'
  BY <1>2, CheckFullInv, ClaimInv, InitElementInv, HookTestInv, HookFirstInv, ReadTailInv,
    HookLastInv, HookLinkInv, FillStepInv DEF Produce
<1>3. CASE Begin \/ Increment
  BY <1>3, IterateInv
<1>4. CASE Clear
  BY <1>4, ClearInv
<1>5. CASE UNCHANGED vars
  BY <1>5 DEF vars, IInv, TypeOK, CounterInv, Claiming, LocalsInv, LastInv,
    OwnedDisjoint, OwnedAcceptedDisjoint, AcceptedDisjoint, AcceptedInv, FillInv,
    Owns, Claimed, Disjoint
<1> QED
  BY <1>1, <1>2, <1>3, <1>4, <1>5 DEF Next

-----------------------------------------------------------------------------

\* The invariant holds in every reachable state.
THEOREM Invariance == Spec => []IInv
BY InitInv, StepInv, PTL DEF Spec

\* Every reachable state of allocateDrawOpRaw(), the iterator and clear() is
\* well-typed: no offset a thread holds leaves the range of a uint32_t.
THEOREM TypeCorrect == Spec => []TypeOK
<1>1. IInv => TypeOK
  BY DEF IInv
<1> QED
  BY <1>1, Invariance, PTL

\* Racing allocations never hand out overlapping elements, nor one that ends
\* outside the buffer.
THEOREM AllocationsDisjoint == Spec => []ElementsDisjoint
<1>1. IInv => ElementsDisjoint
  <2> SUFFICES ASSUME IInv PROVE ElementsDisjoint
    OBVIOUS
  <2>1. \A i : Claimed(i) => i + ElementSize <= MaxQueueSize
    BY QueueAssumption DEF Claimed
  <2> QED
    BY <2>1 DEF IInv, ElementsDisjoint, LocalsInv, AcceptedInv, OwnedDisjoint,
      OwnedAcceptedDisjoint, AcceptedDisjoint
<1> QED
  BY <1>1, Invariance, PTL

\* A completed command stays in its element until clear().
THEOREM CommandsIntact == Spec => []AcceptedIntact
<1>1. IInv => AcceptedIntact
  BY QueueAssumption DEF IInv, AcceptedInv, AcceptedIntact, Claimed, Offsets
<1> QED
  BY <1>1, Invariance, PTL

\* _allocIndex overshoots the buffer by less than one element per thread, so
\* fetch_add never wraps around.
THEOREM NoCounterOverflow == Spec => []CounterBounded
<1>1. IInv => CounterBounded
  <2> SUFFICES ASSUME IInv PROVE CounterBounded
    OBVIOUS
  <2>1. IsFiniteSet(Claiming)
    BY ProducersAssumption, FS_Subset DEF Claiming
  <2>2. Cardinality(Claiming) \in Nat /\ Cardinality(Producers) \in Nat
    BY <2>1, ProducersAssumption, FS_CardinalityType
  <2>3. ElementSize * Cardinality(Claiming) >= 0 /\ ElementSize * Cardinality(Producers) \in Int
    BY <2>2, QueueAssumption
  <2>4. queue.alloc \in Int /\ CounterInv
    BY DEF IInv, TypeOK, Queues, Word
  <2> QED
    BY <2>2, <2>3, <2>4, QueueAssumption DEF CounterInv, CounterBounded
<1> QED
  BY <1>1, Invariance, PTL

-----------------------------------------------------------------------------
(* Where the links lead                                                    *)

\* An element of this round begins at i: it is complete or in the making.
Tracked(i) ==
  \/ \E r \in accepted : i = r.index
  \/ \E p \in Producers : Owns(p) /\ i = index[p]

Leads(i) == queue.next[i] = INVALID_INDEX \/ Tracked(queue.next[i])

\* The link of an element has been written in this round, unless its producer
\* is just about to.
NextInv ==
  /\ \A r \in accepted : Leads(r.index)
  /\ \A p \in Producers : Owns(p) /\ pc[p] # "init" => Leads(index[p])

\* The first element that was claimed is the one at the beginning.
FirstInv == queue.alloc > 0 /\ ElementSize < MaxQueueSize => Tracked(0)

LinkInv == IInv /\ NextInv /\ FirstInv

\* Elements stay until clear(), and a link changes to an element or to none.
LEMMA LinksKept ==
  ASSUME LinkInv, IInv',
         \A i : Tracked(i) => Tracked(i)',
         \A i \in Offsets : queue'.next[i] \in {queue.next[i], INVALID_INDEX}
                              \/ Tracked(queue'.next[i]),
         \A p \in Producers : Owns(p)' /\ pc'[p] # "init" =>
           \/ Owns(p) /\ pc[p] # "init" /\ index'[p] = index[p]
           \/ queue'.next[index'[p]] = INVALID_INDEX,
         \A r \in accepted' :
           r \in accepted \/ \E p \in Producers : Owns(p) /\ pc[p] # "init" /\ r.index = index[p],
         queue'.alloc > 0 => queue.alloc > 0 \/ (ElementSize < MaxQueueSize => Tracked(0)')
  PROVE  LinkInv'
<1> USE DEF LinkInv
<1>1. /\ \A r \in accepted : r.index \in Offsets
      /\ \A p \in Producers : Owns(p) => index[p] \in Offsets
  <2>1. \A i : Claimed(i) => i \in Offsets
    BY QueueAssumption DEF Claimed, Offsets
  <2> QED
    BY <2>1 DEF IInv, AcceptedInv, LocalsInv
<1>2. ASSUME NEW i \in Offsets, Leads(i) PROVE Leads(i)'
  BY <1>2 DEF Leads
<1>3. NextInv'
  <2>1. \A r \in accepted' : Leads(r.index)'
    BY <1>1, <1>2 DEF NextInv
  <2>2. \A p \in Producers : Owns(p)' /\ pc'[p] # "init" => Leads(index[p])'
    BY <1>1, <1>2 DEF NextInv, Leads
  <2> QED
    BY <2>1, <2>2 DEF NextInv
<1>4. FirstInv'
  BY DEF FirstInv
<1> QED
  BY <1>3, <1>4

\* Steps that write no link and neither claim nor complete an element.
LEMMA LinksUntouched ==
  ASSUME LinkInv, IInv', queue' = queue \/ queue'.next = queue.next,
         queue'.alloc > 0 => queue.alloc > 0, accepted' = accepted,
         \A p \in Producers : /\ Owns(p)' => Owns(p)
                              /\ Owns(p) => Owns(p)' /\ index'[p] = index[p]
                              /\ Owns(p)' /\ pc'[p] # "init" => pc[p] # "init"
  PROVE  LinkInv'
<1>1. \A i : Tracked(i) => Tracked(i)'
  BY DEF Tracked
<1> QED
  BY <1>1, LinksKept

LEMMA QuietLinks ==
  ASSUME LinkInv, IInv', NEW p \in Producers, Call(p) \/ CheckFull(p) \/ HookTest(p) \/ ReadTail(p)
  PROVE  LinkInv'
<1>1. queue' = queue /\ accepted' = accepted
  BY DEF Call, CheckFull, HookTest, ReadTail
<1>2. \A q \in Producers : /\ Owns(q)' <=> Owns(q)
                           /\ Owns(q) => index'[q] = index[q]
                           /\ pc'[q] = "init" <=> pc[q] = "init"
  BY DEF LinkInv, IInv, TypeOK, Call, CheckFull, HookTest, ReadTail, Goto, Return, Owns
<1> QED
  BY <1>1, <1>2, LinksUntouched

LEMMA TailLinks ==
  ASSUME LinkInv, IInv', NEW p \in Producers, HookFirst(p) \/ HookLast(p)
  PROVE  LinkInv'
<1>1. queue'.next = queue.next /\ queue'.alloc = queue.alloc /\ accepted' = accepted
  BY DEF HookFirst, HookLast, SetLast, LinkInv, IInv, TypeOK, Queues
<1>2. \A q \in Producers : /\ Owns(q)' <=> Owns(q)
                           /\ Owns(q) => index'[q] = index[q]
                           /\ pc'[q] = "init" <=> pc[q] = "init"
  BY DEF LinkInv, IInv, TypeOK, HookFirst, HookLast, Goto, Owns
<1> QED
  BY <1>1, <1>2, LinksUntouched

\* A claim: the first one of a round is at the beginning of the buffer.
LEMMA ClaimLinks ==
  ASSUME LinkInv, IInv', NEW p \in Producers, Claim(p)
  PROVE  LinkInv'
<1> USE DEF LinkInv
<1>1. /\ pc[p] = "claim" /\ queue' = FetchAdd(queue) /\ accepted' = accepted
      /\ queue \in Queues /\ queue.alloc \in Nat
      /\ pc \in [Producers -> Labels] /\ index \in [Producers -> Word]
  BY DEF Claim, IInv, TypeOK, Queues, Word
<1>2. queue'.next = queue.next
  BY <1>1 DEF FetchAdd, Queues
<1>3. \A q \in Producers \ {p} : pc'[q] = pc[q] /\ index'[q] = index[q]
  BY <1>1 DEF Claim, Goto, Return
<1>4. ~Owns(p) /\ pc'[p] \in {"idle", "init"}
  BY <1>1 DEF Claim, Goto, Return, Owns
<1>5. \A i : Tracked(i) => Tracked(i)'
  BY <1>1, <1>3, <1>4 DEF Tracked, Owns
<1>6. \A q \in Producers : Owns(q)' /\ pc'[q] # "init" =>
        Owns(q) /\ pc[q] # "init" /\ index'[q] = index[q]
  BY <1>3, <1>4 DEF Owns
<1>7. queue.alloc = 0 /\ ElementSize < MaxQueueSize => Tracked(0)'
  <2> SUFFICES ASSUME queue.alloc = 0, ElementSize < MaxQueueSize PROVE Tracked(0)'
    OBVIOUS
  <2>1. Fits(queue.alloc)
    BY <1>1, RoomToClaim, FetchAddType, QueueAssumption DEF IInv
  <2>2. pc'[p] = "init" /\ index'[p] = 0
    BY <1>1, <2>1 DEF Claim, Goto
  <2> QED
    BY <2>2 DEF Tracked, Owns
<1> QED
  BY <1>1, <1>2, <1>5, <1>6, <1>7, LinksKept

LEMMA InitElementLinks ==
  ASSUME LinkInv, IInv', NEW p \in Producers, InitElement(p)
  PROVE  LinkInv'
<1> USE DEF LinkInv
<1>1. /\ pc[p] = "init" /\ pc' = [pc EXCEPT ![p] = "hook"] /\ UNCHANGED <<index, accepted>>
      /\ queue' = InitNext(queue, index[p])
      /\ queue \in Queues /\ pc \in [Producers -> Labels] /\ Owns(p)
  BY DEF InitElement, Goto, IInv, TypeOK, Owns
<1>2. index[p] \in Offsets
  BY <1>1, OwnedOffset DEF IInv
<1>3. /\ \A i \in Offsets : queue'.next[i] = IF i = index[p] THEN INVALID_INDEX ELSE queue.next[i]
      /\ queue'.alloc = queue.alloc
  BY <1>1, <1>2 DEF InitNext, Queues
<1>4. /\ \A q \in Producers : Owns(q)' <=> Owns(q)
      /\ \A q \in Producers \ {p} : pc'[q] = pc[q]
  BY <1>1 DEF Owns
<1>5. \A i : Tracked(i) => Tracked(i)'
  BY <1>1, <1>4 DEF Tracked
<1>6. \A q \in Producers : Owns(q)' /\ pc'[q] # "init" =>
        \/ Owns(q) /\ pc[q] # "init" /\ index'[q] = index[q]
        \/ queue'.next[index'[q]] = INVALID_INDEX
  BY <1>1, <1>2, <1>3, <1>4
<1> QED
  BY <1>1, <1>3, <1>5, <1>6, LinksKept

LEMMA HookLinkLinks ==
  ASSUME LinkInv, IInv', NEW p \in Producers, HookLink(p)
  PROVE  LinkInv'
<1> USE DEF LinkInv
<1>1. /\ pc[p] = "link" /\ pc' = [pc EXCEPT ![p] = "fill"] /\ UNCHANGED <<index, accepted>>
      /\ queue' = Link(queue, tail[p], index[p])
      /\ queue \in Queues /\ pc \in [Producers -> Labels] /\ Owns(p)
  BY DEF HookLink, Goto, IInv, TypeOK, Owns
<1>2. tail[p] \in Offsets /\ Tracked(index[p])
  BY <1>1 DEF IInv, LocalsInv, Tracked
<1>3. /\ \A i \in Offsets : queue'.next[i] = IF i = tail[p] THEN index[p] ELSE queue.next[i]
      /\ queue'.alloc = queue.alloc
  BY <1>1, <1>2 DEF Link, Queues
<1>4. \A q \in Producers : (Owns(q)' <=> Owns(q)) /\ (pc'[q] = "init" <=> pc[q] = "init")
  BY <1>1 DEF Owns
<1>5. \A i : Tracked(i) => Tracked(i)'
  BY <1>1, <1>4 DEF Tracked
<1> QED
  BY <1>1, <1>2, <1>3, <1>4, <1>5, LinksKept

\* An element that is complete has been one in the making.
LEMMA FillLinks ==
  ASSUME LinkInv, IInv', NEW p \in Producers, Fill(p)
  PROVE  LinkInv'
<1> USE DEF LinkInv
<1>1. PICK h \in missing[p] :
        /\ queue' = Store(queue, index[p], h, cmd[p])
        /\ IF missing[p] = {h}
             THEN Return(p) /\ accepted' = accepted \cup {[index |-> index[p], cmd |-> cmd[p]]}
             ELSE UNCHANGED <<pc, index, accepted>>
  BY DEF Fill
<1>2. pc[p] = "fill" /\ Owns(p) /\ queue \in Queues /\ pc \in [Producers -> Labels]
      /\ index \in [Producers -> Word]
  BY DEF Fill, Owns, IInv, TypeOK
<1>3. queue'.next = queue.next /\ queue'.alloc = queue.alloc
  BY <1>1, <1>2 DEF Store, Queues
<1>4. CASE missing[p] = {h}
  <2>1. /\ accepted' = accepted \cup {[index |-> index[p], cmd |-> cmd[p]]}
        /\ pc' = [pc EXCEPT ![p] = "idle"] /\ index' = [index EXCEPT ![p] = 0]
    BY <1>1, <1>4 DEF Return, Goto
  <2>2. \A q \in Producers : /\ q # p => pc'[q] = pc[q] /\ index'[q] = index[q]
                             /\ q = p => ~Owns(q)'
    BY <1>2, <2>1 DEF Owns
  <2>3. [index |-> index[p], cmd |-> cmd[p]] \in accepted'
        /\ [index |-> index[p], cmd |-> cmd[p]].index = index[p]
        /\ \A r \in accepted : r \in accepted'
    BY <2>1
  <2>4. ASSUME NEW i, Tracked(i) PROVE Tracked(i)'
    <3>1. CASE \E r \in accepted : i = r.index
      BY <2>3, <3>1 DEF Tracked
    <3>2. CASE \E q \in Producers : Owns(q) /\ i = index[q]
      <4>1. PICK q \in Producers : Owns(q) /\ i = index[q]
        BY <3>2
      <4>2. CASE q = p
        BY <2>3, <4>1, <4>2 DEF Tracked
      <4>3. CASE q # p
        <5>1. Owns(q)' /\ i = index'[q]
          BY <2>2, <4>1, <4>3 DEF Owns
        <5> QED
          BY <5>1 DEF Tracked
      <4> QED
        BY <4>2, <4>3
    <3> QED
      BY <2>4, <3>1, <3>2 DEF Tracked
  <2>5. \A q \in Producers : Owns(q)' => Owns(q) /\ pc'[q] = pc[q] /\ index'[q] = index[q]
    BY <2>2 DEF Owns
  <2>6. \A r \in accepted' : r \in accepted \/ r.index = index[p]
    BY <2>1
  <2>7. pc[p] # "init"
    BY <1>2
  <2> QED
    BY <1>2, <1>3, <2>4, <2>5, <2>6, <2>7, LinksKept
<1>5. CASE missing[p] # {h}
  <2>1. UNCHANGED <<pc, index, accepted>>
    BY <1>1, <1>5
  <2>2. \A q \in Producers : Owns(q)' <=> Owns(q)
    BY <2>1 DEF Owns
  <2> QED
    BY <1>3, <2>1, <2>2, LinksUntouched
<1> QED
  BY <1>4, <1>5

LEMMA OwnerLinks ==
  ASSUME LinkInv, IInv', Begin \/ Increment \/ Clear \/ UNCHANGED vars
  PROVE  LinkInv'
<1>1. CASE Begin \/ Increment \/ UNCHANGED vars
  <2>1. UNCHANGED <<queue, pc, index, accepted>>
    BY <1>1 DEF Begin, Increment, FollowLink, CutLink, producerVars, vars
  <2>2. \A q \in Producers : Owns(q)' <=> Owns(q)
    BY <2>1 DEF Owns
  <2> QED
    BY <2>1, <2>2, LinksUntouched
<1>2. CASE Clear
  <2>1. queue'.alloc = 0 /\ accepted' = {} /\ \A q \in Producers : ~Owns(q)'
    BY <1>2, ClearType DEF Clear, producerVars, Owns, LinkInv, IInv, TypeOK
  <2> QED
    BY <2>1 DEF LinkInv, NextInv, FirstInv
<1> QED
  BY <1>1, <1>2

LEMMA LinkStep == LinkInv /\ [Next]_vars => LinkInv'
<1> SUFFICES ASSUME LinkInv, [Next]_vars PROVE LinkInv'
  OBVIOUS
<1>1. IInv'
  BY StepInv DEF LinkInv
<1>2. ASSUME NEW p \in Producers, Call(p) \/ Produce(p) PROVE LinkInv'
  BY <1>1, <1>2, QuietLinks, TailLinks, ClaimLinks, InitElementLinks, HookLinkLinks, FillLinks
    DEF Produce
<1> QED
  BY <1>1, <1>2, OwnerLinks DEF Next

\* Once the producers are done, however their calls interleaved, the iterator
\* visits completed elements of this round only.
THEOREM OnlyAcceptedVisited == Spec => []VisitedAccepted
<1>1. Init => LinkInv
  <2> SUFFICES ASSUME Init PROVE LinkInv
    OBVIOUS
  <2>1. IInv
    BY InitInv
  <2>2. accepted = {} /\ queue.alloc = 0 /\ \A p \in Producers : ~Owns(p)
    BY FreshQueueType DEF Init, Owns
  <2> QED
    BY <2>1, <2>2 DEF LinkInv, NextInv, FirstInv
<1>2. LinkInv => VisitedAccepted
  <2> SUFFICES ASSUME LinkInv, Quiet, NEW r \in accepted
               PROVE  /\ 0 \in Accepted
                      /\ \A i \in Accepted : LET next == Successor(queue, i)
                                             IN  AtEnd(next) \/ next \in Accepted
    BY DEF VisitedAccepted
  <2>1. \A i : Tracked(i) => i \in Accepted
    BY DEF Quiet, Owns, Tracked, Accepted
  <2>2. Claimed(r.index)
    BY DEF LinkInv, IInv, AcceptedInv
  <2>3. queue.alloc > 0 /\ ElementSize < MaxQueueSize
    <3>1. queue.alloc \in Int
      BY DEF LinkInv, IInv, TypeOK, Queues, Word
    <3> QED
      BY <2>2, <3>1, QueueAssumption DEF Claimed
  <2>4. AtEnd(INVALID_INDEX)
    BY QueueAssumption DEF AtEnd, INVALID_INDEX
  <2>5. ASSUME NEW i \in Accepted
        PROVE  AtEnd(Successor(queue, i)) \/ Successor(queue, i) \in Accepted
    <3>1. Leads(i)
      BY DEF LinkInv, NextInv, Accepted
    <3> QED
      BY <2>1, <2>4, <3>1 DEF Leads, Successor, Cut
  <2> QED
    BY <2>1, <2>3, <2>5 DEF LinkInv, FirstInv
<1> QED
  BY <1>1, <1>2, LinkStep, PTL DEF Spec

=============================================================================
