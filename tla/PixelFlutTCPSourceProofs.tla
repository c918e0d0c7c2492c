---------------------- MODULE PixelFlutTCPSourceProofs ----------------------
(***************************************************************************)
(* What holds of the receive loop for any limit on clients and any number  *)
(* of descriptors and objects: the poll array and _clientCache lead to     *)
(* live clients where the loop uses them, nothing leaks but what failed    *)
(* calls of accept() leave, and the arrays never overflow.                 *)
(* And what holds of one connection for any lines and any number of them,  *)
(* any size of the receive buffer and any cuts: lines are handled and      *)
(* answered once each, in order, as what they mean.                        *)
(***************************************************************************)
EXTENDS PixelFlutTCPSource, PixelFlutClient, FiniteSetTheorems, SequenceTheorems, TLAPS

\* A function on 1 .. n is a sequence.
LEMMA Sequence ==
  ASSUME NEW n \in Nat, NEW S, NEW T, S \subseteq T, NEW f \in [1 .. n -> S]
  PROVE  Len(f) = n /\ DOMAIN f = 1 .. n /\ f \in Seq(T)
OBVIOUS

(* A finite set of numbers can be gone through in ascending order: each    *)
(* element goes to the place that is the number of elements up to it.      *)

LEMMA Places ==
  ASSUME NEW S \in SUBSET Int, IsFiniteSet(S)
  PROVE  \E place \in [S -> 1 .. Cardinality(S)] :
           /\ \A a, b \in S : a < b => place[a] < place[b]
           /\ \A n \in 1 .. Cardinality(S) : \E a \in S : place[a] = n
<1> DEFINE UpTo(a) == {b \in S : b <= a}
           place == [a \in S |-> Cardinality(UpTo(a))]
<1>0. Cardinality(S) \in Nat
  BY FS_CardinalityType
<1>1. \A a \in S : /\ IsFiniteSet(UpTo(a))
                   /\ Cardinality(UpTo(a)) \in 1 .. Cardinality(S)
  <2> SUFFICES ASSUME NEW a \in S
               PROVE  IsFiniteSet(UpTo(a)) /\ Cardinality(UpTo(a)) \in 1 .. Cardinality(S)
    OBVIOUS
  <2>1. /\ UpTo(a) \in SUBSET S
        /\ IsFiniteSet(UpTo(a))
        /\ Cardinality(UpTo(a)) <= Cardinality(S)
    BY FS_Subset
  <2>2. a \in UpTo(a)
    OBVIOUS
  <2>3. Cardinality(UpTo(a)) # 0 /\ Cardinality(UpTo(a)) \in Nat
    BY <2>1, <2>2, FS_EmptySet, FS_CardinalityType
  <2> QED
    BY <1>0, <2>1, <2>3
<1>2. place \in [S -> 1 .. Cardinality(S)]
  BY <1>1
<1>3. \A a, b \in S : a < b => place[a] < place[b]
  <2> SUFFICES ASSUME NEW a \in S, NEW b \in S, a < b
               PROVE  Cardinality(UpTo(a)) < Cardinality(UpTo(b))
    OBVIOUS
  <2>0. a \in Int /\ b \in Int /\ \A c \in S : c \in Int
    OBVIOUS
  <2>1. UpTo(a) \in SUBSET UpTo(b) /\ b \in UpTo(b) /\ b \notin UpTo(a)
    <3>1. \A c \in S : c <= a => c <= b
      BY <2>0
    <3>2. b <= b /\ ~(b <= a)
      BY <2>0
    <3> QED
      BY <3>1, <3>2
  <2>2. UpTo(a) # UpTo(b)
    BY <2>1
  <2>3. Cardinality(UpTo(a)) <= Cardinality(UpTo(b))
    BY <1>1, <2>1, FS_Subset
  <2>4. Cardinality(UpTo(a)) # Cardinality(UpTo(b))
    BY <1>1, <2>1, <2>2, FS_Subset
  <2> QED
    BY <1>1, <2>3, <2>4
<1>4. \A n \in 1 .. Cardinality(S) : \E a \in S : place[a] = n
  <2>1. \A a, b \in S : place[a] = place[b] => a = b
    <3> SUFFICES ASSUME NEW a \in S, NEW b \in S, place[a] = place[b] PROVE a = b
      OBVIOUS
    <3>1. place[a] \in Int /\ place[b] \in Int
      BY <1>0, <1>2
    <3>2. ~(a < b) /\ ~(b < a)
      BY <1>3, <3>1
    <3> QED
      BY <3>2
  <2>2. place \in Injection(S, 1 .. Cardinality(S))
    BY <1>2, <2>1 DEF Injection, IsInjective
  <2> HIDE DEF place
  <2>3. /\ IsFiniteSet(1 .. Cardinality(S))
        /\ Cardinality(1 .. Cardinality(S)) = Cardinality(S)
    BY <1>0, FS_Interval
  <2>4. place \in Surjection(S, 1 .. Cardinality(S))
    BY <2>2, <2>3, FS_Injection
  <2> QED
    BY <2>4 DEF Surjection
<1> HIDE DEF place
<1> QED
  BY <1>2, <1>3, <1>4

LEMMA AscendingForm ==
  ASSUME NEW S \in SUBSET Int, IsFiniteSet(S)
  PROVE  /\ Ascending(S) \in [1 .. Cardinality(S) -> S]
         /\ \A j, k \in 1 .. Cardinality(S) : j < k => Ascending(S)[j] < Ascending(S)[k]
<1> DEFINE n == Cardinality(S)
<1>1. PICK place \in [S -> 1 .. n] :
        /\ \A a, b \in S : a < b => place[a] < place[b]
        /\ \A k \in 1 .. n : \E a \in S : place[a] = k
  BY Places
<1> DEFINE s == [k \in 1 .. n |-> CHOOSE a \in S : place[a] = k]
<1>2. \A k \in 1 .. n : s[k] \in S /\ place[s[k]] = k
  BY <1>1
<1>3. s \in [1 .. n -> S]
  BY <1>2
<1>4. \A j, k \in 1 .. n : j < k => s[j] < s[k]
  <2> SUFFICES ASSUME NEW j \in 1 .. n, NEW k \in 1 .. n, j < k PROVE s[j] < s[k]
    OBVIOUS
  <2>1. s[j] \in S /\ s[k] \in S /\ place[s[j]] = j /\ place[s[k]] = k
    BY <1>2
  <2> HIDE DEF s
  <2>2. n \in Nat
    BY FS_CardinalityType
  <2>3. s[j] \in Int /\ s[k] \in Int /\ j \in Int /\ k \in Int
    <3>1. \A a \in S : a \in Int
      OBVIOUS
    <3>2. s[j] \in Int /\ s[k] \in Int
      BY <2>1, <3>1
    <3>3. j \in Int /\ k \in Int
      BY <2>2
    <3> QED
      BY <3>2, <3>3
  <2>4. s[k] < s[j] => place[s[k]] < place[s[j]]
    BY <1>1, <2>1
  <2> QED
    BY <2>1, <2>3, <2>4
<1> HIDE DEF s
<1> QED
  BY <1>3, <1>4 DEF Ascending

\* Nothing comes twice in such a sequence.
LEMMA Once ==
  ASSUME NEW n \in Nat, NEW f, \A j \in 1 .. n : f[j] \in Int,
         \A j, k \in 1 .. n : j < k => f[j] < f[k]
  PROVE  \A i, j \in 1 .. n : f[i] = f[j] => i = j
<1> SUFFICES ASSUME NEW i \in 1 .. n, NEW j \in 1 .. n, f[i] = f[j] PROVE i = j
  OBVIOUS
<1>1. i \in Int /\ j \in Int /\ f[i] \in Int
  OBVIOUS
<1>2. ~(i < j) /\ ~(j < i)
  BY <1>1
<1> QED
  BY <1>1, <1>2

\* The sequence leaves out no element.
LEMMA AscendingOnto ==
  ASSUME NEW S \in SUBSET Int, IsFiniteSet(S)
  PROVE  \A a \in S : \E k \in 1 .. Cardinality(S) : Ascending(S)[k] = a
<1> DEFINE n == Cardinality(S)
           g == Ascending(S)
<1>1. n \in Nat
  BY FS_CardinalityType
<1>2. g \in [1 .. n -> S] /\ \A j, k \in 1 .. n : j < k => g[j] < g[k]
  BY AscendingForm
<1>3. IsFiniteSet(1 .. n) /\ Cardinality(1 .. n) = n
  BY <1>1, FS_Interval
<1> HIDE DEF g
<1>4. \A b \in S : b \in Int
  OBVIOUS
<1>5. \A j \in 1 .. n : g[j] \in Int
  BY <1>2, <1>4
<1> HIDE DEF n
<1>6. \A i, j \in 1 .. n : g[i] = g[j] => i = j
  BY <1>1, <1>2, <1>5, Once
<1>7. g \in Injection(1 .. n, S)
  BY <1>2, <1>6 DEF Injection, IsInjective
<1>8. g \in Surjection(1 .. n, S)
  BY <1>3, <1>7, FS_Injection DEF n
<1> QED
  BY <1>8 DEF Surjection, g, n

\* In a set that a sequence goes through in order, the k-th element has k
\* elements up to it.
LEMMA Rank ==
  ASSUME NEW S \in SUBSET Int, NEW n \in Nat, NEW f \in [1 .. n -> S],
         \A j, k \in 1 .. n : j < k => f[j] < f[k],
         \A a \in S : \E k \in 1 .. n : f[k] = a,
         NEW k \in 1 .. n
  PROVE  Cardinality({b \in S : b <= f[k]}) = k
<1> DEFINE T == {b \in S : b <= f[k]}
           r == [j \in 1 .. k |-> f[j]]
<1>0. /\ k \in Nat /\ 1 .. k \subseteq 1 .. n
      /\ \A j \in 1 .. n : j \in Int /\ f[j] \in Int
  <2>1. \A b \in S : b \in Int
    OBVIOUS
  <2>2. \A j \in 1 .. n : f[j] \in S
    OBVIOUS
  <2>3. k \in Nat /\ 1 .. k \subseteq 1 .. n /\ \A j \in 1 .. n : j \in Int
    OBVIOUS
  <2> QED
    BY <2>1, <2>2, <2>3
<1>1. \A i, j \in 1 .. n : f[i] <= f[j] => i <= j
  BY <1>0
<1>2. \A i, j \in 1 .. n : i <= j => f[i] <= f[j]
  BY <1>0
<1>3. r \in [1 .. k -> T]
  BY <1>0, <1>2
<1>4. \A i, j \in 1 .. k : r[i] = r[j] => i = j
  BY <1>0
<1>5. \A b \in T : \E j \in 1 .. k : r[j] = b
  <2> SUFFICES ASSUME NEW b \in T PROVE \E j \in 1 .. k : r[j] = b
    OBVIOUS
  <2>1. PICK j \in 1 .. n : f[j] = b
    OBVIOUS
  <2>2. j <= k /\ j >= 1 /\ j \in Int
    BY <1>0, <1>1, <2>1
  <2>3. j \in 1 .. k
    BY <1>0, <2>2
  <2> QED
    BY <2>1, <2>3
<1> HIDE DEF T, r
<1>6. r \in Bijection(1 .. k, T)
  BY <1>3, <1>4, <1>5 DEF Bijection, Injection, Surjection, IsInjective
<1>7. IsFiniteSet(1 .. k) /\ Cardinality(1 .. k) = k
  BY <1>0, FS_Interval
<1> QED
  BY <1>6, <1>7, FS_Bijection DEF T, ExistsBijection

\* There is one way only to go through a set in order.
LEMMA AscendingIs ==
  ASSUME NEW S \in SUBSET Int, NEW n \in Nat, NEW f \in [1 .. n -> S],
         \A j, k \in 1 .. n : j < k => f[j] < f[k],
         \A a \in S : \E k \in 1 .. n : f[k] = a
  PROVE  IsFiniteSet(S) /\ Cardinality(S) = n /\ Ascending(S) = f
<1> DEFINE g == Ascending(S)
<1>0. \A b \in S : b \in Int
  OBVIOUS
<1>1. \A i, j \in 1 .. n : f[i] = f[j] => i = j
  <2>1. \A j \in 1 .. n : f[j] \in S
    OBVIOUS
  <2>2. \A j \in 1 .. n : f[j] \in Int
    BY <1>0, <2>1
  <2> QED
    BY <2>2, Once
<1>2. f \in Bijection(1 .. n, S)
  BY <1>1 DEF Bijection, Injection, Surjection, IsInjective
<1>3. IsFiniteSet(1 .. n) /\ Cardinality(1 .. n) = n
  BY FS_Interval
<1>4. IsFiniteSet(S) /\ Cardinality(S) = n
  BY <1>2, <1>3, FS_Bijection DEF ExistsBijection
<1>5. g \in [1 .. n -> S] /\ \A j, k \in 1 .. n : j < k => g[j] < g[k]
  BY <1>4, AscendingForm
<1>6. \A a \in S : \E k \in 1 .. n : g[k] = a
  BY <1>4, AscendingOnto
<1> HIDE DEF g
<1>7. \A k \in 1 .. n : g[k] = f[k]
  <2> SUFFICES ASSUME NEW k \in 1 .. n PROVE g[k] = f[k]
    OBVIOUS
  <2>1. PICK j \in 1 .. n : g[j] = f[k]
    BY <1>6
  <2>2. Cardinality({b \in S : b <= f[k]}) = k
    BY Rank
  <2>3. Cardinality({b \in S : b <= g[j]}) = j
    BY <1>5, <1>6, Rank
  <2> QED
    BY <2>1, <2>2, <2>3
<1>8. g = f
  BY <1>5, <1>7
<1> QED
  BY <1>4, <1>8 DEF g

-----------------------------------------------------------------------------
(* The receive loop                                                        *)

\* Every entry of _clients leads to a live object with that descriptor.
ClientsLive == \A d \in Keys : clients[d] # nullptr => heap[clients[d]] = d

\* The poll array holds each descriptor once.
SlotsApart == \A j, k \in DOMAIN slots : slots[j] = slots[k] => j = k

\* No client of the slot has been removed since the poll array was built.
Undisturbed(k) == ~rebuild \/ (loop \in {"scan", "send"} /\ next <= k)

SlotsInv ==
  \A k \in DOMAIN slots : Undisturbed(k) =>
    /\ slots[k] # NoSocket => sockets[slots[k]] # "free"
    /\ clients[slots[k]] = cache[k]
    /\ heap[cache[k]] = slots[k]

\* poll() gets an array that is up to date, and reports no slot without a
\* descriptor.  The slots it reports lie ahead of the scan; the other parts of
\* the loop begin with none reported.
ScanInv ==
  /\ loop = "poll" => ~rebuild
  /\ loop = "send" => next # 0
  /\ loop \in {"scan", "send"} => \A k \in ready : next <= k /\ (k = 0 \/ slots[k] # NoSocket)
  /\ loop \in {"top", "poll", "ended"} => next = 0 /\ ready = {}

IInv ==
  /\ TypeOK
  /\ ClientsLive
  /\ SlotsApart
  /\ SlotsInv
  /\ ScanInv
  /\ NothingLeaks
  /\ WithinLimit

\* The marks are none of the things they stand for the absence of.
LEMMA Marks ==
  /\ nullptr \notin Addresses
  /\ NoSocket \notin Descriptors
  /\ Freed \notin Keys
  /\ NoSocket \in Keys
  /\ Descriptors \subseteq Keys
  /\ Keys \subseteq Int
BY TCPSourceAssumption DEF nullptr, NoSocket, Freed, Keys

LEMMA KeysFinite == IsFiniteSet(Keys)
BY TCPSourceAssumption, FS_AddElement DEF Keys

-----------------------------------------------------------------------------
(* Each step preserves the invariant.                                      *)

LEMMA InitIInv == Init => IInv
<1> SUFFICES ASSUME Init PROVE IInv
  OBVIOUS
<1>1. TypeOK
  <2>1. clients \in [Keys -> Addresses \cup {nullptr}]
    BY DEF Init
  <2>2. heap \in [Addresses -> Keys \cup {Freed}]
    BY DEF Init
  <2>3. /\ slots \in Seq(Keys)
        /\ cache \in Seq(Addresses)
        /\ Len(cache) = Len(slots)
        /\ ready \subseteq 0 .. Len(slots)
        /\ next \in 0 .. Len(slots)
    BY DEF Init
  <2>4. backlog \in 0 .. MaxBacklog
    BY TCPSourceAssumption DEF Init
  <2> QED
    BY <2>1, <2>2, <2>3, <2>4 DEF Init, TypeOK
<1>2. ClientsLive /\ SlotsApart /\ SlotsInv /\ ScanInv
  BY DEF Init, ClientsLive, SlotsApart, SlotsInv, ScanInv
<1>3. NothingLeaks
  BY Marks DEF Init, NothingLeaks
<1>4. WithinLimit
  <2>1. ClientKeys = {}
    BY DEF Init, ClientKeys
  <2> QED
    BY <2>1, FS_EmptySet, TCPSourceAssumption DEF Init, WithinLimit
<1> QED
  BY <1>1, <1>2, <1>3, <1>4 DEF IInv

\* What the peers do takes no descriptor away and gives none.
LEMMA PeersIInv ==
  ASSUME IInv, Peers
  PROVE  IInv'
<1>1. /\ UNCHANGED <<run, loopVars, owner>>
      /\ backlog' \in 0 .. MaxBacklog
      /\ sockets' \in [Descriptors -> {"free", "open", "eof", "reset"}]
      /\ \A d \in Descriptors : sockets'[d] = "free" <=> sockets[d] = "free"
      /\ unread' \subseteq Descriptors
      /\ stalled' \subseteq Descriptors
  <2> USE DEF IInv, TypeOK
  <2>1. CASE Connect
    BY <2>1, TCPSourceAssumption DEF Connect
  <2>2. CASE GiveUp
    BY <2>2, TCPSourceAssumption DEF GiveUp
  <2>3. CASE \E d \in Descriptors : PeerSend(d)
    BY <2>3 DEF PeerSend
  <2>4. CASE \E d \in Descriptors : PeerClose(d)
    BY <2>4 DEF PeerClose
  <2>5. CASE \E d \in Descriptors : PeerStall(d)
    BY <2>5 DEF PeerStall
  <2>6. CASE \E d \in Descriptors : PeerReset(d)
    BY <2>6 DEF PeerReset
  <2> QED
    BY <2>1, <2>2, <2>3, <2>4, <2>5, <2>6 DEF Peers
<1>2. TypeOK'
  BY <1>1 DEF IInv, TypeOK, loopVars
<1>3. ClientsLive' /\ SlotsApart' /\ ScanInv'
  BY <1>1 DEF IInv, ClientsLive, SlotsApart, ScanInv, loopVars
<1>4. SlotsInv'
  BY <1>1 DEF IInv, TypeOK, SlotsInv, Undisturbed, loopVars, Keys
<1>5. NothingLeaks' /\ WithinLimit'
  BY <1>1 DEF IInv, NothingLeaks, WithinLimit, ClientKeys, loopVars
<1> QED
  BY <1>2, <1>3, <1>4, <1>5 DEF IInv

\* The poll array gets one slot for each client, in ascending order.
LEMMA TopIInv ==
  ASSUME IInv, Top
  PROVE  IInv'
<1> USE DEF IInv
<1>1. CASE run /\ rebuild
  <2> DEFINE n == Cardinality(ClientKeys)
  <2>1. /\ loop = "top" /\ loop' = "poll"
        /\ slots' = Slots
        /\ cache' = [k \in DOMAIN Slots |-> clients[Slots[k]]]
        /\ rebuild' = FALSE
        /\ UNCHANGED <<run, clients, heap, ready, next, owner, netVars>>
    BY <1>1 DEF Top
  <2>2. ClientKeys \in SUBSET Keys /\ ClientKeys \in SUBSET Int
    BY Marks DEF ClientKeys
  <2>3. IsFiniteSet(ClientKeys)
    BY <2>2, KeysFinite, FS_Subset
  <2>4. n \in Nat
    BY <2>3, FS_CardinalityType
  <2>5. /\ slots' \in [1 .. n -> ClientKeys]
        /\ \A j, k \in 1 .. n : j < k => slots'[j] < slots'[k]
    BY <2>1, <2>2, <2>3, AscendingForm DEF Slots
  <2> HIDE DEF n
  <2>6. Len(slots') = n /\ DOMAIN slots' = 1 .. n /\ slots' \in Seq(Keys)
    BY <2>2, <2>4, <2>5, Sequence
  <2>7. cache' = [k \in 1 .. n |-> clients[slots'[k]]]
    BY <2>1, <2>6
  <2>8. \A k \in 1 .. n : /\ slots'[k] \in Keys
                          /\ clients[slots'[k]] # nullptr
                          /\ cache'[k] = clients[slots'[k]]
                          /\ cache'[k] \in Addresses
    BY <2>5, <2>7 DEF ClientKeys, TypeOK
  <2>9. cache' \in Seq(Addresses) /\ Len(cache') = n
    <3>1. cache' \in [1 .. n -> Addresses]
      BY <2>7, <2>8
    <3> QED
      BY <2>4, <3>1, Sequence
  <2>10. TypeOK'
    <3>1. next = 0 /\ ready = {}
      BY <2>1 DEF ScanInv
    <3>2. next' \in 0 .. Len(slots)' /\ ready' \subseteq 0 .. Len(slots)'
      BY <2>1, <2>4, <2>6, <3>1
    <3> QED
      BY <2>1, <2>6, <2>9, <3>2 DEF TypeOK, netVars
  <2>11. ClientsLive' /\ ScanInv' /\ NothingLeaks'
    BY <2>1 DEF ClientsLive, ScanInv, NothingLeaks, netVars
  <2>12. SlotsApart'
    <3> SUFFICES ASSUME NEW j \in 1 .. n, NEW k \in 1 .. n, slots'[j] = slots'[k]
                 PROVE  j = k
      BY <2>6 DEF SlotsApart
    <3>1. \A d \in Keys : d \in Int
      BY Marks
    <3>2. slots'[j] \in Int /\ slots'[k] \in Int
      BY <2>8, <3>1
    <3>3. ~(j < k) /\ ~(k < j)
      BY <2>5, <3>2
    <3> QED
      BY <2>4, <3>3
  <2>13. SlotsInv'
    BY <2>1, <2>6, <2>8, Marks DEF SlotsInv, ClientsLive, NothingLeaks, netVars, Keys
  <2>14. WithinLimit'
    <3>1. ClientKeys' = ClientKeys
      BY <2>1 DEF ClientKeys
    <3> QED
      BY <2>6, <3>1 DEF WithinLimit, n
  <2> QED
    BY <2>10, <2>11, <2>12, <2>13, <2>14
<1>2. CASE ~(run /\ rebuild)
  <2>1. /\ loop = "top" /\ loop' \in {"poll", "ended"}
        /\ loop' = "poll" => ~rebuild
        /\ UNCHANGED <<run, clients, heap, slots, cache, rebuild, ready, next, owner, netVars>>
    BY <1>2 DEF Top, TypeOK
  <2>2. TypeOK' /\ ClientsLive' /\ SlotsApart' /\ ScanInv' /\ NothingLeaks'
    BY <2>1 DEF TypeOK, ClientsLive, SlotsApart, ScanInv, NothingLeaks, netVars
  <2>3. SlotsInv'
    BY <2>1 DEF SlotsInv, Undisturbed, netVars
  <2>4. WithinLimit'
    BY <2>1 DEF WithinLimit, ClientKeys
  <2> QED
    BY <2>2, <2>3, <2>4
<1> QED
  BY <1>1, <1>2

LEMMA PollIInv ==
  ASSUME IInv, Poll
  PROVE  IInv'
<1> USE DEF IInv
<1>1. /\ loop = "poll"
      /\ ready' \subseteq 0 .. Len(slots)
      /\ \A k \in ready' : k = 0 \/ slots[k] # NoSocket
      /\ loop' = IF ready' = {} THEN "top" ELSE "scan"
      /\ next' = 0
      /\ UNCHANGED <<run, clients, heap, cache, slots, rebuild, owner, netVars>>
  BY DEF Poll, TypeOK
<1>2. TypeOK' /\ ClientsLive' /\ SlotsApart' /\ NothingLeaks'
  BY <1>1 DEF TypeOK, ClientsLive, SlotsApart, NothingLeaks, netVars
<1>3. ScanInv'
  BY <1>1 DEF TypeOK, ScanInv
<1>4. SlotsInv'
  BY <1>1 DEF ScanInv, SlotsInv, Undisturbed, netVars
<1>5. WithinLimit'
  BY <1>1 DEF WithinLimit, ClientKeys
<1> QED
  BY <1>2, <1>3, <1>4, <1>5

\* The scan goes forward: what was undisturbed ahead of it stays so.
LEMMA Forward ==
  ASSUME TypeOK, ScanInv, loop \in {"scan", "send"}, Advance, UNCHANGED slots
  PROVE  /\ loop' \in {"top", "scan"}
         /\ loop' = "scan" => next' = next + 1
         /\ next' \in 0 .. Len(slots)
         /\ ready' \subseteq 0 .. Len(slots)
         /\ ScanInv'
<1>1. Len(slots) \in Nat /\ next \in 0 .. Len(slots) /\ ready \subseteq 0 .. Len(slots)
  BY DEF TypeOK
<1>2. CASE next = Len(slots)
  <2>1. loop' = "top" /\ next' = 0 /\ ready' = ready \ {next}
    BY <1>2 DEF Advance
  <2>2. ready' = {}
    <3> SUFFICES ASSUME NEW k \in ready' PROVE FALSE
      OBVIOUS
    <3>1. k \in ready /\ k # next /\ next <= k
      BY <2>1 DEF ScanInv
    <3>2. k \in 0 .. Len(slots)
      BY <1>1, <3>1
    <3> QED
      BY <1>1, <1>2, <3>1, <3>2
  <2> QED
    BY <1>1, <2>1, <2>2 DEF ScanInv
<1>3. CASE next # Len(slots)
  <2>1. loop' = "scan" /\ next' = next + 1 /\ ready' = ready \ {next}
    BY <1>3 DEF Advance
  <2>2. \A k \in ready' : next' <= k /\ (k = 0 \/ slots[k] # NoSocket)
    BY <1>1, <2>1 DEF ScanInv
  <2> QED
    BY <1>1, <1>3, <2>1, <2>2 DEF ScanInv
<1> QED
  BY <1>2, <1>3

\* Steps of the scan that change no client: a slot that was not ready, data
\* that is received, a recv() that fails, a reply that was sent.
LEMMA ScanOnIInv ==
  ASSUME IInv, loop \in {"scan", "send"}, Advance,
         unread' \subseteq Descriptors,
         sockets' \in [Descriptors -> {"free", "open", "eof", "reset"}],
         \A d \in Descriptors : sockets'[d] = "free" <=> sockets[d] = "free",
         UNCHANGED <<run, clients, heap, cache, slots, rebuild, owner, backlog, stalled>>
  PROVE  IInv'
<1> USE DEF IInv
<1>1. /\ loop' \in {"top", "scan"}
      /\ loop' = "scan" => next' = next + 1
      /\ next' \in 0 .. Len(slots)
      /\ ready' \subseteq 0 .. Len(slots)
      /\ ScanInv'
  BY Forward
<1>2. TypeOK' /\ ClientsLive' /\ SlotsApart' /\ NothingLeaks'
  BY <1>1 DEF TypeOK, ClientsLive, SlotsApart, NothingLeaks
<1>3. SlotsInv'
  <2> SUFFICES ASSUME NEW k \in DOMAIN slots, Undisturbed(k)'
               PROVE  /\ slots[k] # NoSocket => sockets'[slots[k]] # "free"
                      /\ clients[slots[k]] = cache[k]
                      /\ heap[cache[k]] = slots[k]
    BY DEF SlotsInv
  <2>1. next \in Int /\ k \in Int /\ slots[k] \in Keys
    BY DEF TypeOK
  <2>2. Undisturbed(k)
    BY <1>1, <2>1 DEF Undisturbed
  <2>3. slots[k] # NoSocket => slots[k] \in Descriptors
    BY <2>1 DEF Keys
  <2> QED
    BY <2>2, <2>3 DEF SlotsInv
<1>4. WithinLimit'
  BY DEF WithinLimit, ClientKeys
<1> QED
  BY <1>1, <1>2, <1>3, <1>4

LEMMA ReceiveFailsIInv ==
  ASSUME IInv, ReceiveFails
  PROVE  IInv'
<1>1. /\ sockets' \in [Descriptors -> {"free", "open", "eof", "reset"}]
      /\ \A d \in Descriptors : sockets'[d] = "free" <=> sockets[d] = "free"
  BY DEF ReceiveFails, IInv, TypeOK
<1> QED
  BY <1>1, ScanOnIInv DEF ReceiveFails, AtClient, IInv, TypeOK

LEMMA ReceiveIInv ==
  ASSUME IInv, Receive
  PROVE  IInv'
<1>1. CASE Advance
  BY <1>1, ScanOnIInv DEF Receive, AtClient, IInv, TypeOK
<1>2. CASE loop' = "send" /\ UNCHANGED <<next, ready>>
  <2> USE DEF IInv
  <2>1. /\ loop = "scan" /\ next # 0 /\ loop' = "send"
        /\ unread' \subseteq Descriptors
        /\ UNCHANGED <<run, clients, heap, cache, slots, rebuild, ready, next, owner, backlog,
                       sockets, stalled>>
    BY <1>2 DEF Receive, AtClient, TypeOK
  <2>2. TypeOK' /\ ClientsLive' /\ SlotsApart' /\ ScanInv' /\ NothingLeaks'
    BY <2>1 DEF TypeOK, ClientsLive, SlotsApart, ScanInv, NothingLeaks
  <2>3. SlotsInv' /\ WithinLimit'
    BY <2>1 DEF SlotsInv, Undisturbed, WithinLimit, ClientKeys
  <2> QED
    BY <2>2, <2>3
<1> QED
  BY <1>1, <1>2 DEF Receive

LEMMA FinishSendIInv ==
  ASSUME IInv, FinishSend
  PROVE  IInv'
<1>1. CASE Advance
  BY <1>1, ScanOnIInv DEF FinishSend, netVars, IInv, TypeOK
<1>2. CASE loop' = "killed" /\ UNCHANGED <<next, ready>>
  <2> USE DEF IInv
  <2>1. UNCHANGED <<run, clients, heap, cache, slots, rebuild, ready, next, owner, netVars>>
    BY <1>2 DEF FinishSend
  <2>2. TypeOK' /\ ClientsLive' /\ SlotsApart' /\ ScanInv' /\ NothingLeaks'
    BY <1>2, <2>1 DEF TypeOK, ClientsLive, SlotsApart, ScanInv, NothingLeaks, netVars
  <2>3. SlotsInv' /\ WithinLimit'
    BY <1>2, <2>1 DEF SlotsInv, Undisturbed, WithinLimit, ClientKeys, netVars
  <2> QED
    BY <2>2, <2>3
<1> QED
  BY <1>1, <1>2 DEF FinishSend

\* The least element of a finite set of numbers.
LEMMA Least ==
  ASSUME NEW S \in SUBSET Int, IsFiniteSet(S), S # {}
  PROVE  Min(S) \in S
<1>1. PICK place \in [S -> 1 .. Cardinality(S)] :
        /\ \A a, b \in S : a < b => place[a] < place[b]
        /\ \A n \in 1 .. Cardinality(S) : \E a \in S : place[a] = n
  BY Places
<1>2. Cardinality(S) \in Nat /\ Cardinality(S) # 0
  BY FS_CardinalityType, FS_EmptySet
<1>3. PICK a \in S : place[a] = 1
  BY <1>1, <1>2
<1>4. \A b \in S : a <= b
  <2> SUFFICES ASSUME NEW b \in S PROVE a <= b
    OBVIOUS
  <2>1. ~(b < a)
    <3>1. place[b] \in 1 .. Cardinality(S)
      OBVIOUS
    <3> QED
      BY <1>1, <1>2, <1>3, <3>1
  <2>2. a \in Int /\ b \in Int
    <3>1. \A c \in S : c \in Int
      OBVIOUS
    <3> QED
      BY <3>1
  <2> QED
    BY <2>1, <2>2
<1> QED
  BY <1>4 DEF Min

\* What accept() returns is no descriptor in use, and nothing else changes.
LEMMA Accepted ==
  ASSUME IInv, NEW fd \in Keys, AcceptReturns(fd)
  PROVE  /\ fd # NoSocket => fd \in Descriptors /\ sockets[fd] = "free"
         /\ backlog' \in 0 .. MaxBacklog
         /\ UNCHANGED <<unread, stalled>>
<1>0. backlog \in 0 .. MaxBacklog /\ MaxBacklog \in Nat
  BY TCPSourceAssumption DEF IInv, TypeOK
<1> DEFINE free == {d \in Descriptors : sockets[d] = "free"}
<1>1. CASE backlog > 0 /\ free # {} /\ fd = Min(free) /\ backlog' = backlog - 1
           /\ UNCHANGED <<unread, stalled>>
  <2>1. free \in SUBSET Int /\ free \in SUBSET Descriptors /\ IsFiniteSet(Descriptors)
    <3>1. \A d \in Descriptors : d \in Int
      BY TCPSourceAssumption
    <3> QED
      BY <3>1, TCPSourceAssumption
  <2>2. IsFiniteSet(free)
    BY <2>1, FS_Subset
  <2>3. Min(free) \in free
    BY <1>1, <2>1, <2>2, Least
  <2> QED
    BY <1>0, <1>1, <2>3
<1>2. CASE fd = NoSocket /\ UNCHANGED <<backlog, unread, stalled>>
  BY <1>0, <1>2
<1> QED
  BY <1>1, <1>2 DEF AcceptReturns

\* A new client takes a descriptor and an address that were free.  If accept()
\* has failed and an entry for such a failure is there, its object leaks.
LEMMA AcceptClientIInv ==
  ASSUME IInv, AcceptClient
  PROVE  IInv'
<1> USE DEF IInv
<1>1. PICK fd \in Keys :
        /\ AcceptReturns(fd)
        /\ IF Full
             THEN UNCHANGED <<clients, heap, rebuild, sockets>>
             ELSE /\ \E address \in {a \in Addresses : heap[a] = Freed} :
                       /\ heap' = [heap EXCEPT ![address] = fd]
                       /\ Insert(fd, address)
                  /\ rebuild' = TRUE
                  /\ sockets' = IF fd = NoSocket THEN sockets
                                                 ELSE [sockets EXCEPT ![fd] = "open"]
  BY DEF AcceptClient
<1>2. loop = "scan" /\ next = 0 /\ Advance /\ UNCHANGED <<run, cache, slots, owner>>
  BY DEF AcceptClient
<1>3. /\ fd # NoSocket => fd \in Descriptors /\ sockets[fd] = "free"
      /\ backlog' \in 0 .. MaxBacklog
      /\ UNCHANGED <<unread, stalled>>
  BY <1>1, Accepted
<1>4. /\ loop' \in {"top", "scan"}
      /\ loop' = "scan" => next' = next + 1
      /\ next' \in 0 .. Len(slots)
      /\ ready' \subseteq 0 .. Len(slots)
      /\ ScanInv'
  BY <1>2, Forward
<1>5. SlotsApart'
  BY <1>2 DEF SlotsApart
<1>6. \A k \in DOMAIN slots : Undisturbed(k)
  <2>1. DOMAIN slots = 1 .. Len(slots) /\ Len(slots) \in Nat
    BY DEF TypeOK
  <2> QED
    BY <1>2, <2>1 DEF Undisturbed
<1>7. CASE Full
  <2>1. UNCHANGED <<clients, heap, rebuild, sockets>>
    BY <1>1, <1>7
  <2>2. TypeOK' /\ ClientsLive' /\ NothingLeaks'
    BY <1>2, <1>3, <1>4, <2>1 DEF TypeOK, ClientsLive, NothingLeaks
  <2>3. SlotsInv'
    BY <1>2, <1>6, <2>1 DEF SlotsInv
  <2>4. WithinLimit'
    BY <1>2, <2>1 DEF WithinLimit, ClientKeys
  <2> QED
    BY <1>4, <1>5, <2>2, <2>3, <2>4
<1>8. CASE ~Full
  <2>1. PICK address \in Addresses : /\ heap[address] = Freed
                                     /\ heap' = [heap EXCEPT ![address] = fd]
                                     /\ Insert(fd, address)
    BY <1>1, <1>8
  <2>2. /\ rebuild' = TRUE
        /\ sockets' = IF fd = NoSocket THEN sockets ELSE [sockets EXCEPT ![fd] = "open"]
    BY <1>1, <1>8
  <2>3. clients' = IF clients[fd] = nullptr THEN [clients EXCEPT ![fd] = address] ELSE clients
    BY <2>1 DEF Insert
  <2>4. TypeOK'
    <3>1. clients' \in [Keys -> Addresses \cup {nullptr}]
      BY <2>3 DEF TypeOK
    <3>2. heap' \in [Addresses -> Keys \cup {Freed}]
      BY <2>1 DEF TypeOK
    <3>3. sockets' \in [Descriptors -> {"free", "open", "eof", "reset"}]
      BY <2>2, <1>3 DEF TypeOK
    <3> QED
      BY <1>2, <1>3, <1>4, <2>2, <3>1, <3>2, <3>3 DEF TypeOK
  <2>5. \A d \in Keys : clients[d] # nullptr => clients[d] # address
    BY <2>1, Marks DEF ClientsLive
  <2>6. fd # NoSocket => clients[fd] = nullptr
    BY <1>3 DEF NothingLeaks
  <2>7. ClientsLive'
    <3> SUFFICES ASSUME NEW d \in Keys, clients'[d] # nullptr
                 PROVE  heap'[clients'[d]] = d
      BY DEF ClientsLive
    <3>1. CASE clients'[d] = clients[d]
      BY <2>1, <2>5, <3>1 DEF ClientsLive, TypeOK
    <3>2. CASE clients'[d] # clients[d]
      BY <2>1, <2>3, <3>2 DEF TypeOK
    <3> QED
      BY <3>1, <3>2
  <2>8. NothingLeaks'
    <3>1. \A d \in Descriptors : sockets'[d] # "free" <=> clients'[d] # nullptr
      BY <2>2, <2>3, <2>6, <1>3, Marks DEF NothingLeaks, TypeOK
    <3>2. \A a \in Addresses : heap'[a] # Freed =>
            clients'[heap'[a]] = a \/ heap'[a] = NoSocket
      <4> SUFFICES ASSUME NEW a \in Addresses, heap'[a] # Freed, heap'[a] # NoSocket
                   PROVE  clients'[heap'[a]] = a
        OBVIOUS
      <4>1. CASE a = address
        BY <2>1, <2>3, <2>6, <4>1 DEF TypeOK
      <4>2. CASE a # address
        <5>1. heap'[a] = heap[a] /\ heap[a] \in Keys
          BY <2>1, <4>2 DEF TypeOK
        <5>2. clients[heap[a]] = a /\ a # nullptr
          BY <5>1, Marks DEF NothingLeaks
        <5> QED
          BY <2>3, <5>1, <5>2 DEF TypeOK
      <4> QED
        BY <4>1, <4>2
    <3> QED
      BY <3>1, <3>2 DEF NothingLeaks
  <2>9. SlotsInv'
    <3> SUFFICES ASSUME NEW k \in DOMAIN slots
                 PROVE  /\ slots[k] # NoSocket => sockets'[slots[k]] # "free"
                        /\ clients'[slots[k]] = cache[k]
                        /\ heap'[cache[k]] = slots[k]
      BY <1>2 DEF SlotsInv
    <3>1. slots[k] \in Keys /\ cache[k] \in Addresses
      BY DEF TypeOK
    <3>2. /\ slots[k] # NoSocket => sockets[slots[k]] # "free"
          /\ clients[slots[k]] = cache[k]
          /\ heap[cache[k]] = slots[k]
      BY <1>6 DEF SlotsInv
    <3>3. cache[k] # address /\ cache[k] # nullptr
      BY <2>1, <3>1, <3>2, Marks
    <3>4. slots[k] # NoSocket => slots[k] \in Descriptors
      BY <3>1 DEF Keys
    <3> QED
      BY <2>1, <2>2, <2>3, <1>3, <3>1, <3>2, <3>3, <3>4 DEF TypeOK
  <2>10. WithinLimit'
    <3>1. IsFiniteSet(ClientKeys) /\ Cardinality(ClientKeys) \in Nat
      <4>1. ClientKeys \in SUBSET Keys
        BY DEF ClientKeys
      <4> QED
        BY <4>1, KeysFinite, FS_Subset, FS_CardinalityType
    <3>2. /\ IsFiniteSet(ClientKeys \cup {fd})
          /\ Cardinality(ClientKeys \cup {fd}) <= Cardinality(ClientKeys) + 1
          /\ Cardinality(ClientKeys \cup {fd}) \in Nat
      <4>1. /\ IsFiniteSet(ClientKeys \cup {fd})
            /\ Cardinality(ClientKeys \cup {fd}) \in
                 {Cardinality(ClientKeys), Cardinality(ClientKeys) + 1}
        BY <3>1, FS_AddElement
      <4> QED
        BY <3>1, <4>1
    <3>3. ClientKeys' \in SUBSET (ClientKeys \cup {fd})
      BY <2>3 DEF ClientKeys, TypeOK
    <3>4. IsFiniteSet(ClientKeys') /\ Cardinality(ClientKeys') <= Cardinality(ClientKeys \cup {fd})
      BY <3>2, <3>3, FS_Subset
    <3>5. Cardinality(ClientKeys') \in Nat
      BY <3>4, FS_CardinalityType
    <3> QED
      BY <1>2, <1>8, <3>1, <3>2, <3>4, <3>5, TCPSourceAssumption DEF WithinLimit, Full
  <2> QED
    BY <1>4, <1>5, <2>4, <2>7, <2>8, <2>9, <2>10
<1> QED
  BY <1>7, <1>8

\* A client that is gone takes only its own descriptor, entry and object along,
\* and the slots ahead of the scan are those of others.
LEMMA DisconnectIInv ==
  ASSUME IInv, Disconnect
  PROVE  IInv'
<1> USE DEF IInv
<1> DEFINE fd == slots[next]
           address == cache[next]
<1>1. /\ loop = "scan" /\ next \in ready /\ next # 0 /\ Advance
      /\ sockets' = [sockets EXCEPT ![fd] = "free"]
      /\ clients' = [clients EXCEPT ![fd] = nullptr]
      /\ heap' = [heap EXCEPT ![address] = Freed]
      /\ rebuild' = TRUE
      /\ UNCHANGED <<run, cache, slots, owner, backlog, unread, stalled>>
  BY DEF Disconnect, AtClient, RemoveClient
<1>2. /\ loop' \in {"top", "scan"}
      /\ loop' = "scan" => next' = next + 1
      /\ next' \in 0 .. Len(slots)
      /\ ready' \subseteq 0 .. Len(slots)
      /\ ScanInv'
  BY <1>1, Forward
<1>3. next \in DOMAIN slots /\ fd \in Keys /\ fd # NoSocket /\ address \in Addresses
  BY <1>1 DEF TypeOK, ScanInv
<1>4. fd \in Descriptors
  BY <1>3 DEF Keys
<1>5. Undisturbed(next)
  BY <1>1, <1>3 DEF Undisturbed, TypeOK
<1>6. sockets[fd] # "free" /\ clients[fd] = address /\ heap[address] = fd
  BY <1>3, <1>5 DEF SlotsInv
<1> HIDE DEF fd, address
<1>7. TypeOK'
  <2>1. /\ clients' \in [Keys -> Addresses \cup {nullptr}]
        /\ heap' \in [Addresses -> Keys \cup {Freed}]
        /\ sockets' \in [Descriptors -> {"free", "open", "eof", "reset"}]
    BY <1>1 DEF TypeOK
  <2> QED
    BY <1>1, <1>2, <2>1 DEF TypeOK
<1>8. ClientsLive'
  <2> SUFFICES ASSUME NEW d \in Keys, clients'[d] # nullptr
               PROVE  heap'[clients'[d]] = d
    BY DEF ClientsLive
  <2>1. d # fd /\ clients'[d] = clients[d] /\ clients[d] \in Addresses
    BY <1>1, <1>3 DEF TypeOK
  <2>2. heap[clients[d]] = d
    BY <2>1 DEF ClientsLive
  <2> QED
    BY <1>1, <1>6, <2>1, <2>2 DEF TypeOK
<1>9. SlotsApart'
  BY <1>1 DEF SlotsApart
<1>10. NothingLeaks'
  <2>1. \A d \in Descriptors : sockets'[d] # "free" <=> clients'[d] # nullptr
    BY <1>1, <1>3, <1>4, Marks DEF NothingLeaks, TypeOK
  <2>2. \A a \in Addresses : heap'[a] # Freed =>
          clients'[heap'[a]] = a \/ heap'[a] = NoSocket
    <3> SUFFICES ASSUME NEW a \in Addresses, heap'[a] # Freed, heap'[a] # NoSocket
                 PROVE  clients'[heap'[a]] = a
      OBVIOUS
    <3>1. a # address /\ heap'[a] = heap[a] /\ heap[a] \in Keys
      BY <1>1, <1>3 DEF TypeOK
    <3>2. clients[heap[a]] = a
      BY <3>1 DEF NothingLeaks
    <3>3. heap[a] # fd
      BY <1>6, <3>1, <3>2
    <3> QED
      BY <1>1, <3>1, <3>2, <3>3 DEF TypeOK
  <2> QED
    BY <2>1, <2>2 DEF NothingLeaks
<1>11. SlotsInv'
  <2> SUFFICES ASSUME NEW k \in DOMAIN slots, Undisturbed(k)'
               PROVE  /\ slots[k] # NoSocket => sockets'[slots[k]] # "free"
                      /\ clients'[slots[k]] = cache[k]
                      /\ heap'[cache[k]] = slots[k]
    BY <1>1 DEF SlotsInv
  <2>1. slots[k] \in Keys /\ cache[k] \in Addresses /\ k \in Int /\ next \in Int
    BY DEF TypeOK
  <2>2. k # next /\ Undisturbed(k)
    BY <1>1, <1>2, <2>1 DEF Undisturbed
  <2>3. /\ slots[k] # NoSocket => sockets[slots[k]] # "free"
        /\ clients[slots[k]] = cache[k]
        /\ heap[cache[k]] = slots[k]
    BY <2>2 DEF SlotsInv
  <2>4. slots[k] # fd
    BY <1>3, <2>2 DEF SlotsApart, fd
  <2>5. cache[k] # address
    BY <1>6, <2>3, <2>4
  <2>6. slots[k] # NoSocket => slots[k] \in Descriptors
    BY <2>1 DEF Keys
  <2> QED
    BY <1>1, <2>1, <2>3, <2>4, <2>5, <2>6 DEF TypeOK
<1>12. WithinLimit'
  <2>1. IsFiniteSet(ClientKeys) /\ Cardinality(ClientKeys) \in Nat
    <3>1. ClientKeys \in SUBSET Keys
      BY DEF ClientKeys
    <3> QED
      BY <3>1, KeysFinite, FS_Subset, FS_CardinalityType
  <2>2. ClientKeys' \in SUBSET ClientKeys
    BY <1>1 DEF ClientKeys, TypeOK
  <2>3. IsFiniteSet(ClientKeys') /\ Cardinality(ClientKeys') <= Cardinality(ClientKeys)
    BY <2>1, <2>2, FS_Subset
  <2>4. Cardinality(ClientKeys') \in Nat
    BY <2>3, FS_CardinalityType
  <2> QED
    BY <1>1, <2>1, <2>3, <2>4, TCPSourceAssumption DEF WithinLimit
<1> QED
  BY <1>2, <1>7, <1>8, <1>9, <1>10, <1>11, <1>12

\* stop() leaves the clients and the loop's data alone.
LEMMA StopIInv ==
  ASSUME IInv, Stop \/ Join
  PROVE  IInv'
<1> USE DEF IInv
<1>1. /\ run' \in BOOLEAN
      /\ owner' \in {"running", "join", "stopped"}
      /\ backlog' \in 0 .. MaxBacklog
      /\ UNCHANGED <<loopVars, sockets, unread, stalled>>
  <2>1. CASE Stop
    BY <2>1 DEF Stop, netVars, TypeOK
  <2>2. CASE Join
    BY <2>2, TCPSourceAssumption DEF Join, TypeOK
  <2> QED
    BY <2>1, <2>2
<1>2. TypeOK' /\ ClientsLive' /\ SlotsApart' /\ ScanInv' /\ NothingLeaks'
  BY <1>1 DEF TypeOK, ClientsLive, SlotsApart, ScanInv, NothingLeaks, loopVars
<1>3. SlotsInv' /\ WithinLimit'
  BY <1>1 DEF SlotsInv, Undisturbed, WithinLimit, ClientKeys, loopVars
<1> QED
  BY <1>2, <1>3

LEMMA StepIInv ==
  ASSUME IInv, [Next]_vars
  PROVE  IInv'
<1>1. CASE Peers
  BY <1>1, PeersIInv
<1>2. CASE Top
  BY <1>2, TopIInv
<1>3. CASE Poll
  BY <1>3, PollIInv
<1>4. CASE Skip
  BY <1>4, ScanOnIInv DEF Skip, netVars, IInv, TypeOK
<1>5. CASE AcceptClient
  BY <1>5, AcceptClientIInv
<1>6. CASE Receive
  BY <1>6, ReceiveIInv
<1>7. CASE FinishSend
  BY <1>7, FinishSendIInv
<1>8. CASE Disconnect
  BY <1>8, DisconnectIInv
<1>9. CASE ReceiveFails
  BY <1>9, ReceiveFailsIInv
<1>10. CASE Stop \/ Join
  BY <1>10, StopIInv
<1>11. CASE UNCHANGED vars
  <2> USE DEF IInv
  <2>1. UNCHANGED <<run, owner, loop, clients, heap, cache, slots, rebuild, ready, next,
                    backlog, sockets, unread, stalled>>
    BY <1>11 DEF vars, loopVars, netVars
  <2>2. TypeOK' /\ ClientsLive' /\ SlotsApart' /\ ScanInv' /\ NothingLeaks'
    BY <2>1 DEF TypeOK, ClientsLive, SlotsApart, ScanInv, NothingLeaks
  <2>3. SlotsInv' /\ WithinLimit'
    BY <2>1 DEF SlotsInv, Undisturbed, WithinLimit, ClientKeys
  <2> QED
    BY <2>2, <2>3
<1> QED
  BY <1>1, <1>2, <1>3, <1>4, <1>5, <1>6, <1>7, <1>8, <1>9, <1>10, <1>11
  DEF Next, ReceiveLoop

-----------------------------------------------------------------------------
(* What holds in every state                                               *)

\* The inductive invariant: the poll array and _clientCache are those of live
\* clients as far as the loop still uses them.
THEOREM Invariance == Spec => []IInv
<1>1. Init => IInv
  BY InitIInv
<1>2. IInv /\ [Next]_vars => IInv'
  BY StepIInv
<1> QED
  BY <1>1, <1>2, PTL DEF Spec

\* The members of PixelFlutTCPSource keep to their types, and revents and the
\* scan to the slots of the poll array.
THEOREM TypeCorrect == Spec => []TypeOK
<1>1. IInv => TypeOK
  BY DEF IInv
<1> QED
  BY <1>1, Invariance, PTL

\* The receive loop reads from no descriptor that was closed and follows no
\* pointer of _clientCache to an object that was deleted.
THEOREM SlotsStayCurrent == Spec => []SlotsCurrent
<1>1. IInv => SlotsCurrent
  BY DEF IInv, SlotsInv, Undisturbed, SlotsCurrent, Current
<1> QED
  BY <1>1, Invariance, PTL

\* In every state, stop() included, the open descriptors are just those of the
\* entries of _clients, and a ClientInfo object that lives is in _clients, save
\* those that failed calls of accept() leave.
THEOREM LeaksOnlyFailedAccepts == Spec => []NothingLeaks
<1>1. IInv => NothingLeaks
  BY DEF IInv
<1> QED
  BY <1>1, Invariance, PTL

\* _clients and the poll array hold at most MAX_NUM_CLIENTS clients.
THEOREM ClientsWithinLimit == Spec => []WithinLimit
<1>1. IInv => WithinLimit
  BY DEF IInv
<1> QED
  BY <1>1, Invariance, PTL

-----------------------------------------------------------------------------
(* What handleCmd() makes of a line                                        *)

LEMMA Half ==
  ASSUME NEW i \in Nat
  PROVE  i \div 2 \in Nat /\ i % 2 \in {0, 1} /\ i = 2 * (i \div 2) + (i % 2)
OBVIOUS

LEMMA Parity ==
  ASSUME NEW k \in Nat
  PROVE  (2 * k) % 2 = 0 /\ (2 * k + 1) % 2 = 1
<1> DEFINE q == (2 * k) \div 2
           r == (2 * k) % 2
           u == (2 * k + 1) \div 2
           v == (2 * k + 1) % 2
<1>1. q \in Nat /\ r \in {0, 1} /\ 2 * k = 2 * q + r
  BY Half
<1>2. u \in Nat /\ v \in {0, 1} /\ 2 * k + 1 = 2 * u + v
  BY Half
<1> HIDE DEF q, r, u, v
<1>3. r = 0 /\ v = 1
  BY <1>1, <1>2
<1> QED
  BY <1>3 DEF r, v

\* A sequence of one element.
LEMMA Single ==
  ASSUME NEW S, NEW u \in Seq(S), Len(u) = 1
  PROVE  u = <<u[1]>>
<1>1. u = [j \in 1 .. 1 |-> u[j]]
  OBVIOUS
<1>2. [j \in 1 .. 1 |-> u[1]] = <<u[1]>>
  OBVIOUS
<1> QED
  BY <1>1, <1>2

LEMMA Piece ==
  ASSUME NEW S, NEW text \in Seq(S), NEW i \in 1 .. Len(text)
  PROVE  SubSeq(text, i, i) = <<text[i]>>
<1> DEFINE u == SubSeq(text, i, i)
<1>1. u \in Seq(S) /\ Len(u) = 1 /\ u[1] = text[i]
  OBVIOUS
<1> HIDE DEF u
<1> QED
  BY <1>1, Single DEF u

\* The result of a line, as it is meant.
Result(line) ==
  [kind |-> Meaning(line),
   args |-> IF Meaning(line) = "invalid" THEN <<>> ELSE Arguments(line)]

\* A text is a regular line of so many words, and at most a word behind it.
Reads(text, w) ==
  /\ text \in Texts
  /\ Len(text) \in {2 * w, 2 * w + 1}
  /\ \A i \in 1 .. Len(text) : IsSeparator(text[i]) <=> i % 2 = 0

LEMMA LineLength ==
  ASSUME NEW line \in Lines, Regular(line)
  PROVE  \E w \in Nat \ {0} : Len(line) = 2 * w /\ Reads(line, w)
<1>1. line \in Texts /\ Len(line) \in Nat /\ Len(line) # 0 /\ DOMAIN line = 1 .. Len(line)
  BY ClientAssumption DEF Texts
<1>2. line[Len(line)] = Newline
  BY <1>1, ClientAssumption
<1>3. Len(line) % 2 = 0
  BY <1>1, <1>2 DEF Regular, IsSeparator
<1>4. PICK w \in Nat \ {0} : Len(line) = 2 * w
  <2> DEFINE n == Len(line)
             w == n \div 2
  <2>1. n \in Nat /\ n # 0 /\ n % 2 = 0
    BY <1>1, <1>3
  <2> HIDE DEF n
  <2>2. w \in Nat /\ n = 2 * w + (n % 2)
    BY <2>1, Half
  <2> HIDE DEF w
  <2>3. w \in Nat \ {0} /\ n = 2 * w
    BY <2>1, <2>2
  <2> QED
    BY <2>3 DEF n
<1> QED
  BY <1>1, <1>4 DEF Reads, Regular

LEMMA Separators ==
  ASSUME NEW w \in Nat, NEW text, Reads(text, w)
  PROVE  Positions(text, IsSeparator) = [k \in 1 .. w |-> 2 * k]
<1> DEFINE S == {i \in DOMAIN text : IsSeparator(text[i])}
           f == [k \in 1 .. w |-> 2 * k]
           n == Len(text)
<1>1. n \in Nat /\ DOMAIN text = 1 .. n /\ n \in {2 * w, 2 * w + 1}
  BY DEF Reads, Texts
<1>2. S = {i \in 1 .. n : i % 2 = 0}
  BY <1>1 DEF Reads
<1> HIDE DEF n, S
<1>3. \A k \in 1 .. w : 2 * k \in 1 .. n /\ (2 * k) % 2 = 0
  <2> SUFFICES ASSUME NEW k \in 1 .. w
               PROVE  2 * k \in 1 .. n /\ (2 * k) % 2 = 0
    OBVIOUS
  <2>1. k \in Nat /\ 1 <= k /\ k <= w
    OBVIOUS
  <2>2. 2 * k \in 1 .. n
    BY <1>1, <2>1
  <2>3. (2 * k) % 2 = 0
    BY <2>1, Parity
  <2> QED
    BY <2>2, <2>3
<1>4. f \in [1 .. w -> S]
  BY <1>2, <1>3
<1>5. \A a \in S : \E k \in 1 .. w : f[k] = a
  <2> SUFFICES ASSUME NEW a \in S PROVE \E k \in 1 .. w : f[k] = a
    OBVIOUS
  <2>1. a \in Nat /\ 1 <= a /\ a <= n /\ a % 2 = 0
    BY <1>1, <1>2
  <2>2. PICK q \in Nat : a = 2 * q + (a % 2)
    BY <2>1, Half
  <2>3. q \in 1 .. w /\ a = 2 * q
    BY <1>1, <2>1, <2>2
  <2> QED
    BY <2>3
<1>6. S \in SUBSET Int
  BY <1>2
<1>7. \A j, k \in 1 .. w : j < k => f[j] < f[k]
  OBVIOUS
<1> HIDE DEF f
<1>8. Ascending(S) = f
  BY <1>4, <1>5, <1>6, <1>7, AscendingIs
<1> QED
  BY <1>8 DEF Positions, S, f

LEMMA TokensOf ==
  ASSUME NEW w \in Nat, NEW text, Reads(text, w)
  PROVE  Tokens(text) = [k \in 1 .. w |-> <<text[2 * k - 1]>>]
<1> DEFINE ends == [k \in 1 .. w |-> 2 * k]
<1>1. text \in Seq(Symbols) /\ Len(text) \in Nat /\ Len(text) \in {2 * w, 2 * w + 1}
  BY DEF Reads, Texts
<1>2. Tokens(text) = Pieces(text, ends)
  BY Separators DEF Tokens
<1>3. DOMAIN ends = 1 .. w
  OBVIOUS
<1>4. ASSUME NEW k \in 1 .. w
      PROVE  SubSeq(text, IF k = 1 THEN 1 ELSE ends[k - 1] + 1, ends[k] - 1) = <<text[2 * k - 1]>>
  <2>1. (IF k = 1 THEN 1 ELSE ends[k - 1] + 1) = 2 * k - 1 /\ ends[k] - 1 = 2 * k - 1
    OBVIOUS
  <2>2. 2 * k - 1 \in 1 .. Len(text)
    BY <1>1
  <2> HIDE DEF ends
  <2>3. SubSeq(text, 2 * k - 1, 2 * k - 1) = <<text[2 * k - 1]>>
    BY <1>1, <2>2, Piece
  <2> QED
    BY <2>1, <2>3
<1> HIDE DEF ends
<1> QED
  BY <1>2, <1>3, <1>4 DEF Pieces

LEMMA WordsOfLine ==
  ASSUME NEW line \in Lines, NEW w \in Nat, Len(line) = 2 * w, Reads(line, w)
  PROVE  WordsOf(line) = [k \in 1 .. w |-> line[2 * k - 1]]
<1> DEFINE S == {i \in DOMAIN line : ~IsSeparator(line[i])}
           f == [k \in 1 .. w |-> 2 * k - 1]
<1>1. DOMAIN line = 1 .. 2 * w
  BY DEF Reads, Texts
<1>2. S = {i \in 1 .. 2 * w : i % 2 # 0}
  BY <1>1 DEF Reads
<1>3. \A k \in 1 .. w : 2 * k - 1 \in 1 .. 2 * w /\ (2 * k - 1) % 2 # 0
  OBVIOUS
<1>4. f \in [1 .. w -> S]
  BY <1>2, <1>3
<1>5. \A a \in S : \E k \in 1 .. w : f[k] = a
  <2> SUFFICES ASSUME NEW a \in S PROVE \E k \in 1 .. w : f[k] = a
    OBVIOUS
  <2>1. a \in 1 .. 2 * w /\ a % 2 # 0
    BY <1>2
  <2>2. (a + 1) \div 2 \in 1 .. w /\ a = 2 * ((a + 1) \div 2) - 1
    BY <2>1
  <2> QED
    BY <2>2
<1>6. S \in SUBSET Int
  BY <1>2
<1>7. \A j, k \in 1 .. w : j < k => f[j] < f[k]
  OBVIOUS
<1> HIDE DEF f, S
<1>8. Ascending(S) = f
  BY <1>4, <1>5, <1>6, <1>7, AscendingIs
<1> QED
  BY <1>8 DEF WordsOf, Those, Positions, S, f

\* The result does not depend on the word behind the line.
LEMMA LineHandled ==
  ASSUME NEW line \in Lines, Regular(line), NEW text \in Texts,
         Len(text) \in {Len(line), Len(line) + 1},
         \A i \in 1 .. Len(line) : text[i] = line[i],
         Len(text) = Len(line) + 1 => ~IsSeparator(text[Len(text)])
  PROVE  HandleCmd(text) = Result(line)
<1>1. PICK w \in Nat \ {0} : Len(line) = 2 * w /\ Reads(line, w)
  BY LineLength
<1>2. Reads(text, w)
  <2>1. Len(text) \in {2 * w, 2 * w + 1}
    BY <1>1
  <2>2. \A i \in 1 .. 2 * w : IsSeparator(text[i]) <=> i % 2 = 0
    BY <1>1 DEF Reads
  <2>3. Len(text) = 2 * w + 1 => (IsSeparator(text[2 * w + 1]) <=> (2 * w + 1) % 2 = 0)
    BY <1>1
  <2> QED
    BY <2>1, <2>2, <2>3 DEF Reads
<1> DEFINE tokens == [k \in 1 .. w |-> <<line[2 * k - 1]>>]
           words == [k \in 1 .. w |-> line[2 * k - 1]]
<1>3. Tokens(text) = tokens
  <2>1. \A k \in 1 .. w : text[2 * k - 1] = line[2 * k - 1]
    BY <1>1
  <2> QED
    BY <1>2, <2>1, TokensOf
<1>4. WordsOf(line) = words
  BY <1>1, WordsOfLine
<1>5. /\ Len(tokens) = w /\ Len(words) = w
      /\ Head(tokens) = <<line[1]>> /\ Head(words) = line[1]
      /\ Tail(tokens) = [k \in 1 .. w - 1 |-> <<words[k + 1]>>]
  <2>1. tokens = [k \in 1 .. w |-> <<words[k]>>]
    OBVIOUS
  <2>2. Len(tokens) = w /\ Len(words) = w /\ tokens[1] = <<line[1]>> /\ words[1] = line[1]
    OBVIOUS
  <2> HIDE DEF tokens, words
  <2>3. Len(tokens) = w /\ Head(tokens) = tokens[1] /\ Head(words) = words[1]
    BY <2>1, <2>2
  <2>4. Tail(tokens) = [k \in 1 .. w - 1 |-> <<words[k + 1]>>]
    <3> DEFINE T == {<<words[k]>> : k \in 1 .. w}
    <3>1. tokens \in Seq(T)
      BY <2>1
    <3> HIDE DEF T
    <3>2. tokens # <<>>
      BY <2>2
    <3> DEFINE tail == Tail(tokens)
    <3>5. tail \in Seq(T) /\ Len(tail) = w - 1 /\ \A k \in 1 .. Len(tail) : tail[k] = tokens[k + 1]
      BY <2>2, <3>1, <3>2, HeadTailProperties
    <3> HIDE DEF tail
    <3>6. tail = [k \in 1 .. Len(tail) |-> tail[k]]
      BY <3>5
    <3>3. tail = [k \in 1 .. w - 1 |-> tokens[k + 1]]
      BY <3>5, <3>6
    <3>4. \A k \in 1 .. w - 1 : tokens[k + 1] = <<words[k + 1]>>
      BY <2>1
    <3> QED
      BY <3>3, <3>4 DEF tail
  <2> QED
    BY <2>2, <2>3, <2>4
<1>6. Arguments(line) = Tail(tokens)
  BY <1>4, <1>5 DEF Arguments
<1> HIDE DEF tokens, words
<1>7. CmdType(<<line[1]>>) = CASE line[1] \in {"P", "PX"} -> "PX"
                               [] line[1] \in {"S", "SI", "SIZ", "SIZE"} -> "SIZE"
                               [] OTHER -> "unknown"
  <2>1. \A x, y : <<x>> = <<y>> <=> x = y
    OBVIOUS
  <2>2. \A x : <<x>> # <<>>
    OBVIOUS
  <2> QED
    BY <2>1, <2>2 DEF CmdType
<1>8. Meaning(line) = CASE line[1] \in {"P", "PX"} /\ w = 4 -> "draw"
                        [] line[1] \in {"P", "PX"} /\ w = 3 -> "read"
                        [] line[1] \in {"S", "SI", "SIZ", "SIZE"} /\ w = 1 -> "size"
                        [] OTHER -> "invalid"
  BY <1>4, <1>5 DEF Meaning
<1>9. HandleCmd(text) =
        CASE CmdType(<<line[1]>>) = "PX" /\ w = 4 -> [kind |-> "draw", args |-> Arguments(line)]
          [] CmdType(<<line[1]>>) = "PX" /\ w = 3 -> [kind |-> "read", args |-> Arguments(line)]
          [] CmdType(<<line[1]>>) = "SIZE" /\ w = 1 -> [kind |-> "size", args |-> Arguments(line)]
          [] OTHER -> [kind |-> "invalid", args |-> <<>>]
  BY <1>3, <1>5, <1>6 DEF HandleCmd, Invalid
<1>10. CASE line[1] \in {"P", "PX"}
  <2>1. CmdType(<<line[1]>>) = "PX" /\ line[1] \notin {"S", "SI", "SIZ", "SIZE"}
    BY <1>7, <1>10
  <2> HIDE DEF tokens
  <2>2. CASE w = 4
    <3>1. Meaning(line) = "draw"
      BY <1>8, <1>10, <2>2
    <3> QED
      BY <1>9, <2>1, <2>2, <3>1 DEF Result
  <2>3. CASE w = 3
    <3>1. Meaning(line) = "read"
      BY <1>8, <1>10, <2>3
    <3> QED
      BY <1>9, <2>1, <2>3, <3>1 DEF Result
  <2>4. CASE w # 3 /\ w # 4
    <3>1. Meaning(line) = "invalid"
      BY <1>8, <2>1, <2>4
    <3> QED
      BY <1>9, <2>1, <2>4, <3>1 DEF Result
  <2> QED
    BY <2>2, <2>3, <2>4
<1>11. CASE line[1] \in {"S", "SI", "SIZ", "SIZE"}
  <2>1. CmdType(<<line[1]>>) = "SIZE" /\ line[1] \notin {"P", "PX"}
    BY <1>7, <1>11
  <2>2. CASE w = 1
    <3>1. Meaning(line) = "size"
      BY <1>8, <1>11, <2>1, <2>2
    <3> QED
      BY <1>9, <2>1, <2>2, <3>1 DEF Result
  <2>3. CASE w # 1
    <3>1. Meaning(line) = "invalid"
      BY <1>8, <2>1, <2>3
    <3> QED
      BY <1>9, <2>1, <2>3, <3>1 DEF Result
  <2> QED
    BY <2>2, <2>3
<1>12. CASE line[1] \notin {"P", "PX", "S", "SI", "SIZ", "SIZE"}
  <2>1. CmdType(<<line[1]>>) = "unknown"
    BY <1>7, <1>12
  <2>2. Meaning(line) = "invalid"
    BY <1>8, <1>12
  <2> QED
    BY <1>9, <2>1, <2>2 DEF Result
<1> QED
  BY <1>10, <1>11, <1>12

-----------------------------------------------------------------------------
(* Types                                                                   *)

\* handleClient() finds every newline behind the first symbol, in order.
LEMMA Ends ==
  ASSUME NEW buffer \in Texts
  PROVE  \E c \in Nat :
           /\ CommandEnds(buffer) \in [1 .. c -> 2 .. Len(buffer)]
           /\ \A k \in 1 .. c : buffer[CommandEnds(buffer)[k]] = Newline
           /\ \A j, k \in 1 .. c : j < k => CommandEnds(buffer)[j] < CommandEnds(buffer)[k]
           /\ \A i \in 2 .. Len(buffer) :
                buffer[i] = Newline => \E k \in 1 .. c : CommandEnds(buffer)[k] = i
<1> DEFINE S == {i \in DOMAIN buffer : i > 1 /\ buffer[i] = Newline}
           n == Len(buffer)
           g == Ascending(S)
<1>1. n \in Nat /\ DOMAIN buffer = 1 .. n
  BY DEF Texts
<1>2. S = {i \in 2 .. n : buffer[i] = Newline}
  BY <1>1
<1> HIDE DEF n, S
<1>3. S \in SUBSET (2 .. n) /\ S \in SUBSET Int
  BY <1>1, <1>2
<1>4. IsFiniteSet(S)
  <2>1. IsFiniteSet(2 .. n)
    BY <1>1, FS_Interval
  <2> QED
    BY <1>3, <2>1, FS_Subset
<1> DEFINE c == Cardinality(S)
<1>5. c \in Nat
  BY <1>4, FS_CardinalityType
<1>6. g \in [1 .. c -> S] /\ \A j, k \in 1 .. c : j < k => g[j] < g[k]
  BY <1>3, <1>4, AscendingForm
<1>7. \A a \in S : \E k \in 1 .. c : g[k] = a
  BY <1>3, <1>4, AscendingOnto
<1>8. CommandEnds(buffer) = g
  BY DEF CommandEnds, S
<1> HIDE DEF g, c
<1>9. g \in [1 .. c -> 2 .. n] /\ \A k \in 1 .. c : buffer[g[k]] = Newline
  BY <1>2, <1>3, <1>6
<1>10. \A i \in 2 .. n : buffer[i] = Newline => \E k \in 1 .. c : g[k] = i
  BY <1>2, <1>7
<1> QED
  BY <1>5, <1>6, <1>8, <1>9, <1>10 DEF n

\* A part of a text is a text.
LEMMA Part ==
  ASSUME NEW text \in Texts, NEW i \in Int, NEW j \in Int, i >= 1, j <= Len(text)
  PROVE  SubSeq(text, i, j) \in Texts
BY DEF Texts

LEMMA TextsOfCommands ==
  ASSUME NEW buffer \in Texts
  PROVE  CommandTexts(buffer) \in Seq(Texts) /\ Rest(buffer) \in Texts
<1> DEFINE ends == CommandEnds(buffer)
           n == Len(buffer)
<1>1. PICK c \in Nat : ends \in [1 .. c -> 2 .. n]
  BY Ends
<1>2. n \in Nat /\ Len(ends) = c /\ DOMAIN ends = 1 .. c
  BY <1>1 DEF Texts
<1> HIDE DEF ends
<1> DEFINE text(k) == IF k = 1 THEN SubSeq(buffer, 1, ends[1])
                      ELSE SubSeq(buffer, ends[k - 1] + 1,
                                  IF ends[k] < n THEN ends[k] + 1 ELSE ends[k])
<1>3. ASSUME NEW k \in 1 .. c
      PROVE  text(k) \in Texts
  <2>1. k \in Int /\ ends[k] \in Int /\ ends[k] >= 2 /\ ends[k] <= n
    BY <1>1, <1>2
  <2>2. CASE k = 1
    <3>1. SubSeq(buffer, 1, ends[1]) \in Texts
      BY <2>1, <2>2, Part
    <3> QED
      BY <2>2, <3>1
  <2>3. CASE k # 1
    <3> DEFINE last == IF ends[k] < n THEN ends[k] + 1 ELSE ends[k]
               first == ends[k - 1] + 1
    <3>1. k - 1 \in 1 .. c
      BY <2>1, <2>3
    <3>2. first \in Int /\ first >= 1
      BY <1>1, <1>2, <3>1
    <3>3. last \in Int /\ last <= n
      BY <1>2, <2>1
    <3> HIDE DEF last, first
    <3>4. SubSeq(buffer, first, last) \in Texts
      BY <3>2, <3>3, Part
    <3> QED
      BY <2>3, <3>4 DEF first, last
  <2> QED
    BY <2>2, <2>3
<1>4. CommandTexts(buffer) = [k \in 1 .. c |-> text(k)]
  BY <1>2 DEF CommandTexts, ends
<1> HIDE DEF text
<1>5. CommandTexts(buffer) \in Seq(Texts)
  BY <1>3, <1>4
<1>6. Rest(buffer) \in Texts
  <2>1. Rest(buffer) = IF ends = <<>> THEN buffer ELSE SubSeq(buffer, ends[c] + 1, n)
    BY <1>2 DEF Rest, ends
  <2>2. CASE ends = <<>>
    BY <2>1, <2>2
  <2>3. CASE ends # <<>>
    <3>1. c \in 1 .. c
      BY <1>1, <2>3
    <3>2. ends[c] + 1 \in Int /\ ends[c] + 1 >= 1
      BY <1>1, <1>2, <3>1
    <3>3. SubSeq(buffer, ends[c] + 1, n) \in Texts
      BY <1>2, <3>2, Part
    <3> QED
      BY <2>1, <2>3, <3>3
  <2> QED
    BY <2>2, <2>3
<1> QED
  BY <1>5, <1>6

\* parseCmd() cuts a text into texts.
LEMMA TokensType ==
  ASSUME NEW text \in Texts
  PROVE  Tokens(text) \in Seq(Texts)
<1> DEFINE S == {i \in DOMAIN text : IsSeparator(text[i])}
           n == Len(text)
           c == Cardinality(S)
           ends == Ascending(S)
<1>1. n \in Nat /\ DOMAIN text = 1 .. n
  BY DEF Texts
<1> HIDE DEF n
<1>2. S \in SUBSET (1 .. n) /\ S \in SUBSET Int
  BY <1>1
<1>3. Tokens(text) = Pieces(text, ends)
  BY DEF Tokens, Positions
<1> HIDE DEF S
<1>4. IsFiniteSet(S) /\ c \in Nat
  <2>1. IsFiniteSet(1 .. n)
    BY <1>1, FS_Interval
  <2> QED
    BY <1>2, <2>1, FS_Subset, FS_CardinalityType
<1>5. ends \in [1 .. c -> S]
  BY <1>2, <1>4, AscendingForm
<1> HIDE DEF c, ends
<1>6. ends \in [1 .. c -> 1 .. n] /\ DOMAIN ends = 1 .. c
  BY <1>2, <1>5
<1>7. ASSUME NEW k \in 1 .. c
      PROVE  SubSeq(text, IF k = 1 THEN 1 ELSE ends[k - 1] + 1, ends[k] - 1) \in Texts
  <2> DEFINE first == IF k = 1 THEN 1 ELSE ends[k - 1] + 1
             last == ends[k] - 1
  <2>1. k # 1 => k - 1 \in 1 .. c
    BY <1>4
  <2>2. k # 1 => ends[k - 1] \in 1 .. n
    BY <1>6, <2>1
  <2>3. first \in Int /\ first >= 1
    BY <1>1, <2>2
  <2>4. ends[k] \in 1 .. n
    BY <1>6
  <2>5. last \in Int /\ last <= Len(text)
    BY <1>1, <2>4 DEF n
  <2> HIDE DEF first, last
  <2>6. SubSeq(text, first, last) \in Texts
    BY <2>3, <2>5, Part
  <2> QED
    BY <2>6 DEF first, last
<1>8. Pieces(text, ends) \in Seq(Texts)
  BY <1>4, <1>6, <1>7 DEF Pieces
<1> QED
  BY <1>3, <1>8

ResultType == [kind : Kinds, args : Seq(Texts)]

LEMMA HandleCmdType ==
  ASSUME NEW text \in Texts
  PROVE  HandleCmd(text) \in ResultType
<1> DEFINE tokens == Tokens(text)
           type == CmdType(Head(tokens))
<1>1. tokens \in Seq(Texts)
  BY TokensType
<1>2. HandleCmd(text) = CASE type = "PX" /\ Len(tokens) = 4 -> [kind |-> "draw", args |-> Tail(tokens)]
                          [] type = "PX" /\ Len(tokens) = 3 -> [kind |-> "read", args |-> Tail(tokens)]
                          [] type = "SIZE" /\ Len(tokens) = 1 -> [kind |-> "size", args |-> Tail(tokens)]
                          [] OTHER -> [kind |-> "invalid", args |-> <<>>]
  BY DEF HandleCmd, Invalid
<1> HIDE DEF tokens, type
<1>3. CASE Len(tokens) \in {1, 3, 4}
  <2>1. tokens # <<>>
    BY <1>3
  <2>2. Tail(tokens) \in Seq(Texts)
    BY <1>1, <2>1, HeadTailProperties
  <2>3. <<>> \in Seq(Texts)
    OBVIOUS
  <2>4. \A kind \in Kinds : \A args \in Seq(Texts) : [kind |-> kind, args |-> args] \in ResultType
    BY DEF ResultType
  <2>5. {"draw", "read", "size", "invalid"} \subseteq Kinds
    BY DEF Kinds
  <2>6. \/ HandleCmd(text) = [kind |-> "draw", args |-> Tail(tokens)]
        \/ HandleCmd(text) = [kind |-> "read", args |-> Tail(tokens)]
        \/ HandleCmd(text) = [kind |-> "size", args |-> Tail(tokens)]
        \/ HandleCmd(text) = [kind |-> "invalid", args |-> <<>>]
    BY <1>2
  <2> HIDE DEF Kinds
  <2> QED
    BY <2>2, <2>3, <2>4, <2>5, <2>6
<1>4. CASE Len(tokens) \notin {1, 3, 4}
  BY <1>2, <1>4 DEF ResultType, Kinds
<1> QED
  BY <1>3, <1>4

LEMMA ResultsType ==
  ASSUME NEW texts \in Seq(Texts)
  PROVE  /\ [k \in DOMAIN texts |-> HandleCmd(texts[k])] \in Seq(ResultType)
         /\ DOMAIN texts = 1 .. Len(texts)
<1>1. \A k \in DOMAIN texts : HandleCmd(texts[k]) \in ResultType
  BY HandleCmdType
<1> QED
  BY <1>1

-----------------------------------------------------------------------------
(* Which results are answered                                              *)

LEMMA Answered ==
  ASSUME NEW r \in Seq(ResultType)
  PROVE  \E c \in Nat :
           /\ Positions(r, IsAnswered) \in [1 .. c -> 1 .. Len(r)]
           /\ \A k \in 1 .. c : IsAnswered(r[Positions(r, IsAnswered)[k]])
           /\ \A j, k \in 1 .. c : j < k => Positions(r, IsAnswered)[j] < Positions(r, IsAnswered)[k]
           /\ \A i \in 1 .. Len(r) :
                IsAnswered(r[i]) => \E k \in 1 .. c : Positions(r, IsAnswered)[k] = i
           /\ Those(r, IsAnswered) = [k \in 1 .. c |-> r[Positions(r, IsAnswered)[k]]]
<1> DEFINE S == {i \in DOMAIN r : IsAnswered(r[i])}
           n == Len(r)
           g == Ascending(S)
           c == Cardinality(S)
<1>1. n \in Nat /\ DOMAIN r = 1 .. n
  OBVIOUS
<1>2. S = {i \in 1 .. n : IsAnswered(r[i])}
  BY <1>1
<1>3. Positions(r, IsAnswered) = g /\ Those(r, IsAnswered) = [k \in DOMAIN g |-> r[g[k]]]
  BY DEF Positions, Those
<1> HIDE DEF n, S
<1>4. S \in SUBSET (1 .. n) /\ S \in SUBSET Int
  BY <1>1, <1>2
<1>5. IsFiniteSet(S) /\ c \in Nat
  <2>1. IsFiniteSet(1 .. n)
    BY <1>1, FS_Interval
  <2> QED
    BY <1>4, <2>1, FS_Subset, FS_CardinalityType
<1>6. g \in [1 .. c -> S] /\ \A j, k \in 1 .. c : j < k => g[j] < g[k]
  BY <1>4, <1>5, AscendingForm
<1>7. \A a \in S : \E k \in 1 .. c : g[k] = a
  BY <1>4, <1>5, AscendingOnto
<1> HIDE DEF g, c
<1>8. g \in [1 .. c -> 1 .. n] /\ \A k \in 1 .. c : IsAnswered(r[g[k]])
  BY <1>2, <1>4, <1>6
<1>9. \A i \in 1 .. n : IsAnswered(r[i]) => \E k \in 1 .. c : g[k] = i
  BY <1>2, <1>7
<1> QED
  BY <1>3, <1>5, <1>6, <1>8, <1>9 DEF n

\* The answers to results that follow each other follow each other.
LEMMA AnsweredConcat ==
  ASSUME NEW a \in Seq(ResultType), NEW b \in Seq(ResultType)
  PROVE  Those(a \o b, IsAnswered) = Those(a, IsAnswered) \o Those(b, IsAnswered)
<1> DEFINE r == a \o b
           pa == Positions(a, IsAnswered)
           pb == Positions(b, IsAnswered)
           n == Len(a)
           m == Len(b)
           S == {i \in DOMAIN r : IsAnswered(r[i])}
<1>1. PICK c \in Nat : /\ pa \in [1 .. c -> 1 .. n]
                       /\ \A k \in 1 .. c : IsAnswered(a[pa[k]])
                       /\ \A j, k \in 1 .. c : j < k => pa[j] < pa[k]
                       /\ \A i \in 1 .. n : IsAnswered(a[i]) => \E k \in 1 .. c : pa[k] = i
                       /\ Those(a, IsAnswered) = [k \in 1 .. c |-> a[pa[k]]]
  BY Answered
<1>2. PICK d \in Nat : /\ pb \in [1 .. d -> 1 .. m]
                       /\ \A k \in 1 .. d : IsAnswered(b[pb[k]])
                       /\ \A j, k \in 1 .. d : j < k => pb[j] < pb[k]
                       /\ \A i \in 1 .. m : IsAnswered(b[i]) => \E k \in 1 .. d : pb[k] = i
                       /\ Those(b, IsAnswered) = [k \in 1 .. d |-> b[pb[k]]]
  BY Answered
<1>3. /\ n \in Nat /\ m \in Nat /\ r \in Seq(ResultType) /\ DOMAIN r = 1 .. n + m
      /\ \A i \in 1 .. n : r[i] = a[i]
      /\ \A i \in 1 .. m : r[n + i] = b[i]
  <2>1. /\ r \in Seq(ResultType) /\ Len(r) = n + m
        /\ \A i \in 1 .. n + m : r[i] = IF i <= n THEN a[i] ELSE b[i - n]
    BY ConcatProperties
  <2>2. n \in Nat /\ m \in Nat /\ DOMAIN r = 1 .. Len(r)
    BY <2>1
  <2> HIDE DEF r, n, m
  <2>3. \A i \in 1 .. n : r[i] = a[i]
    BY <2>1, <2>2
  <2>4. \A i \in 1 .. m : n + i \in 1 .. n + m /\ ~(n + i <= n) /\ (n + i) - n = i
    BY <2>2
  <2>5. \A i \in 1 .. m : r[n + i] = b[i]
    BY <2>1, <2>4
  <2> QED
    BY <2>1, <2>2, <2>3, <2>5
<1> DEFINE f == [k \in 1 .. c + d |-> IF k <= c THEN pa[k] ELSE n + pb[k - c]]
<1> HIDE DEF pa, pb, n, m, r
<1>4. \A k \in 1 .. c + d : k > c => k - c \in 1 .. d
  OBVIOUS
<1>5. \A i \in 1 .. n : i \in 1 .. n + m
  BY <1>3
<1>6. \A i \in 1 .. m : n + i \in 1 .. n + m
  BY <1>3
<1>7. S = {i \in 1 .. n + m : IsAnswered(r[i])}
  BY <1>3
<1> HIDE DEF S
<1>8. \A k \in 1 .. c : pa[k] \in S
  BY <1>1, <1>3, <1>5, <1>7
<1>9. \A k \in 1 .. d : n + pb[k] \in S
  BY <1>2, <1>3, <1>6, <1>7
<1>10. \A k \in 1 .. c + d : f[k] \in S
  <2> SUFFICES ASSUME NEW k \in 1 .. c + d PROVE f[k] \in S
    OBVIOUS
  <2>1. CASE k <= c
    <3>1. k \in 1 .. c
      BY <2>1
    <3> QED
      BY <1>8, <2>1, <3>1
  <2>2. CASE k > c
    <3>1. k - c \in 1 .. d /\ ~(k <= c)
      BY <1>4, <2>2
    <3> QED
      BY <1>9, <3>1
  <2> QED
    BY <2>1, <2>2
<1>11. \A j, k \in 1 .. c + d : j < k => f[j] < f[k]
  <2> SUFFICES ASSUME NEW j \in 1 .. c + d, NEW k \in 1 .. c + d, j < k PROVE f[j] < f[k]
    OBVIOUS
  <2>1. CASE k <= c
    <3>1. j \in 1 .. c /\ k \in 1 .. c /\ j <= c
      BY <2>1
    <3> QED
      BY <1>1, <2>1, <3>1
  <2>2. CASE j <= c /\ k > c
    <3>1. j \in 1 .. c /\ k - c \in 1 .. d /\ ~(k <= c)
      BY <1>4, <2>2
    <3>2. pa[j] \in 1 .. n /\ pb[k - c] \in 1 .. m
      BY <1>1, <1>2, <3>1
    <3>3. pa[j] < n + pb[k - c]
      BY <1>3, <3>2
    <3> QED
      BY <2>2, <3>1, <3>3
  <2>3. CASE j > c
    <3>1. j - c \in 1 .. d /\ k - c \in 1 .. d /\ ~(j <= c) /\ ~(k <= c) /\ j - c < k - c
      BY <1>4, <2>3
    <3>2. pb[j - c] < pb[k - c] /\ pb[j - c] \in 1 .. m /\ pb[k - c] \in 1 .. m
      BY <1>2, <3>1
    <3>3. n + pb[j - c] < n + pb[k - c]
      BY <1>3, <3>2
    <3> QED
      BY <3>1, <3>3
  <2>4. k <= c \/ (j <= c /\ k > c) \/ j > c
    OBVIOUS
  <2> HIDE DEF f
  <2> QED
    BY <2>1, <2>2, <2>3, <2>4
<1>12. \A i \in S : \E k \in 1 .. c + d : f[k] = i
  <2> SUFFICES ASSUME NEW i \in S PROVE \E k \in 1 .. c + d : f[k] = i
    OBVIOUS
  <2>1. i \in 1 .. n + m /\ IsAnswered(r[i])
    BY <1>7
  <2>2. CASE i <= n
    <3>1. i \in 1 .. n
      BY <1>3, <2>1, <2>2
    <3>2. PICK k \in 1 .. c : pa[k] = i
      BY <1>1, <1>3, <2>1, <3>1
    <3>3. k \in 1 .. c + d /\ k <= c
      OBVIOUS
    <3> QED
      BY <3>2, <3>3
  <2>3. CASE i > n
    <3>1. i - n \in 1 .. m /\ n + (i - n) = i
      BY <1>3, <2>1, <2>3
    <3>2. IsAnswered(b[i - n])
      BY <1>3, <2>1, <3>1
    <3>3. PICK k \in 1 .. d : pb[k] = i - n
      BY <1>2, <3>1, <3>2
    <3>4. c + k \in 1 .. c + d /\ ~(c + k <= c) /\ (c + k) - c = k
      OBVIOUS
    <3>5. f[c + k] = n + pb[k]
      BY <3>4
    <3> QED
      BY <3>1, <3>3, <3>4, <3>5
  <2> QED
    BY <1>3, <2>1, <2>2, <2>3
<1>13. S \in SUBSET Int
  BY <1>3, <1>7
<1>14. c + d \in Nat /\ f \in [1 .. c + d -> S]
  BY <1>10
<1> HIDE DEF f
<1>15. Ascending(S) = f
  BY <1>11, <1>12, <1>13, <1>14, AscendingIs
<1>16. Those(r, IsAnswered) = [k \in 1 .. c + d |-> r[f[k]]]
  <2>1. Those(r, IsAnswered) = [k \in DOMAIN Ascending(S) |-> r[Ascending(S)[k]]]
    BY DEF Those, Positions, S
  <2> QED
    BY <1>14, <1>15, <2>1
<1> DEFINE u == Those(a, IsAnswered)
           v == Those(b, IsAnswered)
<1>17. u \in Seq(ResultType) /\ Len(u) = c /\ v \in Seq(ResultType) /\ Len(v) = d
  <2>1. \A k \in 1 .. c : a[pa[k]] \in ResultType
    BY <1>1 DEF n
  <2>2. \A k \in 1 .. d : b[pb[k]] \in ResultType
    BY <1>2 DEF m
  <2> QED
    BY <1>1, <1>2, <2>1, <2>2
<1>18. \A k \in 1 .. c + d : r[f[k]] = IF k <= c THEN u[k] ELSE v[k - c]
  <2> SUFFICES ASSUME NEW k \in 1 .. c + d
               PROVE  r[f[k]] = IF k <= c THEN u[k] ELSE v[k - c]
    OBVIOUS
  <2>1. CASE k <= c
    <3>1. k \in 1 .. c
      BY <2>1
    <3>2. f[k] = pa[k] /\ pa[k] \in 1 .. n
      BY <1>1, <2>1, <3>1 DEF f
    <3> QED
      BY <1>1, <1>3, <2>1, <3>1, <3>2
  <2>2. CASE k > c
    <3>1. k - c \in 1 .. d /\ ~(k <= c)
      BY <1>4, <2>2
    <3>2. f[k] = n + pb[k - c] /\ pb[k - c] \in 1 .. m
      BY <1>2, <3>1 DEF f
    <3> QED
      BY <1>2, <1>3, <3>1, <3>2
  <2> QED
    BY <2>1, <2>2
<1> HIDE DEF u, v
<1> DEFINE w == u \o v
<1>19. /\ w \in Seq(ResultType) /\ Len(w) = c + d
       /\ \A k \in 1 .. c + d : w[k] = IF k <= c THEN u[k] ELSE v[k - c]
  BY <1>17, ConcatProperties
<1> HIDE DEF w
<1>20. w = [k \in 1 .. c + d |-> w[k]]
  BY <1>19
<1>21. Those(r, IsAnswered) = w
  BY <1>16, <1>18, <1>19, <1>20
<1> QED
  BY <1>21 DEF r, u, v, w

ReplyType == [kind : {"read", "size"}, args : Seq(Texts), ended : BOOLEAN]

\* There is a reply for each question.
LEMMA RepliesType ==
  ASSUME NEW r \in Seq(ResultType)
  PROVE  /\ Replies(r) \in Seq(ReplyType)
         /\ Those(r, IsAnswered) \in Seq(ResultType)
         /\ Len(Replies(r)) = Len(Those(r, IsAnswered))
         /\ \A k \in 1 .. Len(Replies(r)) : Replies(r)[k] = Reply(Those(r, IsAnswered)[k])
<1> DEFINE at == Positions(r, IsAnswered)
           answered == Those(r, IsAnswered)
<1>1. PICK c \in Nat : /\ at \in [1 .. c -> 1 .. Len(r)]
                       /\ \A k \in 1 .. c : IsAnswered(r[at[k]])
                       /\ answered = [k \in 1 .. c |-> r[at[k]]]
  BY Answered
<1> HIDE DEF at, answered
<1>2. \A k \in 1 .. c : answered[k] \in ResultType /\ IsAnswered(answered[k])
  BY <1>1
<1>3. answered \in Seq(ResultType) /\ Len(answered) = c /\ DOMAIN answered = 1 .. c
  BY <1>1, <1>2
<1>4. \A k \in 1 .. c : Reply(answered[k]) \in ReplyType
  <2> SUFFICES ASSUME NEW result \in ResultType, IsAnswered(result)
               PROVE  Reply(result) \in ReplyType
    BY <1>2
  <2>1. result.kind \in {"read", "size"} /\ result.args \in Seq(Texts)
    BY DEF IsAnswered, ResultType
  <2>2. (result.kind = "read" => PxLength(result.args) < OutCmdMaxLen) \in BOOLEAN
    OBVIOUS
  <2> QED
    BY <2>1, <2>2 DEF Reply, ReplyType
<1>5. Replies(r) = [k \in 1 .. c |-> Reply(answered[k])]
  BY <1>3 DEF Replies, answered
<1>6. Replies(r) \in Seq(ReplyType) /\ Len(Replies(r)) = c
  BY <1>4, <1>5
<1> QED
  BY <1>3, <1>5, <1>6 DEF answered

\* The replies to results that follow each other follow each other.
LEMMA RepliesConcat ==
  ASSUME NEW a \in Seq(ResultType), NEW b \in Seq(ResultType)
  PROVE  Replies(a \o b) = Replies(a) \o Replies(b)
<1> DEFINE u == Those(a, IsAnswered)
           v == Those(b, IsAnswered)
           w == Those(a \o b, IsAnswered)
           x == Replies(a)
           y == Replies(b)
           z == Replies(a \o b)
           q == x \o y
           c == Len(u)
           d == Len(v)
<1>1. /\ u \in Seq(ResultType) /\ x \in Seq(ReplyType) /\ Len(x) = c
      /\ \A k \in 1 .. c : x[k] = Reply(u[k])
  BY RepliesType
<1>2. /\ v \in Seq(ResultType) /\ y \in Seq(ReplyType) /\ Len(y) = d
      /\ \A k \in 1 .. d : y[k] = Reply(v[k])
  BY RepliesType
<1>3. /\ z \in Seq(ReplyType) /\ Len(z) = Len(w)
      /\ \A k \in 1 .. Len(w) : z[k] = Reply(w[k])
  <2> DEFINE r == a \o b
  <2>1. r \in Seq(ResultType)
    OBVIOUS
  <2> HIDE DEF r
  <2>2. /\ Replies(r) \in Seq(ReplyType) /\ Len(Replies(r)) = Len(Those(r, IsAnswered))
        /\ \A k \in 1 .. Len(Replies(r)) : Replies(r)[k] = Reply(Those(r, IsAnswered)[k])
    BY <2>1, RepliesType
  <2> QED
    BY <2>2 DEF r
<1>4. w = u \o v
  BY AnsweredConcat
<1>0. c \in Nat /\ d \in Nat
  BY <1>1, <1>2
<1> HIDE DEF u, v, x, y
<1>5. /\ Len(w) = c + d
      /\ \A k \in 1 .. c + d : w[k] = IF k <= c THEN u[k] ELSE v[k - c]
  BY <1>1, <1>2, <1>4, ConcatProperties
<1> HIDE DEF c, d
<1>6. /\ q \in Seq(ReplyType) /\ Len(q) = c + d
      /\ \A k \in 1 .. c + d : q[k] = IF k <= c THEN x[k] ELSE y[k - c]
  <2>1. x \in Seq(ReplyType) /\ y \in Seq(ReplyType) /\ Len(x) = c /\ Len(y) = d
    BY <1>1, <1>2
  <2>2. /\ q \in Seq(ReplyType) /\ Len(q) = Len(x) + Len(y)
        /\ \A k \in 1 .. Len(x) + Len(y) : q[k] = IF k <= Len(x) THEN x[k] ELSE y[k - Len(x)]
    BY <2>1, ConcatProperties
  <2> QED
    BY <2>1, <2>2
<1> HIDE DEF w, z, q
<1>7. \A k \in 1 .. c + d : z[k] = q[k]
  <2> SUFFICES ASSUME NEW k \in 1 .. c + d PROVE z[k] = q[k]
    OBVIOUS
  <2>1. CASE k <= c
    <3>1. k \in 1 .. c
      BY <1>0, <2>1
    <3> QED
      BY <1>1, <1>3, <1>5, <1>6, <2>1, <3>1
  <2>2. CASE ~(k <= c)
    <3>1. k - c \in 1 .. d
      BY <1>0, <2>2
    <3> QED
      BY <1>2, <1>3, <1>5, <1>6, <2>2, <3>1
  <2> QED
    BY <2>1, <2>2
<1>8. z = [k \in 1 .. c + d |-> z[k]] /\ q = [k \in 1 .. c + d |-> q[k]]
  BY <1>3, <1>5, <1>6
<1>9. z = q
  BY <1>7, <1>8
<1> QED
  BY <1>9 DEF x, y, z, q

-----------------------------------------------------------------------------
(* What holds whatever the peer sends                                      *)

\* The answers are those to the results.
AnswersResults == replies = Replies(handled)

Unframed == ClientTypeOK /\ NoLineWaits /\ AnswersResults

LEMMA ClientTypeOKParts ==
  ClientTypeOK <=> /\ sent \in Seq(Lines)
                   /\ inFlight \in Texts
                   /\ dataBuffer \in Texts
                   /\ handled \in Seq(ResultType)
                   /\ replies \in Seq(ReplyType)
BY DEF ClientTypeOK, ResultType, ReplyType

\* The end of a text.
LEMMA Suffix ==
  ASSUME NEW text \in Texts, NEW p \in 0 .. Len(text)
  PROVE  /\ SubSeq(text, p + 1, Len(text)) \in Texts
         /\ Len(SubSeq(text, p + 1, Len(text))) = Len(text) - p
         /\ \A i \in 1 .. Len(text) - p : SubSeq(text, p + 1, Len(text))[i] = text[p + i]
<1> DEFINE n == Len(text)
<1>1. text \in Seq(Symbols) /\ n \in Nat /\ p \in Int /\ p >= 0 /\ p <= n
  BY DEF Texts
<1> HIDE DEF n
<1>2. p + 1 \in 1 .. n + 1 /\ n \in p + 1 - 1 .. n
  BY <1>1
<1>3. /\ SubSeq(text, p + 1, n) \in Seq(Symbols)
      /\ Len(SubSeq(text, p + 1, n)) = IF p + 1 <= n THEN n - (p + 1) + 1 ELSE 0
      /\ \A i \in 1 .. n - (p + 1) + 1 : SubSeq(text, p + 1, n)[i] = text[p + 1 + i - 1]
  BY <1>1, <1>2, SubSeqProperties DEF n
<1>4. /\ (IF p + 1 <= n THEN n - (p + 1) + 1 ELSE 0) = n - p /\ n - (p + 1) + 1 = n - p
      /\ \A i \in 1 .. n - p : p + 1 + i - 1 = p + i
  BY <1>1
<1> QED
  BY <1>3, <1>4 DEF n, Texts

LEMMA RestHasNoLine ==
  ASSUME NEW buffer \in Texts, NEW i \in DOMAIN Rest(buffer), Rest(buffer)[i] = Newline
  PROVE  i = 1
<1> DEFINE ends == CommandEnds(buffer)
           n == Len(buffer)
           rest == Rest(buffer)
<1>1. PICK c \in Nat : /\ ends \in [1 .. c -> 2 .. n]
                       /\ \A k \in 1 .. c : buffer[ends[k]] = Newline
                       /\ \A j, k \in 1 .. c : j < k => ends[j] < ends[k]
                       /\ \A j \in 2 .. n : buffer[j] = Newline => \E k \in 1 .. c : ends[k] = j
  BY Ends
<1>2. n \in Nat /\ Len(ends) = c /\ DOMAIN buffer = 1 .. n
  BY <1>1 DEF Texts
<1>3. rest = IF ends = <<>> THEN buffer ELSE SubSeq(buffer, ends[c] + 1, n)
  BY <1>2 DEF Rest
<1>4. CASE ends = <<>>
  <2>1. c = 0
    BY <1>1, <1>4
  <2>2. i \in 1 .. n /\ buffer[i] = Newline
    BY <1>2, <1>3, <1>4
  <2> HIDE DEF ends, n, rest
  <2>3. i \notin 2 .. n
    BY <1>1, <2>1, <2>2
  <2> QED
    BY <1>2, <2>2, <2>3
<1>5. CASE ends # <<>>
  <2>1. c \in 1 .. c
    BY <1>1, <1>5
  <2> DEFINE p == ends[c]
  <2>2. p \in 2 .. n
    BY <1>1, <2>1
  <2>3. rest = SubSeq(buffer, p + 1, n)
    BY <1>3, <1>5
  <2>4. \A k \in 1 .. c : ends[k] <= p
    <3> SUFFICES ASSUME NEW k \in 1 .. c PROVE ends[k] <= p
      OBVIOUS
    <3>1. k = c \/ k < c
      OBVIOUS
    <3>2. ends[k] \in 2 .. n
      BY <1>1
    <3> HIDE DEF ends, n
    <3> QED
      BY <1>1, <1>2, <2>1, <2>2, <3>1, <3>2
  <2> HIDE DEF p, ends
  <2>5. p + i \in 2 .. n /\ buffer[p + i] = Newline /\ i >= 1 /\ i \in Int
    <3>1. /\ Len(rest) = n - p /\ rest \in Texts
          /\ \A j \in 1 .. n - p : rest[j] = buffer[p + j]
      <4>1. p \in 0 .. n
        BY <1>2, <2>2
      <4> HIDE DEF rest
      <4> QED
        BY <2>3, <4>1, Suffix
    <3>3. DOMAIN rest = 1 .. n - p
      BY <3>1 DEF Texts
    <3>2. i \in 1 .. n - p /\ rest[i] = Newline
      BY <3>3
    <3> HIDE DEF n, rest
    <3> QED
      BY <1>2, <2>2, <3>1, <3>2
  <2> HIDE DEF n
  <2>6. PICK k \in 1 .. c : ends[k] = p + i
    BY <1>1, <2>5
  <2>7. p + i <= p
    BY <2>4, <2>6
  <2>8. FALSE
    BY <1>2, <2>2, <2>5, <2>7
  <2> QED
    BY <2>8
<1> QED
  BY <1>4, <1>5

LEMMA UnframedInit == ClientInit => Unframed
<1> SUFFICES ASSUME ClientInit PROVE Unframed
  OBVIOUS
<1>1. ClientTypeOK
  BY DEF ClientInit, ClientTypeOK, Texts
<1>2. NoLineWaits
  BY DEF ClientInit, NoLineWaits
<1>3. AnswersResults
  <2>1. <<>> \in Seq(ResultType)
    OBVIOUS
  <2>2. PICK c \in Nat : Positions(<<>>, IsAnswered) \in [1 .. c -> 1 .. Len(<<>>)]
    BY <2>1, Answered
  <2>3. c = 0
    BY <2>2
  <2>4. Positions(<<>>, IsAnswered) = <<>>
    BY <2>2, <2>3
  <2>5. Replies(<<>>) = <<>>
    BY <2>4 DEF Replies, Those
  <2> QED
    BY <2>5 DEF ClientInit, AnswersResults
<1> QED
  BY <1>1, <1>2, <1>3 DEF Unframed

\* What a call of recv() and handleClient() do, with the commands named.
Received(n) == dataBuffer \o SubSeq(inFlight, 1, n)
Results(buffer) ==
  LET texts == CommandTexts(buffer) IN [k \in DOMAIN texts |-> HandleCmd(texts[k])]

LEMMA ReceiveForm ==
  ReceiveAndHandle <=>
    \E n \in 1 .. Len(inFlight) :
      /\ n <= NetBufferSize
      /\ inFlight' = SubSeq(inFlight, n + 1, Len(inFlight))
      /\ handled' = handled \o Results(Received(n))
      /\ replies' = replies \o Replies(Results(Received(n)))
      /\ dataBuffer' = Rest(Received(n))
      /\ UNCHANGED sent
BY DEF ReceiveAndHandle, Results, Received

LEMMA UnframedStep == Unframed /\ [ClientNext]_clientVars => Unframed'
<1> SUFFICES ASSUME Unframed, [ClientNext]_clientVars PROVE Unframed'
  OBVIOUS
<1>0. /\ sent \in Seq(Lines) /\ inFlight \in Texts /\ dataBuffer \in Texts
      /\ handled \in Seq(ResultType) /\ replies \in Seq(ReplyType)
      /\ NoLineWaits /\ AnswersResults
  BY ClientTypeOKParts DEF Unframed
<1>1. ASSUME SendLine PROVE Unframed'
  <2>1. PICK line \in Lines : sent' = Append(sent, line) /\ inFlight' = inFlight \o line
    BY <1>1 DEF SendLine
  <2>2. UNCHANGED <<dataBuffer, handled, replies>>
    BY <1>1 DEF SendLine
  <2>3. sent' \in Seq(Lines) /\ inFlight' \in Texts
    BY <1>0, <2>1, ClientAssumption DEF Texts
  <2>4. ClientTypeOK'
    BY <1>0, <2>2, <2>3 DEF ClientTypeOK, ResultType, ReplyType
  <2>5. NoLineWaits'
    BY <1>0, <2>2 DEF NoLineWaits
  <2>6. AnswersResults'
    BY <1>0, <2>2 DEF AnswersResults
  <2> QED
    BY <2>4, <2>5, <2>6 DEF Unframed
<1>2. ASSUME ReceiveAndHandle PROVE Unframed'
  <2>1. PICK n \in 1 .. Len(inFlight) :
          /\ inFlight' = SubSeq(inFlight, n + 1, Len(inFlight))
          /\ handled' = handled \o Results(Received(n))
          /\ replies' = replies \o Replies(Results(Received(n)))
          /\ dataBuffer' = Rest(Received(n))
          /\ UNCHANGED sent
    BY <1>2, ReceiveForm
  <2> DEFINE buffer == Received(n)
             results == Results(buffer)
  <2>2. buffer \in Texts /\ inFlight' \in Texts
    <3>1. Len(inFlight) \in Nat /\ n \in Int /\ n >= 1 /\ n <= Len(inFlight)
      BY <1>0 DEF Texts
    <3>2. SubSeq(inFlight, 1, n) \in Texts /\ SubSeq(inFlight, n + 1, Len(inFlight)) \in Texts
      BY <1>0, <3>1, Part
    <3> QED
      BY <1>0, <2>1, <3>2 DEF Texts, Received
  <2>3. results \in Seq(ResultType)
    BY <2>2, TextsOfCommands, ResultsType DEF Results
  <2>4. Rest(buffer) \in Texts
    BY <2>2, TextsOfCommands
  <2>5. Replies(results) \in Seq(ReplyType)
    BY <2>3, RepliesType
  <2> HIDE DEF buffer, results
  <2>6. ClientTypeOK'
    <3>1. handled' \in Seq(ResultType) /\ replies' \in Seq(ReplyType)
      BY <1>0, <2>1, <2>3, <2>5 DEF buffer, results
    <3>2. dataBuffer' \in Texts /\ sent' \in Seq(Lines)
      BY <1>0, <2>1, <2>4 DEF buffer
    <3> QED
      BY <2>2, <3>1, <3>2 DEF ClientTypeOK, ResultType, ReplyType
  <2>7. NoLineWaits'
    <3>1. dataBuffer' = Rest(buffer)
      BY <2>1 DEF buffer
    <3> QED
      BY <2>2, <3>1, RestHasNoLine DEF NoLineWaits
  <2>8. AnswersResults'
    <3>1. Replies(handled \o results) = Replies(handled) \o Replies(results)
      BY <1>0, <2>3, RepliesConcat
    <3> QED
      BY <1>0, <2>1, <3>1 DEF AnswersResults, buffer, results
  <2> QED
    BY <2>6, <2>7, <2>8 DEF Unframed
<1>3. ASSUME UNCHANGED clientVars PROVE Unframed'
  BY <1>3 DEF clientVars, Unframed, ClientTypeOK, NoLineWaits, AnswersResults
<1> QED
  BY <1>1, <1>2, <1>3 DEF ClientNext

-----------------------------------------------------------------------------
(* Where the lines are in what is received and on its way                  *)

RegularLines(lines) == \A n \in DOMAIN lines : Regular(lines[n])

\* The lines after the first h make up the stream, and E says where each ends.
Frames(E, h, lines, stream) ==
  /\ E \in [h .. Len(lines) -> Nat]
  /\ E[h] = 0
  /\ E[Len(lines)] = Len(stream)
  /\ \A j, k \in h .. Len(lines) : j < k => E[j] < E[k]
  /\ \A n \in h + 1 .. Len(lines) :
       /\ E[n] = E[n - 1] + Len(lines[n])
       /\ \A i \in 1 .. Len(lines[n]) : stream[E[n - 1] + i] = lines[n][i]
  /\ \A i \in 1 .. Len(stream) :
       \E n \in h + 1 .. Len(lines) : E[n - 1] < i /\ i <= E[n]

\* Newlines are the ends of the lines, and a regular line has two symbols at
\* least, a word in front.
LEMMA FrameEnds ==
  ASSUME NEW lines \in Seq(Lines), NEW h \in 0 .. Len(lines), NEW stream \in Texts, NEW E,
         Frames(E, h, lines, stream), RegularLines(lines)
  PROVE  /\ \A n \in h + 1 .. Len(lines) : /\ E[n] \in 2 .. Len(stream)
                                           /\ stream[E[n]] = Newline
                                           /\ ~IsSeparator(stream[E[n - 1] + 1])
         /\ \A i \in 1 .. Len(stream) :
              stream[i] = Newline => \E n \in h + 1 .. Len(lines) : E[n] = i
<1> DEFINE m == Len(lines)
           s == Len(stream)
<1>0. /\ m \in Nat /\ s \in Nat /\ h \in Nat /\ h <= m
      /\ \A n \in 1 .. m : lines[n] \in Lines /\ Regular(lines[n])
  BY DEF Texts, RegularLines
<1>1. /\ E \in [h .. m -> Nat] /\ E[m] = s
      /\ \A j, k \in h .. m : j < k => E[j] < E[k]
      /\ \A n \in h + 1 .. m :
           /\ E[n] = E[n - 1] + Len(lines[n])
           /\ \A i \in 1 .. Len(lines[n]) : stream[E[n - 1] + i] = lines[n][i]
      /\ \A i \in 1 .. s : \E n \in h + 1 .. m : E[n - 1] < i /\ i <= E[n]
  BY DEF Frames
<1> HIDE DEF m, s
<1>2. ASSUME NEW n \in h + 1 .. m
      PROVE  /\ E[n - 1] \in Nat /\ E[n] \in Nat /\ E[n] <= s
             /\ Len(lines[n]) \in Nat /\ Len(lines[n]) >= 2
             /\ lines[n] \in Lines /\ Regular(lines[n])
  <2>1. n \in 1 .. m /\ n \in h .. m /\ n - 1 \in h .. m /\ (n = m \/ n < m) /\ m \in h .. m
    BY <1>0
  <2>2. E[n - 1] \in Nat /\ E[n] \in Nat /\ s \in Nat
    BY <1>0, <1>1, <2>1
  <2>3. E[n] <= s
    BY <1>1, <2>1, <2>2
  <2>4. lines[n] \in Lines /\ Regular(lines[n])
    BY <1>0, <2>1
  <2>5. PICK w \in Nat \ {0} : Len(lines[n]) = 2 * w
    BY <2>4, LineLength
  <2> QED
    BY <2>2, <2>3, <2>4, <2>5
<1>3. ASSUME NEW n \in h + 1 .. m, NEW i \in 1 .. Len(lines[n])
      PROVE  stream[E[n - 1] + i] = Newline <=> i = Len(lines[n])
  <2>1. lines[n][i] = Newline <=> i = Len(lines[n])
    BY <1>2, ClientAssumption
  <2> QED
    BY <1>1, <2>1
<1>4. ASSUME NEW n \in h + 1 .. m
      PROVE  E[n] \in 2 .. s /\ stream[E[n]] = Newline /\ ~IsSeparator(stream[E[n - 1] + 1])
  <2> DEFINE d == Len(lines[n])
  <2>1. d \in 1 .. d /\ 1 \in 1 .. d /\ E[n] = E[n - 1] + d
    BY <1>1, <1>2
  <2>2. stream[E[n]] = Newline
    BY <1>3, <2>1
  <2>3. E[n] \in 2 .. s
    BY <1>0, <1>2, <2>1
  <2>4. ~IsSeparator(lines[n][1])
    <3>1. DOMAIN lines[n] = 1 .. d
      BY <1>2, ClientAssumption
    <3>2. 1 % 2 = 1
      BY Parity
    <3> QED
      BY <1>2, <2>1, <3>1, <3>2 DEF Regular
  <2>5. stream[E[n - 1] + 1] = lines[n][1]
    BY <1>1, <2>1
  <2> QED
    BY <2>2, <2>3, <2>4, <2>5
<1>5. ASSUME NEW i \in 1 .. s, stream[i] = Newline
      PROVE  \E n \in h + 1 .. m : E[n] = i
  <2>1. PICK n \in h + 1 .. m : E[n - 1] < i /\ i <= E[n]
    BY <1>1
  <2>2. E[n] = E[n - 1] + Len(lines[n])
    BY <1>1
  <2>3. i - E[n - 1] \in 1 .. Len(lines[n]) /\ E[n - 1] + (i - E[n - 1]) = i
    BY <1>0, <1>2, <2>1, <2>2
  <2>4. i - E[n - 1] = Len(lines[n])
    BY <1>3, <1>5, <2>3
  <2> QED
    BY <1>0, <1>2, <2>2, <2>4
<1> QED
  BY <1>4, <1>5 DEF m, s

\* The last line that is complete in the first x symbols.
LEMMA LastComplete ==
  ASSUME NEW lines \in Seq(Lines), NEW h \in 0 .. Len(lines), NEW stream \in Texts, NEW E,
         Frames(E, h, lines, stream), NEW x \in 1 .. Len(stream)
  PROVE  \E q \in h .. Len(lines) : E[q] <= x /\ \A k \in q + 1 .. Len(lines) : E[k] > x
<1> DEFINE m == Len(lines)
<1>0. m \in Nat /\ h \in Nat /\ h <= m /\ x \in Nat
  BY DEF Texts
<1>1. /\ E \in [h .. m -> Nat]
      /\ \A j, k \in h .. m : j < k => E[j] < E[k]
      /\ \E n \in h + 1 .. m : E[n - 1] < x /\ x <= E[n]
  BY DEF Frames
<1> HIDE DEF m
<1>2. PICK p \in h + 1 .. m : E[p - 1] < x /\ x <= E[p]
  BY <1>1
<1>3. p \in Nat /\ p \in h .. m /\ p - 1 \in h .. m /\ (\A k \in p .. m : k \in h .. m)
  BY <1>0
<1>4. E[p] \in Nat /\ E[p - 1] \in Nat /\ \A k \in p .. m : E[k] \in Nat
  BY <1>1, <1>3
<1>5. CASE x = E[p]
  <2>1. ASSUME NEW k \in p + 1 .. m PROVE E[k] > x
    <3>1. k \in p .. m /\ k > p
      BY <1>0, <1>3
    <3>2. E[p] < E[k] /\ E[k] \in Nat
      BY <1>1, <1>3, <1>4, <3>1
    <3> QED
      BY <1>0, <1>5, <3>2
  <2>2. E[p] <= x
    BY <1>0, <1>5
  <2> QED
    BY <1>3, <2>1, <2>2 DEF m
<1>6. CASE x < E[p]
  <2>1. ASSUME NEW k \in (p - 1) + 1 .. m PROVE E[k] > x
    <3>1. k \in p .. m /\ (k = p \/ p < k)
      BY <1>0, <1>3
    <3>2. E[p] <= E[k] /\ E[k] \in Nat
      BY <1>1, <1>3, <1>4, <3>1
    <3> QED
      BY <1>0, <1>4, <1>6, <3>2
  <2>2. E[p - 1] <= x
    BY <1>0, <1>2, <1>4
  <2> QED
    BY <1>3, <2>1, <2>2 DEF m
<1> QED
  BY <1>0, <1>2, <1>4, <1>5, <1>6

\* The buffer holds the first symbols of the stream, up to line q and maybe a
\* part of the next.
Holds(buffer, q, E, lines, stream) ==
  /\ buffer \in Texts
  /\ Len(buffer) <= Len(stream)
  /\ \A i \in 1 .. Len(buffer) : buffer[i] = stream[i]
  /\ E[q] <= Len(buffer)
  /\ \A k \in q + 1 .. Len(lines) : E[k] > Len(buffer)

LEMMA CommandEndsOf ==
  ASSUME NEW lines \in Seq(Lines), NEW h \in 0 .. Len(lines), NEW stream \in Texts, NEW E,
         Frames(E, h, lines, stream), RegularLines(lines),
         NEW q \in h .. Len(lines), NEW buffer, Holds(buffer, q, E, lines, stream)
  PROVE  CommandEnds(buffer) = [k \in 1 .. q - h |-> E[h + k]]
<1> DEFINE m == Len(lines)
           x == Len(buffer)
           S == {i \in DOMAIN buffer : i > 1 /\ buffer[i] = Newline}
           f == [k \in 1 .. q - h |-> E[h + k]]
<1>0. /\ m \in Nat /\ x \in Nat /\ h \in Nat /\ h <= q /\ q <= m /\ q \in Nat
      /\ Len(stream) \in Nat /\ x <= Len(stream) /\ DOMAIN buffer = 1 .. x
  BY DEF Holds, Texts
<1>1. /\ \A n \in h + 1 .. m : E[n] \in 2 .. Len(stream) /\ stream[E[n]] = Newline
      /\ \A i \in 1 .. Len(stream) : stream[i] = Newline => \E n \in h + 1 .. m : E[n] = i
  BY FrameEnds
<1>2. /\ E \in [h .. m -> Nat] /\ \A j, k \in h .. m : j < k => E[j] < E[k]
      /\ E[q] <= x /\ \A k \in q + 1 .. m : E[k] > x
      /\ \A i \in 1 .. x : buffer[i] = stream[i]
  BY DEF Frames, Holds
<1>3. S = {i \in 1 .. x : i > 1 /\ buffer[i] = Newline}
  BY <1>0
<1>4. CommandEnds(buffer) = Ascending(S)
  BY DEF CommandEnds
<1> HIDE DEF m, x, S
<1>5. \A k \in 1 .. q - h : h + k \in h + 1 .. m /\ h + k \in h .. m /\ h + k <= q
  BY <1>0
<1>6. ASSUME NEW k \in 1 .. q - h PROVE E[h + k] \in S
  <2>1. E[h + k] \in 2 .. Len(stream) /\ stream[E[h + k]] = Newline
    BY <1>1, <1>5
  <2>2. E[h + k] <= x
    <3>1. h + k = q \/ h + k < q
      BY <1>0, <1>5
    <3>2. q \in h .. m /\ E[q] \in Nat
      BY <1>0, <1>2
    <3> QED
      BY <1>0, <1>2, <1>5, <2>1, <3>1, <3>2
  <2>3. E[h + k] \in 1 .. x /\ E[h + k] > 1
    BY <1>0, <2>1, <2>2
  <2> QED
    BY <1>2, <1>3, <2>1, <2>3
<1>7. ASSUME NEW i \in S PROVE \E k \in 1 .. q - h : f[k] = i
  <2>1. i \in 1 .. x /\ i \in 1 .. Len(stream) /\ stream[i] = Newline
    BY <1>0, <1>2, <1>3
  <2>2. PICK n \in h + 1 .. m : E[n] = i
    BY <1>1, <2>1
  <2>3. n \in Nat /\ n \notin q + 1 .. m
    BY <1>0, <1>2, <2>1, <2>2
  <2>4. n - h \in 1 .. q - h /\ h + (n - h) = n
    BY <1>0, <2>3
  <2> QED
    BY <2>2, <2>4
<1>8. S \in SUBSET Int
  BY <1>0, <1>3
<1>9. f \in [1 .. q - h -> S]
  BY <1>6
<1>10. \A j, k \in 1 .. q - h : j < k => f[j] < f[k]
  <2> SUFFICES ASSUME NEW j \in 1 .. q - h, NEW k \in 1 .. q - h, j < k PROVE f[j] < f[k]
    OBVIOUS
  <2>1. h + j \in h .. m /\ h + k \in h .. m /\ h + j < h + k
    BY <1>0, <1>5
  <2> QED
    BY <1>2, <2>1
<1>11. q - h \in Nat
  BY <1>0
<1> HIDE DEF f
<1>12. Ascending(S) = f
  BY <1>7, <1>8, <1>9, <1>10, <1>11, AscendingIs
<1> QED
  BY <1>4, <1>12 DEF f

\* Each line is handled as what it means, and the symbol behind it is a word.
LEMMA ResultsOf ==
  ASSUME NEW lines \in Seq(Lines), NEW h \in 0 .. Len(lines), NEW stream \in Texts, NEW E,
         Frames(E, h, lines, stream), RegularLines(lines),
         NEW q \in h .. Len(lines), NEW buffer, Holds(buffer, q, E, lines, stream)
  PROVE  Results(buffer) = [k \in 1 .. q - h |-> Result(lines[h + k])]
<1> DEFINE m == Len(lines)
           x == Len(buffer)
           ends == CommandEnds(buffer)
<1>0. /\ m \in Nat /\ x \in Nat /\ h \in Nat /\ h <= q /\ q <= m /\ q \in Nat
      /\ Len(stream) \in Nat /\ x <= Len(stream) /\ DOMAIN buffer = 1 .. x
      /\ buffer \in Seq(Symbols)
  BY DEF Holds, Texts
<1>1. ends = [k \in 1 .. q - h |-> E[h + k]]
  BY CommandEndsOf
<1>2. /\ E \in [h .. m -> Nat] /\ E[h] = 0
      /\ \A j, k \in h .. m : j < k => E[j] < E[k]
      /\ E[q] <= x /\ \A k \in q + 1 .. m : E[k] > x
      /\ \A i \in 1 .. x : buffer[i] = stream[i]
      /\ E[m] = Len(stream)
      /\ \A n \in h + 1 .. m :
           /\ E[n] = E[n - 1] + Len(lines[n])
           /\ \A i \in 1 .. Len(lines[n]) : stream[E[n - 1] + i] = lines[n][i]
  BY DEF Frames, Holds
<1>3. \A n \in h + 1 .. m : ~IsSeparator(stream[E[n - 1] + 1])
  BY FrameEnds
<1>4. \A n \in 1 .. m : lines[n] \in Lines /\ Regular(lines[n]) /\ Len(lines[n]) \in Nat
  BY ClientAssumption DEF RegularLines
<1> HIDE DEF m, x, ends
<1> DEFINE text(k) == IF k = 1 THEN SubSeq(buffer, 1, ends[1])
                      ELSE SubSeq(buffer, ends[k - 1] + 1,
                                  IF ends[k] < x THEN ends[k] + 1 ELSE ends[k])
<1>5. ASSUME NEW k \in 1 .. q - h
      PROVE  HandleCmd(text(k)) = Result(lines[h + k])
  <2> DEFINE n == h + k
             line == lines[n]
             d == Len(line)
             a == E[n - 1]
             b == E[n]
             last == IF k = 1 THEN b ELSE IF b < x THEN b + 1 ELSE b
             t == SubSeq(buffer, a + 1, last)
  <2>1. /\ n \in h + 1 .. m /\ n \in 1 .. m /\ n \in h .. m /\ n - 1 \in h .. m /\ n <= q
        /\ n \in Nat /\ k \in Nat /\ (k # 1 => k - 1 \in 1 .. q - h)
    BY <1>0
  <2>2. line \in Lines /\ Regular(line) /\ d \in Nat
    BY <1>4, <2>1
  <2>3. /\ a \in Nat /\ b \in Nat /\ b = a + d
        /\ \A i \in 1 .. d : stream[a + i] = line[i]
    BY <1>2, <2>1
  <2>4. b <= x
    <3>1. n = q \/ n < q
      BY <1>0, <2>1
    <3>2. q \in h .. m /\ E[q] \in Nat
      BY <1>0, <1>2
    <3> QED
      BY <1>0, <1>2, <2>1, <2>3, <3>1, <3>2
  <2>5. ends[k] = b /\ (k = 1 => a = 0) /\ (k # 1 => ends[k - 1] = a)
    <3>1. ends[k] = b
      BY <1>1
    <3>2. k = 1 => n - 1 = h
      BY <1>0
    <3>3. k # 1 => h + (k - 1) = n - 1
      BY <1>0
    <3> QED
      BY <1>1, <1>2, <2>1, <3>1, <3>2, <3>3
  <2>6. text(k) = t
    <3>1. CASE k = 1
      <4>1. a + 1 = 1 /\ last = b
        BY <2>5, <3>1
      <4>2. text(k) = SubSeq(buffer, 1, b)
        BY <2>5, <3>1
      <4> HIDE DEF a, last, text
      <4> QED
        BY <4>1, <4>2
    <3>2. CASE k # 1
      BY <2>5, <3>2
    <3> QED
      BY <3>1, <3>2
  <2>7. last \in Int /\ (last = b \/ (last = b + 1 /\ b < x)) /\ last <= x
    BY <1>0, <2>3, <2>4
  <2>8. b < x => ~IsSeparator(stream[b + 1])
    <3>1. ASSUME b < x PROVE n + 1 \in h + 1 .. m
      <4>1. n # m
        <5>1. n = m => b = Len(stream)
          BY <1>2
        <5> HIDE DEF n, b
        <5> QED
          BY <1>0, <2>3, <3>1, <5>1
      <4> QED
        BY <1>0, <2>1, <4>1
    <3>2. ASSUME b < x PROVE ~IsSeparator(stream[E[(n + 1) - 1] + 1])
      BY <1>3, <3>1, <3>2
    <3>3. (n + 1) - 1 = n
      BY <2>1
    <3> QED
      BY <3>2, <3>3
  <2> HIDE DEF n, line, a, b, last, t, text
  <2>9. /\ t \in Texts /\ Len(t) = last - a
        /\ \A i \in 1 .. last - a : t[i] = stream[a + i]
    <3>1. /\ a + 1 \in Int /\ last \in Int
          /\ (IF a + 1 <= last THEN last - (a + 1) + 1 ELSE 0) = last - a
          /\ last - (a + 1) + 1 = last - a
          /\ \A i \in 1 .. last - a : a + 1 + i - 1 = a + i /\ a + i \in 1 .. x
      BY <1>0, <2>2, <2>3, <2>7
    <3>2. \A i \in a + 1 .. last : buffer[i] \in Symbols
      BY <1>0, <2>3, <2>7
    <3>3. /\ t \in Seq(Symbols)
          /\ Len(t) = IF a + 1 <= last THEN last - (a + 1) + 1 ELSE 0
          /\ \A i \in 1 .. last - (a + 1) + 1 : t[i] = buffer[a + 1 + i - 1]
      BY <3>1, <3>2, SubSeqProperties DEF t
    <3>4. t \in Texts /\ Len(t) = last - a
      BY <3>1, <3>3 DEF Texts
    <3>5. \A i \in 1 .. last - a : t[i] = buffer[a + i]
      BY <3>1, <3>3
    <3>6. \A i \in 1 .. last - a : t[i] = stream[a + i]
      BY <1>2, <3>1, <3>5
    <3> QED
      BY <3>4, <3>6
  <2>10. Len(t) \in {d, d + 1}
    BY <2>2, <2>3, <2>7, <2>9
  <2>11. \A i \in 1 .. d : t[i] = line[i]
    <3>1. \A i \in 1 .. d : i \in 1 .. last - a
      BY <2>2, <2>3, <2>7
    <3> QED
      BY <2>3, <2>9, <3>1
  <2>12. Len(t) = d + 1 => ~IsSeparator(t[Len(t)])
    <3> SUFFICES ASSUME Len(t) = d + 1 PROVE ~IsSeparator(t[d + 1])
      OBVIOUS
    <3>1. last = b + 1 /\ b < x /\ d + 1 \in 1 .. last - a /\ a + (d + 1) = b + 1
      BY <2>2, <2>3, <2>7, <2>9
    <3> QED
      BY <2>8, <2>9, <3>1
  <2>13. HandleCmd(t) = Result(line)
    BY <2>2, <2>9, <2>10, <2>11, <2>12, LineHandled
  <2> QED
    BY <2>6, <2>13 DEF line, n
<1>6. DOMAIN ends = 1 .. q - h
  BY <1>1
<1>7. CommandTexts(buffer) = [k \in 1 .. q - h |-> text(k)]
  BY <1>6 DEF CommandTexts, ends, x
<1> HIDE DEF text
<1>8. Results(buffer) = [k \in 1 .. q - h |-> HandleCmd(text(k))]
  BY <1>7 DEF Results
<1> QED
  BY <1>5, <1>8

LEMMA RestOf ==
  ASSUME NEW lines \in Seq(Lines), NEW h \in 0 .. Len(lines), NEW stream \in Texts, NEW E,
         Frames(E, h, lines, stream), RegularLines(lines),
         NEW q \in h .. Len(lines), NEW buffer, Holds(buffer, q, E, lines, stream)
  PROVE  Rest(buffer) = SubSeq(buffer, E[q] + 1, Len(buffer)) /\ E[q] \in 0 .. Len(buffer)
<1> DEFINE ends == CommandEnds(buffer)
<1>0. /\ Len(lines) \in Nat /\ h \in Nat /\ h <= q /\ q <= Len(lines) /\ q \in Nat
      /\ buffer \in Seq(Symbols) /\ Len(buffer) \in Nat
  BY DEF Holds, Texts
<1>1. ends = [k \in 1 .. q - h |-> E[h + k]]
  BY CommandEndsOf
<1>2. E \in [h .. Len(lines) -> Nat] /\ E[h] = 0 /\ E[q] <= Len(buffer)
  BY DEF Frames, Holds
<1>3. E[q] \in 0 .. Len(buffer)
  BY <1>0, <1>2
<1>4. Rest(buffer) = IF ends = <<>> THEN buffer
                     ELSE SubSeq(buffer, ends[Len(ends)] + 1, Len(buffer))
  BY DEF Rest
<1> HIDE DEF ends
<1>5. CASE q = h
  <2>1. ends = <<>>
    BY <1>0, <1>1, <1>5
  <2>2. SubSeq(buffer, 1, Len(buffer)) = buffer
    BY <1>0, SubSeqFull
  <2>3. E[q] + 1 = 1
    BY <1>2, <1>5
  <2> QED
    BY <1>3, <1>4, <2>1, <2>2, <2>3
<1>6. CASE q # h
  <2>1. q - h \in Nat /\ q - h \in 1 .. q - h /\ h + (q - h) = q
    BY <1>0, <1>6
  <2>2. Len(ends) = q - h /\ ends[q - h] = E[q] /\ ends # <<>>
    BY <1>1, <2>1
  <2> QED
    BY <1>3, <1>4, <2>2
<1> QED
  BY <1>5, <1>6

\* One line more at the end of the stream.
LEMMA FramesAppend ==
  ASSUME NEW lines \in Seq(Lines), NEW h \in 0 .. Len(lines), NEW stream \in Texts, NEW E,
         Frames(E, h, lines, stream), NEW line \in Lines
  PROVE  \E F : Frames(F, h, Append(lines, line), stream \o line)
<1> DEFINE m == Len(lines)
           s == Len(stream)
           d == Len(line)
           lines2 == Append(lines, line)
           stream2 == stream \o line
           F == [n \in h .. m + 1 |-> IF n = m + 1 THEN s + d ELSE E[n]]
<1>0. /\ m \in Nat /\ s \in Nat /\ d \in Nat /\ d >= 1 /\ h \in Nat /\ h <= m
      /\ line \in Seq(Symbols) /\ stream \in Seq(Symbols)
  BY ClientAssumption DEF Texts
<1>1. /\ E \in [h .. m -> Nat] /\ E[h] = 0 /\ E[m] = s
      /\ \A j, k \in h .. m : j < k => E[j] < E[k]
      /\ \A n \in h + 1 .. m :
           /\ E[n] = E[n - 1] + Len(lines[n])
           /\ \A i \in 1 .. Len(lines[n]) : stream[E[n - 1] + i] = lines[n][i]
      /\ \A i \in 1 .. s : \E n \in h + 1 .. m : E[n - 1] < i /\ i <= E[n]
  BY DEF Frames
<1>2. Len(lines2) = m + 1 /\ lines2[m + 1] = line /\ \A n \in 1 .. m : lines2[n] = lines[n]
  OBVIOUS
<1>3. /\ Len(stream2) = s + d
      /\ \A i \in 1 .. s + d : stream2[i] = IF i <= s THEN stream[i] ELSE line[i - s]
  BY <1>0, ConcatProperties
<1>4. \A n \in 1 .. m : Len(lines[n]) \in Nat
  BY ClientAssumption
<1> HIDE DEF m, s, d, lines2, stream2
<1>5. /\ \A n \in h .. m : n \in h .. m + 1 /\ n # m + 1 /\ F[n] = E[n] /\ E[n] \in Nat /\ E[n] <= s
      /\ m + 1 \in h .. m + 1 /\ F[m + 1] = s + d /\ m \in h .. m
      /\ \A n \in h .. m + 1 : n \in h .. m \/ n = m + 1
  <2>1. \A n \in h .. m : n \in h .. m + 1 /\ n # m + 1 /\ (n < m \/ n = m)
    BY <1>0
  <2>2. \A n \in h .. m : F[n] = E[n] /\ E[n] \in Nat
    BY <1>1, <2>1
  <2>3. m \in h .. m /\ m + 1 \in h .. m + 1 /\ \A n \in h .. m + 1 : n \in h .. m \/ n = m + 1
    BY <1>0
  <2>4. F[m + 1] = s + d
    BY <2>3
  <2> HIDE DEF F
  <2>5. \A n \in h .. m : E[n] <= s
    <3> SUFFICES ASSUME NEW n \in h .. m PROVE E[n] <= s
      OBVIOUS
    <3>1. (n < m \/ n = m) /\ E[n] \in Nat /\ E[m] = s
      BY <1>1, <2>1, <2>2
    <3>2. n < m => E[n] < E[m]
      BY <1>1, <2>3
    <3> QED
      BY <1>0, <3>1, <3>2
  <2>6. \A n \in h .. m : /\ n \in h .. m + 1 /\ n # m + 1
                         /\ F[n] = E[n] /\ E[n] \in Nat /\ E[n] <= s
    BY <2>1, <2>2, <2>5
  <2> QED
    BY <2>3, <2>4, <2>6
<1>6. F \in [h .. m + 1 -> Nat]
  <2>1. s + d \in Nat
    BY <1>0
  <2>2. \A n \in h .. m + 1 : n # m + 1 => E[n] \in Nat
    BY <1>5
  <2> QED
    BY <2>1, <2>2
<1> HIDE DEF F
<1>7. F[h] = 0
  BY <1>0, <1>1, <1>5
<1>8. \A j, k \in h .. m + 1 : j < k => F[j] < F[k]
  <2> SUFFICES ASSUME NEW j \in h .. m + 1, NEW k \in h .. m + 1, j < k PROVE F[j] < F[k]
    OBVIOUS
  <2>1. j \in h .. m
    BY <1>0
  <2>2. CASE k \in h .. m
    BY <1>1, <1>5, <2>1, <2>2
  <2>3. CASE k = m + 1
    <3>1. F[j] \in Nat /\ F[j] <= s /\ F[k] = s + d
      BY <1>5, <2>1, <2>3
    <3> QED
      BY <1>0, <3>1
  <2> QED
    BY <1>5, <2>2, <2>3
<1>9. ASSUME NEW n \in h + 1 .. m + 1
      PROVE  /\ F[n] = F[n - 1] + Len(lines2[n])
             /\ \A i \in 1 .. Len(lines2[n]) : stream2[F[n - 1] + i] = lines2[n][i]
  <2>1. CASE n \in h + 1 .. m
    <3>1. n \in 1 .. m /\ n \in h .. m /\ n - 1 \in h .. m
      BY <1>0, <2>1
    <3>2. F[n] = E[n] /\ F[n - 1] = E[n - 1] /\ lines2[n] = lines[n] /\ E[n] <= s
          /\ E[n] \in Nat /\ E[n - 1] \in Nat /\ Len(lines[n]) \in Nat
      BY <1>2, <1>4, <1>5, <3>1
    <3>3. E[n] = E[n - 1] + Len(lines[n])
      BY <1>1, <2>1
    <3>4. \A i \in 1 .. Len(lines[n]) : E[n - 1] + i \in 1 .. s + d /\ E[n - 1] + i <= s
      BY <1>0, <3>2, <3>3
    <3>5. \A i \in 1 .. Len(lines[n]) : stream2[E[n - 1] + i] = stream[E[n - 1] + i]
      BY <1>3, <3>4
    <3>6. \A i \in 1 .. Len(lines[n]) : stream[E[n - 1] + i] = lines[n][i]
      BY <1>1, <2>1
    <3> QED
      BY <3>2, <3>3, <3>5, <3>6
  <2>2. CASE n = m + 1
    <3>1. n - 1 = m /\ F[n] = s + d /\ F[n - 1] = s /\ lines2[n] = line /\ Len(line) = d
      BY <1>0, <1>1, <1>2, <1>5, <2>2 DEF d
    <3>2. \A i \in 1 .. d : s + i \in 1 .. s + d /\ ~(s + i <= s) /\ (s + i) - s = i
      BY <1>0
    <3>3. \A i \in 1 .. d : stream2[s + i] = line[i]
      BY <1>3, <3>2
    <3> QED
      BY <3>1, <3>3
  <2>3. n \in h + 1 .. m \/ n = m + 1
    BY <1>0
  <2> QED
    BY <2>1, <2>2, <2>3
<1>10. ASSUME NEW i \in 1 .. s + d
       PROVE  \E n \in h + 1 .. m + 1 : F[n - 1] < i /\ i <= F[n]
  <2>1. CASE i <= s
    <3>1. i \in 1 .. s
      BY <1>0, <2>1
    <3>2. PICK n \in h + 1 .. m : E[n - 1] < i /\ i <= E[n]
      BY <1>1, <3>1
    <3>3. n \in h .. m /\ n - 1 \in h .. m /\ n \in h + 1 .. m + 1
      BY <1>0
    <3> QED
      BY <1>5, <3>2, <3>3
  <2>2. CASE i > s
    <3>1. (m + 1) - 1 = m /\ m + 1 \in h + 1 .. m + 1 /\ m \in h .. m
      BY <1>0
    <3>2. F[m] = s /\ F[m + 1] = s + d
      BY <1>1, <1>5, <3>1
    <3> QED
      BY <1>0, <2>2, <3>1, <3>2
  <2> QED
    BY <1>0, <2>1, <2>2
<1>11. Frames(F, h, lines2, stream2)
  BY <1>2, <1>3, <1>5, <1>6, <1>7, <1>8, <1>9, <1>10 DEF Frames
<1> QED
  BY <1>11 DEF lines2, stream2

\* The stream without the lines up to q.
LEMMA FramesAfter ==
  ASSUME NEW lines \in Seq(Lines), NEW h \in 0 .. Len(lines), NEW stream \in Texts, NEW E,
         Frames(E, h, lines, stream), NEW q \in h .. Len(lines),
         NEW rest \in Texts, Len(rest) = Len(stream) - E[q],
         \A i \in 1 .. Len(rest) : rest[i] = stream[E[q] + i]
  PROVE  \E F : Frames(F, q, lines, rest)
<1> DEFINE m == Len(lines)
           s == Len(stream)
           p == E[q]
           F == [n \in q .. m |-> E[n] - p]
<1>0. /\ m \in Nat /\ s \in Nat /\ h \in Nat /\ h <= q /\ q <= m /\ q \in Nat
      /\ Len(rest) \in Nat
  BY DEF Texts
<1>1. /\ E \in [h .. m -> Nat] /\ E[m] = s
      /\ \A j, k \in h .. m : j < k => E[j] < E[k]
      /\ \A n \in h + 1 .. m :
           /\ E[n] = E[n - 1] + Len(lines[n])
           /\ \A i \in 1 .. Len(lines[n]) : stream[E[n - 1] + i] = lines[n][i]
      /\ \A i \in 1 .. s : \E n \in h + 1 .. m : E[n - 1] < i /\ i <= E[n]
  BY DEF Frames
<1>2. \A n \in 1 .. m : Len(lines[n]) \in Nat
  BY ClientAssumption
<1>3. Len(rest) = s - p /\ \A i \in 1 .. s - p : rest[i] = stream[p + i]
  OBVIOUS
<1>4. p = E[q] /\ q \in h .. m /\ m \in h .. m /\ q \in q .. m /\ m \in q .. m
  BY <1>0
<1> HIDE DEF m, s, p
<1>5. \A n \in q .. m : n \in h .. m /\ (n = q \/ q < n)
  BY <1>0
<1>6. \A n \in q .. m : E[n] \in Nat /\ p <= E[n] /\ F[n] = E[n] - p /\ p \in Nat
  <2>1. \A n \in q .. m : E[n] \in Nat /\ p \in Nat
    BY <1>1, <1>4, <1>5
  <2>2. \A n \in q .. m : F[n] = E[n] - p
    OBVIOUS
  <2> HIDE DEF F
  <2>3. \A n \in q .. m : p <= E[n]
    <3> SUFFICES ASSUME NEW n \in q .. m PROVE p <= E[n]
      OBVIOUS
    <3>1. n \in h .. m /\ (n = q \/ q < n) /\ E[n] \in Nat /\ p \in Nat
      BY <1>5, <2>1
    <3>2. q < n => p < E[n]
      BY <1>1, <1>4, <3>1
    <3> QED
      BY <1>4, <3>1, <3>2
  <2> QED
    BY <2>1, <2>2, <2>3
<1>7. F \in [q .. m -> Nat]
  BY <1>6
<1> HIDE DEF F
<1>8. F[q] = 0 /\ F[m] = s - p /\ s - p \in Nat
  BY <1>0, <1>1, <1>4, <1>6
<1>9. \A j, k \in q .. m : j < k => F[j] < F[k]
  <2> SUFFICES ASSUME NEW j \in q .. m, NEW k \in q .. m, j < k PROVE F[j] < F[k]
    OBVIOUS
  <2>1. E[j] < E[k] /\ E[j] \in Nat /\ E[k] \in Nat
    BY <1>1, <1>5, <1>6
  <2> QED
    BY <1>6, <2>1
<1>10. ASSUME NEW n \in q + 1 .. m
       PROVE  /\ F[n] = F[n - 1] + Len(lines[n])
              /\ \A i \in 1 .. Len(lines[n]) : rest[F[n - 1] + i] = lines[n][i]
  <2>1. /\ n \in h + 1 .. m /\ n \in 1 .. m /\ n \in q .. m /\ n - 1 \in q .. m
        /\ (n = m \/ n < m)
    BY <1>0
  <2>2. /\ F[n] = E[n] - p /\ F[n - 1] = E[n - 1] - p /\ E[n] \in Nat /\ E[n - 1] \in Nat
        /\ p \in Nat /\ p <= E[n - 1] /\ Len(lines[n]) \in Nat
        /\ E[n] = E[n - 1] + Len(lines[n])
        /\ \A i \in 1 .. Len(lines[n]) : stream[E[n - 1] + i] = lines[n][i]
    <3>1. /\ F[n] = E[n] - p /\ F[n - 1] = E[n - 1] - p /\ E[n] \in Nat /\ E[n - 1] \in Nat
          /\ p \in Nat /\ p <= E[n - 1]
      BY <1>6, <2>1
    <3>2. Len(lines[n]) \in Nat
      BY <1>2, <2>1
    <3>3. /\ E[n] = E[n - 1] + Len(lines[n])
          /\ \A i \in 1 .. Len(lines[n]) : stream[E[n - 1] + i] = lines[n][i]
      BY <1>1, <2>1
    <3> QED
      BY <3>1, <3>2, <3>3
  <2>3. E[n] <= s
    <3>1. n \in h .. m /\ (n < m => E[n] < E[m]) /\ E[m] = s
      BY <1>1, <1>4, <1>5, <2>1
    <3> QED
      BY <1>0, <2>1, <2>2, <3>1
  <2>4. \A i \in 1 .. Len(lines[n]) : /\ F[n - 1] + i \in 1 .. s - p
                                      /\ p + (F[n - 1] + i) = E[n - 1] + i
    <3> SUFFICES ASSUME NEW i \in 1 .. Len(lines[n])
                 PROVE  F[n - 1] + i \in 1 .. s - p /\ p + (F[n - 1] + i) = E[n - 1] + i
      OBVIOUS
    <3>1. i \in Nat /\ i >= 1 /\ i <= Len(lines[n])
      BY <2>2
    <3> DEFINE e == E[n - 1]
               d == Len(lines[n])
               f == F[n - 1]
    <3>2. f = e - p /\ e \in Nat /\ d \in Nat /\ p \in Nat /\ p <= e /\ e + d <= s /\ i <= d
      BY <2>2, <2>3, <3>1
    <3> HIDE DEF d, e, f
    <3>3. f + i \in 1 .. s - p /\ p + (f + i) = e + i
      BY <1>0, <3>1, <3>2
    <3> QED
      BY <3>3 DEF e, f
  <2>5. \A i \in 1 .. Len(lines[n]) : rest[F[n - 1] + i] = stream[E[n - 1] + i]
    BY <1>3, <2>4
  <2>6. F[n] = F[n - 1] + Len(lines[n])
    BY <2>2
  <2> QED
    BY <2>2, <2>5, <2>6
<1>11. ASSUME NEW i \in 1 .. s - p
       PROVE  \E n \in q + 1 .. m : F[n - 1] < i /\ i <= F[n]
  <2>1. p + i \in 1 .. s /\ p \in Nat /\ i \in Nat /\ i >= 1
    BY <1>0, <1>4, <1>6
  <2>2. PICK n \in h + 1 .. m : E[n - 1] < p + i /\ p + i <= E[n]
    BY <1>1, <2>1
  <2>3. n \in h .. m /\ E[n] \in Nat /\ n \in Nat
    <3>1. n \in h .. m /\ n \in Nat
      BY <1>0
    <3> QED
      BY <1>1, <3>1
  <2>4. ~(n <= q)
    <3>1. SUFFICES ASSUME n <= q PROVE FALSE
      OBVIOUS
    <3>2. n = q \/ n < q
      BY <1>0, <2>3, <3>1
    <3>3. n < q => E[n] < E[q]
      BY <1>1, <1>4, <2>3
    <3>4. E[n] <= p
      BY <1>4, <2>1, <2>3, <3>2, <3>3
    <3> QED
      BY <2>1, <2>2, <2>3, <3>4
  <2>5. n \in q + 1 .. m /\ n \in q .. m /\ n - 1 \in q .. m
    BY <1>0, <2>3, <2>4
  <2>6. F[n] = E[n] - p /\ F[n - 1] = E[n - 1] - p /\ E[n - 1] \in Nat
    BY <1>6, <2>5
  <2>7. F[n - 1] < i /\ i <= F[n]
    BY <2>1, <2>2, <2>3, <2>6
  <2> QED
    BY <2>5, <2>7
<1>12. Frames(F, q, lines, rest)
  BY <1>3, <1>7, <1>8, <1>9, <1>10, <1>11 DEF Frames, m
<1> QED
  BY <1>12

\* The beginning of a text.
LEMMA Prefix ==
  ASSUME NEW text \in Texts, NEW n \in 1 .. Len(text)
  PROVE  /\ SubSeq(text, 1, n) \in Texts
         /\ Len(SubSeq(text, 1, n)) = n
         /\ \A i \in 1 .. n : SubSeq(text, 1, n)[i] = text[i]
<1>1. text \in Seq(Symbols) /\ Len(text) \in Nat /\ n \in Nat /\ 1 <= n /\ n <= Len(text)
  BY DEF Texts
<1>2. \A i \in 1 .. n : text[i] \in Symbols
  BY <1>1
<1>3. /\ SubSeq(text, 1, n) \in Seq(Symbols)
      /\ Len(SubSeq(text, 1, n)) = IF 1 <= n THEN n - 1 + 1 ELSE 0
      /\ \A i \in 1 .. n - 1 + 1 : SubSeq(text, 1, n)[i] = text[1 + i - 1]
  BY <1>1, <1>2, SubSeqProperties
<1>4. n - 1 + 1 = n /\ \A i \in 1 .. n : 1 + i - 1 = i
  BY <1>1
<1> QED
  BY <1>1, <1>3, <1>4 DEF Texts

LEMMA Joined ==
  ASSUME NEW a \in Texts, NEW b \in Texts
  PROVE  /\ a \o b \in Texts
         /\ Len(a \o b) = Len(a) + Len(b)
         /\ \A i \in 1 .. Len(a) : (a \o b)[i] = a[i]
         /\ \A i \in Len(a) + 1 .. Len(a) + Len(b) : (a \o b)[i] = b[i - Len(a)]
<1> DEFINE c == a \o b
           n == Len(a)
           m == Len(b)
<1>1. a \in Seq(Symbols) /\ b \in Seq(Symbols) /\ n \in Nat /\ m \in Nat
  BY DEF Texts
<1>2. /\ c \in Seq(Symbols) /\ Len(c) = n + m
      /\ \A i \in 1 .. n + m : c[i] = IF i <= n THEN a[i] ELSE b[i - n]
  BY <1>1, ConcatProperties
<1> HIDE DEF c, n, m
<1>3. /\ \A i \in 1 .. n : i \in 1 .. n + m /\ i <= n
      /\ \A i \in n + 1 .. n + m : i \in 1 .. n + m /\ ~(i <= n)
  BY <1>1
<1>4. /\ \A i \in 1 .. n : c[i] = a[i]
      /\ \A i \in n + 1 .. n + m : c[i] = b[i - n]
  BY <1>2, <1>3
<1> QED
  BY <1>2, <1>4 DEF Texts, c, n, m

\* The buffer a when n symbols of b are received, and what the buffer and the
\* way hold when p symbols of that are handled.
Ahead(a, b, n) == a \o SubSeq(b, 1, n)
Behind(a, b, n, p) ==
  SubSeq(Ahead(a, b, n), p + 1, Len(Ahead(a, b, n))) \o SubSeq(b, n + 1, Len(b))

LEMMA Moves ==
  ASSUME NEW a \in Texts, NEW b \in Texts, NEW n \in 1 .. Len(b), NEW p \in 0 .. Len(a) + n
  PROVE  /\ a \o b \in Texts /\ Ahead(a, b, n) \in Texts /\ Behind(a, b, n, p) \in Texts
         /\ Len(Ahead(a, b, n)) = Len(a) + n
         /\ Len(Ahead(a, b, n)) \in 1 .. Len(a \o b)
         /\ \A i \in 1 .. Len(Ahead(a, b, n)) : Ahead(a, b, n)[i] = (a \o b)[i]
         /\ Len(Behind(a, b, n, p)) = Len(a \o b) - p
         /\ \A i \in 1 .. Len(Behind(a, b, n, p)) : Behind(a, b, n, p)[i] = (a \o b)[p + i]
<1> DEFINE whole == a \o b
           front == SubSeq(b, 1, n)
           back == SubSeq(b, n + 1, Len(b))
           got == a \o front
           left == SubSeq(got, p + 1, Len(got))
           after == left \o back
           k == Len(a)
           m == Len(b)
<1>0. k \in Nat /\ m \in Nat /\ n \in Nat /\ 1 <= n /\ n <= m /\ p \in Nat /\ p <= k + n
  BY DEF Texts
<1>1. front \in Texts /\ Len(front) = n /\ \A i \in 1 .. n : front[i] = b[i]
  BY Prefix
<1>2. back \in Texts /\ Len(back) = m - n /\ \A i \in 1 .. m - n : back[i] = b[n + i]
  <2>1. n \in 0 .. Len(b)
    BY <1>0
  <2> QED
    BY <2>1, Suffix
<1>3. /\ whole \in Texts /\ Len(whole) = k + m
      /\ \A i \in 1 .. k : whole[i] = a[i]
      /\ \A i \in k + 1 .. k + m : whole[i] = b[i - k]
  BY Joined
<1> HIDE DEF front
<1>4. /\ got \in Texts /\ Len(got) = k + n
      /\ \A i \in 1 .. k : got[i] = a[i]
      /\ \A i \in k + 1 .. k + n : got[i] = front[i - k]
  BY <1>1, Joined
<1> HIDE DEF got
<1>5. left \in Texts /\ Len(left) = k + n - p /\ \A i \in 1 .. k + n - p : left[i] = got[p + i]
  <2>1. p \in 0 .. Len(got)
    BY <1>4
  <2>2. /\ left \in Texts /\ Len(left) = Len(got) - p
        /\ \A i \in 1 .. Len(got) - p : left[i] = got[p + i]
    BY <1>4, <2>1, Suffix
  <2>3. left \in Texts /\ Len(left) = k + n - p
    BY <1>4, <2>2
  <2>4. \A i \in 1 .. k + n - p : left[i] = got[p + i]
    BY <1>4, <2>2
  <2> QED
    BY <2>3, <2>4
<1> HIDE DEF left, back
<1>6. /\ after \in Texts /\ Len(after) = Len(left) + Len(back)
      /\ \A i \in 1 .. Len(left) : after[i] = left[i]
      /\ \A i \in Len(left) + 1 .. Len(left) + Len(back) : after[i] = back[i - Len(left)]
  BY <1>2, <1>5, Joined
<1> HIDE DEF whole, after, k, m
<1>7. \A i \in 1 .. k + n : got[i] = whole[i]
  <2> SUFFICES ASSUME NEW i \in 1 .. k + n PROVE got[i] = whole[i]
    OBVIOUS
  <2>1. CASE i <= k
    <3>1. i \in 1 .. k
      BY <1>0, <2>1
    <3> QED
      BY <1>3, <1>4, <3>1
  <2>2. CASE i > k
    <3>1. i \in k + 1 .. k + n /\ i \in k + 1 .. k + m /\ i - k \in 1 .. n
      BY <1>0, <2>2
    <3> QED
      BY <1>1, <1>3, <1>4, <3>1
  <2> QED
    BY <1>0, <2>1, <2>2
<1>8. Len(after) = k + m - p
  BY <1>0, <1>2, <1>5, <1>6
<1>9. \A i \in 1 .. k + m - p : after[i] = whole[p + i]
  <2> SUFFICES ASSUME NEW i \in 1 .. k + m - p PROVE after[i] = whole[p + i]
    OBVIOUS
  <2>1. CASE i <= k + n - p
    <3>1. i \in 1 .. k + n - p /\ p + i \in 1 .. k + n
      BY <1>0, <2>1
    <3> QED
      BY <1>5, <1>6, <1>7, <3>1
  <2>2. CASE i > k + n - p
    <3>1. /\ i \in k + n - p + 1 .. k + n - p + (m - n)
          /\ i - (k + n - p) \in 1 .. m - n
          /\ p + i \in k + 1 .. k + m
          /\ n + (i - (k + n - p)) = (p + i) - k
      BY <1>0, <2>2
    <3>2. after[i] = back[i - (k + n - p)]
      BY <1>2, <1>5, <1>6, <3>1
    <3>3. back[i - (k + n - p)] = b[(p + i) - k]
      BY <1>2, <3>1
    <3>4. whole[p + i] = b[(p + i) - k]
      BY <1>3, <3>1
    <3> QED
      BY <3>2, <3>3, <3>4
  <2> QED
    BY <1>0, <2>1, <2>2
<1>10. /\ Len(got) \in 1 .. Len(whole)
       /\ Len(after) = Len(whole) - p
  <2>1. k + n \in 1 .. k + m /\ k + m - p = (k + m) - p
    BY <1>0
  <2> QED
    BY <1>3, <1>4, <1>8, <2>1
<1>11. /\ \A i \in 1 .. Len(got) : got[i] = whole[i]
       /\ \A i \in 1 .. Len(after) : after[i] = whole[p + i]
  BY <1>4, <1>7, <1>8, <1>9
<1>12. Len(got) = Len(a) + n
  BY <1>4 DEF k
<1>13. whole = a \o b /\ got = Ahead(a, b, n) /\ after = Behind(a, b, n, p)
  BY DEF whole, got, after, left, front, back, Ahead, Behind
<1> QED
  BY <1>3, <1>4, <1>6, <1>10, <1>11, <1>12, <1>13

\* If all lines begin with a word and alternate, the first ones are handled as
\* what they mean, and the others are in the buffer and on the way.
Framed ==
  RegularLines(sent) =>
    /\ Len(handled) \in 0 .. Len(sent)
    /\ \E E : Frames(E, Len(handled), sent, dataBuffer \o inFlight)
    /\ \A n \in 1 .. Len(handled) : handled[n] = Result(sent[n])

LEMMA FramedInit == ClientInit => Framed
<1> SUFFICES ASSUME ClientInit PROVE Framed
  OBVIOUS
<1> DEFINE E == [n \in 0 .. 0 |-> 0]
<1>1. Len(sent) = 0 /\ Len(handled) = 0 /\ dataBuffer \o inFlight = <<>> /\ Len(<<>>) = 0
  BY DEF ClientInit
<1>2. E \in [0 .. 0 -> Nat] /\ E[0] = 0 /\ 0 .. 0 = {0} /\ 0 + 1 .. 0 = {} /\ 1 .. 0 = {}
  OBVIOUS
<1> HIDE DEF E
<1>3. Frames(E, 0, sent, <<>>)
  BY <1>1, <1>2 DEF Frames
<1> QED
  BY <1>1, <1>2, <1>3 DEF Framed

LEMMA FramedStep ==
  ASSUME Unframed, Unframed', Framed, [ClientNext]_clientVars
  PROVE  Framed'
<1> DEFINE h == Len(handled)
           m == Len(sent)
           stream == dataBuffer \o inFlight
<1>0. /\ sent \in Seq(Lines) /\ inFlight \in Texts /\ dataBuffer \in Texts
      /\ handled \in Seq(ResultType) /\ h \in Nat /\ m \in Nat /\ stream \in Texts
  <2>1. /\ sent \in Seq(Lines) /\ inFlight \in Texts /\ dataBuffer \in Texts
        /\ handled \in Seq(ResultType)
    BY ClientTypeOKParts DEF Unframed
  <2> QED
    BY <2>1 DEF Texts
<1>1. ASSUME SendLine PROVE Framed'
  <2>1. PICK line \in Lines : sent' = Append(sent, line) /\ inFlight' = inFlight \o line
    BY <1>1 DEF SendLine
  <2>2. UNCHANGED <<dataBuffer, handled, replies>>
    BY <1>1 DEF SendLine
  <2>3. Len(sent') = m + 1 /\ \A n \in 1 .. m : sent'[n] = sent[n]
    BY <1>0, <2>1
  <2> SUFFICES ASSUME RegularLines(sent)'
               PROVE  /\ Len(handled') \in 0 .. Len(sent')
                      /\ \E E : Frames(E, Len(handled'), sent', dataBuffer' \o inFlight')
                      /\ \A n \in 1 .. Len(handled') : handled'[n] = Result(sent'[n])
    BY DEF Framed
  <2>4. RegularLines(sent)
    <3>1. sent' \in Seq(Lines)
      BY <1>0, <2>1
    <3>2. DOMAIN sent = 1 .. m /\ DOMAIN sent' = 1 .. m + 1
      BY <1>0, <2>3, <3>1
    <3>3. \A n \in 1 .. m : n \in 1 .. m + 1
      BY <1>0
    <3> QED
      BY <2>3, <3>2, <3>3 DEF RegularLines
  <2>5. PICK E : Frames(E, h, sent, stream)
    BY <2>4 DEF Framed
  <2>6. h \in 0 .. m /\ \A n \in 1 .. h : handled[n] = Result(sent[n])
    BY <2>4 DEF Framed
  <2> HIDE DEF stream
  <2>7. PICK F : Frames(F, h, Append(sent, line), stream \o line)
    BY <1>0, <2>5, <2>6, FramesAppend
  <2>8. dataBuffer' \o inFlight' = stream \o line
    <3>1. line \in Seq(Symbols) /\ dataBuffer \in Seq(Symbols) /\ inFlight \in Seq(Symbols)
      BY <1>0, ClientAssumption DEF Texts
    <3>2. dataBuffer \o (inFlight \o line) = (dataBuffer \o inFlight) \o line
      BY <3>1, ConcatAssociative
    <3> QED
      BY <2>1, <2>2, <3>2 DEF stream
  <2>9. Frames(F, Len(handled'), sent', dataBuffer' \o inFlight')
    BY <2>1, <2>2, <2>7, <2>8
  <2>10. Len(handled') \in 0 .. Len(sent')
    BY <1>0, <2>2, <2>3, <2>6
  <2>11. \A n \in 1 .. Len(handled') : handled'[n] = Result(sent'[n])
    <3>1. \A n \in 1 .. h : n \in 1 .. m
      BY <1>0, <2>6
    <3> QED
      BY <2>2, <2>3, <2>6, <3>1
  <2> QED
    BY <2>9, <2>10, <2>11
<1>2. ASSUME ReceiveAndHandle PROVE Framed'
  <2>1. PICK n \in 1 .. Len(inFlight) :
          /\ inFlight' = SubSeq(inFlight, n + 1, Len(inFlight))
          /\ handled' = handled \o Results(Received(n))
          /\ dataBuffer' = Rest(Received(n))
          /\ UNCHANGED sent
    BY <1>2, ReceiveForm
  <2> SUFFICES ASSUME RegularLines(sent)
               PROVE  /\ Len(handled') \in 0 .. Len(sent)
                      /\ \E E : Frames(E, Len(handled'), sent, dataBuffer' \o inFlight')
                      /\ \A i \in 1 .. Len(handled') : handled'[i] = Result(sent[i])
    BY <2>1 DEF Framed, RegularLines
  <2>2. PICK E : Frames(E, h, sent, stream)
    BY DEF Framed
  <2>3. h \in 0 .. m /\ \A i \in 1 .. h : handled[i] = Result(sent[i])
    BY DEF Framed
  <2> DEFINE buffer == Received(n)
             x == Len(buffer)
  <2>4. 0 \in 0 .. Len(dataBuffer) + n /\ buffer = Ahead(dataBuffer, inFlight, n)
    BY <1>0 DEF Texts, Received, Ahead
  <2> HIDE DEF buffer
  <2>5. buffer \in Texts /\ x \in 1 .. Len(stream) /\ \A i \in 1 .. x : buffer[i] = stream[i]
        /\ x = Len(dataBuffer) + n
    BY <1>0, <2>4, Moves
  <2> HIDE DEF buffer, x, stream, h, m
  <2>6. PICK q \in h .. m : E[q] <= x /\ \A k \in q + 1 .. m : E[k] > x
    BY <1>0, <2>2, <2>3, <2>5, LastComplete DEF m
  <2>7. Holds(buffer, q, E, sent, stream)
    <3>1. Len(stream) \in Nat
      BY <1>0 DEF Texts
    <3>2. x <= Len(stream)
      BY <2>5, <3>1
    <3> QED
      BY <2>5, <2>6, <3>2 DEF Holds, m, x
  <2>8. Results(buffer) = [k \in 1 .. q - h |-> Result(sent[h + k])]
    BY <1>0, <2>2, <2>3, <2>7, ResultsOf DEF m
  <2>9. Rest(buffer) = SubSeq(buffer, E[q] + 1, x) /\ E[q] \in 0 .. x
    BY <1>0, <2>2, <2>3, <2>7, RestOf DEF m, x
  <2> DEFINE rest == dataBuffer' \o inFlight'
  <2>10. /\ rest \in Texts /\ Len(rest) = Len(stream) - E[q]
         /\ \A i \in 1 .. Len(rest) : rest[i] = stream[E[q] + i]
    <3>1. rest = Behind(dataBuffer, inFlight, n, E[q])
      BY <2>1, <2>4, <2>9 DEF Behind, x, buffer
    <3>2. E[q] \in 0 .. Len(dataBuffer) + n
      BY <2>5, <2>9
    <3> DEFINE p == E[q]
               behind == Behind(dataBuffer, inFlight, n, p)
    <3>3. p \in 0 .. Len(dataBuffer) + n
      BY <3>2
    <3>4. n \in 1 .. Len(inFlight)
      OBVIOUS
    <3> HIDE DEF rest, p
    <3>5. /\ behind \in Texts /\ Len(behind) = Len(dataBuffer \o inFlight) - p
          /\ \A i \in 1 .. Len(behind) : behind[i] = (dataBuffer \o inFlight)[p + i]
      <4> SUFFICES ASSUME NEW a \in Texts, NEW b \in Texts, NEW j \in 1 .. Len(b),
                          NEW o \in 0 .. Len(a) + j
                   PROVE  /\ Behind(a, b, j, o) \in Texts
                          /\ Len(Behind(a, b, j, o)) = Len(a \o b) - o
                          /\ \A i \in 1 .. Len(Behind(a, b, j, o)) :
                               Behind(a, b, j, o)[i] = (a \o b)[o + i]
        BY <1>0, <3>3, <3>4
      <4> QED
        BY Moves
    <3>6. rest = behind
      BY <3>1 DEF p
    <3> HIDE DEF behind
    <3> QED
      BY <3>5, <3>6 DEF stream, p
  <2> HIDE DEF rest
  <2>11. \E F : Frames(F, q, sent, rest)
    BY <1>0, <2>2, <2>3, <2>6, <2>10, FramesAfter DEF m
  <2>12. q \in Nat /\ h \in Nat /\ h <= q /\ q <= m /\ q - h \in Nat
    BY <1>0, <2>3, <2>6
  <2> DEFINE results == [k \in 1 .. q - h |-> Result(sent[h + k])]
  <2>13. results \in Seq(ResultType)
    <3>1. Results(buffer) \in Seq(ResultType)
      BY <2>5, TextsOfCommands, ResultsType DEF Results
    <3> QED
      BY <2>8, <3>1
  <2>14. Len(results) = q - h /\ \A k \in 1 .. q - h : results[k] = Result(sent[h + k])
    BY <2>12
  <2> HIDE DEF results
  <2>15. handled' = handled \o results
    BY <2>1, <2>8 DEF buffer, results
  <2>16. /\ Len(handled') = q
         /\ \A i \in 1 .. q : handled'[i] = IF i <= h THEN handled[i] ELSE results[i - h]
    <3>1. /\ Len(handled \o results) = h + (q - h)
          /\ \A i \in 1 .. h + (q - h) :
               (handled \o results)[i] = IF i <= h THEN handled[i] ELSE results[i - h]
      BY <1>0, <2>13, <2>14, ConcatProperties DEF h
    <3>2. h + (q - h) = q
      BY <2>12
    <3> QED
      BY <2>15, <3>1, <3>2
  <2>17. \A i \in 1 .. q : handled'[i] = Result(sent[i])
    <3> SUFFICES ASSUME NEW i \in 1 .. q PROVE handled'[i] = Result(sent[i])
      OBVIOUS
    <3>1. CASE i <= h
      <4>1. i \in 1 .. h
        BY <2>12, <3>1
      <4> QED
        BY <2>3, <2>16, <3>1, <4>1
    <3>2. CASE ~(i <= h)
      <4>1. i - h \in 1 .. q - h /\ h + (i - h) = i
        BY <2>12, <3>2
      <4>2. handled'[i] = results[i - h]
        BY <2>16, <3>2
      <4> QED
        BY <2>14, <4>1, <4>2
    <3> QED
      BY <3>1, <3>2
  <2>18. q \in 0 .. Len(sent)
    BY <2>12 DEF m
  <2> QED
    BY <2>11, <2>16, <2>17, <2>18 DEF rest
<1>3. ASSUME UNCHANGED clientVars PROVE Framed'
  BY <1>3 DEF clientVars, Framed
<1> QED
  BY <1>1, <1>2, <1>3 DEF ClientNext

ClientIInv == Unframed /\ Framed

\* The inductive invariant of a connection: what is received and not handled and
\* what is on its way make up the lines that are not handled, and the others
\* have been handled as what they mean (handleClient).
THEOREM ClientInvariance == ClientSpec => []ClientIInv
<1>1. ClientInit => ClientIInv
  BY UnframedInit, FramedInit DEF ClientIInv
<1>2. ClientIInv /\ [ClientNext]_clientVars => ClientIInv'
  BY UnframedStep, FramedStep DEF ClientIInv
<1> QED
  BY <1>1, <1>2, PTL DEF ClientSpec

\* What is sent, buffered, handled and replied has its type (handleClient).
THEOREM ClientTypeCorrect == ClientSpec => []ClientTypeOK
<1>1. ClientIInv => ClientTypeOK
  BY DEF ClientIInv, Unframed
<1> QED
  BY <1>1, ClientInvariance, PTL

\* Whatever the peer sends, handleClient() leaves no complete line in the buffer
\* but a blank one in front.
THEOREM NoLineIsLeft == ClientSpec => []NoLineWaits
<1>1. ClientIInv => NoLineWaits
  BY DEF ClientIInv, Unframed
<1> QED
  BY <1>1, ClientInvariance, PTL

\* The lines of which no newline is on the way are those that are handled.
LEMMA CompleteIs ==
  ASSUME Unframed, Framed, RegularLines(sent)
  PROVE  /\ Len(Complete) = Len(handled) /\ DOMAIN Complete = 1 .. Len(handled)
         /\ \A n \in 1 .. Len(handled) :
              Complete[n] = sent[n] /\ sent[n] \in Lines /\ handled[n] = Result(Complete[n])
<1> DEFINE h == Len(handled)
           m == Len(sent)
           l == Len(dataBuffer)
           w == Len(inFlight)
           stream == dataBuffer \o inFlight
           S == {i \in DOMAIN inFlight : inFlight[i] = Newline}
<1>0. /\ sent \in Seq(Lines) /\ inFlight \in Texts /\ dataBuffer \in Texts /\ NoLineWaits
      /\ handled \in Seq(ResultType)
  BY ClientTypeOKParts DEF Unframed
<1>1. /\ h \in Nat /\ m \in Nat /\ l \in Nat /\ w \in Nat
      /\ DOMAIN inFlight = 1 .. w /\ DOMAIN dataBuffer = 1 .. l
  BY <1>0 DEF Texts
<1>2. h \in 0 .. m /\ \A n \in 1 .. h : handled[n] = Result(sent[n])
  BY DEF Framed
<1>3. PICK E : Frames(E, h, sent, stream)
  BY DEF Framed
<1>4. /\ stream \in Texts /\ Len(stream) = l + w
      /\ \A i \in 1 .. l : stream[i] = dataBuffer[i]
      /\ \A i \in l + 1 .. l + w : stream[i] = inFlight[i - l]
  BY <1>0, Joined
<1>5. S = {i \in 1 .. w : inFlight[i] = Newline}
  BY <1>1
<1>6. \A i \in 1 .. l : dataBuffer[i] = Newline => i = 1
  BY <1>0, <1>1 DEF NoLineWaits
<1> HIDE DEF stream, h, l, w, S
<1>7. /\ \A n \in h + 1 .. m : E[n] \in 2 .. Len(stream) /\ stream[E[n]] = Newline
      /\ \A i \in 1 .. Len(stream) : stream[i] = Newline => \E n \in h + 1 .. m : E[n] = i
  <2>1. h \in 0 .. Len(sent) /\ Frames(E, h, sent, stream) /\ stream \in Texts
    BY <1>2, <1>3, <1>4
  <2> QED
    BY <1>0, <2>1, FrameEnds
<1>8. E \in [h .. m -> Nat] /\ \A j, k \in h .. m : j < k => E[j] < E[k]
  BY <1>3 DEF Frames
<1> HIDE DEF m
<1>9. \A n \in h + 1 .. m : E[n] \in l + 1 .. l + w /\ E[n] - l \in S
  <2> SUFFICES ASSUME NEW n \in h + 1 .. m PROVE E[n] \in l + 1 .. l + w /\ E[n] - l \in S
    OBVIOUS
  <2>1. E[n] \in 2 .. l + w /\ stream[E[n]] = Newline
    BY <1>4, <1>7
  <2>2. ~(E[n] <= l)
    <3> SUFFICES ASSUME E[n] <= l PROVE FALSE
      OBVIOUS
    <3>1. E[n] \in 1 .. l /\ E[n] # 1
      BY <1>1, <2>1
    <3> QED
      BY <1>4, <1>6, <2>1, <3>1
  <2>3. E[n] \in l + 1 .. l + w /\ E[n] - l \in 1 .. w
    BY <1>1, <2>1, <2>2
  <2> QED
    BY <1>4, <1>5, <2>1, <2>3
<1> DEFINE f == [k \in 1 .. m - h |-> E[h + k] - l]
<1>10. \A k \in 1 .. m - h : h + k \in h + 1 .. m /\ h + k \in h .. m
  BY <1>1, <1>2
<1>11. f \in [1 .. m - h -> S]
  BY <1>9, <1>10
<1>12. \A j, k \in 1 .. m - h : j < k => f[j] < f[k]
  <2> SUFFICES ASSUME NEW j \in 1 .. m - h, NEW k \in 1 .. m - h, j < k PROVE f[j] < f[k]
    OBVIOUS
  <2>1. h + j \in h .. m /\ h + k \in h .. m /\ h + j < h + k
    BY <1>1, <1>10
  <2>2. E[h + j] < E[h + k] /\ E[h + j] \in Nat /\ E[h + k] \in Nat
    BY <1>8, <2>1
  <2>3. E[h + j] - l < E[h + k] - l
    BY <1>1, <2>2
  <2> QED
    BY <2>3
<1>13. \A i \in S : \E k \in 1 .. m - h : f[k] = i
  <2> SUFFICES ASSUME NEW i \in S PROVE \E k \in 1 .. m - h : f[k] = i
    OBVIOUS
  <2>1. i \in 1 .. w /\ inFlight[i] = Newline
    BY <1>5
  <2>2. l + i \in l + 1 .. l + w /\ l + i \in 1 .. l + w /\ (l + i) - l = i
    BY <1>1, <2>1
  <2>3. stream[l + i] = Newline
    BY <1>4, <2>1, <2>2
  <2>4. PICK n \in h + 1 .. m : E[n] = l + i
    BY <1>4, <1>7, <2>2, <2>3
  <2>5. n - h \in 1 .. m - h /\ h + (n - h) = n
    BY <1>1, <1>2
  <2> QED
    BY <2>2, <2>4, <2>5
<1>14. m - h \in Nat /\ S \in SUBSET Int
  BY <1>1, <1>2, <1>5
<1> HIDE DEF f
<1>15. Cardinality(S) = m - h
  BY <1>11, <1>12, <1>13, <1>14, AscendingIs
<1>16. Complete = SubSeq(sent, 1, h)
  <2>1. Complete = SubSeq(sent, 1, m - Cardinality(S))
    BY DEF Complete, m, S
  <2>2. m - (m - h) = h
    BY <1>1
  <2> QED
    BY <1>15, <2>1, <2>2
<1> DEFINE complete == SubSeq(sent, 1, h)
<1>17. \A n \in 1 .. h : n \in 1 .. m /\ sent[n] \in Lines
  <2>1. \A n \in 1 .. h : n \in 1 .. m
    BY <1>1, <1>2
  <2> QED
    BY <1>0, <2>1 DEF m
<1>18. /\ complete \in Seq(Lines) /\ Len(complete) = h
       /\ \A n \in 1 .. h : complete[n] = sent[n]
  <2>1. /\ complete \in Seq(Lines)
        /\ Len(complete) = IF 1 <= h THEN h - 1 + 1 ELSE 0
        /\ \A i \in 1 .. h - 1 + 1 : complete[i] = sent[1 + i - 1]
    BY <1>1, <1>17, SubSeqProperties
  <2>2. (IF 1 <= h THEN h - 1 + 1 ELSE 0) = h /\ h - 1 + 1 = h
    BY <1>1
  <2>3. \A i \in 1 .. h : 1 + i - 1 = i
    BY <1>1
  <2> QED
    BY <2>1, <2>2, <2>3
<1> HIDE DEF complete
<1>19. DOMAIN complete = 1 .. h
  BY <1>18
<1> QED
  BY <1>2, <1>16, <1>17, <1>18, <1>19 DEF h, complete

\* However the lines are cut or merged on their way, each is handled once, in
\* order, as soon as it is complete, as what it means and as it was sent (handleClient).
THEOREM LinesHandledAsSent == ClientSpec => []HandledAsSent
<1>1. ClientIInv => HandledAsSent
  <2> SUFFICES ASSUME Unframed, Framed, RegularLines(sent)
               PROVE  /\ Len(handled) = Len(Complete)
                      /\ \A n \in DOMAIN handled :
                           /\ handled[n].kind = Meaning(Complete[n])
                           /\ handled[n].kind # "invalid" => handled[n].args = Arguments(Complete[n])
    BY DEF HandledAsSent, RegularLines, ClientIInv
  <2>1. DOMAIN handled = 1 .. Len(handled)
    BY ClientTypeOKParts DEF Unframed
  <2>2. /\ Len(Complete) = Len(handled)
        /\ \A n \in 1 .. Len(handled) : handled[n] = Result(Complete[n])
    BY CompleteIs
  <2>3. \A line : /\ Result(line).kind = Meaning(line)
                  /\ Meaning(line) # "invalid" => Result(line).args = Arguments(line)
    BY DEF Result
  <2> QED
    BY <2>1, <2>2, <2>3
<1> QED
  BY <1>1, ClientInvariance, PTL

\* The reply to a question for a pixel fits, except for the newline if both
\* coordinates have ten digits.
LEMMA ReadFits ==
  ASSUME NEW line \in Lines, Regular(line), Meaning(line) = "read"
  PROVE  /\ Len(Arguments(line)) = 2
         /\ \/ PxLength(Arguments(line)) < OutCmdMaxLen
            \/ \A i \in 1 .. 2 : ArgWidth(Arguments(line)[i]) = 10
<1> DEFINE args == Arguments(line)
           words == WordsOf(line)
<1>1. PICK w \in Nat \ {0} : Len(line) = 2 * w /\ Reads(line, w)
  BY LineLength
<1>2. words = [k \in 1 .. w |-> line[2 * k - 1]]
  BY <1>1, WordsOfLine
<1>3. \A k \in 1 .. w : words[k] \in Words
  <2> SUFFICES ASSUME NEW k \in 1 .. w PROVE line[2 * k - 1] \in Words
    BY <1>2
  <2>1. 2 * k - 1 \in 1 .. Len(line) /\ 2 * k - 1 = 2 * (k - 1) + 1 /\ k - 1 \in Nat
    BY <1>1
  <2>2. (2 * (k - 1) + 1) % 2 = 1
    BY <2>1, Parity
  <2>3. (2 * k - 1) % 2 # 0
    BY <2>1, <2>2
  <2>4. line[2 * k - 1] \in Symbols /\ ~IsSeparator(line[2 * k - 1])
    BY <1>1, <2>1, <2>3 DEF Reads, Texts
  <2> QED
    BY <2>4 DEF Symbols, IsSeparator
<1>4. Len(words) = w
  BY <1>2
<1> HIDE DEF words
<1>5. w = 3
  BY <1>4 DEF Meaning, words
<1>6. args = [k \in 1 .. 2 |-> <<words[k + 1]>>]
  BY <1>4, <1>5 DEF Arguments, words
<1>7. args[1] = <<words[2]>> /\ args[2] = <<words[3]>> /\ Len(args) = 2
  BY <1>6
<1> HIDE DEF args
<1>8. ArgWidth(args[1]) = PrintedWidth[words[2]] /\ ArgWidth(args[2]) = PrintedWidth[words[3]]
  BY <1>7 DEF ArgWidth
<1>9. words[2] \in Words /\ words[3] \in Words
  BY <1>3, <1>5
<1>10. ArgWidth(args[1]) \in 1 .. 10 /\ ArgWidth(args[2]) \in 1 .. 10
  BY <1>8, <1>9, SourceAssumption
<1>11. PxLength(args) = 12 + ArgWidth(args[1]) + ArgWidth(args[2])
  BY DEF PxLength
<1>12. OutCmdMaxLen \in Nat /\ OutCmdMaxLen >= 32
  BY SourceAssumption
<1>13. PxLength(args) < OutCmdMaxLen \/ (ArgWidth(args[1]) = 10 /\ ArgWidth(args[2]) = 10)
  BY <1>10, <1>11, <1>12
<1>14. \A i \in 1 .. 2 : i = 1 \/ i = 2
  OBVIOUS
<1> QED
  BY <1>7, <1>13, <1>14 DEF args

\* Each complete question is answered once, in the order of the questions, with
\* the coordinates that were asked for, and the reply ends in a newline unless both
\* have ten digits (PixelFlutSource::handleCmd).
THEOREM RepliesMatchQuestions == ClientSpec => []RepliesAsAsked
<1>1. ClientIInv => RepliesAsAsked
  <2> SUFFICES ASSUME Unframed, Framed, RegularLines(sent) PROVE RepliesAsAsked
    BY DEF RepliesAsAsked, RegularLines, ClientIInv
  <2> DEFINE h == Len(handled)
             S == {i \in DOMAIN handled : IsAnswered(handled[i])}
             at == Ascending(S)
  <2>0. /\ handled \in Seq(ResultType) /\ h \in Nat /\ DOMAIN handled = 1 .. h
        /\ replies = Replies(handled)
    BY ClientTypeOKParts DEF Unframed, AnswersResults
  <2>1. /\ DOMAIN Complete = 1 .. h
        /\ \A n \in 1 .. h : /\ Complete[n] \in Lines /\ Regular(Complete[n])
                             /\ handled[n] = Result(Complete[n])
    <3>1. /\ DOMAIN Complete = 1 .. h
          /\ \A n \in 1 .. h : /\ Complete[n] = sent[n] /\ sent[n] \in Lines
                               /\ handled[n] = Result(Complete[n])
      BY CompleteIs
    <3>2. sent \in Seq(Lines) /\ h \in 0 .. Len(sent)
      BY ClientTypeOKParts DEF Unframed, Framed
    <3>3. \A n \in 1 .. h : n \in DOMAIN sent
      BY <2>0, <3>2
    <3> QED
      BY <3>1, <3>3 DEF RegularLines
  <2>2. \A line : IsAnswered(Result(line)) <=> Meaning(line) \in {"read", "size"}
    BY DEF IsAnswered, Result
  <2>3. S = {i \in DOMAIN Complete : Meaning(Complete[i]) \in {"read", "size"}}
    BY <2>0, <2>1, <2>2
  <2>4. PICK c \in Nat : /\ at \in [1 .. c -> 1 .. h]
                         /\ \A k \in 1 .. c : IsAnswered(handled[at[k]])
                         /\ Those(handled, IsAnswered) = [k \in 1 .. c |-> handled[at[k]]]
    BY <2>0, Answered DEF Positions
  <2> DEFINE questions == [k \in DOMAIN at |-> Complete[at[k]]]
             asked(n) == Arguments(questions[n])
             long(n) == Len(asked(n)) = 2 /\ \A i \in 1 .. 2 : ArgWidth(asked(n)[i]) = 10
  <2>5. questions = Those(Complete, LAMBDA line : Meaning(line) \in {"read", "size"})
    BY <2>3 DEF Those, Positions
  <2> HIDE DEF S, at, h
  <2>6. DOMAIN at = 1 .. c /\ Len(questions) = c /\ \A n \in 1 .. c : questions[n] = Complete[at[n]]
    BY <2>4
  <2> HIDE DEF questions
  <2>7. replies = [k \in 1 .. c |-> Reply(handled[at[k]])]
    <3>1. DOMAIN Those(handled, IsAnswered) = 1 .. c
      BY <2>4
    <3>2. Replies(handled) = [k \in 1 .. c |-> Reply(Those(handled, IsAnswered)[k])]
      BY <3>1 DEF Replies
    <3> QED
      BY <2>0, <2>4, <3>2
  <2>8. Len(replies) = c /\ DOMAIN replies = 1 .. c
    BY <2>7
  <2>9. ASSUME NEW n \in 1 .. c
        PROVE  replies[n].args = asked(n) /\ (replies[n].ended \/ long(n))
    <3> DEFINE line == questions[n]
               result == handled[at[n]]
    <3>1. at[n] \in 1 .. h /\ line = Complete[at[n]]
      BY <2>4, <2>6
    <3>2. line \in Lines /\ Regular(line) /\ result = Result(line)
      BY <2>1, <3>1
    <3>3. IsAnswered(result) /\ replies[n] = Reply(result)
      BY <2>4, <2>7
    <3> HIDE DEF line, result
    <3>4. Meaning(line) \in {"read", "size"}
      BY <2>2, <3>2, <3>3
    <3>5. result.kind = Meaning(line) /\ result.args = Arguments(line)
      BY <3>2, <3>4 DEF Result
    <3>6. /\ replies[n].args = Arguments(line)
          /\ replies[n].ended = (Meaning(line) = "read" => PxLength(Arguments(line)) < OutCmdMaxLen)
      BY <3>3, <3>5 DEF Reply
    <3>7. CASE Meaning(line) = "read"
      <4>1. /\ Len(Arguments(line)) = 2
            /\ \/ PxLength(Arguments(line)) < OutCmdMaxLen
               \/ \A i \in 1 .. 2 : ArgWidth(Arguments(line)[i]) = 10
        BY <3>2, <3>7, ReadFits
      <4> QED
        BY <3>6, <4>1 DEF line
    <3>8. CASE Meaning(line) # "read"
      BY <3>6, <3>8 DEF line
    <3> QED
      BY <3>7, <3>8
  <2> QED
    BY <2>5, <2>6, <2>8, <2>9 DEF RepliesAsAsked
<1> QED
  BY <1>1, ClientInvariance, PTL

=============================================================================
