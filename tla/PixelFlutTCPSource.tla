------------------------- MODULE PixelFlutTCPSource -------------------------
(***************************************************************************)
(* The receive loop of PixelFlutTCPSource, the sockets of the operating    *)
(* system it polls, the peers at their other ends, and stop().             *)
(*                                                                         *)
(* ClientInfo objects live on the heap and are known by their addresses,   *)
(* in _clients, which maps descriptors to them, and in _clientCache, which *)
(* follows the slots of the poll array.  What a client sends is left to    *)
(* PixelFlutClient.                                                        *)
(***************************************************************************)
EXTENDS Integers, Sequences, FiniteSets, FiniteSetsExt, Enumeration

CONSTANTS
  MaxClients, \* MAX_NUM_CLIENTS
  Descriptors,\* the descriptors accept() can return
  Addresses,  \* the addresses new ClientInfo() can return
  MaxBacklog  \* bound on the connections that wait for accept()

ASSUME TCPSourceAssumption ==
  /\ MaxClients \in Nat \ {0}
  /\ IsFiniteSet(Descriptors)
  /\ Descriptors \subseteq Nat
  /\ Addresses \subseteq Nat \ {0}
  /\ MaxBacklog \in Nat

VARIABLES
  run,        \* _run
  loop,       \* where the receive thread is
  clients,    \* _clients: the address for each descriptor, or nullptr
  heap,       \* the clientSocket of the object at each address, or Freed
  cache,      \* _clientCache
  slots,      \* the descriptors in fds[1 .. nfds - 1]
  rebuild,    \* rebuildFdMap
  ready,      \* the slots whose revents hold POLLIN
  next,       \* the slot the scan comes to next; 0 is the server socket
  owner,      \* the thread that calls stop()
  backlog,    \* connections that wait for accept()
  sockets,    \* state of every descriptor: "free", "open", "eof" when the peer
              \* has closed its end, "reset" when the connection has failed
  unread,     \* open descriptors with data that was not received
  stalled     \* open descriptors whose peer reads no replies

loopVars == <<loop, clients, heap, cache, slots, rebuild, ready, next>>
netVars == <<backlog, sockets, unread, stalled>>
vars == <<run, loopVars, owner, netVars>>

\* What accept() returns when it fails; it becomes a key of _clients, too.
NoSocket == -1

nullptr == 0

\* No object lives at the address.
Freed == -2

Keys == Descriptors \cup {NoSocket}

ClientKeys == {d \in Keys : clients[d] # nullptr}

Init ==
  /\ run = TRUE
  /\ loop = "top"
  /\ clients = [d \in Keys |-> nullptr]
  /\ heap = [a \in Addresses |-> Freed]
  /\ cache = <<>>
  /\ slots = <<>>
  /\ rebuild = FALSE
  /\ ready = {}
  /\ next = 0
  /\ owner = "running"
  /\ backlog = 0
  /\ sockets = [d \in Descriptors |-> "free"]
  /\ unread = {}
  /\ stalled = {}

-----------------------------------------------------------------------------
(* The peers                                                               *)

Connect ==
  /\ owner # "stopped"
  /\ backlog < MaxBacklog
  /\ backlog' = backlog + 1
  /\ UNCHANGED <<run, loopVars, owner, sockets, unread, stalled>>

\* A connection that is reset before accept() is gone.  accept() may then fail
\* and leak an object; the bound keeps addresses for the clients.
GiveUp ==
  /\ backlog > 0
  /\ Cardinality({a \in Addresses : heap[a] = Freed}) + Cardinality(ClientKeys) > MaxClients
  /\ backlog' = backlog - 1
  /\ UNCHANGED <<run, loopVars, owner, sockets, unread, stalled>>

PeerSend(d) ==
  /\ sockets[d] = "open"
  /\ unread' = unread \cup {d}
  /\ UNCHANGED <<run, loopVars, owner, backlog, sockets, stalled>>

PeerClose(d) ==
  /\ sockets[d] = "open"
  /\ sockets' = [sockets EXCEPT ![d] = "eof"]
  /\ stalled' = stalled \ {d}
  /\ UNCHANGED <<run, loopVars, owner, backlog, unread>>

\* The connection fails, and what was not received may be lost with it.
PeerReset(d) ==
  /\ sockets[d] = "open"
  /\ sockets' = [sockets EXCEPT ![d] = "reset"]
  /\ unread' \in {unread, unread \ {d}}
  /\ stalled' = stalled \ {d}
  /\ UNCHANGED <<run, loopVars, owner, backlog>>

\* The replies that a peer does not read fill its window, until it reads them.
PeerStall(d) ==
  /\ sockets[d] = "open"
  /\ stalled' = IF d \in stalled THEN stalled \ {d} ELSE stalled \cup {d}
  /\ UNCHANGED <<run, loopVars, owner, backlog, sockets, unread>>

Peers ==
  \/ Connect
  \/ GiveUp
  \/ \E d \in Descriptors : PeerSend(d) \/ PeerClose(d) \/ PeerReset(d) \/ PeerStall(d)

-----------------------------------------------------------------------------
(* The receive loop                                                        *)

\* Mutant of Slots: the last client is left out.
SlotsButLast == Ascending({d \in ClientKeys : \E e \in ClientKeys : d < e})

\* The descriptors of the clients, as they go into the poll array: in the order
\* of a std::map.
Slots == Ascending(ClientKeys)

\* The head of the loop: the poll array follows _clients.
Top ==
  /\ loop = "top"
  /\ loop' = IF run THEN "poll" ELSE "ended"
  /\ IF run /\ rebuild
       THEN /\ slots' = Slots
            /\ cache' = [k \in DOMAIN Slots |-> clients[Slots[k]]]
            /\ rebuild' = FALSE
       ELSE UNCHANGED <<slots, cache, rebuild>>
  /\ UNCHANGED <<run, clients, heap, ready, next, owner, netVars>>

Readable(d) == d \in unread \/ sockets[d] \in {"eof", "reset"}

\* poll() returns the slots that can be read, or none after 250 ms.  Slots
\* without a descriptor are ignored.
Poll ==
  /\ loop = "poll"
  /\ LET readable == {k \in DOMAIN slots : slots[k] # NoSocket /\ Readable(slots[k])}
                       \cup (IF backlog > 0 THEN {0} ELSE {})
     IN /\ ready' = readable
        /\ loop' = IF readable = {} THEN "top" ELSE "scan"
  /\ next' = 0
  /\ UNCHANGED <<run, clients, heap, cache, slots, rebuild, owner, netVars>>

\* Mutant of Advance: the scan ends with the first slot that was ready.
AdvanceToFirstReady ==
  /\ next' = IF next = Len(slots) \/ next \in ready THEN 0 ELSE next + 1
  /\ ready' = ready \ {next}
  /\ loop' = IF next = Len(slots) \/ next \in ready THEN "top" ELSE "scan"

\* The scan goes on behind the slot it was at.
Advance ==
  /\ next' = IF next = Len(slots) THEN 0 ELSE next + 1
  /\ ready' = ready \ {next}
  /\ loop' = IF next = Len(slots) THEN "top" ELSE "scan"

Skip ==
  /\ loop = "scan"
  /\ next \notin ready
  /\ Advance
  /\ UNCHANGED <<run, clients, heap, cache, slots, rebuild, owner, netVars>>

\* accept() returns the lowest free descriptor, or fails: the connection was
\* reset meanwhile, or no descriptor is left.
AcceptReturns(fd) ==
  \/ /\ backlog > 0
     /\ \E d \in Descriptors : sockets[d] = "free"
     /\ fd = Min({d \in Descriptors : sockets[d] = "free"})
     /\ backlog' = backlog - 1
     /\ UNCHANGED <<unread, stalled>>
  \/ /\ backlog = 0 \/ \A d \in Descriptors : sockets[d] # "free"
     /\ fd = NoSocket
     /\ UNCHANGED <<backlog, unread, stalled>>

\* std::map::insert() does nothing if the key is there; the new object leaks.
Insert(fd, address) ==
  clients' = IF clients[fd] = nullptr THEN [clients EXCEPT ![fd] = address] ELSE clients

\* Mutant of Full: clients without a descriptor are not counted.
FullOfDescriptors == Cardinality(ClientKeys \ {NoSocket}) = MaxClients

Full == Cardinality(ClientKeys) = MaxClients

AcceptClient ==
  /\ loop = "scan" /\ next = 0 /\ 0 \in ready
  /\ \E fd \in Keys :
       /\ AcceptReturns(fd)
       /\ IF Full
            THEN UNCHANGED <<clients, heap, rebuild, sockets>>   \* close()
            ELSE /\ \E address \in {a \in Addresses : heap[a] = Freed} :
                      /\ heap' = [heap EXCEPT ![address] = fd]
                      /\ Insert(fd, address)
                 /\ rebuild' = TRUE
                 /\ sockets' = IF fd = NoSocket THEN sockets
                                                ELSE [sockets EXCEPT ![fd] = "open"]
  /\ Advance
  /\ UNCHANGED <<run, cache, slots, owner>>

AtClient == loop = "scan" /\ next \in ready /\ next # 0

\* recv() returns data for the client that _clientCache names.  Commands in it
\* may ask for replies, which are sent in one step.
Receive ==
  /\ AtClient
  /\ slots[next] \in unread
  /\ unread' = unread \ {slots[next]}
  /\ \/ Advance
     \/ loop' = "send" /\ UNCHANGED <<next, ready>>
  /\ UNCHANGED <<run, clients, heap, cache, slots, rebuild, owner, backlog, sockets, stalled>>

\* send() blocks while the peer reads no replies.  If the peer is gone it fails,
\* which nobody looks at, or raises SIGPIPE, whose default action ends the process.
FinishSend ==
  /\ loop = "send"
  /\ LET fd == heap[cache[next]]
     IN /\ fd \notin stalled
        /\ \/ Advance
           \/ sockets[fd] \in {"eof", "reset"} /\ loop' = "killed" /\ UNCHANGED <<next, ready>>
  /\ UNCHANGED <<run, clients, heap, cache, slots, rebuild, owner, netVars>>

\* recv() fails and returns -1: neither branch is taken and the client stays.
\* The next recv() fails again, or returns 0 because the error was reported.
ReceiveFails ==
  /\ AtClient
  /\ slots[next] \notin unread
  /\ sockets[slots[next]] = "reset"
  /\ sockets' \in {sockets, [sockets EXCEPT ![slots[next]] = "eof"]}
  /\ Advance
  /\ UNCHANGED <<run, clients, heap, cache, slots, rebuild, owner, backlog, unread, stalled>>

\* Mutant of RemoveClient: the object is not deleted.
RemoveClientKeepingObject(fd, address) ==
  /\ sockets' = [sockets EXCEPT ![fd] = "free"]
  /\ clients' = [clients EXCEPT ![fd] = nullptr]
  /\ UNCHANGED heap

\* What becomes of the client: close(), erase(), delete.
RemoveClient(fd, address) ==
  /\ sockets' = [sockets EXCEPT ![fd] = "free"]
  /\ clients' = [clients EXCEPT ![fd] = nullptr]
  /\ heap' = [heap EXCEPT ![address] = Freed]

\* Mutant of Disconnect: the poll array is not rebuilt.
DisconnectStale ==
  /\ AtClient
  /\ slots[next] \notin unread
  /\ sockets[slots[next]] = "eof"
  /\ RemoveClient(slots[next], cache[next])
  /\ Advance
  /\ UNCHANGED <<run, cache, slots, rebuild, owner, backlog, unread, stalled>>

\* recv() returns 0: the client is gone.
Disconnect ==
  /\ AtClient
  /\ slots[next] \notin unread
  /\ sockets[slots[next]] = "eof"
  /\ RemoveClient(slots[next], cache[next])
  /\ rebuild' = TRUE
  /\ Advance
  /\ UNCHANGED <<run, cache, slots, owner, backlog, unread, stalled>>

ReceiveLoop ==
  \/ Top \/ Poll \/ Skip \/ AcceptClient
  \/ Receive \/ FinishSend \/ ReceiveFails \/ Disconnect

-----------------------------------------------------------------------------
(* stop()                                                                  *)

Alive == loop # "killed"

\* Mutant of Stop: _run is not cleared.
StopKeepsRunning ==
  /\ Alive
  /\ owner = "running"
  /\ owner' = "join"
  /\ UNCHANGED <<run, loopVars, netVars>>

Stop ==
  /\ Alive
  /\ owner = "running"
  /\ run' = FALSE
  /\ owner' = "join"
  /\ UNCHANGED <<loopVars, netVars>>

\* join() returns and the server socket is closed; the clients stay as they are.
Join ==
  /\ owner = "join"
  /\ loop = "ended"
  /\ owner' = "stopped"
  /\ backlog' = 0
  /\ UNCHANGED <<run, loopVars, sockets, unread, stalled>>

Next == Alive /\ (Peers \/ ReceiveLoop \/ Stop \/ Join)

\* The receive thread and a thread in stop() keep running.  Nothing is assumed
\* of the peers.
Fairness == WF_vars(Alive /\ ReceiveLoop) /\ WF_vars(Join)

Spec == Init /\ [][Next]_vars /\ Fairness

-----------------------------------------------------------------------------
(* Properties                                                              *)

\* The fields of the source and of the loop have the values of their types, and
\* revents and the scan refer to slots of the poll array.
TypeOK ==
  /\ run \in BOOLEAN
  /\ loop \in {"top", "poll", "scan", "send", "ended", "killed"}
  /\ clients \in [Keys -> Addresses \cup {nullptr}]
  /\ heap \in [Addresses -> Keys \cup {Freed}]
  /\ slots \in Seq(Keys)
  /\ cache \in Seq(Addresses)
  /\ Len(cache) = Len(slots)
  /\ rebuild \in BOOLEAN
  /\ ready \subseteq 0 .. Len(slots)
  /\ next \in 0 .. Len(slots)
  /\ owner \in {"running", "join", "stopped"}
  /\ backlog \in 0 .. MaxBacklog
  /\ sockets \in [Descriptors -> {"free", "open", "eof", "reset"}]
  /\ unread \subseteq Descriptors
  /\ stalled \subseteq Descriptors

\* Slots whose client has not been removed in the running scan.
Current(k) ==
  \/ loop \in {"scan", "send"} /\ next <= k
  \/ loop \in {"top", "poll"} /\ ~rebuild

\* When the scan comes to a slot that holds a descriptor, this is still open
\* and _clientCache leads to the live object of the same client.  (Slots that
\* the loop has dealt with may be stale until the poll array is rebuilt.)
SlotsCurrent ==
  \A k \in DOMAIN slots : Current(k) /\ slots[k] # NoSocket =>
    /\ sockets[slots[k]] # "free"
    /\ clients[slots[k]] = cache[k]
    /\ heap[cache[k]] = slots[k]

\* No descriptor and no object is lost: every accepted connection belongs to a
\* client, and every object to an entry of _clients, unless accept() failed
\* while an entry for such a failure was there.
NothingLeaks ==
  /\ \A d \in Descriptors : sockets[d] # "free" <=> clients[d] # nullptr
  /\ \A a \in Addresses : heap[a] # Freed => clients[heap[a]] = a \/ heap[a] = NoSocket

\* The poll array has room for the clients: there are never more than
\* MAX_NUM_CLIENTS, those without a descriptor included.
WithinLimit == Cardinality(ClientKeys) <= MaxClients /\ Len(slots) <= MaxClients

\* The loop hangs in send() for good.  (A pass through a send() that returns is no
\* excuse.)
Blocked == <>[](loop = "send")

\* Nobody waits for the loop any more: SIGPIPE has ended the process, or stop()
\* has been called.  Neither is ever undone.
Over == loop = "killed" \/ ~run

\* A peer that keeps sending, or asking, does not keep the loop from another one:
\* data that has arrived is received, unless the loop blocks for good or is over.
DataReceived ==
  \A d \in Descriptors : Blocked \/ (d \in unread ~> d \notin unread \/ Over)

\* A client that has closed its end is removed, under the same proviso.  (One
\* whose recv() fails is not, as long as it goes on failing.)
GoneClientsRemoved ==
  \A d \in Descriptors :
    Blocked \/ (sockets[d] = "eof" ~> sockets[d] = "free" \/ Over)

\* stop() returns, unless the loop blocks for good or the process is killed.
StopEnds == Blocked \/ (owner = "join" ~> owner = "stopped" \/ loop = "killed")

=============================================================================
