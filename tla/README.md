# floodfill in TLA+

floodfill shows an image in an X11 window and lets PixelFlut clients paint on it
over TCP. This directory models the program in TLA+, checks the models with TLC
and proves the most important results with TLAPS. `PROJECT.json` lists the runs,
the lines each definition models, the hazards and the theorems; this file
explains them. Paths are relative to the root of the repository.

## 1. The system

| part | state | operations | with whom it interacts |
|---|---|---|---|
| `DrawQueue` (`src/DrawQueue.cpp`) | a buffer, `_allocIndex` (atomic), `_lastElementIndex` (plain) | `allocateDrawOpRaw`, `hookInLast`, iterator, `clear` | filled by the threads of the draw sources, read and cleared by the main thread |
| `FloodFillDrawIF` (`src/FloodFill.cpp`) | two queues, a spin lock | `queueDrawCmd`, `exchangeQueues`, `readPixel` | called by draw sources and by the main loop |
| `SpinLock` (`src/SpinLock.cpp`) | one atomic word | `lock`, `unlock` | around both operations above |
| main loop (`src/FloodFill.cpp`) | `_run`, the image, targets and sources | `mainLoop`, `renderDrawQueue`, `stop`, add/remove of targets and sources | swaps the queues once per frame and draws the old one |
| `ThreadPool` (`src/ThreadPool.cpp`) | task queue, mutex, condition variable, a state and a shutdown flag per worker | `queue`, constructor, destructor | four workers belong to `FloodFill`; nobody queues a task yet |
| `PixelFlutTCPSource` | server socket, `_clients`, `_clientCache`, the poll array, `_run` | `start`, `stop`, `receiveLoop`, `handleClient` | a thread of its own; the kernel and the peers on the other side |
| `PixelFlutSource` | - | `handleCmd`, `parseCmd` | turns the lines of a client into calls of `FloodFillDrawIF` |
| `main`, `signal_handler` (`src/main.cpp`) | `floodFillInst` | builds, runs and destroys everything | SIGINT at any time |
| `ArgParser` | the registered arguments, their values | `addArgument`, `parse` | used once by `main` |
| `Renderer` | the draw buffer, an operation object with a bare pointer to its pixels | `setDrawBuffer`, `drawPoint`, `getPixel` | drawn with by the main loop, read from by the receive thread |
| `Image`, `BulkData`, `ObjectRef` | shape of an image, its storage, reference counts | construction, copy, assignment, destruction | `FloodFill`, `Renderer` and the window share one storage |
| `X11RenderTarget` | the window, an `XImage` over the pixels of the image | `init`, `setOutImage`, `process`, `destruct` | shows the image, frees its pixels, asks to exit |
| `PixelFlutUDPSource`, `RwLock` | - | empty | unused |

What is hard in it:

* **Data races by design.** `_lastElementIndex` and the links are plain words
  that several threads read and write; the only atomic step is `fetch_add`.
* **The spin lock does not lock.** `lock()` repeats *while* the exchange
  succeeds: it waits when the lock is free and goes on when it is taken. All that
  keeps producers and the switch of the queues apart is luck.
* **A full queue.** `allocateDrawOpRaw` returns `nullptr`, `queueDrawCmd` copies
  to it.
* **Threads that wait and are woken**: lost wake-ups, a destructor that races
  with threads that have hardly begun.
* **Bookkeeping that is stale for a while** in the receive loop, which must never
  use a descriptor or an object of a client that is gone.
* **Framing**: TCP cuts the lines anywhere.
* **Beginning and end of the process**: failing starts, signals, the order of
  destruction.
* **Pixels with several owners**: images that count references, a renderer that
  keeps a bare pointer beside its reference, and a window that frees storage which
  `BulkData` does not free.
* **Pixels without a lock**: the receive thread reads what the main thread draws.
* **Numbers that are cut**: bytes when colours are blended, 32 of the 64 bits that
  `strtoul` reads, 32 characters of a reply.

The hazards, each with its line, are in `PROJECT.json`.

## 2. The modules

| module | what it is |
|---|---|
| `DrawQueue` | the data structure: one operator per access to memory |
| `SharedDrawQueue` | n producers, one owner, one queue |
| `SpinLock` | its two atomic accesses |
| `DrawIF` | composes two `DrawQueue`s, `SpinLock`, producers and the main loop |
| `TaskPool` | abstract: what a thread pool promises |
| `ThreadPool` | the pool in detail; implements `TaskPool` |
| `Enumeration` | sets of numbers in ascending order: the keys of a `std::map`, the places a search finds |
| `PixelFlutSource` | one command and its reply, as `parseCmd` and `handleCmd` make them |
| `PixelFlutClient` | one connection: segments, `dataBuffer`, `handleClient`, replies |
| `PixelFlutTCPSource` | the receive loop with its clients, the kernel, the peers, `stop` |
| `Lifecycle` | `main` from the first line to the last, the window, the life of the pixels |
| `ArgParser` | registration of the arguments and `parse` over one command line |
| `SharedData` | abstract: data exists exactly as long as somebody holds it |
| `ObjectRef` | a reference and the counter it works on |
| `Image` | constructors, assignment and destruction of an image over `ObjectRef` |
| `Renderer` | composes images with `setDrawBuffer` and its operation object; implements `SharedData` |
| `Pixel` | colours of 6 and 8 digits, blending, the order of bytes |
| `SharedPixel` | `drawPoint` and `getPixel` on one pixel by two threads |
| `DrawQueueProofs` | lemmas about the accesses, for the two modules that use them |
| `SharedDrawQueueProofs`, `DrawIFProofs`, `ThreadPoolProofs`, `LifecycleProofs`, `ArgParserProofs` | lemmas and theorems about the module of that name |
| `RendererProofs` | the same about `Renderer` and about `SharedPixel`, whose specification is called `PixelSpec` so that one module can extend both |
| `PixelFlutTCPSourceProofs` | the same about `PixelFlutTCPSource` and about its connections: `PixelFlutClient`, whose specification is called `ClientSpec`, and `PixelFlutSource` |
| `MC*` | instances for TLC |

### How they correspond to the code

**Granularity.** In `SharedDrawQueue` and `DrawIF` every access that a producer or
the iterator makes to the shared words of a queue is an action, in program order,
the two of `increment()` included (`FollowLink`, `CutLink`): the build has no optimisation (`Makefile`) and
the target is x86, whose stores by one thread are seen in order. A producer's
`pc` is the next access of `allocateDrawOpRaw` (`check`, `claim`, `init`,
`hook`, then `first`, or `readTail`, `setLast` and `link`, then `fill`). Note
that `hookInLast` reads `_lastElementIndex` twice, which is why `hook` and
`readTail` are two steps. In `ThreadPool` a section that holds the mutex is one
action, since nothing else reads what it writes except `_workerState` and
`_shutdown`, which are steps of their own. In `PixelFlutTCPSource` one turn of
the scan over the poll array is one action: that state belongs to one thread.
Three things of `DrawIF` are coarser: the renderer looks at an element and clamps its
position in one step (it draws it in the next, for a late `memcpy` can come in
between), the exchange of the two queue pointers is one step, and so is a `memcpy`,
which `SharedDrawQueue` takes in two halves. In `SharedPixel` each
channel is stored and loaded on its own, in any order. In `Renderer` an operation
on an image is one action: the counters are not atomic, and only the main thread
touches a reference. (The temporary reference in `setOutImage` comes and goes
within one call and is left out.)

**Data.** A command has two halves, position and colour, since `memcpy` may store
them in either order; in `DrawIF` one coordinate stands for x and y, and a
position `Width` for all those outside. Offsets and link words are numbers modulo
`WordSize`. A line of a client is a sequence of words and separators. Of `atoi`
only the width of what is printed again is modelled (`PrintedWidth`): the length
of a reply follows from it. A text on the command line is what the converters look
at: the number that `strtoul` reads, whether there is a dash, and whether it is
`true`; the number is cut to `UnsignedRange` as in the code. Pixels of an image
are an object that is counted, and in `SharedPixel` three channels with the
arithmetic of `pixelAlphaBlend` for bytes from 0 to `Max`.

**External code.** `accept`, `poll`, `recv`, peers, `notify_all`, SIGPIPE and the window
are modelled from how the code uses them, marked external in the map.

**History variables.** `frees` in `Lifecycle` (how often the pixels were freed),
`replies` in `PixelFlutClient`, `before`, `last` and `overlap` in `SharedPixel`,
`accepted` (which commands were queued since the last
`clear`) and `raced` in `DrawIF`. A queue is *raced* from the switch on if a
producer is between `getCurrentWriteQueue` and the end of its `memcpy` on it, or
if a producer gets it before the switch has cleared it. The properties say
exactly what the program guarantees when that does not happen, and which
guarantees are left when it does.

**Mutants.** Operators whose comment begins "Mutant of" are not part of a
specification: each is a plausible error in the definition below it, and the
property that finds it is named in `PROJECT.json`.

## 3. The runs

All bounds are constants of the modules or of their `MC` instance.

| run | instance | what it shows |
|---|---|---|
| `queue` | 2 producers, 3 elements of 3 bytes in a buffer of 10, two commands | what holds for racing producers: disjoint elements, intact commands, no wrap-around, the first element and every link of an accepted one lead to accepted ones once the producers are quiet, and an iteration ends while elements are added |
| `queue_lost` | the same | *violation* of `NothingLost`: 2 producers lose an element |
| `frame_safety` | 1 producer, 2 elements per queue, a position inside and one outside | frames are exact, or the queue was raced; crashes only when full or raced; the renderer stays on elements; it draws inside the image and advances, if the queue was not raced |
| `frame_hang` | 1 producer, 2 elements of 1 byte, one command | *violation* of `FrameEnds`: the render loop can run for ever |
| `pool` | 2 workers, 2 submitters, 3 tasks of 2 kinds | no lost wake-up, no thread left, tasks are started, the destructor ends, refinement of `TaskPool` |
| `client` | 4 lines out of 8 kinds, any segments up to 12 symbols | each line handled once, in order, as meant, with its own arguments, and each question answered in its turn, if in every line words and separators alternate from a word on; with blank and indented lines too, no complete line waits |
| `tcp` | at most 2 clients, 3 descriptors, 4 addresses, backlog 1 | cache, map and poll array agree where they are used; nothing leaks; the limit holds; unless the loop blocks in `send` for good, every client is served, those that closed are removed (one that reset its connection stays: `recv` returns -1, which the code passes over), and `stop` ends |
| `lifecycle` | 2 signals, at most 2 commands in a buffer | nobody uses pixels that are freed or an interface that is deleted, pixels are freed once, the server socket is not left, the process never ends in `std::terminate()` under a running receive thread, and a request to stop ends it unless a frame or a `send` hangs for good |
| `args_lines` | 3 lists of arguments, 5 elements out of 11 | a list is refused just when two names clash; outcome and values are those of a declarative reading of the whole line |
| `args_range` | 4 elements | *violation* of `ValuesInRange` |
| `images` | 2 images of a caller, 4 objects, 3 formats | counters are exact; the renderer's bare pointer is live, and there is one when it is followed; refinement of `SharedData` |
| `pixel` | bytes from 0 to 3, 5 colours | blending stays between the two colours; a read that no drawing overlaps is one colour; opaque colours come back |

Why the bounds are enough: two producers are needed to race in `hookInLast`, and
a third adds no new pair of accesses; a buffer of two or three elements has a
first, a middle and a last one, an element that does not fit, and an overshoot of
the counter. The sizes are chosen so that the end of an element falls on, before
and behind the end of the buffer. For two queues, the interesting races need one
producer and two switches; more frames repeat the state. Two workers are
needed for one to miss what the other gets. Two signals put one before and one
after any step of `main`, and two commands let one call draw and the next send.
Two clients with a third descriptor
let a descriptor be closed and handed out again in the same scan. Four lines in
segments of any length put a newline first, last and in the middle of a buffer,
and a second and a third command into one buffer; the coordinates print as one,
nine and ten digits, on both sides of the 31 characters a reply has room for. The
renderer and its operation may hold an object each beside the two images of a
caller, so four objects let no one share. Bytes of four values have the two
ends of alpha and two translucent steps. Numbers of four bits make `20` read as 4.
The theorems lift the bounds of `queue`, `pool`, `images`, `pixel`, `lifecycle`,
`client`, `args_lines` and, but for liveness, of `tcp` altogether, and those of
`frame_safety` as far as the number of producers allows (see 4). The type
invariants are proved and are not repeated in the runs. What only the runs show is
liveness.

`CHECK_DEADLOCK FALSE` stands where the system may really stop: the process ends,
a peer stops sending, a command line is parsed.

**Fairness.**
* Threads keep running inside a call (weak fairness of `Produce`,
  `QueueDrawCmd`, `Increment` with both its accesses, the main loop): the scheduler
  of the operating
  system. Nobody has to *make* a call, connect, send or read.
* `ThreadPool`: tasks return and a second passes (`wait_for`). Without the
  time-out `DestructorEnds` does not hold, which its mutant shows.
* `PixelFlutTCPSource`: the loop runs. `send` blocks while the peer reads nothing, so
  the properties except `Blocked`: that the loop is in one `send` for ever. That it
  passes through a `send` that returns, however often, is no exception.
* `Lifecycle`: `main` and the receive thread keep running (weak fairness), but for
  two places of which nothing is assumed: a frame (`DrawIF_hang` has one that does
  not end) and `send`. `StopRequestEnds` excepts a process that is in one of
  them for ever. A buffer holds finitely many commands, which the model counts, so
  the receive thread comes back to the head of its loop by itself. Nothing is
  assumed of the workers of the pool.

### What the violations show

1. `queue_lost`: two producers see no tail, or the same one; one element is
   linked from nowhere. `include/DrawQueue.h:10` calls the queue thread safe.
   With the single receive thread of today's `main` this does not happen:
   `FrameExact` has every command in its frame.
2. `frame_hang`: `SpinLock::lock()` goes on when it finds the lock taken, so a
   call can be overtaken by two switches and link an element to itself; the main
   thread never leaves `renderDrawQueue`. `include/DrawIF.h:11-12`. The lock is
   the root: with a `LockAgain` that repeats while the lock is taken, the same
   run finds no violation.
3. `args_range`: `setValueFromStr` overwrites the value before it validates it
   and its result is ignored: `--fps 0` is accepted, and so is
   `--width 640 --width 9999`.

One oddity is not a violation but part of a property: `begin()` is always offset
0, so a frame without commands draws the first command of an earlier frame again.
(It is the same pixel in the same colour, unless the colour is translucent or the
pixel was drawn over.) `FrameExact` states precisely this much. Likewise `RepliesAsAsked` has the one
reply that loses its newline (both coordinates print as ten digits, so that
`snprintf` cuts it), and `OpHoldsItsPixels` says no more than that the operation's
pixels live: after `setDrawBuffer` with an image of the same format they are those
of the image before, which `PartedOnlyBySameFormat` states and a theorem proves.

## 4. The proofs

| theorem | property | for all |
|---|---|---|
| `SharedDrawQueueProofs!TypeCorrect` | `TypeOK` | sizes, producers |
| `AllocationsDisjoint` | `ElementsDisjoint` | sizes, producers |
| `CommandsIntact` | `AcceptedIntact` | sizes, producers |
| `NoCounterOverflow` | `CounterBounded` | sizes, producers |
| `OnlyAcceptedVisited` | `VisitedAccepted` | sizes, producers |
| `DrawIFProofs!TypeCorrect` | `TypeOK` | sizes, image, commands, producers |
| `ElementsReadWhole` | `ReadsWholeElements` | sizes, image, commands, producers |
| `PointsInside` | `DrawsInside` | sizes, image, commands, producers |
| `FramesExact` | `FrameExact` | sizes, image, commands; one producer |
| `CrashesExplained` | `CrashOnlyFullOrRaced` | sizes, image, commands; one producer |
| `RenderingAdvances` | `RenderAdvances` | sizes, image, commands; one producer |
| `ThreadPoolProofs!TypeCorrect` | `TypeOK` | workers, submitters, tasks |
| `NoLostWakeUp` | `NoSleepingOnWork` | workers, submitters, tasks |
| `NoThreadOutlivesPool` | `DestroyedMeansEnded` | workers |
| `AbortOnlyOverNewThread` | `AbortOnlyBeforeFirstRun` | workers |
| `Refinement` | `ImplementsTaskPool` | workers, submitters, tasks |
| `RendererProofs!TypeCorrect` | `TypeOK` | images, objects, formats |
| `CountersExact` | `CountsReferences` | images, objects, formats |
| `NoWildPointers` | `NoWildReference` | images, objects, formats |
| `OpPixelsLive`, `OpPresent` | `OpHoldsItsPixels`, `OpMatchesFormat` | images, objects, formats |
| `PartedOnlyThen` | `PartedOnlyBySameFormat` | images, objects, formats |
| `Refinement` | `ImplementsSharedData` | images, objects, formats |
| `PixelTypeCorrect` | `PixelTypeOK` | widths of a byte, colours |
| `ChannelsBetween` | `BlendsBetween` | widths of a byte, colours |
| `ReadsWhole` | `WholeUnlessOverlapped` | widths of a byte, colours |
| `ColourComesBack` | `ReadsBack` | widths of a byte, colours |
| `LifecycleProofs!TypeCorrect` | `TypeOK` | signals, commands in a buffer |
| `InterfaceAlive`, `PixelsAlive` | `InterfaceOutlivesCalls`, `PixelsOutliveUse` | signals, commands in a buffer |
| `OneFree` | `PixelsFreedOnce` | signals, commands in a buffer |
| `SocketClosed` | `ServerSocketClosed` | signals, commands in a buffer |
| `EndsExplained` | `HowItEnds` | signals, commands in a buffer |
| `PixelFlutTCPSourceProofs!TypeCorrect` | `TypeOK` | limit, descriptors, addresses, backlog |
| `SlotsStayCurrent` | `SlotsCurrent` | limit, descriptors, addresses, backlog |
| `LeaksOnlyFailedAccepts` | `NothingLeaks` | limit, descriptors, addresses, backlog |
| `ClientsWithinLimit` | `WithinLimit` | limit, descriptors, addresses, backlog |
| `ClientTypeCorrect` | `ClientTypeOK` | lines and their number, sizes of the buffers |
| `NoLineIsLeft` | `NoLineWaits` | lines and their number, sizes of the buffers |
| `LinesHandledAsSent` | `HandledAsSent` | lines and their number, sizes of the buffers |
| `RepliesMatchQuestions` | `RepliesAsAsked` | lines and their number, sizes of the buffers |
| `ArgParserProofs!TypeCorrect` | `TypeOK` | arguments, texts, length of the line |
| `NamesUnambiguous` | `OptionsUnambiguous` | arguments |
| `OutcomesMeant` | `OutcomeAsMeant` | arguments, texts, length of the line |
| `ValuesGiven` | `ValuesAsGiven` | arguments, texts, length of the line |

**Assumptions.** `QueueAssumption` (sizes are positive and the buffer is smaller
than the range of a word), `ProducersAssumption` (finitely many producers, and
the buffer ends at least one element per producer below 2^32: with 2^30 bytes and
24-byte elements that is more than a hundred million threads).
`DrawIFAssumption` asks the same, and that a buffer holds more than one element
and that each coordinate inside the image can be written in a command, so that a
clamped one is a position again. `TCPSourceAssumption` says that descriptors are
finitely many numbers, that an address is not 0 and that the limit is positive;
`ClientAssumption` that a line ends in its only newline; `SourceAssumption` that a
word is no separator, that what `%u` prints has one to ten digits, and that the
buffer of a reply has 32 characters at least, which it has (`OUT_CMD_MAX_LEN`);
`ArgParserAssumption` that the constants are what their comments say, and that
`true`, the text of an option without one, is a text. Besides there are
`ThreadPoolAssumption`, `ObjectRefAssumption`,
`ImageAssumption` and `RendererAssumption` (addresses are not the null pointer,
finitely many names), `PixelAssumption` (a byte holds more than 0),
`SharedPixelAssumption` (colours are words of bytes) and `LifecycleAssumption`.

**The queue.** None of the properties is inductive. `ElementsDisjoint` needs that
every element, being filled or complete, ends at or before `_allocIndex`
(`Claimed`), so that the next `fetch_add` hands out fresh bytes; that the tail is
such an element (`LastInv`) and that what a producer read as tail is an offset
(`LocalsInv`), so that `hookInLast` writes link words only, never a payload;
that a producer copies what it did not yet copy (`FillInv`), so that a completed
element holds the whole command. `CounterBounded` needs `CounterInv`, which
charges one element for each producer that has passed the first capacity check
and not yet added: the overshoot is paid for before it happens. The proof has a
lemma for each action, and each lemma one step for each part of the invariant
that the action disturbs.

`VisitedAccepted` needs more (`LinkInv`). An element is *tracked* if it is complete
or a producer is at work on it. Every link of a tracked element leads to a tracked
one or ends the iteration (`NextInv`), and once anything was claimed the element at
the beginning of the buffer is tracked (`FirstInv`). With several producers
elements get lost from the chain (`queue_lost`), but no link of a tracked one leads
anywhere else. When all producers are out of their calls, tracked means
accepted, and an iteration that begins at 0 and follows links stays in the accepted
elements.

**The frame.** The theorems come in two groups, for what holds depends on the
number of producers.

For any number of them `SafeInv` is inductive. `Shape` says that `_allocIndex`, the
tail, all links and all local copies of these are multiples of the element size,
with a whole element of room behind them: races mix up *which* element a word
names, never its being one. `NotHeld` says that a queue which is not raced is in
the hands of calls only while it is the write queue and has been cleared, so that
between the clamping of a position and its use no `memcpy` comes in (`Clamped`).

The other three theorems have the hypothesis `Producers = {p}`. That is the program:
`main` adds one `PixelFlutTCPSource`, which has one thread. With two, `FrameExact`
is false (`queue_lost`). `IInv` adds for a queue that is not raced
that it is a chain (`Chain`): the elements 0 to n-1 of the buffer in this order, each
with its accepted command until the renderer comes to it, the last one without a
link, and a further one, exactly as far as the local `pc` says, if the producer is in
a call (`Working`). `RenderInv` relates the renderer to that chain: its position is
the element number j, and the frame so far is what the first j commands mean. At
the switch of the queues, the chain of the write queue becomes that of the renderer.

**The pool.** `IInv` adds to the properties which workers have a thread
(`StartInv`), that a running worker has a task (`RunInv`), which workers may have
been told to stop and that only those end (`ShutdownInv`), what `_workerState`
says about the thread (`StateInv`), and whom the destructor is at
(`CurrentInv`). The refinement maps the queue to `pending` and the task of a
worker whose thread is in its task to `running`; `PushTasks` is `Submit`, the two
places that pop are `Start`, the return of a task is `Finish`, and all
other steps stutter.

**The images.** Every operation is a sequence of two small ones: an image drops
what it holds (`Dropped`) or, holding nothing, takes an object (`Taken`). `TakeOK`
and `DropOK` show that each keeps `HeapOK`: the counter of every object is the
number of images whose `data` is that object, since the set of holders gains or
loses exactly that image. `IInv` adds that images that
do not exist hold nothing and that the operation's pointer and the image it copied
are one object. Creation in `SharedData` needs that an object that is handed out
anew has no holder left, which is `CountsReferences` read backwards.

**The pixel.** `BlendIsBetween` is the arithmetic: the quotient of
`old*(Max-a) + new*a` by `Max` lies between `old` and `new`, and is one of them
at the ends of `a`. `Drawn` says which channels already show the new colour,
`LoadedSoFar` which ones a read without overlap has taken, and `OpaqueLast` that a
drawing with an opaque colour leaves exactly that colour.

**The process.** `Built` says what exists at each place of `main`, the workers of the
pool included, and `Started` how far the source's start came: in which places its
thread may run, that after `removeDrawSource` it has ended and its socket is
closed, and that `std::terminate()` therefore comes either without a receive thread or
after its end, from `delete _threadPool` over a worker that has not run yet. The
five properties follow place by place.

**The receive loop.** `SlotsCurrent` speaks of the slot that is handled now, while
the loop removes clients as it goes and the kernel hands out closed descriptors
again. The invariant says it of every slot that the scan has not come to yet, or
of all as long as nobody was removed since the poll array was built (`SlotsInv`
with `Undisturbed`). To keep it when a client is removed needs that no descriptor
is in two slots (`SlotsApart`) and that an entry of `_clients` leads to an object
with just that descriptor (`ClientsLive`); `ScanInv` says that `poll` is only called
with an array that is up to date, and that what it reported lies ahead.
`NothingLeaks` and `WithinLimit` are part of the invariant. `NothingLeaks` has one
exception, which the code has: the object that is made for an `accept` that fails
while the object of an earlier failure is still in `_clients`.

**The connection.** `HandledAsSent` is about results, and says nothing of a line of
which a part is in `dataBuffer` and a part on its way. `Framed` does: there is a
function `E` that says where each line that is not handled yet ends in
`dataBuffer` followed by `inFlight` (`Frames`), and what is handled is what the
first lines mean. `SendLine` adds an end. For `ReceiveAndHandle`, `LastComplete` finds
the last line that has come to its end; `CommandEndsOf` shows that `handleClient`
finds just the ends up to there, `ResultsOf` that each of the texts it cuts out is
handled as its line (`LineHandled`: the symbol too many is the first of a line, so a
word, and ends no token), `RestOf` that it leaves the rest, and `FramesAfter`
moves `E`. None of this counts over a sequence, for a set of numbers has one
enumeration only (`AscendingIs`): to know the places a search finds, it is enough to
name them. `AnswersResults`, that the replies are those to the results,
is kept because the answered ones of two parts are those of the whole
(`AnsweredConcat`). `NoLineWaits` holds for irregular lines too, and says that no
newline is in `dataBuffer`, so that the newlines on their way count the lines that are
not handled (`CompleteIs`).

**The command line.** `parse` is a loop that remembers one option, and the
properties read the whole line at once. `ParsingInv` joins the two at `Edge`, the
position up to which the text of each option has been dealt with: it is one behind
`at` while an option waits for its text (`WaitingInv`). Up to there no option was
unknown and none was a callback, the arguments that are set are those with an acceptable text
(`SetBefore`), each value is the last one that converted (`LastBefore`), and each loose
text is a parameter (`LooseBefore`). A step moves `Edge` by at most two elements,
and at the end of the line `SetBefore`, `LastBefore` and `LooseBefore` are
the sets of `OutcomeAsMeant` and `ValuesAsGiven`. `RegisteredInv` says that the
registered arguments are the first of the candidates and have no name in common.
`LeastExists`, which gives the first argument of a name, is induction on natural numbers
in disguise: the library's theorem about strict subsets of finite sets takes no
operator, and the least of a set of numbers is the smallest of the intervals below
its members.

**Only model-checked.** All liveness properties, for the prover has no rule for
fairness: `IterationEnds`, `TasksStarted`, `DestructorEnds`, `DataReceived`,
`GoneClientsRemoved`, `StopEnds`, `StopRequestEnds`. Every invariant and every other
action property of a passing run is also a theorem.

## 5. What is not modelled

* A token of 32 characters or more, which overruns `tokenBuffer`, and a SIGINT
  after `delete floodFillInst`: what the stores do is not defined, and the source
  claims nothing of them.
* What `atoi` returns: coordinates are told apart, never computed with. That they
  are clamped is in `DrawIF`.
* Memory that runs out anywhere but in the constructor of `FloodFill`
  (`ConstructFails`).
* What becomes of the sockets that `stop()` leaves open: they are the clients'
  that are still connected, and the process ends soon after.
* What Xlib shows, logging, the wording of exceptions, the clock of the main loop:
  input and output, or no state that a property tells apart.
* `PixelFlutUDPSource` and `RwLock`: empty and unused.
* Operations without a caller: `DrawQueue::getNext`, `allocateDrawOp` with a
  type, `Image::detach`, `clear`, `copyFromBuffer` and `copyToBuffer`, the
  conversion of `int` arguments; and those without an effect, the empty overloads
  of `ThreadPool::queue`.

## 6. The plan

In this order; done items are marked.

1. [x] `DrawQueue`, `SharedDrawQueue` with proofs; `SpinLock`, `DrawIF`.
2. [x] `ThreadPool` against `TaskPool`, with the proof of the refinement.
3. [x] `PixelFlutSource`, `PixelFlutClient`, `PixelFlutTCPSource`.
4. [x] `Lifecycle`, `ArgParser`.
5. [x] `Pixel` and `SharedPixel`, with proofs.
6. [x] `ObjectRef`, `Image` and `Renderer` against `SharedData`, with the proof of
   the refinement.
7. [x] The test and the use of a position as two steps in `DrawIF`; replies and
   their truncation; the life of the pixels; registration of arguments.
8. [x] Proofs about `PixelFlutTCPSource` (`SlotsCurrent`, `NothingLeaks`,
   `WithinLimit`) and `PixelFlutClient`, `ArgParser` and the links of the queue.
9. [x] Proofs about `DrawIF` (`ReadsWholeElements`, `DrawsInside`, `FrameExact`,
   `CrashOnlyFullOrRaced`).
10. [ ] An abstract frame buffer ("a frame draws what was queued since the last
    switch") that `DrawIF` implements while no queue is raced; two producers.
