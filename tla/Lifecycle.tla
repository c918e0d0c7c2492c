----------------------------- MODULE Lifecycle ------------------------------
(***************************************************************************)
(* The life of the process: main() builds a FloodFill, a window and a TCP  *)
(* source, runs the main loop until somebody asks it to stop, and takes    *)
(* everything down again, while the receive thread queues commands, the    *)
(* user closes the window and SIGINT arrives at any time.                  *)
(*                                                                         *)
(* What a frame draws is left to DrawIF, what the receive thread does with *)
(* its sockets to PixelFlutTCPSource, how the pool stops its workers to    *)
(* ThreadPool, and the references to the image's pixels to Renderer.       *)
(* Beside those references, the XImage of the window has a pointer of its  *)
(* own to the same pixels.  Memory that runs out outside of FloodFill's    *)
(* constructor is not modelled.                                            *)
(***************************************************************************)
EXTENDS Naturals

CONSTANTS
  MaxSignals, \* bound on the SIGINTs of one life
  MaxCommands \* bound on the commands in the buffer of a client

ASSUME LifecycleAssumption == MaxSignals \in Nat /\ MaxCommands \in Nat

VARIABLES
  main,       \* where main() is
  floodFill,  \* what floodFillInst leads to: "null", "object" or "freed"
  run,        \* FloodFill::_run
  workers,    \* the threads of its pool: "none", "created" while one of them has
              \* not run yet, "running" or "ended"
  frees,      \* how often the pixels of FloodFill::_image were freed
  target,     \* the window and its XImage: "none", "added" or "deleted"
  closing,    \* the user has asked to close the window
  shouldExit, \* X11RenderTarget::_shouldExit
  calls,      \* system calls of PixelFlutTCPSource::start() that succeeded
  listener,   \* its _serverSocket: "none", "open" or "closed"
  sourceRun,  \* its _run
  thread,     \* its receive thread
  todo,       \* commands in dataBuffer that handleClient() has not come to
  signals     \* SIGINTs so far

windowVars == <<target, shouldExit, frees>>
threadVars == <<thread, todo>>
sourceVars == <<calls, listener, sourceRun, threadVars>>
vars == <<main, floodFill, run, workers, windowVars, closing, sourceVars, signals>>

\* socket(), setsockopt(), ioctl(), bind() and listen().
StartCalls == 5

LoopLabels == {"test", "render", "process", "leave"}

\* "terminated": std::terminate(); "killed": by SIGINT, or by a store into the
\* freed FloodFill.
Ends == {"help", "error", "done", "terminated", "killed"}

\* The receive thread is in its loop.
Running == thread \in {"loop", "handle", "call", "send"}

Alive == main \notin Ends

Init ==
  /\ main = "begin"
  /\ floodFill = "null"
  /\ run = FALSE
  /\ workers = "none"
  /\ frees = 0
  /\ target = "none"
  /\ closing = FALSE
  /\ shouldExit = FALSE
  /\ calls = 0
  /\ listener = "none"
  /\ sourceRun = FALSE
  /\ thread = "none"
  /\ todo = 0
  /\ signals = 0

-----------------------------------------------------------------------------
(* main() before the loop                                                  *)

Step(from, to) == main = from /\ main' = to

\* signal(SIGINT, signal_handler)
InstallHandler ==
  /\ Step("begin", "arguments")
  /\ UNCHANGED <<floodFill, run, workers, windowVars, closing, sourceVars, signals>>

\* The command line is wrong, asks for help, or is accepted.
ParseArguments ==
  /\ \E to \in {"error", "help", "construct"} : Step("arguments", to)
  /\ UNCHANGED <<floodFill, run, workers, windowVars, closing, sourceVars, signals>>

\* The constructor has cleared _run before floodFillInst is assigned.
Construct ==
  /\ Step("construct", "window")
  /\ run' = FALSE
  /\ floodFill' = "object"
  /\ workers' = "created"
  /\ UNCHANGED <<windowVars, closing, sourceVars, signals>>

\* A thread of the pool or the memory of the image and the queues is not to be
\* had: nobody catches what is thrown then.
ConstructFails ==
  /\ Step("construct", "terminated")
  /\ run' = FALSE
  /\ workers' \in {"none", "created"}
  /\ UNCHANGED <<floodFill, windowVars, closing, sourceVars, signals>>

\* init() of the window and addRenderTarget(), which makes an XImage of the
\* pixels.  Both may throw; what they have made by then is left to the end of
\* the process.
AddRenderTarget ==
  /\ \/ Step("window", "start") /\ target' = "added"
     \/ Step("window", "error") /\ UNCHANGED target
  /\ UNCHANGED <<floodFill, run, workers, frees, closing, shouldExit, sourceVars, signals>>

\* A system call of start() succeeds.
StartCall ==
  /\ main = "start"
  /\ calls < StartCalls
  /\ calls' = calls + 1
  /\ listener' = "open"
  /\ UNCHANGED <<main, floodFill, run, workers, windowVars, closing, sourceRun, threadVars, signals>>

\* Mutant of StartFails: bind() fails and the socket stays open.
StartFailsOpen ==
  /\ Step("start", "enter")
  /\ calls < StartCalls
  /\ listener' = IF calls \in {0, 3} THEN listener ELSE "closed"
  /\ UNCHANGED <<floodFill, run, workers, windowVars, closing, calls, sourceRun, threadVars, signals>>

\* Or it fails: the socket, if there is one, is closed.  addDrawSource() logs
\* the exception and returns false, which main() ignores.
StartFails ==
  /\ Step("start", "enter")
  /\ calls < StartCalls
  /\ listener' = IF calls = 0 THEN listener ELSE "closed"
  /\ UNCHANGED <<floodFill, run, workers, windowVars, closing, calls, sourceRun, threadVars, signals>>

StartThread ==
  /\ Step("start", "enter")
  /\ calls = StartCalls
  /\ sourceRun' = TRUE
  /\ thread' = "loop"
  /\ UNCHANGED <<floodFill, run, workers, windowVars, closing, calls, listener, todo, signals>>

\* There is no thread to be had.  The std::system_error is no Exception, and
\* neither addDrawSource() nor main() catches it.
StartThreadFails ==
  /\ Step("start", "terminated")
  /\ calls = StartCalls
  /\ sourceRun' = TRUE
  /\ UNCHANGED <<floodFill, run, workers, windowVars, closing, calls, listener, threadVars, signals>>

-----------------------------------------------------------------------------
(* mainLoop()                                                              *)

\* _run is set whatever it was: a stop() that came before is lost.
EnterLoop ==
  /\ Step("enter", "test")
  /\ run' = TRUE
  /\ UNCHANGED <<floodFill, workers, windowVars, closing, sourceVars, signals>>

TestRun ==
  /\ Step("test", IF run THEN "render" ELSE "removeSource")
  /\ UNCHANGED <<floodFill, run, workers, windowVars, closing, sourceVars, signals>>

Render ==
  /\ Step("render", "process")
  /\ UNCHANGED <<floodFill, run, workers, windowVars, closing, sourceVars, signals>>

\* process() empties the event queue; _shouldExit stays set.
Process ==
  /\ Step("process", "leave")
  /\ shouldExit' = (shouldExit \/ closing)
  /\ closing' = FALSE
  /\ UNCHANGED <<floodFill, run, workers, frees, target, sourceVars, signals>>

\* Mutant of RequestsExit: the flag is read and nobody calls stop().
RequestsExitIgnored ==
  /\ Step("leave", "test")
  /\ UNCHANGED <<floodFill, run, workers, windowVars, closing, sourceVars, signals>>

\* requestsExit() and stop().
RequestsExit ==
  /\ Step("leave", "test")
  /\ run' = (run /\ ~shouldExit)
  /\ UNCHANGED <<floodFill, workers, windowVars, closing, sourceVars, signals>>

-----------------------------------------------------------------------------
(* main() after the loop                                                   *)

\* removeDrawSource() calls stop() of the source, started or not.
StopSource ==
  /\ Step("removeSource", "join")
  /\ sourceRun' = FALSE
  /\ UNCHANGED <<floodFill, run, workers, windowVars, closing, calls, listener, threadVars, signals>>

\* Mutants of JoinThread: it does not wait; and it skips a thread that is not
\* joinable.
JoinForgotten ==
  /\ Step("join", IF thread = "none" THEN "terminated" ELSE "delete")
  /\ listener' = "closed"
  /\ UNCHANGED <<floodFill, run, workers, windowVars, closing, calls, sourceRun, threadVars, signals>>

JoinIfJoinable ==
  /\ thread \in {"none", "ended"}
  /\ Step("join", "delete")
  /\ listener' = "closed"
  /\ UNCHANGED <<floodFill, run, workers, windowVars, closing, calls, sourceRun, threadVars, signals>>

\* join(), and close() of the server socket.  Without a thread join() throws a
\* std::system_error, which the handler in main() does not catch.
JoinThread ==
  /\ \/ thread = "none" /\ Step("join", "terminated") /\ UNCHANGED listener
     \/ thread = "ended" /\ Step("join", "delete") /\ listener' = "closed"
  /\ UNCHANGED <<floodFill, run, workers, windowVars, closing, calls, sourceRun, threadVars, signals>>

\* removeRenderTarget(), and the source and the window are deleted.
\* XDestroyImage() frees the pixels with the XImage.
DeleteTarget ==
  /\ Step("delete", "deleteFloodFill")
  /\ target' = "deleted"
  /\ frees' = frees + 1
  /\ UNCHANGED <<floodFill, run, workers, closing, shouldExit, sourceVars, signals>>

\* Mutant of LastReferenceGone: a virtual destructor, which reaches ~BulkData().
LastReferenceFrees(n) == n + 1

\* delete this in decRefCount(): the destructor of RefCountedObject is not
\* virtual, so that ~BulkData() does not run and the pixels are not freed.
LastReferenceGone(n) == n

\* delete floodFillInst: the draw interface and the last references to the
\* image go, the pointer stays.  Before that the pool goes: it does not join a
\* worker that has not run yet, and the destructor of its std::thread ends the
\* process.
DeleteFloodFill ==
  /\ \/ /\ workers = "running"
        /\ Step("deleteFloodFill", "return")
        /\ floodFill' = "freed"
        /\ frees' = LastReferenceGone(frees)
        /\ workers' = "ended"
     \/ /\ workers = "created"
        /\ Step("deleteFloodFill", "terminated")
        /\ UNCHANGED <<floodFill, frees, workers>>
  /\ UNCHANGED <<run, target, shouldExit, closing, sourceVars, signals>>

Return ==
  /\ Step("return", "done")
  /\ UNCHANGED <<floodFill, run, workers, windowVars, closing, sourceVars, signals>>

Main ==
  \/ InstallHandler \/ ParseArguments \/ Construct \/ ConstructFails
  \/ AddRenderTarget \/ StartCall \/ StartFails \/ StartThread \/ StartThreadFails
  \/ EnterLoop \/ TestRun \/ Render \/ Process \/ RequestsExit
  \/ StopSource \/ JoinThread \/ DeleteTarget \/ DeleteFloodFill \/ Return

-----------------------------------------------------------------------------
(* The other actors                                                        *)

\* The receive thread ends its loop, or handles the commands a client has sent,
\* each of which may call the draw interface or send() a reply.
ReceiveLoop ==
  /\ Alive
  /\ \/ /\ thread = "loop"
        /\ \/ sourceRun /\ thread' = "handle" /\ todo' \in 0 .. MaxCommands
           \/ ~sourceRun /\ thread' = "ended" /\ UNCHANGED todo
     \/ thread = "handle" /\ todo = 0 /\ thread' = "loop" /\ UNCHANGED todo
     \/ thread = "handle" /\ todo > 0 /\ thread' \in {"handle", "call", "send"} /\ todo' = todo - 1
     \/ thread = "call" /\ thread' \in {"handle", "send"} /\ UNCHANGED todo
     \/ thread = "send" /\ thread' = "handle" /\ UNCHANGED todo
  /\ UNCHANGED <<main, floodFill, run, workers, windowVars, closing, calls, listener, sourceRun, signals>>

\* drawPixel() copies to nullptr over a full queue, or send() raises SIGPIPE.
Crash ==
  /\ Alive
  /\ thread \in {"call", "send"}
  /\ main' = "killed"
  /\ UNCHANGED <<floodFill, run, workers, windowVars, closing, sourceVars, signals>>

\* The last worker of the pool comes to the first line of threadEntry().
RunWorkers ==
  /\ Alive
  /\ workers = "created"
  /\ workers' = "running"
  /\ UNCHANGED <<main, floodFill, run, windowVars, closing, sourceVars, signals>>

\* Escape, or the close button.
CloseWindow ==
  /\ Alive
  /\ target = "added"
  /\ closing' = TRUE
  /\ UNCHANGED <<main, floodFill, run, workers, windowVars, sourceVars, signals>>

\* SIGINT.  Before signal() it kills; then signal_handler() calls stop() on
\* what floodFillInst leads to.  Nothing is known of a store into freed memory.
Interrupt ==
  /\ Alive
  /\ signals < MaxSignals
  /\ signals' = signals + 1
  /\ \/ main = "begin" /\ main' = "killed" /\ UNCHANGED run
     \/ main # "begin" /\ floodFill = "null" /\ UNCHANGED <<main, run>>
     \/ floodFill = "object" /\ run' = FALSE /\ UNCHANGED main
     \/ floodFill = "freed" /\ main' \in {main, "killed"} /\ UNCHANGED run
  /\ UNCHANGED <<floodFill, workers, windowVars, closing, sourceVars>>

Next == Main \/ ReceiveLoop \/ Crash \/ RunWorkers \/ CloseWindow \/ Interrupt

\* Both threads keep running.  Nothing is assumed of a frame, which a queue that
\* links to itself never ends, nor of send(), which waits for the client.
Fairness == WF_vars(Main /\ main # "render") /\ WF_vars(ReceiveLoop /\ thread # "send")

Spec == Init /\ [][Next]_vars /\ Fairness

-----------------------------------------------------------------------------
(* Properties                                                              *)

\* Every variable has a value of its type; start() makes no call too many.
TypeOK ==
  /\ main \in LoopLabels \cup Ends \cup
       {"begin", "arguments", "construct", "window", "start", "enter",
        "removeSource", "join", "delete", "deleteFloodFill", "return"}
  /\ floodFill \in {"null", "object", "freed"}
  /\ run \in BOOLEAN
  /\ workers \in {"none", "created", "running", "ended"}
  /\ frees \in Nat
  /\ target \in {"none", "added", "deleted"}
  /\ closing \in BOOLEAN
  /\ shouldExit \in BOOLEAN
  /\ calls \in 0 .. StartCalls
  /\ listener \in {"none", "open", "closed"}
  /\ sourceRun \in BOOLEAN
  /\ thread \in {"none", "loop", "handle", "call", "send", "ended"}
  /\ todo \in 0 .. MaxCommands
  /\ signals \in 0 .. MaxSignals

\* The receive thread never calls a draw interface that is freed, although it
\* holds its own pointer to it and main() deletes it: stop() comes between.
InterfaceOutlivesCalls == thread = "call" => floodFill = "object"

\* The pixels are there as long as anybody uses them: readPixel() on the receive
\* thread, the main loop that draws them, and the XImage that process() shows.
\* The window frees them while FloodFill still holds three references to them.
PixelsOutliveUse ==
  thread = "call" \/ main \in {"render", "process"} => floodFill = "object" /\ frees = 0

\* Of the two owners of the pixels exactly one frees them: a process that returns
\* from main() in the end has neither freed them twice nor kept them.
PixelsFreedOnce == frees <= 1 /\ (main = "done" => frees = 1)

\* The server socket is open just as long as start() works on it or a receive
\* thread may use it: no failure leaves it behind, no close() comes too early.
ServerSocketClosed ==
  /\ listener = "open" /\ Alive => main = "start" \/ thread # "none"
  /\ Running => listener = "open"
  /\ main \in {"delete", "deleteFloodFill", "return", "done"} => listener # "open"

\* How the process ends tells what became of its threads: std::terminate() comes
\* while the receive thread was never started or, after its join(), over a worker
\* that has not run yet, and never under a receive thread that runs; status 0 is
\* returned only when the receive thread and all workers were joined.
HowItEnds ==
  /\ main = "terminated" => thread = "none" \/ (thread = "ended" /\ workers = "created")
  /\ main = "done" => thread = "ended" /\ workers = "ended"

\* Whoever asks the running main loop to stop, a signal or the window, gets the
\* process to end, unless it hangs for good in a frame or in a send() of the
\* receive thread, for which stop() waits.  No number of commands holds it up.
StopRequestEnds ==
  \/ <>[](main = "render")
  \/ <>[](Alive /\ thread = "send")
  \/ (main \in LoopLabels /\ (~run \/ closing \/ shouldExit) ~> ~Alive)

=============================================================================
