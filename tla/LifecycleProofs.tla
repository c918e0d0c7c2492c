-------------------------- MODULE LifecycleProofs ---------------------------
(***************************************************************************)
(* What holds of the life of the process, however many SIGINTs arrive.     *)
(* The argument is where main() is while the receive thread runs: between  *)
(* the start of the source and the join(), and there the interface, the    *)
(* pixels and the server socket exist.                                     *)
(***************************************************************************)
EXTENDS Lifecycle, TLAPS

Early == {"begin", "arguments", "construct"}

\* The receive thread may run.
Serving == {"enter", "removeSource", "join"} \cup LoopLabels

\* It has ended.
Late == {"delete", "deleteFloodFill", "return", "done"}

\* What main() has built, by where it is.
Built ==
  /\ main \in Early => frees = 0
  /\ main \in Serving \cup {"window", "start", "delete"} => floodFill = "object" /\ frees = 0
  /\ main \in {"deleteFloodFill", "return", "done"} => frees = 1
  /\ Running => floodFill = "object" /\ frees = 0
  /\ floodFill = "freed" => main \in {"return", "done", "killed"}
  /\ frees <= 1
  /\ main \in Serving \cup {"window", "start", "delete", "deleteFloodFill"} =>
       workers \in {"created", "running"}
  /\ main \in {"return", "done"} => workers = "ended"

\* How far the source has come, by where main() is.
Started ==
  /\ main \in Early \cup {"window"} => calls = 0 /\ listener = "none"
  /\ main = "start" => (calls = 0 /\ listener = "none") \/ (calls > 0 /\ listener = "open")
  /\ main \notin Serving \cup Late \cup {"terminated", "killed"} => thread = "none"
  /\ Running => main \in Serving \cup {"killed"} /\ listener = "open"
  /\ thread # "none" => calls = StartCalls
  /\ thread = "none" /\ main \in Serving => calls < StartCalls /\ listener # "open"
  /\ main = "terminated" => thread = "none" \/ (thread = "ended" /\ workers = "created")
  /\ main \in Late => thread = "ended" /\ listener # "open"

IInv == TypeOK /\ Built /\ Started

LEMMA InitIInv == Init => IInv
<1>1. Init => TypeOK
  <2> SUFFICES ASSUME Init PROVE TypeOK
    OBVIOUS
  <2>1. run \in BOOLEAN /\ closing \in BOOLEAN /\ shouldExit \in BOOLEAN /\ sourceRun \in BOOLEAN
    BY DEF Init
  <2>2. /\ calls \in 0 .. StartCalls /\ signals \in 0 .. MaxSignals
        /\ frees \in Nat /\ todo \in 0 .. MaxCommands
    BY LifecycleAssumption DEF Init, StartCalls
  <2> QED
    BY <2>1, <2>2 DEF Init, TypeOK
<1>2. Init => Built
  BY DEF Init, Built, Running, Early, Serving, LoopLabels
<1>3. Init => Started
  BY DEF Init, Started, Running, Early, Serving, Late, LoopLabels
<1> QED
  BY <1>1, <1>2, <1>3 DEF IInv

\* Each step of main() leads to the next place with what belongs there.
LEMMA MainIInv ==
  ASSUME IInv, Main
  PROVE  IInv'
<1> USE DEF IInv, TypeOK, Built, Started, Running, Early, Serving, Late, LoopLabels, Ends,
            StartCalls, Step, windowVars, sourceVars, threadVars
<1>1. CASE InstallHandler
  BY <1>1 DEF InstallHandler
<1>2. CASE ParseArguments
  BY <1>2 DEF ParseArguments
<1>3. CASE Construct
  BY <1>3 DEF Construct
<1>4. CASE AddRenderTarget
  BY <1>4 DEF AddRenderTarget
<1>5. CASE StartCall
  BY <1>5 DEF StartCall
<1>6. CASE StartFails
  <2>1. TypeOK'
    <3>1. main' = "enter" /\ listener' \in {"none", "open", "closed"}
      BY <1>6 DEF StartFails
    <3> QED
      BY <1>6, <3>1 DEF StartFails
  <2>2. Built'
    BY <1>6 DEF StartFails
  <2>3. Started'
    BY <1>6 DEF StartFails
  <2> QED
    BY <2>1, <2>2, <2>3
<1>7. CASE StartThread
  <2>1. TypeOK'
    <3>1. main' = "enter" /\ sourceRun' \in BOOLEAN /\ thread' = "loop"
      BY <1>7 DEF StartThread
    <3> QED
      BY <1>7, <3>1 DEF StartThread
  <2>2. Built'
    BY <1>7 DEF StartThread
  <2>3. Started'
    BY <1>7 DEF StartThread
  <2> QED
    BY <2>1, <2>2, <2>3
<1>8. CASE EnterLoop
  BY <1>8 DEF EnterLoop
<1>9. CASE TestRun
  BY <1>9 DEF TestRun
<1>10. CASE Render
  BY <1>10 DEF Render
<1>11. CASE Process
  BY <1>11 DEF Process
<1>12. CASE RequestsExit
  BY <1>12 DEF RequestsExit
<1>13. CASE StopSource
  <2>1. TypeOK'
    <3>1. main' = "join" /\ sourceRun' \in BOOLEAN
      BY <1>13 DEF StopSource
    <3> QED
      BY <1>13, <3>1 DEF StopSource
  <2>2. Built' /\ Started'
    BY <1>13 DEF StopSource
  <2> QED
    BY <2>1, <2>2
<1>14. CASE JoinThread
  BY <1>14 DEF JoinThread
<1>15. CASE DeleteTarget
  BY <1>15 DEF DeleteTarget
<1>16. CASE DeleteFloodFill
  BY <1>16 DEF DeleteFloodFill, LastReferenceGone
<1>17. CASE Return
  BY <1>17 DEF Return
<1>18. CASE ConstructFails
  BY <1>18 DEF ConstructFails
<1>19. CASE StartThreadFails
  BY <1>19 DEF StartThreadFails
<1> QED
  BY <1>1, <1>2, <1>3, <1>4, <1>5, <1>6, <1>7, <1>8, <1>9, <1>10, <1>11, <1>12, <1>13, <1>14,
     <1>15, <1>16, <1>17, <1>18, <1>19 DEF Main

LEMMA NextIInv == IInv /\ [Next]_vars => IInv'
<1> SUFFICES ASSUME IInv, [Next]_vars PROVE IInv'
  OBVIOUS
<1>1. CASE Main
  BY <1>1, MainIInv
<1> USE DEF IInv, TypeOK, Built, Started, Running, Early, Serving, Late, LoopLabels, Ends,
            StartCalls, windowVars, sourceVars, threadVars
<1>2. CASE ReceiveLoop
  <2>1. TypeOK'
    <3>1. thread' \in {"loop", "handle", "call", "send", "ended"} /\ todo' \in 0 .. MaxCommands
      BY <1>2, LifecycleAssumption DEF ReceiveLoop
    <3> QED
      BY <1>2, <3>1 DEF ReceiveLoop
  <2>2. Built' /\ Started'
    BY <1>2 DEF ReceiveLoop, Alive
  <2> QED
    BY <2>1, <2>2
<1>3. CASE CloseWindow
  BY <1>3 DEF CloseWindow
<1>4. CASE Interrupt
  <2>1. signals' \in 0 .. MaxSignals
    BY <1>4, LifecycleAssumption DEF Interrupt
  <2>2. CASE main = "begin" /\ main' = "killed" /\ UNCHANGED run
    BY <1>4, <2>1, <2>2 DEF Interrupt
  <2>3. CASE UNCHANGED <<main, run>>
    BY <1>4, <2>1, <2>3 DEF Interrupt
  <2>4. CASE run' = FALSE /\ UNCHANGED main
    <3>1. TypeOK'
      <4>1. run' \in BOOLEAN
        BY <2>4
      <4> QED
        BY <1>4, <2>1, <2>4, <4>1 DEF Interrupt
    <3>2. Built' /\ Started'
      BY <1>4, <2>4 DEF Interrupt
    <3> QED
      BY <3>1, <3>2
  <2>5. CASE floodFill = "freed" /\ main' \in {main, "killed"} /\ UNCHANGED run
    BY <1>4, <2>1, <2>5 DEF Interrupt, Alive
  <2> QED
    BY <1>4, <2>2, <2>3, <2>4, <2>5 DEF Interrupt
<1>5. CASE Crash
  BY <1>5 DEF Crash, Alive
<1>6. CASE RunWorkers
  BY <1>6 DEF RunWorkers, Alive
<1>7. CASE UNCHANGED vars
  BY <1>7 DEF vars
<1> QED
  BY <1>1, <1>2, <1>3, <1>4, <1>5, <1>6, <1>7 DEF Next

\* The invariant from which the others follow (main, FloodFill, X11RenderTarget,
\* PixelFlutTCPSource::start, stop).
THEOREM Invariance == Spec => []IInv
<1> QED
  BY InitIInv, NextIInv, PTL DEF Spec

\* Types of the state; start() makes no call too many.
THEOREM TypeCorrect == Spec => []TypeOK
<1>1. IInv => TypeOK
  BY DEF IInv
<1> QED
  BY <1>1, Invariance, PTL

\* The receive thread never calls a deleted draw interface.
THEOREM InterfaceAlive == Spec => []InterfaceOutlivesCalls
<1>1. IInv => InterfaceOutlivesCalls
  BY DEF IInv, Built, Started, Running, InterfaceOutlivesCalls
<1> QED
  BY <1>1, Invariance, PTL

\* Nobody draws, reads or shows pixels that the window has freed.
THEOREM PixelsAlive == Spec => []PixelsOutliveUse
<1>1. IInv => PixelsOutliveUse
  BY DEF IInv, Built, Started, Running, Serving, LoopLabels, PixelsOutliveUse
<1> QED
  BY <1>1, Invariance, PTL

\* The pixels are freed once, by the window and not by their last reference.
THEOREM OneFree == Spec => []PixelsFreedOnce
<1>1. IInv => PixelsFreedOnce
  BY DEF IInv, Built, PixelsFreedOnce
<1> QED
  BY <1>1, Invariance, PTL

\* No failure of start() leaves the server socket open, and no close() comes
\* before the receive thread has ended.
THEOREM SocketClosed == Spec => []ServerSocketClosed
<1>1. IInv => ServerSocketClosed
  BY DEF IInv, TypeOK, Started, Running, Early, Serving, Late, LoopLabels, Ends, Alive,
         ServerSocketClosed
<1> QED
  BY <1>1, Invariance, PTL

\* std::terminate() comes only before the receive thread was started or after its
\* join(), then over a worker of the pool that has not run yet; status 0 is
\* returned only when the receive thread and the workers were all joined.
THEOREM EndsExplained == Spec => []HowItEnds
<1>1. IInv => HowItEnds
  BY DEF IInv, Built, Started, Late, HowItEnds
<1> QED
  BY <1>1, Invariance, PTL

=============================================================================
