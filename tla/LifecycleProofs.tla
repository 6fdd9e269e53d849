--------------------------- MODULE LifecycleProofs ---------------------------
(* For any set of viewers: the objects are deleted alone, only the startup *)
(* can throw, and at most one viewer is let in after stop_listening().     *)
EXTENDS Lifecycle, FiniteSetTheorems, TLAPS

\* The process starts in the invariant.
LEMMA InitIInv == Init => IInv
  BY DEF Init, IInv, TypeOK, DeletedAlone, OnlyStartupThrows, IoHasWork, NotYet,
         Connected, ClosedIsFinal, StoppedListening, LateWasAccepted, NoAccept

\* The main thread and the signal handler preserve it.
LEMMA MainKeepsIInv ==
  ASSUME IInv, Main \/ signalHandler
  PROVE  IInv'
<1> USE DEF IInv, DeletedAlone, OnlyStartupThrows, IoHasWork, NotYet, Connected,
            ClosedIsFinal, StoppedListening, LateWasAccepted,
            ioVars, listenVars, Alive, MainMoves, NoAccept, Pending, Failed, Accepted
<1>1. CASE signalHandler
  BY <1>1 DEF signalHandler, TypeOK
<1>2. CASE StartThread
  BY <1>2 DEF StartThread, TypeOK
<1>3. CASE LeaveLoops
  BY <1>3 DEF LeaveLoops, TypeOK
<1>4. CASE StopListeningThrows
  BY <1>4 DEF StopListeningThrows, TypeOK
<1>5. CASE CloseAcceptor
  BY <1>5 DEF CloseAcceptor, Close, TypeOK
<1>6. CASE SetReady
  BY <1>6 DEF SetReady, StopsListening, TypeOK
<1>7. CASE JoinAndDelete
  BY <1>7 DEF JoinAndDelete, IoThreadEnded, TypeOK
<1>8. QED
  BY <1>1, <1>2, <1>3, <1>4, <1>5, <1>6, <1>7 DEF Main

\* The io thread preserves it, but for the steps that change a connection.
LEMMA IoKeepsIInv ==
  ASSUME IInv,
         \/ Listen \/ ListenFails \/ StopAccepting \/ ArmAccept
         \/ LooksListening("start_accept", "async_accept")
         \/ LooksListening("async_accept", "accept")
         \/ HandleAcceptError \/ RunReturns
  PROVE  IInv'
<1> USE DEF IInv, DeletedAlone, OnlyStartupThrows, IoHasWork, NotYet, Connected,
            ClosedIsFinal, StoppedListening, LateWasAccepted,
            ioVars, listenVars, Alive, IoAt, NoAccept, Pending, Failed, Accepted
<1>1. CASE Listen
  BY <1>1 DEF Listen, TypeOK
<1>2. CASE ListenFails
  BY <1>2 DEF ListenFails, TypeOK
<1>3. CASE StopAccepting
  BY <1>3 DEF StopAccepting, Throws, TypeOK
<1>4. CASE ArmAccept
  BY <1>4 DEF ArmAccept, TypeOK
<1>5. CASE LooksListening("start_accept", "async_accept")
  BY <1>5 DEF LooksListening, TypeOK
<1>6. CASE LooksListening("async_accept", "accept")
  BY <1>6 DEF LooksListening, TypeOK
<1>7. CASE HandleAcceptError
  BY <1>7 DEF HandleAcceptError, TypeOK
<1>8. CASE RunReturns
  BY <1>8 DEF RunReturns, NoWorkLeft, TypeOK
<1>9. QED
  BY <1>1, <1>2, <1>3, <1>4, <1>5, <1>6, <1>7, <1>8

\* A connection is taken, started, left by its viewer and ended.
LEMMA ConnectionKeepsIInv ==
  ASSUME IInv,
         NEW c \in Viewer,
         TakeConnection(c) \/ HandleAccepted(c) \/ EndConnection(c) \/ Leave(c)
  PROVE  IInv'
<1> USE DEF IInv, DeletedAlone, OnlyStartupThrows, IoHasWork, NotYet, Connected,
            ClosedIsFinal, StoppedListening, LateWasAccepted,
            ioVars, listenVars, Alive, IoAt, NoAccept, Pending, Failed, Accepted
<1>1. CASE TakeConnection(c)
  BY <1>1 DEF TakeConnection, TypeOK
<1>2. CASE HandleAccepted(c)
  BY <1>2 DEF HandleAccepted, TypeOK
<1>3. CASE EndConnection(c)
  BY <1>3 DEF EndConnection, TypeOK
<1>4. CASE Leave(c)
  BY <1>4 DEF Leave, TypeOK
<1>5. QED
  BY <1>1, <1>2, <1>3, <1>4

\* IInv holds in every reachable state.
THEOREM InductiveInvariant == Spec => []IInv
<1>1. IInv /\ [Next]_vars => IInv'
  <2> SUFFICES ASSUME IInv, [Next]_vars PROVE IInv'
    OBVIOUS
  <2>1. CASE Next
    BY <2>1, MainKeepsIInv, IoKeepsIInv, ConnectionKeepsIInv DEF Next, IoStep
  <2>2. CASE UNCHANGED vars
    BY <2>2 DEF vars, IInv, TypeOK, DeletedAlone, OnlyStartupThrows, IoHasWork,
                NotYet, Connected, ClosedIsFinal, StoppedListening,
                LateWasAccepted
  <2>3. QED
    BY <2>1, <2>2
<1>2. QED
  BY <1>1, InitIInv, PTL DEF Spec

\* No handler can run on deleted objects, whenever the signal arrives and
\* whoever is connected.
THEOREM HandlersEndFirst == Spec => []DeletedAlone
<1>1. IInv => DeletedAlone
  BY DEF IInv
<1>2. QED
  BY <1>1, InductiveInvariant, PTL

\* Only the startup can end the process by an exception of its io thread.
THEOREM RunningNeverThrows == Spec => []OnlyStartupThrows
<1>1. IInv => OnlyStartupThrows
  BY DEF IInv
<1>2. QED
  BY <1>1, InductiveInvariant, PTL

\* At most one viewer is let in after stop_listening() found the endpoint
\* listening.
THEOREM AtMostOneLate == Spec => []OneLateViewer
<1>1. IInv => OneLateViewer
  <2> SUFFICES ASSUME IInv PROVE OneLateViewer
    OBVIOUS
  <2>1. CASE late = {}
    BY <2>1, FS_EmptySet DEF OneLateViewer
  <2>2. CASE late # {}
    <3>1. PICK c \in Viewer : late = {c}
      BY <2>2 DEF IInv, LateWasAccepted
    <3>2. Cardinality({c}) = 1
      BY FS_Singleton
    <3>3. QED
      BY <3>1, <3>2 DEF OneLateViewer
  <2>3. QED
    BY <2>1, <2>2
<1>2. QED
  BY <1>1, InductiveInvariant, PTL
-----------------------------------------------------------------------------
(* The way out: the safety half of ExitsWhenLeft.                          *)

\* stop_listening() has closed the endpoint of a thread that accepts, and main
\* joins it.
ShuttingDown == main = "join" /\ m_state = "READY" /\ ~NotYet /\ ~terminated

\* A connection that the reactor has taken, and no other, waits for
\* handle_accept.
AcceptedIsHeld == \A c \in Viewer : conn[c] = "accepted" <=> accept = Accepted(c)

\* What is left to do before the process ends: for the accept loop, for the
\* accept under way, for the two threads, and for every connection.
LoopLeft ==
    CASE io = "accept" -> 3
      [] io \in {"start_accept", "async_accept"} -> 1
      [] OTHER -> 0
AcceptLeft == IF accept = NoAccept THEN 0 ELSE 2
IoLeft == IF io = "exited" THEN 0 ELSE 1
MainLeft == IF main = "exited" THEN 0 ELSE 1
ThreadsLeft == LoopLeft + AcceptLeft + IoLeft + MainLeft
StepsToExit == ThreadsLeft + Cardinality(Connected)

\* A process that shuts down waits for viewers that stay, and for nothing
\* else: otherwise main can join, or the io thread has a step to take.
OnlyViewersKeepIt ==
    ShuttingDown =>
        \/ \E c \in Viewer : conn[c] = "live"
        \/ io \in {"exited", "start_accept", "async_accept", "accept"}
        \/ /\ io = "reactor"
           /\ \/ accept \in {Failed} \cup {Accepted(c) : c \in Viewer}
              \/ \E c \in Viewer : conn[c] = "leaving"
              \/ NoWorkLeft

\* Each step of the two threads brings the end of such a process closer, and
\* nobody takes it away again: no viewer gets in any more.
ExitComesCloser ==
    ShuttingDown =>
        \/ terminated'
        \/ /\ ShuttingDown' \/ main' = "exited"
           /\ \/ StepsToExit' < StepsToExit
              \/ StepsToExit' = StepsToExit
                 /\ (signalHandler \/ \E c \in Viewer : Leave(c))

\* The number of connections is a number.
LEMMA ConnectionsCounted == IsFiniteSet(Connected) /\ Cardinality(Connected) \in Nat
<1>1. IsFiniteSet(Connected)
  BY FS_Subset, ViewerAssumption DEF Connected
<1> QED
  BY <1>1, FS_CardinalityType

\* What is left is a natural number.
LEMMA StepsCounted == ThreadsLeft \in Nat /\ StepsToExit \in Nat
<1>1. LoopLeft \in Nat /\ AcceptLeft \in Nat /\ IoLeft \in Nat /\ MainLeft \in Nat
  BY DEF LoopLeft, AcceptLeft, IoLeft, MainLeft
<1> QED
  BY <1>1, ConnectionsCounted DEF ThreadsLeft, StepsToExit

\* handle_accept follows every accept that succeeded.
LEMMA HeldKept ==
  ASSUME IInv, AcceptedIsHeld, Next
  PROVE  AcceptedIsHeld'
<1> USE DEF AcceptedIsHeld
<1>0. conn \in [Viewer -> {"none", "accepted", "live", "leaving", "gone"}]
  BY DEF IInv, TypeOK
<1>1. CASE UNCHANGED <<accept, conn>>
  BY <1>1
<1>2. CASE CloseAcceptor
  BY <1>2 DEF CloseAcceptor, Close, Pending, Accepted, Failed
<1>3. ASSUME accept \in {NoAccept, Failed}, accept' \in {NoAccept, Pending, Failed},
             UNCHANGED conn
      PROVE  AcceptedIsHeld'
  BY <1>3 DEF NoAccept, Failed, Pending, Accepted
<1>4. CASE ArmAccept \/ HandleAcceptError
  BY <1>3, <1>4 DEF ArmAccept, HandleAcceptError, IoAt, IInv, IoHasWork
<1>5. ASSUME NEW c \in Viewer, TakeConnection(c) PROVE AcceptedIsHeld'
  BY <1>0, <1>5 DEF TakeConnection, Pending, Accepted
<1>6. ASSUME NEW c \in Viewer, HandleAccepted(c) PROVE AcceptedIsHeld'
  BY <1>0, <1>6 DEF HandleAccepted, Accepted, NoAccept
<1>7. ASSUME NEW c \in Viewer, EndConnection(c) \/ Leave(c) PROVE AcceptedIsHeld'
  BY <1>0, <1>7 DEF EndConnection, Leave
<1>8. CASE \/ signalHandler \/ StartThread \/ LeaveLoops \/ StopListeningThrows
           \/ SetReady \/ JoinAndDelete \/ Listen \/ ListenFails \/ StopAccepting
           \/ LooksListening("start_accept", "async_accept")
           \/ LooksListening("async_accept", "accept") \/ RunReturns
  BY <1>1, <1>8 DEF signalHandler, StartThread, LeaveLoops, StopListeningThrows,
     SetReady, JoinAndDelete, Listen, ListenFails, StopAccepting, LooksListening,
     RunReturns
<1> QED
  BY <1>2, <1>4, <1>5, <1>6, <1>7, <1>8 DEF Next, Main, IoStep

\* A step that leaves the connections alone counts on the threads only.
LEMMA ThreadsCount ==
  ASSUME Connected' = Connected, ThreadsLeft' \in Nat,
         ThreadsLeft' < ThreadsLeft
  PROVE  StepsToExit' < StepsToExit
BY ConnectionsCounted, StepsCounted DEF StepsToExit

\* Every step of a process that shuts down.
LEMMA ExitStep ==
  ASSUME IInv, AcceptedIsHeld, Next, ShuttingDown
  PROVE  ExitComesCloser
<1> USE DEF ExitComesCloser
<1>1. /\ io \in {"start_accept", "async_accept", "accept", "reactor", "exited"}
      /\ main = "join" /\ m_state = "READY" /\ ~terminated
      /\ accept # Pending /\ acceptor = "closed"
      /\ conn \in [Viewer -> {"none", "accepted", "live", "leaving", "gone"}]
  BY DEF IInv, TypeOK, ShuttingDown, NotYet, ClosedIsFinal, StoppedListening
<1>2. ASSUME UNCHANGED <<m_state, terminated>>, main' \in {"join", "exited"},
             io' \in {"start_accept", "async_accept", "accept", "reactor", "exited"}
      PROVE  ShuttingDown' \/ main' = "exited"
  BY <1>1, <1>2 DEF ShuttingDown, NotYet
<1>3. ASSUME UNCHANGED conn PROVE Connected' = Connected
  BY <1>3 DEF Connected
<1>4. CASE signalHandler
  <2>1. ShuttingDown' /\ Connected' = Connected
    BY <1>1, <1>2, <1>3, <1>4 DEF signalHandler, ioVars, listenVars
  <2>2. ThreadsLeft' = ThreadsLeft
    BY <1>4 DEF signalHandler, ThreadsLeft, LoopLeft, AcceptLeft, IoLeft, MainLeft, ioVars
  <2> QED
    BY <1>4, <2>1, <2>2 DEF StepsToExit
<1>5. CASE JoinAndDelete
  <2>1. Connected' = Connected /\ main' = "exited"
    BY <1>3, <1>5 DEF JoinAndDelete, MainMoves
  <2>2. ThreadsLeft' \in Nat /\ ThreadsLeft' < ThreadsLeft
    BY <1>1, <1>5 DEF JoinAndDelete, MainMoves, ioVars, ThreadsLeft, LoopLeft,
       AcceptLeft, IoLeft, MainLeft
  <2> QED
    BY <2>1, <2>2, ThreadsCount
<1>6. CASE StopAccepting
  <2>1. CASE terminated'
    BY <2>1
  <2>2. CASE ~terminated'
    <3>1. io \in {"start_accept", "async_accept"} /\ io' = "reactor"
          /\ UNCHANGED <<main, m_state, accept, conn, terminated>>
      BY <1>1, <1>6, <2>2 DEF StopAccepting, IoAt, listenVars
    <3>2. ShuttingDown' /\ Connected' = Connected
      BY <1>1, <1>2, <1>3, <3>1
    <3>3. ThreadsLeft' \in Nat /\ ThreadsLeft' < ThreadsLeft
      BY <1>1, <3>1 DEF ThreadsLeft, LoopLeft, AcceptLeft, IoLeft, MainLeft
    <3> QED
      BY <3>2, <3>3, ThreadsCount
  <2> QED
    BY <2>1, <2>2
<1>7. CASE ArmAccept
  <2>1. io = "accept" /\ io' = "reactor" /\ accept = NoAccept /\ accept' = Failed
        /\ UNCHANGED <<main, m_state, conn, terminated>>
    BY <1>1, <1>7 DEF ArmAccept, IoAt, IInv, IoHasWork, listenVars
  <2>2. ShuttingDown' /\ Connected' = Connected
    BY <1>1, <1>2, <1>3, <2>1
  <2>3. ThreadsLeft' \in Nat /\ ThreadsLeft' < ThreadsLeft
    BY <1>1, <2>1 DEF ThreadsLeft, LoopLeft, AcceptLeft, IoLeft, MainLeft, NoAccept, Failed
  <2> QED
    BY <2>2, <2>3, ThreadsCount
<1>8. ASSUME io = "reactor", io' = "start_accept", accept # NoAccept,
             accept' = NoAccept, Connected' = Connected,
             UNCHANGED <<main, m_state, terminated>>
      PROVE  ExitComesCloser
  <2>1. ShuttingDown'
    BY <1>1, <1>2, <1>8
  <2>2. ThreadsLeft' \in Nat /\ ThreadsLeft' < ThreadsLeft
    BY <1>1, <1>8 DEF ThreadsLeft, LoopLeft, AcceptLeft, IoLeft, MainLeft
  <2> QED
    BY <1>8, <2>1, <2>2, ThreadsCount
<1>9. CASE HandleAcceptError
  <2>1. accept # NoAccept
    BY <1>9 DEF HandleAcceptError, Failed, NoAccept
  <2> QED
    BY <1>3, <1>8, <1>9, <2>1 DEF HandleAcceptError, IoAt, listenVars
<1>10. ASSUME NEW c \in Viewer, HandleAccepted(c) PROVE ExitComesCloser
  <2>1. accept # NoAccept /\ conn[c] = "accepted"
    BY <1>10 DEF HandleAccepted, Accepted, NoAccept, AcceptedIsHeld
  <2>2. Connected' = Connected
    BY <1>1, <1>10, <2>1 DEF HandleAccepted, Connected
  <2> QED
    BY <1>8, <1>10, <2>1, <2>2 DEF HandleAccepted, IoAt, listenVars
<1>11. CASE RunReturns
  <2>1. io = "reactor" /\ io' = "exited"
        /\ UNCHANGED <<main, m_state, accept, conn, terminated>>
    BY <1>11 DEF RunReturns, IoAt, listenVars
  <2>2. ShuttingDown' /\ Connected' = Connected
    BY <1>1, <1>2, <1>3, <2>1
  <2>3. ThreadsLeft' \in Nat /\ ThreadsLeft' < ThreadsLeft
    BY <1>1, <2>1 DEF ThreadsLeft, LoopLeft, AcceptLeft, IoLeft, MainLeft
  <2> QED
    BY <2>2, <2>3, ThreadsCount
<1>12. ASSUME NEW c \in Viewer, EndConnection(c) PROVE ExitComesCloser
  <2>1. c \in Connected /\ Connected' = Connected \ {c}
        /\ UNCHANGED <<main, m_state, io, accept, terminated>>
    BY <1>1, <1>12 DEF EndConnection, Connected, ioVars, listenVars
  <2>2. Cardinality(Connected') = Cardinality(Connected) - 1
    BY <2>1, ConnectionsCounted, FS_RemoveElement
  <2>3. ThreadsLeft' = ThreadsLeft
    BY <2>1 DEF ThreadsLeft, LoopLeft, AcceptLeft, IoLeft, MainLeft
  <2>4. ShuttingDown'
    BY <1>1, <1>2, <2>1
  <2> QED
    BY <2>2, <2>3, <2>4, ConnectionsCounted, StepsCounted DEF StepsToExit
<1>13. ASSUME NEW c \in Viewer, Leave(c) PROVE ExitComesCloser
  <2>1. Connected' = Connected /\ UNCHANGED <<main, m_state, io, accept, terminated>>
    BY <1>1, <1>13 DEF Leave, Connected, ioVars, listenVars
  <2>2. ThreadsLeft' = ThreadsLeft
    BY <2>1 DEF ThreadsLeft, LoopLeft, AcceptLeft, IoLeft, MainLeft
  <2>3. ShuttingDown'
    BY <1>1, <1>2, <2>1
  <2> QED
    BY <1>13, <2>1, <2>2, <2>3 DEF StepsToExit
<1>14. /\ ~StartThread /\ ~LeaveLoops /\ ~StopListeningThrows /\ ~CloseAcceptor
       /\ ~SetReady
  BY <1>1 DEF StartThread, LeaveLoops, StopListeningThrows, CloseAcceptor, SetReady,
     MainMoves
<1>15. /\ ~Listen /\ ~ListenFails
       /\ ~LooksListening("start_accept", "async_accept")
       /\ ~LooksListening("async_accept", "accept")
       /\ \A c \in Viewer : ~TakeConnection(c)
  BY <1>1 DEF Listen, ListenFails, LooksListening, TakeConnection, IoAt
<1> QED
  BY <1>4, <1>5, <1>6, <1>7, <1>9, <1>10, <1>11, <1>12, <1>13, <1>14, <1>15
     DEF Next, Main, IoStep

\* Once CTRL+C has closed the endpoint the process waits for viewers that stay
\* and for nothing else, and every step of its threads shortens the wait: if
\* they leave it ends (example.cpp:142-149, broadcast_server::stop_listening).
THEOREM ShutdownEnds ==
  Spec => /\ [](OnlyViewersKeepIt /\ StepsToExit \in Nat)
          /\ [][ExitComesCloser]_vars
<1>1. Init => AcceptedIsHeld
  BY DEF Init, AcceptedIsHeld, NoAccept, Accepted
<1>2. IInv /\ AcceptedIsHeld /\ [Next]_vars => AcceptedIsHeld'
  <2> SUFFICES ASSUME IInv, AcceptedIsHeld, [Next]_vars PROVE AcceptedIsHeld'
    OBVIOUS
  <2>1. CASE UNCHANGED vars
    BY <2>1 DEF vars, AcceptedIsHeld
  <2> QED
    BY <2>1, HeldKept
<1>3. IInv /\ AcceptedIsHeld => OnlyViewersKeepIt
  <2> SUFFICES ASSUME IInv, AcceptedIsHeld, ShuttingDown PROVE OnlyViewersKeepIt
    BY DEF OnlyViewersKeepIt
  <2>1. /\ io \in {"start_accept", "async_accept", "accept", "reactor", "exited"}
        /\ accept \in {NoAccept, Failed} \cup {Accepted(c) : c \in Viewer}
    BY DEF IInv, TypeOK, ShuttingDown, NotYet, ClosedIsFinal, StoppedListening
  <2>2. CASE accept = NoAccept
    <3>1. \A c \in Viewer : conn[c] \in {"none", "live", "leaving", "gone"}
      BY <2>2 DEF IInv, TypeOK, AcceptedIsHeld, NoAccept, Accepted
    <3> QED
      BY <2>1, <2>2, <3>1 DEF OnlyViewersKeepIt, NoWorkLeft
  <2> QED
    BY <2>1, <2>2 DEF OnlyViewersKeepIt
<1>4. IInv /\ AcceptedIsHeld /\ [Next]_vars => [ExitComesCloser]_vars
  BY ExitStep DEF ExitComesCloser
<1>5. StepsToExit \in Nat
  BY StepsCounted
<1> QED
  BY <1>1, <1>2, <1>3, <1>4, <1>5, InductiveInvariant, PTL DEF Spec
=============================================================================
