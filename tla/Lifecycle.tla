------------------------------ MODULE Lifecycle ------------------------------
(***************************************************************************)
(* Start and end of the server process (main of example.cpp, run() and     *)
(* stop_listening() of broadcast_server, the accept loop of websocketpp).  *)
(*                                                                         *)
(*   - the main thread creates the io thread, renders until SIGINT sets    *)
(*     `stop', stops listening, joins the io thread and deletes the server;*)
(*   - the io thread listens, begins to accept and runs the reactor, which *)
(*     returns when it has no work left: no accept and no connection.      *)
(*                                                                         *)
(* The two share m_state and the acceptor without a lock.  What happens on *)
(* an accepted connection is in FrameServer and WsConnection; here it      *)
(* only lasts until its viewer has left.                                   *)
(***************************************************************************)
EXTENDS Naturals, FiniteSets

CONSTANT Viewer     \* the pages that may connect, once each

ASSUME ViewerAssumption == IsFiniteSet(Viewer)

VARIABLES
    stop,       \* set by the signal handler
    main,       \* where the main thread is
    io,         \* where the io thread is
    running,    \* the io thread is in m_server.run(), not before it
    m_state,    \* of the transport endpoint
    acceptor,   \* m_acceptor
    accept,     \* the asynchronous accept, and its result
    conn,       \* per viewer: its connection
    terminated, \* std::terminate, or what ended the process
    late        \* history: viewers accepted after stop_listening()

ioVars == <<io, running>>
listenVars == <<m_state, acceptor>>
vars == <<stop, main, io, running, m_state, acceptor, accept, conn, terminated, late>>

NoAccept == [is |-> "none"]
Pending == [is |-> "pending"]
Failed == [is |-> "failed"]
Accepted(c) == [is |-> "accepted", viewer |-> c]

TypeOK ==
    /\ stop \in BOOLEAN /\ running \in BOOLEAN /\ terminated \in BOOLEAN
    /\ main \in {"setHandlers", "loops", "stop_listening", "setReady", "join", "exited"}
    /\ io \in {"none", "listen", "start_accept", "async_accept", "accept",
               "reactor", "exited"}
    /\ m_state \in {"READY", "LISTENING"} /\ acceptor \in {"closed", "open"}
    /\ accept \in {NoAccept, Pending, Failed} \cup {Accepted(c) : c \in Viewer}
    /\ conn \in [Viewer -> {"none", "accepted", "live", "leaving", "gone"}]
    /\ late \subseteq Viewer

Init ==
    /\ stop = FALSE /\ running = FALSE /\ terminated = FALSE
    /\ main = "setHandlers" /\ io = "none"
    /\ m_state = "READY" /\ acceptor = "closed"
    /\ accept = NoAccept
    /\ conn = [c \in Viewer |-> "none"]
    /\ late = {}

Alive == ~terminated /\ main # "exited"
-----------------------------------------------------------------------------
(* The main thread.                                                        *)

\* SIGINT may arrive at any time: the handler is installed first.
signalHandler ==
    /\ Alive /\ ~stop
    /\ stop' = TRUE
    /\ UNCHANGED <<main, ioVars, listenVars, accept, conn, terminated, late>>

MainMoves(here, there) == Alive /\ main = here /\ main' = there

\* setHandlers(), and the thread is created.
StartThread ==
    /\ MainMoves("setHandlers", "loops")
    /\ io' = "listen"
    /\ UNCHANGED <<stop, running, listenVars, accept, conn, terminated, late>>

\* loops() has looked at stop after an iteration.
LeaveLoops ==
    /\ MainMoves("loops", "stop_listening")
    /\ stop
    /\ UNCHANGED <<stop, ioVars, listenVars, accept, conn, terminated, late>>

\* stop_listening(): an endpoint that does not listen (yet) makes it throw,
\* and the exception is swallowed.
StopListeningThrows ==
    /\ MainMoves("stop_listening", "join")
    /\ m_state = "READY"
    /\ UNCHANGED <<stop, ioVars, listenVars, accept, conn, terminated, late>>

\* Mutant: the acceptor stays open.
Close_missing == UNCHANGED <<acceptor, accept>>
\* Closing the acceptor cancels an accept that has not succeeded.
Close ==
    /\ acceptor' = "closed"
    /\ accept' = IF accept = Pending THEN Failed ELSE accept

\* Otherwise the acceptor is closed ...
CloseAcceptor ==
    /\ MainMoves("stop_listening", "setReady")
    /\ m_state = "LISTENING"
    /\ Close
    /\ UNCHANGED <<stop, ioVars, m_state, conn, terminated, late>>

\* Mutant: the endpoint goes on believing that it listens.
StopsListening_missing == UNCHANGED m_state
StopsListening == m_state' = "READY"

\* ... and then m_state is set.
SetReady ==
    /\ MainMoves("setReady", "join")
    /\ StopsListening
    /\ UNCHANGED <<stop, ioVars, acceptor, accept, conn, terminated, late>>

\* Mutant: the server is deleted without waiting for its thread.
IoThreadEnded_assumed == TRUE
IoThreadEnded == io = "exited"

\* join() returns, and everything is deleted.
JoinAndDelete ==
    /\ MainMoves("join", "exited")
    /\ IoThreadEnded
    /\ UNCHANGED <<stop, ioVars, listenVars, accept, conn, terminated, late>>
-----------------------------------------------------------------------------
(* The io thread.                                                          *)

IoAt(here) == Alive /\ io = here

\* m_server.listen(port) outside the try block of run().
Listen ==
    /\ IoAt("listen")
    /\ io' = "start_accept"
    /\ m_state' = "LISTENING" /\ acceptor' = "open"
    /\ UNCHANGED <<stop, main, running, accept, conn, terminated, late>>

\* Another process has the port: nothing catches the exception.
ListenFails ==
    /\ IoAt("listen")
    /\ terminated' = TRUE
    /\ UNCHANGED <<stop, main, ioVars, listenVars, accept, conn, late>>

\* start_accept() and async_accept() look at m_state one after the other.
LooksListening(here, there) ==
    /\ IoAt(here)
    /\ m_state = "LISTENING"
    /\ io' = there
    /\ UNCHANGED <<stop, main, running, listenVars, accept, conn, terminated, late>>

\* Mutant: the error code is thrown in the accept loop too.
Throws_always == TRUE
Throws == ~running

\* Not listening: run()'s call of start_accept() throws, and nothing catches
\* it; handle_accept gets an error code and ends the loop.
StopAccepting ==
    /\ \E here \in {"start_accept", "async_accept"} : IoAt(here)
    /\ m_state = "READY"
    /\ IF Throws
       THEN terminated' = TRUE /\ UNCHANGED io
       ELSE io' = "reactor" /\ UNCHANGED terminated
    /\ UNCHANGED <<stop, main, running, listenVars, accept, conn, late>>

\* The accept is armed; on a closed acceptor it fails at once.
ArmAccept ==
    /\ IoAt("accept")
    /\ accept' = IF acceptor = "open" THEN Pending ELSE Failed
    /\ io' = "reactor"
    /\ running' = TRUE
    /\ UNCHANGED <<stop, main, listenVars, conn, terminated, late>>

\* The reactor takes a connection from the kernel's queue ...
TakeConnection(c) ==
    /\ IoAt("reactor")
    /\ accept = Pending /\ conn[c] = "none"
    /\ accept' = Accepted(c)
    /\ conn' = [conn EXCEPT ![c] = "accepted"]
    /\ UNCHANGED <<stop, main, ioVars, listenVars, terminated, late>>

\* stop_listening() has found the endpoint listening, and closed it.
StoppedListening == main = "setReady" \/ (main = "join" /\ m_state = "READY")

\* ... and calls handle_accept, which starts it and accepts the next one.
HandleAccepted(c) ==
    /\ IoAt("reactor")
    /\ accept = Accepted(c)
    /\ accept' = NoAccept
    /\ conn' = [conn EXCEPT ![c] = "live"]
    /\ late' = IF StoppedListening THEN late \cup {c} ELSE late
    /\ io' = "start_accept"
    /\ UNCHANGED <<stop, main, running, listenVars, terminated>>

HandleAcceptError ==
    /\ IoAt("reactor")
    /\ accept = Failed
    /\ accept' = NoAccept
    /\ io' = "start_accept"
    /\ UNCHANGED <<stop, main, running, listenVars, conn, terminated, late>>

\* The connection of a viewer that left has run its last handler.
EndConnection(c) ==
    /\ IoAt("reactor")
    /\ conn[c] = "leaving"
    /\ conn' = [conn EXCEPT ![c] = "gone"]
    /\ UNCHANGED <<stop, main, ioVars, listenVars, accept, terminated, late>>

\* Mutant: only the accept keeps the reactor busy.
NoWorkLeft_connected == accept = NoAccept
NoWorkLeft == accept = NoAccept /\ \A c \in Viewer : conn[c] \in {"none", "gone"}

\* io_service::run() returns, and so does the thread.
RunReturns ==
    /\ IoAt("reactor")
    /\ NoWorkLeft
    /\ io' = "exited"
    /\ UNCHANGED <<stop, main, running, listenVars, accept, conn, terminated, late>>

\* The person in front of the page closes it.
Leave(c) ==
    /\ Alive /\ conn[c] = "live"
    /\ conn' = [conn EXCEPT ![c] = "leaving"]
    /\ UNCHANGED <<stop, main, ioVars, listenVars, accept, terminated, late>>

Main ==
    \/ StartThread \/ LeaveLoops \/ StopListeningThrows \/ CloseAcceptor
    \/ SetReady \/ JoinAndDelete

IoStep ==
    \/ Listen \/ ListenFails \/ StopAccepting \/ ArmAccept
    \/ LooksListening("start_accept", "async_accept")
    \/ LooksListening("async_accept", "accept")
    \/ HandleAcceptError \/ RunReturns
    \/ \E c \in Viewer : HandleAccepted(c) \/ EndConnection(c)

Next ==
    \/ signalHandler \/ Main \/ IoStep
    \/ \E c \in Viewer : TakeConnection(c) \/ Leave(c)

Spec == Init /\ [][Next]_vars

\* Both threads run.  Nobody has to press CTRL+C, to connect or to leave.
FairSpec == Spec /\ WF_vars(Main) /\ WF_vars(IoStep)
-----------------------------------------------------------------------------
(* Properties.                                                             *)

Connected == {c \in Viewer : conn[c] \in {"accepted", "live", "leaving"}}

\* The objects that the handlers use are deleted only when no handler can run
\* any more: the io thread is gone, and with it every accept and connection
\* that could call on_open, on_message or on_close (example.cpp:142-149).
DeletedAlone ==
    main = "exited" => io = "exited" /\ accept = NoAccept /\ Connected = {}

\* A viewer that was in the accept queue when the server stopped listening
\* may still be let in, to a server that never sends a frame; but only one.
OneLateViewer == Cardinality(late) <= 1

\* Only the startup can kill the process: once the reactor runs, an endpoint
\* that stops listening under the accept loop's feet just ends the loop.
OnlyStartupThrows == terminated => ~running

\* Why these three hold; with them they are an inductive invariant.  An io
\* thread that is not yet accepting has no work and has accepted nobody; one
\* that has ended has no work left; a closed acceptor yields no viewer but the
\* one whose accept had succeeded.
NotYet == io \in {"none", "listen"}
IoHasWork ==
    /\ main = "setHandlers" => io = "none"
    /\ NotYet => /\ m_state = "READY" /\ acceptor = "closed" /\ ~running
                 /\ accept = NoAccept /\ Connected = {}
    /\ io = "exited" => accept = NoAccept /\ Connected = {}
    /\ io = "reactor" => running
    /\ io \in {"start_accept", "async_accept", "accept"} => accept = NoAccept
ClosedIsFinal ==
    /\ main = "setReady" => m_state = "LISTENING"
    /\ m_state = "READY" => NotYet \/ main \in {"join", "exited"}
    /\ StoppedListening => acceptor = "closed" /\ accept # Pending
LateWasAccepted ==
    late # {} =>
        /\ StoppedListening \/ main = "exited"
        /\ ~NotYet
        /\ accept \in {NoAccept, Failed}
        /\ \E c \in Viewer : late = {c}

IInv ==
    /\ TypeOK
    /\ DeletedAlone
    /\ OnlyStartupThrows
    /\ IoHasWork
    /\ ClosedIsFinal
    /\ LateWasAccepted

\* stop_listening() came before listen(): its exception was swallowed, and
\* the io thread goes on accepting while main waits for it.
StopMissed == main = "join" /\ (acceptor = "open" \/ io = "listen")

\* If the viewers leave, CTRL+C ends the server, unless it came too early.
ExitsWhenLeft ==
    <>[](\A c \in Viewer : conn[c] # "live")
        => (stop ~> (main = "exited" \/ terminated \/ StopMissed))

\* CTRL+C ends the server ("Press CTRL+C to exit...", example.cpp:85).  It
\* does not: the reactor does not return before every viewer has left.
CtrlCExits == stop ~> (main = "exited" \/ terminated)
=============================================================================
