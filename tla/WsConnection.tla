---------------------------- MODULE WsConnection ----------------------------
(***************************************************************************)
(* One accepted connection of websocketpp, as the frame server uses it     *)
(* (impl/connection_impl.hpp), from its opening handshake to its end.      *)
(*                                                                         *)
(*   - the render thread calls send(): it looks at m_state under one lock, *)
(*     pushes under another, and asks the reactor to write afterwards;     *)
(*   - the io thread runs every callback: frames and errors read from the  *)
(*     peer, write_frame, the completion of a write, the close timer.      *)
(*                                                                         *)
(* A callback of the io thread is one step: only send() runs beside it,    *)
(* and the two share m_state, m_send_queue and m_write_flag only.  One     *)
(* read may carry several frames: each is a step.  What a frame is made of *)
(* is FrameReader's subject, and data frames go to on_message (see         *)
(* FrameServer).                                                           *)
(***************************************************************************)
EXTENDS Naturals, Sequences

CONSTANTS
    Payload,     \* the data frames the application sends
    Pong, Close, \* the control frames the library sends by itself
    MaxSends,    \* bound: calls of send()
    MaxControl   \* bound: control frames read from the peer

ASSUME MessageAssumption == Close # Pong /\ {Close, Pong} \cap Payload = {}
ASSUME BoundAssumption == MaxSends \in Nat /\ MaxControl \in Nat

Message == Payload \cup {Close, Pong}

VARIABLES
    m_state,            \* session::state
    m_internal_state,   \* the request is read, its response written, done
    m_send_queue,       \* accepted, not yet given to a write
    m_write_flag,       \* a write is under way, or was the last one
    m_current_msgs,     \* the messages of the write under way
    m_send_buffer,      \* what the kernel has not taken of them yet
    m_handshake_timer,  \* the open or the close handshake timer runs
    expired,            \* the handler of the expired open timer is queued
    posted,             \* calls of write_frame waiting in the reactor
    reading,            \* a read is pending
    sender              \* where the render thread is in send()

(* History variables; sends and control also serve as bounds.              *)
VARIABLES
    pushed,     \* every message ever pushed
    wire,       \* every message ever taken by the kernel
    lost,       \* what a failed write had left
    openCalls,  \* calls of the open handler
    closeCalls, \* calls of the close handler
    sends,      \* calls of send()
    control     \* control frames read

queueVars == <<m_send_queue, pushed>>
writeVars == <<m_write_flag, m_current_msgs, m_send_buffer, wire, lost>>
closeVars == <<m_state, m_handshake_timer, closeCalls>>
handshakeVars == <<m_internal_state, expired, openCalls>>
vars == <<handshakeVars, m_state, m_send_queue, m_write_flag, m_current_msgs, m_send_buffer,
          m_handshake_timer, posted, reading, sender, pushed, wire, lost,
          closeCalls, sends, control>>

Ready == [at |-> "ready"]
Checked(m) == [at |-> "checked", msg |-> m]
Dispatching == [at |-> "dispatch"]

TypeOK ==
    /\ m_state \in {"connecting", "open", "closing", "closed"}
    /\ m_internal_state \in {"request", "accept", "refuse", "done"}
    /\ m_send_queue \in Seq(Message) /\ m_current_msgs \in Seq(Message)
    /\ m_send_buffer \in Seq(Message)
    /\ m_write_flag \in BOOLEAN /\ m_handshake_timer \in BOOLEAN
    /\ expired \in BOOLEAN
    /\ posted \in Nat /\ reading \in BOOLEAN
    /\ sender \in {Ready, Dispatching} \cup {Checked(m) : m \in Payload}
    /\ pushed \in Seq(Message) /\ wire \in Seq(Message) /\ lost \in Seq(Message)
    /\ openCalls \in Nat /\ closeCalls \in Nat /\ sends \in Nat /\ control \in Nat

\* Mutant: the handshake is not timed.
OpenTimer_missing == FALSE
\* read_handshake: the timer is started once, before the first read.
OpenTimer == TRUE

\* handle_transport_init has just asked for the request.
Init ==
    /\ m_state = "connecting" /\ m_internal_state = "request"
    /\ m_send_queue = <<>> /\ m_current_msgs = <<>> /\ m_send_buffer = <<>>
    /\ m_write_flag = FALSE /\ m_handshake_timer = OpenTimer /\ expired = FALSE
    /\ posted = 0 /\ reading = TRUE /\ sender = Ready
    /\ pushed = <<>> /\ wire = <<>> /\ lost = <<>>
    /\ openCalls = 0 /\ closeCalls = 0 /\ sends = 0 /\ control = 0

-----------------------------------------------------------------------------
(* Both threads push, under m_write_lock.                                  *)

write_push(m) ==
    /\ m_send_queue' = Append(m_send_queue, m)
    /\ pushed' = Append(pushed, m)

\* Mutant: a push never asks for a write.
needs_writing_never == FALSE
\* needs_writing after a push: the queue is not empty then.
needs_writing == ~m_write_flag

\* The io thread posts write_frame in the callback that pushed.
PostIfNeeded == posted' = IF needs_writing THEN posted + 1 ELSE posted
-----------------------------------------------------------------------------
(* The render thread: connection::send().                                  *)

\* m_state is looked at under m_connection_state_lock; if the connection is
\* not open the call returns invalid_state and changes nothing.
CheckState(m) ==
    /\ sender = Ready /\ sends < MaxSends
    /\ m_state = "open"
    /\ sender' = Checked(m)
    /\ sends' = sends + 1
    /\ UNCHANGED <<handshakeVars, closeVars, queueVars, writeVars, posted, reading, control>>

\* The connection may be closing, or closed, by the time of the push.
Push(m) ==
    /\ sender = Checked(m)
    /\ write_push(m)
    /\ sender' = IF needs_writing THEN Dispatching ELSE Ready
    /\ UNCHANGED <<handshakeVars, closeVars, writeVars, posted, reading, sends, control>>

Dispatch ==
    /\ sender = Dispatching
    /\ posted' = posted + 1
    /\ sender' = Ready
    /\ UNCHANGED <<handshakeVars, closeVars, queueVars, writeVars, reading, sends, control>>

send == Dispatch \/ \E m \in Payload : CheckState(m) \/ Push(m)
-----------------------------------------------------------------------------
(* The io thread: the end of the connection.                               *)

\* Mutant: terminate() forgets to look whether it has run before.
AlreadyClosed_missed == FALSE
AlreadyClosed == m_state = "closed"

HandshakeFailed == m_state = "connecting"

\* terminate(): with a plain socket the shutdown completes at once, and
\* handle_terminate calls the close handler, or the fail handler, which the
\* server does not set.
terminate ==
    /\ m_handshake_timer' = FALSE
    /\ m_state' = "closed"
    /\ closeCalls' = IF AlreadyClosed \/ HandshakeFailed THEN closeCalls
                     ELSE closeCalls + 1

\* Mutant: no timer is started.
StartTimer_missing == UNCHANGED m_handshake_timer
StartTimer == m_handshake_timer' = TRUE

\* send_close_frame(): every close frame of a server whose application never
\* closes is an acknowledgement or reports a protocol error, and terminal.
send_close_frame ==
    /\ m_state' = "closing"
    /\ StartTimer
    /\ write_push(Close)
    /\ PostIfNeeded
    /\ UNCHANGED <<closeCalls, writeVars>>

CloseTimeout ==
    /\ m_handshake_timer /\ m_state # "connecting"
    /\ terminate
    /\ UNCHANGED <<handshakeVars, queueVars, writeVars, posted, reading, sender,
                   sends, control>>
-----------------------------------------------------------------------------
(* The io thread: the opening handshake.                                   *)

\* The two responses to a request: 101, or an HTTP error (it is no WebSocket
\* request, its version, URI or extensions are not supported).
Response == {"accept", "refuse"}

\* handle_read_handshake has the whole request (a part of it only causes
\* another read), and starts to write a response: 101 or an error.
handle_read_handshake ==
    /\ reading /\ reading' = FALSE
    /\ m_state = "connecting" /\ m_internal_state = "request"
    /\ m_internal_state' \in Response
    /\ UNCHANGED <<expired, openCalls, queueVars, writeVars, closeVars, posted,
                   sender, sends, control>>

\* handle_write_http_response: the response was written.  Cancelling the timer
\* does not recall the handler of one that has expired.
ResponseWritten ==
    /\ m_state = "connecting" /\ m_internal_state \in Response
    /\ m_internal_state' = "done"
    /\ IF m_internal_state = "accept"
       THEN /\ m_state' = "open" /\ m_handshake_timer' = FALSE
            /\ openCalls' = openCalls + 1
            /\ reading' = TRUE
            /\ UNCHANGED closeCalls
       ELSE terminate /\ UNCHANGED <<openCalls, reading>>
    /\ UNCHANGED <<expired, queueVars, writeVars, posted, sender, sends, control>>

\* The write of the response failed, or came after the end.
ResponseFailed ==
    /\ m_internal_state \in Response
    /\ m_internal_state' = "done"
    /\ terminate
    /\ UNCHANGED <<expired, openCalls, queueVars, writeVars, posted, reading,
                   sender, sends, control>>

OpenTimerExpires ==
    /\ m_handshake_timer /\ m_state = "connecting"
    /\ m_handshake_timer' = FALSE
    /\ expired' = TRUE
    /\ UNCHANGED <<m_internal_state, openCalls, m_state, closeCalls, queueVars,
                   writeVars, posted, reading, sender, sends, control>>

\* handle_open_handshake_timeout: the connection may have opened meanwhile.
OpenTimeout ==
    /\ expired /\ expired' = FALSE
    /\ terminate
    /\ UNCHANGED <<m_internal_state, openCalls, queueVars, writeVars, posted,
                   reading, sender, sends, control>>

Handshake ==
    \/ handle_read_handshake \/ ResponseWritten \/ ResponseFailed
    \/ OpenTimerExpires \/ OpenTimeout
-----------------------------------------------------------------------------
(* The io thread: handle_read_frame().                                     *)

ReadsControl ==
    /\ reading /\ control < MaxControl
    /\ control' = control + 1
    /\ UNCHANGED <<handshakeVars, reading, sender, sends>>

ReadPing ==
    /\ ReadsControl
    /\ m_state = "open"
    /\ write_push(Pong)
    /\ PostIfNeeded
    /\ UNCHANGED <<closeVars, writeVars>>

\* A close frame is acknowledged once, but one with an invalid code or reason
\* is acknowledged again.  (The acknowledgement of a close frame of our own
\* is not read: after a protocol error nothing is.)
ReadClose(valid) ==
    /\ ReadsControl
    /\ m_state = "open" \/ (~valid /\ m_state = "closing")
    /\ send_close_frame

\* Bytes that are no frame: close(), and no further read.
ProtocolError ==
    /\ m_state # "connecting"
    /\ reading /\ reading' = FALSE
    /\ IF m_state = "open" THEN send_close_frame
       ELSE terminate /\ UNCHANGED <<queueVars, writeVars, posted>>
    /\ UNCHANGED <<handshakeVars, sender, sends, control>>

\* The peer or its host ended the TCP connection, before or after it is open.
ReadError ==
    /\ reading /\ reading' = FALSE
    /\ terminate
    /\ UNCHANGED <<handshakeVars, queueVars, writeVars, posted, sender, sends,
                   control>>
-----------------------------------------------------------------------------
(* The io thread: writing.                                                 *)

\* Mutant: everything in the queue is taken, past a terminal message.
BatchEnd_all(n) == n = Len(m_send_queue)
\* write_frame pops until the queue is empty or a terminal message is popped.
BatchEnd(n) ==
    /\ n \in 1..Len(m_send_queue)
    /\ \A i \in 1..(n - 1) : m_send_queue[i] # Close
    /\ n = Len(m_send_queue) \/ m_send_queue[n] = Close

\* Mutant: a second write is begun while one is under way.
WriteUnderWay_ignored == FALSE
WriteUnderWay == m_write_flag

write_frame ==
    /\ posted > 0
    /\ posted' = posted - 1
    /\ IF WriteUnderWay \/ m_send_queue = <<>>
       THEN UNCHANGED <<m_send_queue, m_current_msgs, m_send_buffer, m_write_flag>>
       ELSE \E n \in 1..Len(m_send_queue) :
                /\ BatchEnd(n)
                /\ m_current_msgs' = SubSeq(m_send_queue, 1, n)
                /\ m_send_buffer' = SubSeq(m_send_queue, 1, n)
                /\ m_send_queue' = SubSeq(m_send_queue, n + 1, Len(m_send_queue))
                /\ m_write_flag' = TRUE
    /\ UNCHANGED <<handshakeVars, closeVars, pushed, wire, lost, reading, sender,
                   sends, control>>

\* The kernel takes the next message of async_write; how soon, or whether at
\* all, depends on the peer.
Transmit ==
    /\ m_send_buffer # <<>> /\ m_state # "closed"
    /\ wire' = Append(wire, Head(m_send_buffer))
    /\ m_send_buffer' = Tail(m_send_buffer)
    /\ UNCHANGED <<handshakeVars, closeVars, queueVars, m_write_flag,
                   m_current_msgs, lost, posted, reading, sender, sends, control>>

\* Mutant: what was pushed during the write is not looked for after it.
MoreToWrite_unseen == FALSE
MoreToWrite == m_send_queue # <<>>

\* handle_write_frame, the write succeeded.
handle_write_frame ==
    /\ m_current_msgs # <<>> /\ m_send_buffer = <<>>
    /\ m_current_msgs' = <<>>
    /\ IF m_current_msgs[Len(m_current_msgs)] = Close
       THEN terminate /\ UNCHANGED <<m_write_flag, posted>>
       ELSE /\ m_write_flag' = FALSE
            /\ posted' = IF MoreToWrite THEN posted + 1 ELSE posted
            /\ UNCHANGED closeVars
    /\ UNCHANGED <<handshakeVars, queueVars, m_send_buffer, wire, lost, reading,
                   sender, sends, control>>

\* handle_write_frame, the write failed: the flag is never lowered again.
WriteError ==
    /\ m_current_msgs # <<>>
    /\ lost' = m_send_buffer
    /\ m_current_msgs' = <<>> /\ m_send_buffer' = <<>>
    /\ terminate
    /\ UNCHANGED <<handshakeVars, queueVars, m_write_flag, wire, posted, reading,
                   sender, sends, control>>

Io == write_frame \/ handle_write_frame \/ CloseTimeout
Peer ==
    \/ ReadPing \/ ReadError \/ ProtocolError \/ Transmit \/ WriteError
    \/ \E valid \in BOOLEAN : ReadClose(valid)

Next == send \/ Handshake \/ Io \/ Peer

Spec == Init /\ [][Next]_vars

\* The render thread goes on and the reactor runs what is posted, completed or
\* expired.  Nothing is assumed of the peer, nor of how fast it reads.
FairSpec ==
    /\ Spec
    /\ WF_vars(send)
    /\ WF_vars(OpenTimerExpires) /\ WF_vars(OpenTimeout)
    /\ WF_vars(write_frame) /\ WF_vars(handle_write_frame) /\ WF_vars(CloseTimeout)
-----------------------------------------------------------------------------
(* Safety.                                                                 *)

\* No lost wake-up: what waits in the queue is waited for by a write that is
\* under way or by a call of write_frame that is or will be posted.  send()
\* and handle_write_frame decide under m_write_lock, and act on it after it.
NoLostWrite ==
    /\ m_send_queue # <<>> /\ ~m_write_flag => posted > 0 \/ sender = Dispatching
    /\ m_write_flag /\ m_state # "closed" => m_current_msgs # <<>>

\* The close handler is called once, when the connection is closed, although
\* the peer, a failed write and the timers may all end it, and never for a
\* connection that did not open: on_close erases what on_open inserted.
CloseHandlerOnce ==
    /\ closeCalls = IF m_state = "closed" THEN openCalls ELSE 0
    /\ m_state = "connecting" => openCalls = 0
    /\ m_state \in {"open", "closing"} => openCalls = 1
    /\ openCalls \in {0, 1}

\* A connection whose handshake is under way is not kept waiting for its peer
\* for ever.
ClosingIsTimed ==
    /\ m_state = "closing" => m_handshake_timer
    /\ m_state = "connecting" => m_handshake_timer \/ expired

\* No message is lost, doubled or overtaken between push and wire.
Written == wire \o (lost \o m_send_buffer)
Accounting == pushed = Written \o m_send_queue

\* A write covers no message past a close frame, and is the last one then.
HasClose(s) == \E i \in 1..Len(s) : s[i] = Close
WriteShape ==
    /\ m_current_msgs = <<>> => m_send_buffer = <<>>
    /\ m_current_msgs # <<>> => m_write_flag /\ lost = <<>>
    /\ lost # <<>> => m_state = "closed" /\ m_write_flag
    /\ \A i \in 1..(Len(m_send_buffer) - 1) : m_send_buffer[i] # Close
    /\ HasClose(m_send_buffer) => m_current_msgs[Len(m_current_msgs)] = Close
    /\ HasClose(wire) =>
         /\ m_send_buffer = <<>> /\ m_write_flag
         /\ \/ m_state = "closed" /\ m_current_msgs = <<>>
            \/ m_current_msgs # <<>> /\ m_current_msgs[Len(m_current_msgs)] = Close

IInv ==
    /\ TypeOK
    /\ NoLostWrite
    /\ CloseHandlerOnce
    /\ ClosingIsTimed
    /\ Accounting
    /\ WriteShape
-----------------------------------------------------------------------------
(* Liveness.                                                               *)

\* Once the close frame was read, or sent, the close handler is called, even
\* if the peer never reads what is written to it (the timer).
ClosingEnds == m_state = "closing" ~> m_state = "closed"

\* A peer that connects and says nothing, half a request, or does not take the
\* response, does not keep its connection (the open handshake timer).
HandshakeEnds == m_state = "connecting" ~> m_state # "connecting"

\* If the peer goes on reading, everything that was pushed reaches it in the
\* end, unless the connection is closed first.
PushedIsWritten ==
    WF_vars(Transmit) =>
        \A k \in 1..MaxSends :
            Len(pushed) >= k ~> (Len(wire) >= k \/ m_state = "closed")
-----------------------------------------------------------------------------
AsPipe == INSTANCE Pipe WITH
    accepted <- pushed, delivered <- wire, down <- m_state = "closed"

\* The connection is a FIFO pipe that ends with its close frame: what
\* FrameServer takes for granted of toClient.
IsPipe == AsPipe!Spec
=============================================================================
