------------------------- MODULE WsConnectionProofs -------------------------
(* Theorems about WsConnection, for every set of payloads and every bound. *)
EXTENDS WsConnection, SequenceTheorems, TLAPS

Step ==
    \/ Dispatch \/ write_frame \/ handle_write_frame \/ CloseTimeout
    \/ ReadPing \/ ReadError \/ ProtocolError \/ Transmit \/ WriteError
    \/ (\E m \in Payload : CheckState(m) \/ Push(m))
    \/ (\E valid \in BOOLEAN : ReadClose(valid))
    \/ handle_read_handshake \/ ResponseWritten \/ ResponseFailed
    \/ OpenTimerExpires \/ OpenTimeout

\* The next-state relation as a flat list of steps.
LEMMA NextIsStep == Next <=> Step
  BY DEF Next, Step, send, Io, Peer, Handshake

\* write_push keeps the types of both sequences.
LEMMA PushTypes ==
    ASSUME TypeOK, NEW m \in Message, write_push(m)
    PROVE  m_send_queue' \in Seq(Message) /\ pushed' \in Seq(Message)
  BY AppendProperties DEF TypeOK, write_push

\* terminate() keeps the types of what it assigns.
LEMMA TerminateTypes ==
    ASSUME TypeOK, terminate
    PROVE  m_state' \in {"connecting", "open", "closing", "closed"}
           /\ m_handshake_timer' \in BOOLEAN /\ closeCalls' \in Nat
  <1>1. closeCalls' \in Nat
    BY DEF TypeOK, terminate, AlreadyClosed, HandshakeFailed
  <1>2. m_handshake_timer' \in BOOLEAN
    BY DEF terminate
  <1>3. m_state' \in {"connecting", "open", "closing", "closed"}
    BY DEF terminate
  <1> QED BY <1>1, <1>2, <1>3

\* The types hold initially.
LEMMA TypeInit == Init => TypeOK
  <1> SUFFICES ASSUME Init PROVE TypeOK
    OBVIOUS
  <1>1. <<>> \in Seq(Message)
    BY EmptySeq
  <1>2. /\ posted \in Nat /\ closeCalls \in Nat /\ sends \in Nat /\ control \in Nat
        /\ openCalls \in Nat
    BY DEF Init
  <1>3. /\ m_write_flag \in BOOLEAN /\ m_handshake_timer \in BOOLEAN
        /\ reading \in BOOLEAN /\ expired \in BOOLEAN
    BY DEF Init, OpenTimer
  <1> QED BY <1>1, <1>2, <1>3 DEF Init, TypeOK

\* Every step keeps the types, if its pieces do.
LEMMA TypeStep == TypeOK /\ Step => TypeOK'
  <1> SUFFICES ASSUME TypeOK, Step PROVE TypeOK'
    OBVIOUS
  <1> USE DEF handshakeVars
  <1>1. Close \in Message /\ Pong \in Message /\ Payload \subseteq Message
        /\ <<>> \in Seq(Message)
    BY EmptySeq DEF Message
  <1>2. CASE Dispatch
    BY <1>2 DEF TypeOK, Dispatch, closeVars, queueVars, writeVars
  <1>3. CASE write_frame
    <2>1. posted' \in Nat
      BY <1>3 DEF TypeOK, write_frame
    <2>2. CASE WriteUnderWay \/ m_send_queue = <<>>
      BY <1>3, <2>1, <2>2 DEF TypeOK, write_frame, closeVars
    <2>3. CASE ~(WriteUnderWay \/ m_send_queue = <<>>)
      <3>1. PICK n \in 1..Len(m_send_queue) :
              /\ m_current_msgs' = SubSeq(m_send_queue, 1, n)
              /\ m_send_buffer' = SubSeq(m_send_queue, 1, n)
              /\ m_send_queue' = SubSeq(m_send_queue, n + 1, Len(m_send_queue))
              /\ m_write_flag' = TRUE
        BY <1>3, <2>3 DEF write_frame
      <3>2. \A i \in 1..Len(m_send_queue) : m_send_queue[i] \in Message
        BY ElementOfSeq DEF TypeOK
      <3>3. Len(m_send_queue) \in Nat
        BY LenProperties DEF TypeOK
      <3>4. SubSeq(m_send_queue, 1, n) \in Seq(Message)
        <4>1. \A i \in 1..n : m_send_queue[i] \in Message
          BY <3>2, <3>3
        <4> QED BY <3>3, <4>1, SubSeqProperties
      <3>5. SubSeq(m_send_queue, n + 1, Len(m_send_queue)) \in Seq(Message)
        <4>1. \A i \in (n + 1)..Len(m_send_queue) : m_send_queue[i] \in Message
          BY <3>2, <3>3
        <4> QED BY <3>3, <4>1, SubSeqProperties
      <3> QED BY <1>3, <2>1, <3>1, <3>4, <3>5 DEF TypeOK, write_frame, closeVars
    <2> QED BY <2>2, <2>3
  <1>4. CASE handle_write_frame
    <2>1. CASE m_current_msgs[Len(m_current_msgs)] = Close
      BY <1>1, <1>4, <2>1, TerminateTypes DEF TypeOK, handle_write_frame, queueVars
    <2>2. CASE m_current_msgs[Len(m_current_msgs)] # Close
      <3>1. posted' \in Nat
        BY <1>4, <2>2 DEF TypeOK, handle_write_frame
      <3>2. m_write_flag' \in BOOLEAN
        BY <1>4, <2>2 DEF handle_write_frame
      <3> QED BY <1>1, <1>4, <2>2, <3>1, <3>2
              DEF TypeOK, handle_write_frame, closeVars, queueVars
    <2> QED BY <2>1, <2>2
  <1>5. CASE CloseTimeout
    BY <1>5, TerminateTypes DEF TypeOK, CloseTimeout, queueVars, writeVars
  <1>6. CASE ReadPing
    <2>1. m_send_queue' \in Seq(Message) /\ pushed' \in Seq(Message)
      BY <1>1, <1>6, PushTypes DEF ReadPing
    <2> QED BY <1>6, <2>1 DEF TypeOK, ReadPing, ReadsControl, PostIfNeeded,
               closeVars, writeVars
  <1>7. CASE ReadError
    <2>1. reading' \in BOOLEAN
      BY <1>7 DEF ReadError
    <2> QED BY <1>7, <2>1, TerminateTypes DEF TypeOK, ReadError, queueVars, writeVars
  <1>8. CASE ProtocolError
    <2>1. CASE m_state = "open"
      <3>1. m_send_queue' \in Seq(Message) /\ pushed' \in Seq(Message)
        BY <1>1, <1>8, <2>1, PushTypes DEF ProtocolError, send_close_frame
      <3>2. reading' \in BOOLEAN
        BY <1>8 DEF ProtocolError
      <3>3. m_handshake_timer' \in BOOLEAN /\ posted' \in Nat
        BY <1>8, <2>1 DEF TypeOK, ProtocolError, send_close_frame, StartTimer,
                          PostIfNeeded
      <3> QED BY <1>8, <2>1, <3>1, <3>2, <3>3 DEF TypeOK, ProtocolError,
                 send_close_frame, writeVars
    <2>2. CASE m_state # "open"
      <3>1. reading' \in BOOLEAN
        BY <1>8 DEF ProtocolError
      <3> QED BY <1>8, <2>2, <3>1, TerminateTypes
              DEF TypeOK, ProtocolError, queueVars, writeVars
    <2> QED BY <2>1, <2>2
  <1>9. CASE Transmit
    <2>1. /\ Head(m_send_buffer) \in Message
          /\ Tail(m_send_buffer) \in Seq(Message)
      BY <1>9, HeadTailProperties DEF TypeOK, Transmit
    <2>2. Append(wire, Head(m_send_buffer)) \in Seq(Message)
      BY <2>1, AppendProperties DEF TypeOK
    <2> QED BY <1>9, <2>1, <2>2 DEF TypeOK, Transmit, closeVars, queueVars
  <1>10. CASE WriteError
    BY <1>1, <1>10, TerminateTypes DEF TypeOK, WriteError, queueVars
  <1>11. ASSUME NEW m \in Payload, CheckState(m) PROVE TypeOK'
    BY <1>11 DEF TypeOK, CheckState, closeVars, queueVars, writeVars
  <1>12. ASSUME NEW m \in Payload, Push(m) PROVE TypeOK'
    <2>1. m_send_queue' \in Seq(Message) /\ pushed' \in Seq(Message)
      BY <1>1, <1>12, PushTypes DEF Push
    <2> QED BY <1>12, <2>1 DEF TypeOK, Push, closeVars, writeVars
  <1>13. ASSUME NEW valid \in BOOLEAN, ReadClose(valid) PROVE TypeOK'
    <2>1. m_send_queue' \in Seq(Message) /\ pushed' \in Seq(Message)
      BY <1>1, <1>13, PushTypes DEF ReadClose, send_close_frame
    <2> QED BY <1>13, <2>1 DEF TypeOK, ReadClose, ReadsControl, send_close_frame,
               StartTimer, PostIfNeeded, needs_writing, writeVars
  <1>14. CASE handle_read_handshake
    <2>1. m_internal_state' \in {"request", "accept", "refuse", "done"}
      BY <1>14 DEF handle_read_handshake, Response
    <2> QED BY <1>14, <2>1 DEF TypeOK, handle_read_handshake, closeVars, queueVars,
               writeVars
  <1>15. CASE ResponseWritten
    <2>1. CASE m_internal_state = "accept"
      <3>1. openCalls' \in Nat /\ m_state' = "open" /\ m_internal_state' = "done"
        BY <1>15, <2>1 DEF TypeOK, ResponseWritten
      <3>2. m_handshake_timer' = FALSE /\ reading' = TRUE
        BY <1>15, <2>1 DEF ResponseWritten
      <3>3. UNCHANGED <<expired, closeCalls, queueVars, writeVars, posted, sender,
                        sends, control>>
        BY <1>15, <2>1 DEF ResponseWritten
      <3> QED BY <3>1, <3>2, <3>3 DEF TypeOK, queueVars, writeVars
    <2>2. CASE m_internal_state # "accept"
      BY <1>15, <2>2, TerminateTypes DEF TypeOK, ResponseWritten, queueVars, writeVars
    <2> QED BY <2>1, <2>2
  <1>16. CASE ResponseFailed
    BY <1>16, TerminateTypes DEF TypeOK, ResponseFailed, queueVars, writeVars
  <1>17. CASE OpenTimerExpires
    BY <1>17 DEF TypeOK, OpenTimerExpires, queueVars, writeVars
  <1>18. CASE OpenTimeout
    BY <1>18, TerminateTypes DEF TypeOK, OpenTimeout, queueVars, writeVars
  <1> QED BY <1>2, <1>3, <1>4, <1>5, <1>6, <1>7, <1>8, <1>9, <1>10, <1>11,
             <1>12, <1>13, <1>14, <1>15, <1>16, <1>17, <1>18 DEF Step

\* Every variable keeps its type.
THEOREM TypeCorrect == Spec => []TypeOK
  <1>1. TypeOK /\ [Next]_vars => TypeOK'
    <2> SUFFICES ASSUME TypeOK, [Next]_vars PROVE TypeOK'
      OBVIOUS
    <2>1. CASE UNCHANGED vars BY <2>1 DEF TypeOK, vars, handshakeVars
    <2>2. CASE Next BY <2>2, NextIsStep, TypeStep
    <2> QED BY <2>1, <2>2
  <1> QED BY <1>1, TypeInit, PTL DEF Spec
-----------------------------------------------------------------------------
(* The control part of the invariant: who will write next, and who ends    *)
(* the connection.                                                         *)

Control == NoLostWrite /\ CloseHandlerOnce /\ ClosingIsTimed

\* What both threads push is written by somebody.
LEMMA ControlStep == TypeOK /\ Control /\ WriteShape /\ Step => Control'
  <1> SUFFICES ASSUME TypeOK, Control, WriteShape, Step PROVE Control'
    OBVIOUS
  <1> USE DEF Control, NoLostWrite, CloseHandlerOnce, ClosingIsTimed, handshakeVars,
              HandshakeFailed
  <1>1. posted \in Nat /\ m_state \in {"connecting", "open", "closing", "closed"}
    BY DEF TypeOK
  <1>2. CASE Dispatch
    BY <1>1, <1>2 DEF Dispatch, closeVars, queueVars, writeVars
  <1>3. CASE write_frame
    <2>1. CASE WriteUnderWay \/ m_send_queue = <<>>
      BY <1>1, <1>3, <2>1 DEF write_frame, WriteUnderWay, closeVars
    <2>2. CASE ~(WriteUnderWay \/ m_send_queue = <<>>)
      <3>1. PICK n \in 1..Len(m_send_queue) :
              /\ m_current_msgs' = SubSeq(m_send_queue, 1, n)
              /\ m_write_flag' = TRUE
        BY <1>3, <2>2 DEF write_frame
      <3>2. Len(m_send_queue) \in Nat
        BY LenProperties DEF TypeOK
      <3>3. Len(SubSeq(m_send_queue, 1, n)) = n
        <4>1. \A i \in 1..n : m_send_queue[i] \in Message
          BY <3>2, ElementOfSeq DEF TypeOK
        <4> QED BY <3>2, <4>1, SubSeqProperties
      <3>4. m_current_msgs' # <<>>
        BY <3>1, <3>2, <3>3, EmptySeq
      <3> QED BY <1>3, <3>1, <3>4 DEF write_frame, closeVars
    <2> QED BY <2>1, <2>2
  <1>4. CASE handle_write_frame
    <2>1. CASE m_current_msgs[Len(m_current_msgs)] = Close
      BY <1>1, <1>4, <2>1 DEF handle_write_frame, terminate, AlreadyClosed, WriteShape,
                        queueVars
    <2>2. CASE m_current_msgs[Len(m_current_msgs)] # Close
      BY <1>1, <1>4, <2>2 DEF handle_write_frame, MoreToWrite, closeVars, queueVars
    <2> QED BY <2>1, <2>2
  <1>5. CASE CloseTimeout
    BY <1>1, <1>5 DEF CloseTimeout, terminate, AlreadyClosed, queueVars, writeVars
  <1>6. CASE ReadPing
    BY <1>1, <1>6 DEF ReadPing, ReadsControl, write_push, PostIfNeeded,
                      needs_writing, closeVars, writeVars
  <1>7. CASE ReadError
    BY <1>1, <1>7 DEF ReadError, terminate, AlreadyClosed, queueVars, writeVars
  <1>8. CASE ProtocolError
    BY <1>1, <1>8 DEF ProtocolError, terminate, AlreadyClosed, send_close_frame,
             StartTimer, write_push, PostIfNeeded, needs_writing, queueVars, writeVars
  <1>9. CASE Transmit
    BY <1>9 DEF Transmit, closeVars, queueVars
  <1>10. CASE WriteError
    BY <1>1, <1>10 DEF WriteError, terminate, AlreadyClosed, WriteShape, queueVars
  <1>11. ASSUME NEW m \in Payload, CheckState(m) PROVE Control'
    BY <1>11, MessageAssumption DEF CheckState, Ready, Dispatching, closeVars,
             queueVars, writeVars
  <1>12. ASSUME NEW m \in Payload, Push(m) PROVE Control'
    BY <1>12 DEF Push, needs_writing, closeVars, writeVars, Checked,
                 Dispatching
  <1>13. ASSUME NEW valid \in BOOLEAN, ReadClose(valid) PROVE Control'
    BY <1>1, <1>13 DEF ReadClose, ReadsControl, send_close_frame, StartTimer,
                  write_push, PostIfNeeded, needs_writing, writeVars
  <1>14. CASE handle_read_handshake
    BY <1>14 DEF handle_read_handshake, closeVars, queueVars, writeVars
  <1>15. CASE ResponseWritten
    BY <1>15 DEF ResponseWritten, terminate, AlreadyClosed, queueVars, writeVars
  <1>16. CASE ResponseFailed
    BY <1>1, <1>16 DEF ResponseFailed, terminate, AlreadyClosed, queueVars, writeVars
  <1>17. CASE OpenTimerExpires
    BY <1>17 DEF OpenTimerExpires, queueVars, writeVars
  <1>18. CASE OpenTimeout
    BY <1>1, <1>18 DEF OpenTimeout, terminate, AlreadyClosed, queueVars, writeVars
  <1> QED BY <1>2, <1>3, <1>4, <1>5, <1>6, <1>7, <1>8, <1>9, <1>10, <1>11,
             <1>12, <1>13, <1>14, <1>15, <1>16, <1>17, <1>18 DEF Step
-----------------------------------------------------------------------------
(* The shape of a write: a close frame can only be its last message, and   *)
(* no write follows it.                                                    *)

\* A step that leaves the write alone keeps its shape.
LEMMA ShapeQuiet ==
    ASSUME WriteShape, UNCHANGED writeVars,
           m_state = "closed" => m_state' = "closed"
    PROVE  WriteShape'
  BY DEF WriteShape, writeVars, HasClose

\* A write covers the queue up to its first close frame.
LEMMA ShapeStart ==
    ASSUME TypeOK, Control, WriteShape, write_frame
    PROVE  WriteShape'
  <1>1. CASE WriteUnderWay \/ m_send_queue = <<>>
    BY <1>1 DEF write_frame, WriteShape, HasClose, closeVars
  <1>2. CASE ~(WriteUnderWay \/ m_send_queue = <<>>)
    <2>1. PICK n \in 1..Len(m_send_queue) :
            /\ BatchEnd(n)
            /\ m_current_msgs' = SubSeq(m_send_queue, 1, n)
            /\ m_send_buffer' = SubSeq(m_send_queue, 1, n)
            /\ m_write_flag' = TRUE
      BY <1>2 DEF write_frame
    <2> DEFINE batch == SubSeq(m_send_queue, 1, n)
    <2>2. n \in Nat \ {0} /\ Len(m_send_queue) \in Nat
      BY LenProperties DEF TypeOK
    <2>3. Len(batch) = n /\ \A i \in 1..n : batch[i] = m_send_queue[i]
      <3>1. \A i \in 1..n : m_send_queue[i] \in Message
        BY <2>2, ElementOfSeq DEF TypeOK
      <3> QED BY <2>2, <3>1, SubSeqProperties
    <2>4. batch # <<>>
      BY <2>2, <2>3, EmptySeq
    <2>5. \A i \in 1..(n - 1) : batch[i] # Close
      BY <2>1, <2>2, <2>3 DEF BatchEnd
    <2>6. HasClose(batch) => batch[n] = Close
      BY <2>2, <2>3, <2>5 DEF HasClose
    <2>7. ~m_write_flag /\ ~HasClose(wire) /\ lost = <<>> /\ wire' = wire /\ lost' = lost
      BY <1>2 DEF WriteUnderWay, WriteShape, write_frame
    <2> HIDE DEF batch
    <2>8. m_current_msgs' = batch /\ m_send_buffer' = batch
      BY <2>1 DEF batch
    <2> QED BY <2>1, <2>3, <2>4, <2>5, <2>6, <2>7, <2>8 DEF WriteShape, HasClose
  <1> QED BY <1>1, <1>2

\* The kernel takes a close frame only when it is the last message of a write.
LEMMA ShapeTransmit ==
    ASSUME TypeOK, WriteShape, Transmit
    PROVE  WriteShape'
  <1>1. /\ wire \in Seq(Message) /\ m_send_buffer \in Seq(Message)
        /\ m_send_buffer # <<>> /\ m_current_msgs # <<>>
        /\ ~HasClose(wire)
    BY DEF TypeOK, Transmit, WriteShape
  <1>2. /\ Len(m_send_buffer) \in Nat \ {0}
        /\ Head(m_send_buffer) \in Message
        /\ Len(m_send_buffer') = Len(m_send_buffer) - 1
        /\ m_send_buffer' \in Seq(Message)
        /\ \A i \in 1..Len(m_send_buffer') : m_send_buffer'[i] = m_send_buffer[i + 1]
    BY <1>1, HeadTailProperties, EmptySeq DEF Transmit
  <1>3. Head(m_send_buffer) = m_send_buffer[1]
    BY <1>1
  <1>4. /\ Len(wire) \in Nat
        /\ Len(wire') = Len(wire) + 1
        /\ \A i \in 1..Len(wire) : wire'[i] = wire[i]
        /\ wire'[Len(wire) + 1] = Head(m_send_buffer)
    BY <1>1, <1>2, AppendProperties, LenProperties DEF Transmit
  <1>5. \A i \in 1..(Len(m_send_buffer') - 1) : m_send_buffer'[i] # Close
    BY <1>2 DEF WriteShape
  <1>6. HasClose(m_send_buffer') => HasClose(m_send_buffer)
    BY <1>2 DEF HasClose
  <1>7. HasClose(wire') => Head(m_send_buffer) = Close
    BY <1>1, <1>4 DEF HasClose
  <1>8. ASSUME Head(m_send_buffer) = Close
        PROVE  m_send_buffer' = <<>> /\ m_current_msgs[Len(m_current_msgs)] = Close
    <2>1. Len(m_send_buffer) = 1
      BY <1>2, <1>3, <1>8 DEF WriteShape
    <2>2. HasClose(m_send_buffer)
      BY <1>3, <1>8, <2>1 DEF HasClose
    <2>3. m_send_buffer' = <<>>
      BY <1>2, <2>1, EmptySeq
    <2> QED BY <2>2, <2>3 DEF WriteShape
  <1>9. /\ UNCHANGED <<m_state, m_write_flag, m_current_msgs, lost>>
    BY DEF Transmit, closeVars
  <1> QED BY <1>1, <1>5, <1>6, <1>7, <1>8, <1>9 DEF WriteShape, HasClose

\* Every step keeps the shape of the write.
LEMMA ShapeStep == TypeOK /\ Control /\ WriteShape /\ Step => WriteShape'
  <1> SUFFICES ASSUME TypeOK, Control, WriteShape, Step PROVE WriteShape'
    OBVIOUS
  <1>2. CASE Dispatch
    BY <1>2, ShapeQuiet DEF Dispatch, closeVars
  <1>3. CASE write_frame
    BY <1>3, ShapeStart
  <1>4. CASE handle_write_frame
    <2>1. /\ m_send_buffer = <<>> /\ m_send_buffer' = <<>>
          /\ m_current_msgs # <<>> /\ m_current_msgs' = <<>>
          /\ wire' = wire /\ lost' = lost /\ lost = <<>> /\ m_write_flag
      BY <1>4 DEF handle_write_frame, WriteShape
    <2>2. ~HasClose(<<>>) /\ \A i \in 1..(Len(<<>>) - 1) : <<>>[i] # Close
      BY EmptySeq DEF HasClose
    <2>3. CASE m_current_msgs[Len(m_current_msgs)] = Close
      <3>1. m_state' = "closed" /\ m_write_flag' = m_write_flag
        BY <1>4, <2>3 DEF handle_write_frame, terminate
      <3> QED BY <2>1, <2>2, <3>1 DEF WriteShape, HasClose
    <2>4. CASE m_current_msgs[Len(m_current_msgs)] # Close
      <3>1. ~HasClose(wire)
        BY <2>1, <2>4 DEF WriteShape
      <3> QED BY <2>1, <2>2, <3>1 DEF WriteShape, HasClose
    <2> QED BY <2>3, <2>4
  <1>5. CASE CloseTimeout
    BY <1>5, ShapeQuiet DEF CloseTimeout, terminate
  <1>6. CASE ReadPing
    BY <1>6, ShapeQuiet DEF ReadPing, closeVars
  <1>7. CASE ReadError
    BY <1>7, ShapeQuiet DEF ReadError, terminate
  <1>8. CASE ProtocolError
    <2>1. UNCHANGED writeVars /\ (m_state = "closed" => m_state' = "closed")
      BY <1>8 DEF ProtocolError, terminate, send_close_frame
    <2> QED BY <2>1, ShapeQuiet
  <1>9. CASE Transmit
    BY <1>9, ShapeTransmit
  <1>10. CASE WriteError
    <2>1. /\ m_send_buffer' = <<>>
          /\ m_current_msgs # <<>> /\ m_current_msgs' = <<>>
          /\ wire' = wire /\ m_write_flag /\ m_write_flag' = m_write_flag
          /\ m_state' = "closed"
      BY <1>10 DEF WriteError, terminate, WriteShape
    <2>2. ~HasClose(<<>>) /\ \A i \in 1..(Len(<<>>) - 1) : <<>>[i] # Close
      BY EmptySeq DEF HasClose
    <2> QED BY <2>1, <2>2 DEF WriteShape, HasClose
  <1>11. ASSUME NEW m \in Payload, CheckState(m) PROVE WriteShape'
    BY <1>11, ShapeQuiet DEF CheckState, closeVars
  <1>12. ASSUME NEW m \in Payload, Push(m) PROVE WriteShape'
    BY <1>12, ShapeQuiet DEF Push, closeVars
  <1>13. ASSUME NEW valid \in BOOLEAN, ReadClose(valid) PROVE WriteShape'
    <2>1. m_state # "closed"
      BY <1>13 DEF ReadClose
    <2> QED BY <1>13, <2>1, ShapeQuiet DEF ReadClose, send_close_frame
  <1>14. CASE handle_read_handshake
    BY <1>14, ShapeQuiet DEF handle_read_handshake, closeVars
  <1>15. CASE ResponseWritten \/ OpenTimerExpires
    BY <1>15, ShapeQuiet DEF ResponseWritten, OpenTimerExpires
  <1>16. CASE ResponseFailed \/ OpenTimeout
    BY <1>16, ShapeQuiet DEF ResponseFailed, OpenTimeout, terminate
  <1> QED BY <1>2, <1>3, <1>4, <1>5, <1>6, <1>7, <1>8, <1>9, <1>10, <1>11,
             <1>12, <1>13, <1>14, <1>15, <1>16 DEF Step
-----------------------------------------------------------------------------
(* The accounting: between push and wire no message is lost, doubled or    *)
(* overtaken.                                                              *)

\* Concatenation of sequences of messages is associative.
LEMMA Associative ==
    \A s, t, u \in Seq(Message) : (s \o t) \o u = s \o (t \o u)
  <1> TAKE s, t, u \in Seq(Message)
  <1> QED BY ConcatAssociative

\* Concatenations of messages are sequences of messages.
LEMMA ConcatType == \A s, t \in Seq(Message) : s \o t \in Seq(Message)
  <1> TAKE s, t \in Seq(Message)
  <1> QED BY ConcatProperties

\* Appending to a concatenation appends to its second part.
LEMMA AppendConcat ==
    \A s, t \in Seq(Message) : \A m \in Message :
        Append(s \o t, m) = s \o Append(t, m)
  <1> TAKE s, t \in Seq(Message)
  <1> TAKE m \in Message
  <1> DEFINE x == <<m>>
  <1>1. x \in Seq(Message)
    OBVIOUS
  <1>2. Append(t, m) = t \o x
    BY AppendIsConcat
  <1>3. Append(s \o t, m) = (s \o t) \o x
    <2>1. s \o t \in Seq(Message)
      BY ConcatProperties
    <2> QED BY <2>1, AppendIsConcat
  <1> HIDE DEF x
  <1>4. (s \o t) \o x = s \o (t \o x)
    BY <1>1, ConcatAssociative
  <1> QED BY <1>2, <1>3, <1>4

\* The head of a sequence may be moved to the end of the one before it.
LEMMA MoveHead ==
    \A s, t \in Seq(Message) :
        t # <<>> => s \o t = Append(s, Head(t)) \o Tail(t)
  <1> TAKE s, t \in Seq(Message)
  <1> HAVE t # <<>>
  <1> DEFINE x == <<Head(t)>>
             y == Tail(t)
  <1>1. Head(t) \in Message /\ y \in Seq(Message) /\ Len(t) \in Nat \ {0}
    BY HeadTailProperties, EmptySeq
  <1>2. x \in Seq(Message)
    BY <1>1
  <1>3. t = x \o y
    <2>1. SubSeq(t, 1, Len(t)) = <<t[1]>> \o SubSeq(t, 1 + 1, Len(t))
      BY <1>1, SubSeqRecursiveFirst
    <2>2. SubSeq(t, 1, Len(t)) = t
      BY SubSeqFull
    <2>3. Tail(t) = SubSeq(t, 2, Len(t)) /\ 1 + 1 = 2
      BY TailIsSubSeq
    <2>4. Head(t) = t[1]
      OBVIOUS
    <2> QED BY <2>1, <2>2, <2>3, <2>4
  <1>4. Append(s, Head(t)) = s \o x
    BY <1>1, AppendIsConcat
  <1> HIDE DEF x, y
  <1>5. (s \o x) \o y = s \o (x \o y)
    BY <1>1, <1>2, Associative
  <1>6. s \o t = Append(s, Head(t)) \o y
    BY <1>3, <1>4, <1>5
  <1> QED BY <1>6 DEF y

\* What has left the queue is a sequence of messages.
LEMMA WrittenType == TypeOK => Written \in Seq(Message) /\ m_send_queue \in Seq(Message)
  <1> SUFFICES ASSUME TypeOK PROVE Written \in Seq(Message) /\ m_send_queue \in Seq(Message)
    OBVIOUS
  <1>1. /\ wire \in Seq(Message) /\ lost \in Seq(Message)
        /\ m_send_buffer \in Seq(Message) /\ m_send_queue \in Seq(Message)
    BY DEF TypeOK
  <1>2. lost \o m_send_buffer \in Seq(Message)
    BY <1>1, ConcatType
  <1>3. wire \o (lost \o m_send_buffer) \in Seq(Message)
    BY <1>1, <1>2, ConcatType
  <1> QED BY <1>1, <1>3 DEF Written

\* A push leaves the account balanced.
LEMMA AccountPush ==
    ASSUME TypeOK, Accounting, NEW m \in Message, write_push(m), UNCHANGED writeVars
    PROVE  Accounting'
  <1>1. Append(Written \o m_send_queue, m) = Written \o Append(m_send_queue, m)
    BY WrittenType, AppendConcat
  <1>2. Written' = Written
    BY DEF Written, writeVars
  <1> QED BY <1>1, <1>2 DEF Accounting, write_push

\* So does every step.
LEMMA AccountStep ==
    TypeOK /\ Accounting /\ WriteShape /\ Step => Accounting'
  <1> SUFFICES ASSUME TypeOK, Accounting, WriteShape, Step PROVE Accounting'
    OBVIOUS
  <1>1. Close \in Message /\ Pong \in Message /\ Payload \subseteq Message
    BY DEF Message
  <1>2. CASE Dispatch
    BY <1>2 DEF Dispatch, queueVars, writeVars, Accounting, Written
  <1>3. CASE write_frame
    <2>1. CASE WriteUnderWay \/ m_send_queue = <<>>
      BY <1>3, <2>1 DEF write_frame, Accounting, Written
    <2>2. CASE ~(WriteUnderWay \/ m_send_queue = <<>>)
      <3>1. PICK n \in 1..Len(m_send_queue) :
              /\ m_send_buffer' = SubSeq(m_send_queue, 1, n)
              /\ m_send_queue' = SubSeq(m_send_queue, n + 1, Len(m_send_queue))
        BY <1>3, <2>2 DEF write_frame
      <3>2. m_send_buffer = <<>> /\ UNCHANGED <<pushed, wire, lost>>
        BY <1>3, <2>2 DEF write_frame, WriteUnderWay, WriteShape
      <3>3. Len(m_send_queue) \in Nat
        BY LenProperties DEF TypeOK
      <3>full. SubSeq(m_send_queue, 1, Len(m_send_queue)) = m_send_queue
        BY SubSeqFull DEF TypeOK
      <3> DEFINE batch == SubSeq(m_send_queue, 1, n)
                 rest == SubSeq(m_send_queue, n + 1, Len(m_send_queue))
      <3>4. batch \o rest = m_send_queue
        <4>1. batch \o rest = SubSeq(m_send_queue, 1, Len(m_send_queue))
          <5>1. /\ 1 \in 1..(Len(m_send_queue) + 1) /\ n \in (1 - 1)..Len(m_send_queue)
                /\ Len(m_send_queue) \in n..Len(m_send_queue)
            BY <3>3
          <5>2. m_send_queue \in Seq(Message)
            BY DEF TypeOK
          <5> QED BY <5>1, <5>2, ConcatAdjacentSubSeq
        <4> QED BY <3>full, <4>1
      <3>5. batch \in Seq(Message) /\ rest \in Seq(Message)
        <4>1. \A i \in 1..Len(m_send_queue) : m_send_queue[i] \in Message
          BY ElementOfSeq DEF TypeOK
        <4>2. /\ \A i \in 1..n : m_send_queue[i] \in Message
              /\ \A i \in (n + 1)..Len(m_send_queue) : m_send_queue[i] \in Message
          BY <3>3, <4>1
        <4> QED BY <3>3, <4>2, SubSeqProperties
      <3> HIDE DEF batch, rest
      <3>6. Written = wire /\ lost = <<>>
        <4>1. lost = <<>>
          BY <1>3, <2>2 DEF WriteUnderWay, WriteShape
        <4>2. lost \o m_send_buffer = <<>>
          BY <3>2, <4>1, EmptySeq, ConcatEmptySeq
        <4> QED BY <4>1, <4>2, ConcatEmptySeq DEF Written, TypeOK
      <3>7. Written' = wire \o batch
        <4>1. <<>> \o batch = batch
          BY <3>5, ConcatEmptySeq
        <4> QED BY <3>1, <3>2, <3>6, <4>1 DEF Written, batch
      <3>8. (wire \o batch) \o rest = wire \o (batch \o rest)
        <4>1. wire \in Seq(Message)
          BY DEF TypeOK
        <4> QED BY <3>5, <4>1, Associative
      <3>9. m_send_queue' = rest
        BY <3>1 DEF rest
      <3> QED BY <3>2, <3>4, <3>6, <3>7, <3>8, <3>9 DEF Accounting
    <2> QED BY <2>1, <2>2
  <1>4. CASE handle_write_frame
    BY <1>4 DEF handle_write_frame, queueVars, Accounting, Written
  <1>5. CASE CloseTimeout
    BY <1>5 DEF CloseTimeout, queueVars, writeVars, Accounting, Written
  <1>6. CASE ReadPing
    BY <1>1, <1>6, AccountPush DEF ReadPing
  <1>7. CASE ReadError
    BY <1>7 DEF ReadError, queueVars, writeVars, Accounting, Written
  <1>8. CASE ProtocolError
    <2>1. CASE m_state = "open"
      BY <1>1, <1>8, <2>1, AccountPush DEF ProtocolError, send_close_frame
    <2>2. CASE m_state # "open"
      BY <1>8, <2>2 DEF ProtocolError, queueVars, writeVars, Accounting, Written
    <2> QED BY <2>1, <2>2
  <1>9. CASE Transmit
    <2>1. lost = <<>> /\ m_send_buffer # <<>>
      BY <1>9 DEF Transmit, WriteShape
    <2>2. Tail(m_send_buffer) \in Seq(Message)
      BY <2>1, HeadTailProperties DEF TypeOK
    <2>3. /\ lost \o m_send_buffer = m_send_buffer
          /\ lost \o Tail(m_send_buffer) = Tail(m_send_buffer)
      BY <2>1, <2>2, ConcatEmptySeq DEF TypeOK
    <2>4. wire \o m_send_buffer = Append(wire, Head(m_send_buffer)) \o Tail(m_send_buffer)
      BY <2>1, MoveHead DEF TypeOK
    <2>5. /\ wire' = Append(wire, Head(m_send_buffer))
          /\ m_send_buffer' = Tail(m_send_buffer)
          /\ UNCHANGED <<pushed, lost, m_send_queue>>
      BY <1>9 DEF Transmit, queueVars
    <2>6. Written' = Written
      BY <2>3, <2>4, <2>5 DEF Written
    <2> QED BY <2>5, <2>6 DEF Accounting
  <1>10. CASE WriteError
    <2>1. lost = <<>>
      BY <1>10 DEF WriteError, WriteShape
    <2>2. /\ lost' = m_send_buffer /\ m_send_buffer' = <<>>
          /\ UNCHANGED <<pushed, wire, m_send_queue>>
      BY <1>10 DEF WriteError, queueVars
    <2>3. /\ lost \o m_send_buffer = m_send_buffer
          /\ m_send_buffer \o <<>> = m_send_buffer
      BY <2>1, ConcatEmptySeq DEF TypeOK
    <2>4. Written' = Written
      BY <2>2, <2>3 DEF Written
    <2> QED BY <2>2, <2>4 DEF Accounting
  <1>11. ASSUME NEW m \in Payload, CheckState(m) PROVE Accounting'
    BY <1>11 DEF CheckState, queueVars, writeVars, Accounting, Written
  <1>12. ASSUME NEW m \in Payload, Push(m) PROVE Accounting'
    BY <1>1, <1>12, AccountPush DEF Push
  <1>13. ASSUME NEW valid \in BOOLEAN, ReadClose(valid) PROVE Accounting'
    BY <1>1, <1>13, AccountPush DEF ReadClose, send_close_frame
  <1>14. CASE handle_read_handshake \/ ResponseWritten \/ ResponseFailed
    BY <1>14 DEF handle_read_handshake, ResponseWritten, ResponseFailed, queueVars,
       writeVars, Accounting, Written
  <1>15. CASE OpenTimerExpires \/ OpenTimeout
    BY <1>15 DEF OpenTimerExpires, OpenTimeout, queueVars, writeVars, Accounting,
       Written
  <1> QED BY <1>2, <1>3, <1>4, <1>5, <1>6, <1>7, <1>8, <1>9, <1>10, <1>11,
             <1>12, <1>13, <1>14, <1>15 DEF Step

\* The invariant is inductive: no wake-up of the writer is lost, the close
\* handler is called once, and every message pushed is on the wire, in the
\* failed write, under way or in the queue, in this order.
THEOREM InductiveInvariant == Spec => []IInv
  <1>1. Init => IInv
    <2> SUFFICES ASSUME Init PROVE IInv
      OBVIOUS
    <2>1. (<<>> \o (<<>> \o <<>>)) \o <<>> = <<>>
      BY EmptySeq, ConcatEmptySeq
    <2>2. ~HasClose(<<>>) /\ \A i \in 1..(Len(<<>>) - 1) : <<>>[i] # Close
      BY EmptySeq DEF HasClose
    <2>3. Accounting
      BY <2>1 DEF Init, Accounting, Written
    <2>4. WriteShape
      BY <2>2 DEF Init, WriteShape, HasClose
    <2>5. NoLostWrite /\ CloseHandlerOnce /\ ClosingIsTimed
      BY DEF Init, OpenTimer, NoLostWrite, CloseHandlerOnce, ClosingIsTimed
    <2> QED BY <2>3, <2>4, <2>5, TypeInit DEF IInv
  <1>2. IInv /\ [Next]_vars => IInv'
    <2> SUFFICES ASSUME IInv, [Next]_vars PROVE IInv'
      OBVIOUS
    <2>1. CASE UNCHANGED vars
      BY <2>1 DEF vars, handshakeVars, IInv, TypeOK, NoLostWrite, CloseHandlerOnce,
                  ClosingIsTimed, Accounting, Written, WriteShape, HasClose
    <2>2. CASE Next
      BY <2>2, NextIsStep, TypeStep, ControlStep, ShapeStep, AccountStep
         DEF IInv, Control
    <2> QED BY <2>1, <2>2
  <1> QED BY <1>1, <1>2, PTL DEF Spec

\* A message in the queue is always waited for by somebody
\* (connection_impl.hpp:133-149, 1790-1925).
THEOREM NoWriteIsLost == Spec => []NoLostWrite
  <1>1. IInv => NoLostWrite
    BY DEF IInv
  <1> QED BY <1>1, InductiveInvariant, PTL

\* The close handler, on_close of the frame server, is called once per
\* connection that on_open was called for, and for no other, whatever ends it
\* (terminate, connection_impl.hpp:1695-1745).
THEOREM ClosedOnce == Spec => []CloseHandlerOnce
  <1>1. IInv => CloseHandlerOnce
    BY DEF IInv
  <1> QED BY <1>1, InductiveInvariant, PTL
-----------------------------------------------------------------------------
(* WsConnection implements Pipe.                                           *)

\* What the kernel takes is the next message the pipe has to deliver.
LEMMA TransmitDelivers == ASSUME IInv, Transmit PROVE AsPipe!Deliver
  <1>1. /\ wire \in Seq(Message) /\ m_send_buffer \in Seq(Message)
        /\ m_send_queue \in Seq(Message) /\ m_send_buffer # <<>>
        /\ lost = <<>> /\ ~HasClose(wire) /\ m_state # "closed"
    BY DEF IInv, TypeOK, Transmit, WriteShape
  <1> DEFINE taken == wire \o m_send_buffer
  <1>2. /\ taken \in Seq(Message)
        /\ Len(taken) = Len(wire) + Len(m_send_buffer)
        /\ \A i \in 1..Len(wire) + Len(m_send_buffer) :
               taken[i] = IF i <= Len(wire) THEN wire[i]
                          ELSE m_send_buffer[i - Len(wire)]
    BY <1>1, ConcatProperties
  <1>3. /\ Len(wire) \in Nat /\ Len(m_send_buffer) \in Nat \ {0}
        /\ Len(m_send_queue) \in Nat
    BY <1>1, LenProperties, EmptySeq
  <1>4. taken[Len(wire) + 1] = m_send_buffer[1]
    BY <1>2, <1>3
  <1>5. pushed = taken \o m_send_queue
    <2>1. lost \o m_send_buffer = m_send_buffer
      BY <1>1, ConcatEmptySeq
    <2> QED BY <2>1 DEF IInv, Accounting, Written
  <1> HIDE DEF taken
  <1>6. /\ Len(pushed) = Len(taken) + Len(m_send_queue)
        /\ \A i \in 1..Len(taken) + Len(m_send_queue) :
               pushed[i] = IF i <= Len(taken) THEN taken[i]
                           ELSE m_send_queue[i - Len(taken)]
    <2>1. taken \in Seq(Message)
      BY <1>2
    <2> QED BY <1>1, <1>5, <2>1, ConcatProperties
  <1>7. Len(wire) < Len(pushed) /\ pushed[Len(wire) + 1] = m_send_buffer[1]
    <2>1. Len(wire) + 1 \in 1..Len(taken) /\ Len(taken) \in Nat
      BY <1>2, <1>3
    <2> QED BY <1>2, <1>3, <1>4, <1>6, <2>1
  <1>8. Head(m_send_buffer) = m_send_buffer[1]
    BY <1>1
  <1>9. wire' = Append(wire, pushed[Len(wire) + 1])
    BY <1>7, <1>8 DEF Transmit
  <1>10. \A i \in 1..Len(wire) : wire[i] # Close
    BY <1>1 DEF HasClose
  <1>11. UNCHANGED <<pushed, m_state>>
    BY DEF Transmit, closeVars, queueVars
  <1> QED BY <1>1, <1>7, <1>9, <1>10, <1>11 DEF AsPipe!Deliver

\* Every step is a step of the pipe, or none.
LEMMA StepImplements ==
    ASSUME IInv, Step
    PROVE  [AsPipe!Next]_<<pushed, wire, m_state = "closed">>
  <1>1. Close \in Message /\ Pong \in Message /\ Payload \subseteq Message
    BY DEF Message
  <1>2. ASSUME NEW m \in Message, write_push(m), UNCHANGED writeVars,
               m_state' = "closed" <=> m_state = "closed"
        PROVE  AsPipe!Next
    <2>1. AsPipe!Accept(m)
      BY <1>2 DEF AsPipe!Accept, write_push, writeVars
    <2> QED BY <2>1 DEF AsPipe!Next
  <1>3. ASSUME m_state' = "closed", UNCHANGED <<pushed, wire>>
        PROVE  AsPipe!Next
    BY <1>3 DEF AsPipe!Next, AsPipe!GoDown
  <1>4. CASE Dispatch
    BY <1>4 DEF Dispatch, queueVars, writeVars, closeVars
  <1>5. CASE write_frame
    BY <1>5 DEF write_frame, closeVars
  <1>6. CASE handle_write_frame
    <2>1. UNCHANGED <<pushed, wire>>
      BY <1>6 DEF handle_write_frame, queueVars
    <2>2. m_state' = "closed" \/ UNCHANGED m_state
      BY <1>6 DEF handle_write_frame, terminate, closeVars
    <2> QED BY <1>3, <2>1, <2>2
  <1>7. CASE CloseTimeout
    BY <1>3, <1>7 DEF CloseTimeout, terminate, queueVars, writeVars
  <1>8. CASE ReadPing
    BY <1>1, <1>2, <1>8 DEF ReadPing, closeVars
  <1>9. CASE ReadError
    BY <1>3, <1>9 DEF ReadError, terminate, queueVars, writeVars
  <1>10. CASE ProtocolError
    <2>1. CASE m_state = "open"
      BY <1>1, <1>2, <1>10, <2>1 DEF ProtocolError, send_close_frame
    <2>2. CASE m_state # "open"
      BY <1>3, <1>10, <2>2 DEF ProtocolError, terminate, queueVars, writeVars
    <2> QED BY <2>1, <2>2
  <1>11. CASE Transmit
    BY <1>11, TransmitDelivers DEF AsPipe!Next
  <1>12. CASE WriteError
    BY <1>3, <1>12 DEF WriteError, terminate, queueVars
  <1>13. ASSUME NEW m \in Payload, CheckState(m)
         PROVE  UNCHANGED <<pushed, wire, m_state>>
    BY <1>13 DEF CheckState, queueVars, writeVars, closeVars
  <1>14. ASSUME NEW m \in Payload, Push(m) PROVE AsPipe!Next
    BY <1>1, <1>2, <1>14 DEF Push, closeVars
  <1>15. ASSUME NEW valid \in BOOLEAN, ReadClose(valid) PROVE AsPipe!Next
    <2>1. m_state # "closed" /\ send_close_frame
      BY <1>15 DEF ReadClose
    <2> QED BY <1>1, <1>2, <2>1 DEF send_close_frame
  <1>16. CASE handle_read_handshake \/ OpenTimerExpires
    BY <1>16 DEF handle_read_handshake, OpenTimerExpires, queueVars, writeVars,
       closeVars
  <1>17. CASE ResponseWritten
    <2>1. UNCHANGED <<pushed, wire>> /\ m_state # "closed"
          /\ m_state' \in {"open", "closed"}
      BY <1>17 DEF ResponseWritten, terminate, queueVars, writeVars
    <2> QED BY <1>3, <2>1
  <1>18. CASE ResponseFailed \/ OpenTimeout
    BY <1>3, <1>18 DEF ResponseFailed, OpenTimeout, terminate, queueVars, writeVars
  <1> QED BY <1>4, <1>5, <1>6, <1>7, <1>8, <1>9, <1>10, <1>11, <1>12, <1>13,
             <1>14, <1>15, <1>16, <1>17, <1>18 DEF Step

\* A connection delivers what it accepted in order, nothing twice, nothing
\* after a close frame, and nothing when it is closed.
THEOREM ConnectionIsPipe == Spec => IsPipe
  <1>1. Init => AsPipe!Init
    BY DEF Init, AsPipe!Init
  <1>2. IInv /\ [Next]_vars => [AsPipe!Next]_AsPipe!pvars
    <2> SUFFICES ASSUME IInv, [Next]_vars PROVE [AsPipe!Next]_AsPipe!pvars
      OBVIOUS
    <2>1. CASE UNCHANGED vars BY <2>1 DEF vars, AsPipe!pvars
    <2>2. CASE Next BY <2>2, NextIsStep, StepImplements DEF AsPipe!pvars
    <2> QED BY <2>1, <2>2
  <1> QED BY <1>1, <1>2, InductiveInvariant, PTL DEF Spec, IsPipe, AsPipe!Spec
-----------------------------------------------------------------------------
(* What is on the wire, and what is left to do.                            *)

\* What the kernel has taken is what was pushed first, and nothing follows a
\* close frame.
OnTheWire ==
    /\ Len(wire) <= Len(pushed)
    /\ \A i \in 1..Len(wire) : wire[i] = pushed[i]
    /\ \A i \in 1..Len(wire) : wire[i] = Close => i = Len(wire)

\* As long as a message is missing on the wire of a connection that is not
\* closed, the kernel has it, a write waits for its completion handler, or
\* write_frame is, or is about to be, posted and will find it.
WriterHasWork ==
    Len(wire) < Len(pushed) /\ m_state # "closed" =>
        \/ m_current_msgs # <<>>
        \/ m_send_queue # <<>> /\ ~m_write_flag /\ (posted > 0 \/ sender = Dispatching)

\* The pieces of what was pushed have the lengths that make up its length.
LEMMA PushedPieces ==
    ASSUME IInv
    PROVE  /\ Len(wire) \in Nat /\ Len(pushed) \in Nat
           /\ Len(wire) <= Len(pushed)
           /\ \A i \in 1..Len(wire) : wire[i] = pushed[i]
           /\ lost = <<>> /\ m_send_buffer = <<>> /\ m_send_queue = <<>> =>
                  Len(pushed) = Len(wire)
  <1> DEFINE rest == lost \o m_send_buffer
             taken == wire \o rest
  <1>1. /\ wire \in Seq(Message) /\ lost \in Seq(Message)
        /\ m_send_buffer \in Seq(Message) /\ m_send_queue \in Seq(Message)
        /\ pushed \in Seq(Message)
    BY DEF IInv, TypeOK
  <1>2. rest \in Seq(Message) /\ Len(rest) = Len(lost) + Len(m_send_buffer)
    BY <1>1, ConcatProperties
  <1>3. pushed = taken \o m_send_queue
    BY DEF IInv, Accounting, Written
  <1>4. /\ Len(wire) \in Nat /\ Len(lost) \in Nat /\ Len(m_send_buffer) \in Nat
        /\ Len(m_send_queue) \in Nat /\ Len(rest) \in Nat
    BY <1>1, <1>2, LenProperties
  <1> HIDE DEF rest
  <1>5. /\ taken \in Seq(Message) /\ Len(taken) = Len(wire) + Len(rest)
        /\ \A i \in 1..Len(wire) + Len(rest) :
               taken[i] = IF i <= Len(wire) THEN wire[i] ELSE rest[i - Len(wire)]
    <2>1. wire \in Seq(Message) /\ rest \in Seq(Message)
      BY <1>1, <1>2
    <2> QED BY <2>1, ConcatProperties
  <1> HIDE DEF taken
  <1>6. /\ Len(pushed) = Len(taken) + Len(m_send_queue)
        /\ \A i \in 1..Len(taken) + Len(m_send_queue) :
               pushed[i] = IF i <= Len(taken) THEN taken[i]
                           ELSE m_send_queue[i - Len(taken)]
    <2>1. taken \in Seq(Message) /\ m_send_queue \in Seq(Message)
      BY <1>1, <1>5
    <2> QED BY <1>3, <2>1, ConcatProperties
  <1>7. ASSUME NEW i \in 1..Len(wire) PROVE wire[i] = pushed[i]
    <2>1. taken[i] = wire[i]
      BY <1>4, <1>5
    <2>2. pushed[i] = taken[i]
      BY <1>4, <1>5, <1>6
    <2> QED BY <2>1, <2>2
  <1>8. ASSUME lost = <<>>, m_send_buffer = <<>>, m_send_queue = <<>>
        PROVE  Len(pushed) = Len(wire)
    BY <1>2, <1>4, <1>5, <1>6, <1>8, EmptySeq
  <1>9. Len(pushed) \in Nat /\ Len(wire) <= Len(pushed)
    BY <1>4, <1>5, <1>6
  <1> QED BY <1>4, <1>7, <1>8, <1>9

\* The peer reads a beginning of what was pushed and nothing after a close
\* frame, and what it lacks is never forgotten while the connection is up: the
\* safety half of PushedIsWritten (write_frame and handle_write_frame,
\* connection_impl.hpp:1790-1925).
THEOREM WireIsOrdered == Spec => [](OnTheWire /\ WriterHasWork)
  <1> DEFINE CloseIsLast == \A i \in 1..Len(wire) : wire[i] = Close => i = Len(wire)
  <1>1. Init => CloseIsLast
    BY EmptySeq DEF Init
  <1>2. IInv /\ CloseIsLast /\ [Next]_vars => CloseIsLast'
    <2> SUFFICES ASSUME IInv, CloseIsLast, [Next]_vars PROVE CloseIsLast'
      OBVIOUS
    <2>1. CASE UNCHANGED wire
      BY <2>1
    <2>2. CASE Transmit
      <3>1. ~HasClose(wire)
        BY <2>2 DEF IInv, WriteShape, Transmit
      <3>2. \A i \in 1..Len(wire) : wire[i] # Close
        BY <3>1 DEF HasClose
      <3>3. wire \in Seq(Message) /\ Head(m_send_buffer) \in Message
        BY <2>2, HeadTailProperties DEF IInv, TypeOK, Transmit
      <3>4. /\ Len(wire) \in Nat
            /\ Len(wire') = Len(wire) + 1
            /\ \A i \in 1..Len(wire) : wire'[i] = wire[i]
        BY <2>2, <3>3, AppendProperties, LenProperties DEF Transmit
      <3> QED BY <3>2, <3>4
    <2>3. [Next]_vars => UNCHANGED wire \/ Transmit
      <3>1. CASE UNCHANGED vars BY <3>1 DEF vars
      <3>2. ASSUME NEW m \in Payload, CheckState(m) \/ Push(m) PROVE UNCHANGED wire
        BY <3>2 DEF CheckState, Push, writeVars
      <3>3. ASSUME NEW valid \in BOOLEAN, ReadClose(valid) PROVE UNCHANGED wire
        BY <3>3 DEF ReadClose, send_close_frame, writeVars
      <3>4. CASE Step
        BY <3>2, <3>3, <3>4 DEF Step, Dispatch, write_frame, handle_write_frame,
           CloseTimeout, ReadPing, ReadError, ProtocolError, send_close_frame,
           WriteError, handle_read_handshake, ResponseWritten, ResponseFailed,
           OpenTimerExpires, OpenTimeout, writeVars
      <3> QED BY <3>1, <3>4, NextIsStep
    <2> QED BY <2>1, <2>2, <2>3
  <1>3. IInv /\ CloseIsLast => OnTheWire
    BY PushedPieces DEF OnTheWire
  <1>4. IInv => WriterHasWork
    <2> SUFFICES ASSUME IInv, Len(wire) < Len(pushed), m_state # "closed",
                        m_current_msgs = <<>>
                 PROVE  m_send_queue # <<>> /\ ~m_write_flag
                        /\ (posted > 0 \/ sender = Dispatching)
      BY DEF WriterHasWork
    <2>1. lost = <<>> /\ m_send_buffer = <<>>
      BY DEF IInv, WriteShape
    <2>2. m_send_queue # <<>>
      BY <2>1, PushedPieces
    <2> QED BY <2>2 DEF IInv, NoLostWrite
  <1> QED BY <1>1, <1>2, <1>3, <1>4, InductiveInvariant, PTL DEF Spec
-----------------------------------------------------------------------------
(* What a step may never do.                                               *)

\* The buffers handed to the kernel only become shorter, unless there are none
\* and a write is begun: the one before succeeded, and held no close frame.
OneWriteAtATime ==
    m_send_buffer' # m_send_buffer /\ m_send_buffer' # <<>> =>
        \/ m_current_msgs' = m_current_msgs /\ m_send_buffer' = Tail(m_send_buffer)
        \/ /\ m_current_msgs = <<>> /\ m_send_buffer = <<>>
           /\ lost = <<>> /\ ~HasClose(wire)

\* m_state goes from connecting over open and closing to closed, never back,
\* and the handlers are called by the steps that open and that close an open
\* connection, and by no other.
StateAdvances ==
    /\ m_state = "closed" => m_state' = "closed"
    /\ m_state = "closing" => m_state' \in {"closing", "closed"}
    /\ m_state = "open" => m_state' # "connecting"
    /\ openCalls' # openCalls <=> m_state = "connecting" /\ m_state' = "open"
    /\ closeCalls' # closeCalls <=> m_state \in {"open", "closing"} /\ m_state' = "closed"

\* A write begins with the queue, and only when none is under way.
LEMMA WriteBegins == ASSUME IInv, Step PROVE OneWriteAtATime
  <1> USE DEF OneWriteAtATime
  <1>1. CASE UNCHANGED m_send_buffer
    BY <1>1
  <1>2. CASE write_frame
    BY <1>2 DEF IInv, WriteShape, write_frame, WriteUnderWay
  <1>3. CASE Transmit
    BY <1>3 DEF Transmit
  <1>4. CASE WriteError
    BY <1>4 DEF WriteError
  <1>5. ASSUME NEW m \in Payload, CheckState(m) \/ Push(m)
        PROVE  UNCHANGED m_send_buffer
    BY <1>5 DEF CheckState, Push, writeVars
  <1>6. ASSUME NEW valid \in BOOLEAN, ReadClose(valid)
        PROVE  UNCHANGED m_send_buffer
    BY <1>6 DEF ReadClose, send_close_frame, writeVars
  <1>7. CASE \/ Dispatch \/ handle_write_frame \/ CloseTimeout \/ ReadPing \/ ReadError
             \/ ProtocolError \/ handle_read_handshake \/ ResponseWritten
             \/ ResponseFailed \/ OpenTimerExpires \/ OpenTimeout
    BY <1>7 DEF Dispatch, handle_write_frame, CloseTimeout, ReadPing, ReadError,
       ProtocolError, send_close_frame, handle_read_handshake, ResponseWritten,
       ResponseFailed, OpenTimerExpires, OpenTimeout, writeVars
  <1> QED BY <1>1, <1>2, <1>3, <1>4, <1>5, <1>6, <1>7 DEF Step

\* terminate() closes, and calls the close handler of a connection that opened.
LEMMA TerminateAdvances ==
    ASSUME IInv, terminate, UNCHANGED openCalls
    PROVE  StateAdvances
  BY DEF IInv, TypeOK, StateAdvances, terminate, AlreadyClosed, HandshakeFailed

\* Every step takes the session state forward or leaves it.
LEMMA StepAdvances == ASSUME IInv, Step PROVE StateAdvances
  <1>1. openCalls \in Nat /\ closeCalls \in Nat
        /\ m_state \in {"connecting", "open", "closing", "closed"}
    BY DEF IInv, TypeOK
  <1>2. ASSUME UNCHANGED <<m_state, openCalls, closeCalls>> PROVE StateAdvances
    BY <1>2 DEF StateAdvances
  <1>3. ASSUME send_close_frame, UNCHANGED openCalls, m_state \in {"open", "closing"}
        PROVE  StateAdvances
    BY <1>3 DEF StateAdvances, send_close_frame
  <1>4. CASE Dispatch \/ write_frame \/ ReadPing \/ Transmit
    BY <1>2, <1>4 DEF Dispatch, write_frame, ReadPing, ReadsControl, Transmit,
       handshakeVars, closeVars
  <1>5. CASE CloseTimeout \/ ReadError \/ WriteError \/ ResponseFailed \/ OpenTimeout
    BY <1>5, TerminateAdvances DEF CloseTimeout, ReadError, WriteError,
       ResponseFailed, OpenTimeout, handshakeVars
  <1>6. CASE handle_write_frame
    BY <1>2, <1>6, TerminateAdvances DEF handle_write_frame, handshakeVars, closeVars
  <1>7. CASE ProtocolError
    BY <1>3, <1>7, TerminateAdvances DEF ProtocolError, handshakeVars
  <1>8. ASSUME NEW m \in Payload, CheckState(m) \/ Push(m) PROVE StateAdvances
    BY <1>2, <1>8 DEF CheckState, Push, handshakeVars, closeVars
  <1>9. ASSUME NEW valid \in BOOLEAN, ReadClose(valid) PROVE StateAdvances
    BY <1>3, <1>9 DEF ReadClose, ReadsControl, handshakeVars
  <1>10. CASE handle_read_handshake \/ OpenTimerExpires
    BY <1>2, <1>10 DEF handle_read_handshake, OpenTimerExpires, closeVars
  <1>11. CASE ResponseWritten
    <2>1. CASE m_internal_state = "accept"
      BY <1>1, <1>11, <2>1 DEF ResponseWritten, StateAdvances
    <2>2. CASE m_internal_state # "accept"
      BY <1>11, <2>2, TerminateAdvances DEF ResponseWritten
    <2> QED BY <2>1, <2>2
  <1> QED BY <1>4, <1>5, <1>6, <1>7, <1>8, <1>9, <1>10, <1>11 DEF Step

\* However reads, writes, timers and send() interleave, one write is under way
\* at a time (the concurrency that asio forbids on one socket), and the session
\* state and the handlers of the application only go forward
\* (connection_impl.hpp:1695-1925).
THEOREM OnlyForward == Spec => [][OneWriteAtATime /\ StateAdvances]_vars
  <1>1. IInv /\ [Next]_vars => [OneWriteAtATime /\ StateAdvances]_vars
    <2> SUFFICES ASSUME IInv, Next PROVE OneWriteAtATime /\ StateAdvances
      OBVIOUS
    <2> QED BY NextIsStep, WriteBegins, StepAdvances
  <1> QED BY <1>1, InductiveInvariant, PTL DEF Spec
=============================================================================
