---------------------------- MODULE FrameReader ----------------------------
(***************************************************************************)
(* How a connection gets frames out of the bytes it reads: the processor   *)
(* hybi13 of websocketpp and the loop in handle_read_frame that feeds it.  *)
(*                                                                         *)
(* A read brings as many bytes as there are, up to the size of the buffer: *)
(* part of a header, several frames, the end of one and the beginning of   *)
(* the next.  Bytes have a place but no value here: `frame` is the frame   *)
(* that the peer has sent at this place of the stream, `offset` how many   *)
(* bytes of it the processor has consumed, and a field of it is looked at  *)
(* only where the code has the bytes of that field.                        *)
(*                                                                         *)
(* A step is an iteration of the loop in consume(), with the dispatch of   *)
(* the message it completed.  All of it runs in one callback of the io     *)
(* thread.  Compression is not configured; how the connection ends         *)
(* otherwise is WsConnection's subject.                                    *)
(***************************************************************************)
EXTENDS Naturals, Sequences

CONSTANTS
    Frame,           \* the frames a peer may send
    PayloadBasic,    \* limits::payload_size_basic, 125
    PayloadExtended, \* limits::payload_size_extended, 65535
    MaxMessage,      \* m_max_message_size
    SizeModulus,     \* 2^64: sums of type size_t are taken modulo this
    MaxMemory,       \* the longest message there is memory for
    BufferSize,      \* connection_read_buffer_size
    None,            \* a message pointer that is null
    MaxHanded        \* bound: what is handed out before the peer falls silent

Control == {"close", "ping", "pong"}
Data == {"text", "binary", "continuation"}

\* A frame: opcode, FIN, a reserved bit, MASK, the form its length is written
\* in, payload length, the payload byte at which its message stops being
\* UTF-8 (0: none), and whether its text ends within a code point.
FrameType ==
    [op : Control \cup Data \cup {"reserved"}, fin : BOOLEAN, rsv : BOOLEAN,
     masked : BOOLEAN, code : {"basic", "16bit", "64bit"}, size : Nat,
     badAt : Nat, cut : BOOLEAN]

ASSUME FrameAssumption ==
    /\ Frame \subseteq FrameType
    /\ \A f \in Frame :
        /\ f.badAt <= f.size
        /\ f.code = "basic" => f.size <= PayloadBasic
        /\ f.code = "16bit" => f.size <= PayloadExtended
ASSUME LimitAssumption ==
    /\ PayloadBasic \in Nat /\ PayloadExtended \in Nat /\ MaxMessage \in Nat
    /\ BufferSize \in Nat \ {0} /\ MaxHanded \in Nat

\* The length field has the width of size_t.  Memory has room for what the limits
\* allow, and less than size_t can count.
ASSUME SizeAssumption ==
    /\ \A f \in Frame : f.size < SizeModulus
    /\ SizeModulus \in Nat /\ MaxMemory \in Nat
    /\ PayloadBasic <= MaxMemory /\ MaxMessage <= MaxMemory /\ MaxMemory < SizeModulus

\* A message: opcode, bytes of payload, and by how many bytes prepared_key is
\* rotated.  One that is complete has no use for its key.
DataMsg == [op : {"text", "binary"}, size : Nat, key : 0..3]
ControlMsg == [op : Control, size : Nat, key : 0..3]
Handed == [op : Control \cup {"text", "binary"}, size : Nat]

ASSUME NoneAssumption == None \notin DataMsg \cup ControlMsg \cup Handed

VARIABLES
    m_state,        \* the field of the frame that is being read
    m_bytes_needed, \* bytes that it still lacks
    m_cursor,       \* bytes of the extended header that are there
    m_data_msg,     \* the data message being put together, or None
    m_control_msg,  \* the control message being read, or None
    reading,        \* a read is pending
    avail,          \* bytes in m_buf that are not consumed yet
    session,        \* the connection's state, as in Framing
    frame,          \* the peer's frame at this place
    offset,         \* bytes of it that are consumed
    handed          \* what was handed out

processorVars == <<m_state, m_bytes_needed, m_cursor, m_data_msg, m_control_msg>>
streamVars == <<frame, offset>>
vars == <<processorVars, streamVars, reading, avail, session, handed>>

BasicHeaderLength == 2
MaxExtendedHeaderLength == 12

get_masking_key_offset(f) ==
    IF f.code = "16bit" THEN 2 ELSE IF f.code = "64bit" THEN 8 ELSE 0
get_header_len(f) ==
    BasicHeaderLength + get_masking_key_offset(f) + (IF f.masked THEN 4 ELSE 0)

Init ==
    /\ m_state = "HEADER_BASIC" /\ m_bytes_needed = BasicHeaderLength /\ m_cursor = 0
    /\ m_data_msg = None /\ m_control_msg = None
    /\ reading = TRUE /\ avail = 0 /\ session = "open"
    /\ frame \in Frame /\ offset = 0 /\ handed = <<>>

-----------------------------------------------------------------------------
(* handle_read_frame: reading, and what may end it.                        *)

Read(n) ==
    /\ reading /\ reading' = FALSE
    /\ Len(handed) < MaxHanded
    /\ avail' = n
    /\ UNCHANGED <<processorVars, streamVars, session, handed>>

\* Mutant: the loop stops with the bytes, though a frame may need no more.
MoreToDo_bytes == avail > 0
MoreToDo == avail > 0 \/ m_bytes_needed = 0

\* The buffer is used up: read_frame().
ReadOn ==
    /\ ~reading /\ session # "done" /\ ~MoreToDo
    /\ reading' = TRUE
    /\ UNCHANGED <<processorVars, streamVars, avail, session, handed>>

\* consume() returned an error: close(), or terminate() if the connection is
\* closing, and no further read.  The processor is not used any more.
Fail ==
    /\ session' = "done"
    /\ UNCHANGED <<processorVars, streamVars, reading, avail, handed>>

\* Consume n bytes: as many as the field needs, or as there are.
Bytes == IF m_bytes_needed < avail THEN m_bytes_needed ELSE avail

In(state) ==
    /\ ~reading /\ session # "done" /\ MoreToDo
    /\ m_state = state

\* The field is not complete: the buffer is used up.
Short == Bytes < m_bytes_needed

Advance == offset' = offset + Bytes /\ avail' = avail - Bytes /\ UNCHANGED <<frame, reading>>
-----------------------------------------------------------------------------
(* The two bytes of the basic header.                                      *)

\* Mutant: control frames are not excepted.
ContinuationFits_control(f) == f.op = "continuation" <=> m_data_msg # None
\* A fragment continues a message, and nothing else comes between but control
\* frames.
ContinuationFits(f) ==
    f.op \in Data => (f.op = "continuation" <=> m_data_msg # None)

validate_incoming_basic_header(f) ==
    /\ f.op \in Control => f.code = "basic" /\ f.fin
    /\ ~f.rsv
    /\ f.op # "reserved"
    /\ ContinuationFits(f)
    /\ f.masked

copy_basic_header_bytes ==
    /\ In("HEADER_BASIC") /\ Short
    /\ Advance
    /\ m_bytes_needed' = m_bytes_needed - Bytes
    /\ UNCHANGED <<m_state, m_cursor, m_data_msg, m_control_msg, session, handed>>

BasicHeaderRead ==
    /\ In("HEADER_BASIC") /\ ~Short
    /\ validate_incoming_basic_header(frame)
    /\ Advance
    /\ m_state' = "HEADER_EXTENDED"
    /\ m_cursor' = 0
    /\ m_bytes_needed' = get_header_len(frame) - BasicHeaderLength
    /\ UNCHANGED <<m_data_msg, m_control_msg, session, handed>>

BasicHeaderFails ==
    /\ In("HEADER_BASIC") /\ ~Short
    /\ ~validate_incoming_basic_header(frame)
    /\ Fail
-----------------------------------------------------------------------------
(* The extended header: length and masking key.                            *)

validate_incoming_extended_header(f) ==
    /\ ~(f.code = "16bit" /\ f.size <= PayloadBasic)
    /\ ~(f.code = "64bit" /\ f.size <= PayloadExtended)

\* A sum of two numbers that size_t holds, in size_t.
SizeT(n) == IF n < SizeModulus THEN n ELSE n - SizeModulus

\* Mutant: the limit is looked at for each fragment alone.
FitsMessage_fragment(f) == f.op \in Data => f.size <= MaxMessage
\* The message must not become too big.  The sum may wrap: then a fragment passes
\* with which the message would exceed all limits.
FitsMessage(f) ==
    f.op \in Data =>
        (IF m_data_msg = None THEN f.size ELSE SizeT(m_data_msg.size + f.size)) <= MaxMessage

copy_extended_header_bytes ==
    /\ In("HEADER_EXTENDED") /\ Short
    /\ Advance
    /\ m_cursor' = m_cursor + Bytes
    /\ m_bytes_needed' = m_bytes_needed - Bytes
    /\ UNCHANGED <<m_state, m_data_msg, m_control_msg, session, handed>>

\* Mutant: a fragment is unmasked with what is left of the key before it.
prepared_key_kept == m_data_msg.key
\* Each frame starts a new masking key; all other state remains.  (A key is
\* the number of bytes by which prepared_key is rotated.)
prepared_key == 0

ExtendedHeaderRead ==
    /\ In("HEADER_EXTENDED") /\ ~Short
    /\ validate_incoming_extended_header(frame) /\ FitsMessage(frame)
    /\ Advance
    /\ m_cursor' = m_cursor + Bytes
    /\ m_state' = "APPLICATION"
    /\ m_bytes_needed' = frame.size
    /\ IF frame.op \in Control
       THEN /\ m_control_msg' = [op |-> frame.op, size |-> 0, key |-> 0]
            /\ UNCHANGED m_data_msg
       ELSE /\ m_data_msg' = IF m_data_msg = None
                             THEN [op |-> frame.op, size |-> 0, key |-> 0]
                             ELSE [m_data_msg EXCEPT !.key = prepared_key]
            /\ UNCHANGED m_control_msg
    /\ UNCHANGED <<session, handed>>

ExtendedHeaderFails ==
    /\ In("HEADER_EXTENDED") /\ ~Short
    /\ ~(validate_incoming_extended_header(frame) /\ FitsMessage(frame))
    /\ Fail
-----------------------------------------------------------------------------
(* The payload.                                                            *)

PayloadDone == frame.size - m_bytes_needed

m_current_msg == IF frame.op \in Control THEN m_control_msg ELSE m_data_msg

\* There is no memory to append this piece.
Exhausted == m_current_msg.size + Bytes > MaxMemory

\* The bytes of this piece end a text that is not UTF-8.
DecodeFails ==
    /\ ~Exhausted /\ m_current_msg.op = "text"
    /\ frame.badAt \in (PayloadDone + 1)..(PayloadDone + Bytes)

\* The message with this piece, unmasked and appended.
Extended ==
    [m_current_msg EXCEPT !.size = @ + Bytes, !.key = (@ + Bytes) % 4]
Message == [op |-> Extended.op, size |-> Extended.size]

process_payload_bytes ==
    /\ In("APPLICATION") /\ Short /\ ~Exhausted /\ ~DecodeFails
    /\ Advance
    /\ m_bytes_needed' = m_bytes_needed - Bytes
    /\ IF frame.op \in Control
       THEN m_control_msg' = Extended /\ UNCHANGED m_data_msg
       ELSE m_data_msg' = Extended /\ UNCHANGED m_control_msg
    /\ UNCHANGED <<m_state, m_cursor, session, handed>>

\* A message that ends as it began, in one text frame, must end on a code
\* point: the opcode looked at is that of the last frame, so a text message
\* of several is not looked at.
IncompleteText == frame.op = "text" /\ frame.fin /\ frame.cut

PayloadFails ==
    /\ In("APPLICATION")
    /\ DecodeFails \/ (~Short /\ ~Exhausted /\ IncompleteText)
    /\ Fail

\* append() throws what none of the callers catches before the end of
\* broadcast_server::run(): nothing is read any more, from no connection.
OutOfMemory == In("APPLICATION") /\ Exhausted /\ Fail

\* The end of a frame: reset_headers(); the next one begins behind it.
reset_headers ==
    /\ In("APPLICATION") /\ ~Short /\ ~Exhausted /\ ~DecodeFails /\ ~IncompleteText
    /\ m_state' = "HEADER_BASIC" /\ m_bytes_needed' = BasicHeaderLength
    /\ frame' \in Frame /\ offset' = 0
    /\ avail' = avail - Bytes
    /\ UNCHANGED <<m_cursor, reading>>

FragmentRead ==
    /\ ~frame.fin
    /\ reset_headers
    /\ m_data_msg' = Extended
    /\ UNCHANGED <<m_control_msg, session, handed>>

\* get_message() and the message handler, which a closing connection does not
\* call.
MessageRead ==
    /\ frame.fin /\ frame.op \in Data
    /\ reset_headers
    /\ m_data_msg' = None
    /\ handed' = IF session = "open" THEN Append(handed, Message) ELSE handed
    /\ UNCHANGED <<m_control_msg, session>>

\* get_message() and process_control_frame(), which after a close frame
\* ignores all others; but the bytes behind it are still consumed.
ControlRead ==
    /\ frame.op \in Control
    /\ reset_headers
    /\ m_control_msg' = None
    /\ handed' = IF session = "open" \/ frame.op = "close"
                 THEN Append(handed, Message) ELSE handed
    /\ session' = IF frame.op = "close" THEN "closing" ELSE session
    /\ UNCHANGED m_data_msg
-----------------------------------------------------------------------------
consume ==
    \/ copy_basic_header_bytes \/ BasicHeaderRead \/ BasicHeaderFails
    \/ copy_extended_header_bytes \/ ExtendedHeaderRead \/ ExtendedHeaderFails
    \/ process_payload_bytes \/ PayloadFails \/ OutOfMemory
    \/ FragmentRead \/ MessageRead \/ ControlRead

Next == consume \/ ReadOn \/ \E n \in 1..BufferSize : Read(n)

Spec == Init /\ [][Next]_vars
-----------------------------------------------------------------------------
TypeOK ==
    /\ m_state \in {"HEADER_BASIC", "HEADER_EXTENDED", "APPLICATION"}
    /\ m_bytes_needed \in Nat /\ m_cursor \in Nat
    /\ m_data_msg \in DataMsg \cup {None}
    /\ m_control_msg \in ControlMsg \cup {None}
    /\ reading \in BOOLEAN /\ avail \in Nat
    /\ session \in {"open", "closing", "done"}
    /\ frame \in Frame /\ offset \in Nat
    /\ handed \in Seq(Handed)

\* The processor's counters say how far into the frame it is, whatever the
\* pieces were, and the extended header stays within its 12 bytes.
Aligned ==
    /\ m_state = "HEADER_BASIC" =>
        m_bytes_needed \in 1..BasicHeaderLength /\ offset = BasicHeaderLength - m_bytes_needed
    /\ m_state = "HEADER_EXTENDED" =>
        /\ offset = BasicHeaderLength + m_cursor /\ m_bytes_needed > 0
        /\ m_cursor + m_bytes_needed = get_header_len(frame) - BasicHeaderLength
        /\ m_cursor + m_bytes_needed <= MaxExtendedHeaderLength
    /\ m_state = "APPLICATION" =>
        m_bytes_needed <= frame.size /\ offset = get_header_len(frame) + PayloadDone

\* What the processor found legal of a frame, it has checked, and the message
\* that the payload goes to is there, and will be as long as it may be, as far as
\* size_t can tell.
Accepted ==
    /\ m_data_msg # None => m_data_msg.size <= MaxMemory
    /\ m_state # "HEADER_BASIC" =>
        /\ frame.op # "reserved" /\ frame.masked /\ ~frame.rsv
        /\ frame.op \in Control => frame.fin /\ frame.code = "basic"
    /\ m_state = "HEADER_EXTENDED" => ContinuationFits(frame)
    /\ m_state = "APPLICATION" =>
        /\ validate_incoming_extended_header(frame)
        /\ frame.op \in Control =>
            /\ m_control_msg # None
            /\ m_control_msg.op = frame.op /\ m_control_msg.size = PayloadDone
        /\ frame.op \in Data =>
            /\ m_data_msg # None
            /\ frame.op = "continuation" => m_data_msg.size >= PayloadDone
            /\ frame.op # "continuation" => m_data_msg.op = frame.op /\ m_data_msg.size = PayloadDone
            /\ SizeT(m_data_msg.size + m_bytes_needed) <= MaxMessage
            /\ m_data_msg.op = "text" => frame.badAt = 0 \/ frame.badAt > PayloadDone

\* Every payload byte is unmasked with the byte of its own frame's key that is
\* due, although control frames come in between and every fragment has a key
\* of its own.
MaskInStep ==
    m_state = "APPLICATION" => m_current_msg.key = PayloadDone % 4

\* When the connection waits for more bytes, the frame that it is in really
\* lacks some: no frame that has come, an empty one at the end of the buffer
\* included, waits for the bytes of the next.
NothingHeldBack ==
    reading => avail = 0 /\ offset < get_header_len(frame) + frame.size

Waiting == reading => m_bytes_needed > 0 /\ avail = 0

IInv ==
    /\ TypeOK
    /\ Aligned
    /\ Accepted
    /\ MaskInStep
    /\ Waiting
-----------------------------------------------------------------------------
\* What the message was at the last boundary between frames.
Partial ==
    IF session = "done" \/ m_data_msg = None THEN None
    ELSE IF m_state # "APPLICATION" \/ frame.op \in Control
    THEN [op |-> m_data_msg.op, size |-> m_data_msg.size]
    ELSE IF frame.op = "continuation"
    THEN [op |-> m_data_msg.op, size |-> m_data_msg.size - PayloadDone]
    ELSE None

AsFraming == INSTANCE Framing WITH partial <- Partial

\* However the stream is cut into reads, the same frames lead to the same
\* messages, control frames and refusals: those of Framing, whose limit does not
\* wrap, because a message that is longer is never complete.
IsFraming == AsFraming!Spec
=============================================================================
