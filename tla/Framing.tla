------------------------------ MODULE Framing ------------------------------
(***************************************************************************)
(* What the reader of a connection makes of its peer's frames, taken as    *)
(* wholes: which of them it accepts, what it puts together from them and   *)
(* what it hands out.  FrameReader gets them in arbitrary pieces.          *)
(***************************************************************************)
EXTENDS Naturals, Sequences

CONSTANTS
    Frame,           \* the frames a peer may send
    PayloadBasic,    \* limits::payload_size_basic, 125
    PayloadExtended, \* limits::payload_size_extended, 65535
    MaxMessage,      \* m_max_message_size
    None             \* no message is begun

VARIABLES
    frame,   \* the peer's next frame
    partial, \* the data message of which fragments have come
    session, \* "open", "closing" after a close frame, "done" when nothing is read any more
    handed   \* what was handed out: messages and control frames

vars == <<frame, partial, session, handed>>

Control == {"close", "ping", "pong"}
Data == {"text", "binary", "continuation"}

Init ==
    /\ frame \in Frame
    /\ partial = None /\ session = "open" /\ handed = <<>>

\* The length is in the shortest of its three forms.
Minimal ==
    /\ frame.code = "16bit" => frame.size > PayloadBasic
    /\ frame.code = "64bit" => frame.size > PayloadExtended

\* The message to which a data frame belongs, this frame included.
Extended ==
    IF frame.op = "continuation"
    THEN [op |-> partial.op, size |-> partial.size + frame.size]
    ELSE [op |-> frame.op, size |-> frame.size]

\* What is asked of every frame.  Sizes are those of the messages, whatever type
\* they are computed in.
WellFormed ==
    /\ frame.masked /\ ~frame.rsv /\ frame.op \in Control \cup Data
    /\ Minimal
    /\ frame.op \in Control => frame.fin /\ frame.code = "basic"
    /\ frame.op \in Data =>
        /\ frame.op = "continuation" <=> partial # None
        /\ Extended.size <= MaxMessage
        /\ Extended.op = "text" => frame.badAt = 0

\* "ensure that text messages end on a valid UTF8 code point" (hybi13.hpp:512).
EndsOnCodePoint == Extended.op = "text" /\ frame.fin => ~frame.cut

Acceptable == WellFormed /\ EndsOnCodePoint

\* Where the reader falls short of that comment: the opcode it looks at is the
\* one of the last frame, so the end of a text message in several frames is
\* overlooked.
Overlooked == WellFormed /\ ~EndsOnCodePoint /\ frame.op = "continuation"

TakeControl ==
    /\ frame.op \in Control /\ Acceptable
    /\ handed' = IF session = "open" \/ frame.op = "close"
                 THEN Append(handed, [op |-> frame.op, size |-> frame.size])
                 ELSE handed
    /\ session' = IF frame.op = "close" THEN "closing" ELSE session
    /\ frame' \in Frame
    /\ UNCHANGED partial

TakeFragment ==
    /\ frame.op \in Data /\ ~frame.fin /\ Acceptable
    /\ partial' = Extended
    /\ frame' \in Frame
    /\ UNCHANGED <<session, handed>>

TakeLast ==
    /\ frame.op \in Data /\ frame.fin
    /\ Acceptable \/ Overlooked
    /\ partial' = None
    /\ handed' = IF session = "open" THEN Append(handed, Extended) ELSE handed
    /\ frame' \in Frame
    /\ UNCHANGED session

Refuse ==
    /\ ~Acceptable /\ ~Overlooked
    /\ session' = "done"
    /\ partial' = None
    /\ UNCHANGED <<frame, handed>>

Next ==
    /\ session # "done"
    /\ TakeControl \/ TakeFragment \/ TakeLast \/ Refuse

Spec == Init /\ [][Next]_vars
=============================================================================
