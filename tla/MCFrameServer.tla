--------------------------- MODULE MCFrameServer ---------------------------
(* FrameServer for TLC, with the properties that only TLC checks: the ones *)
(* under fairness, and the ones that hold for a single viewer or not at    *)
(* all.                                                                    *)
EXTENDS FrameServer

\* What the people in front of the pages do with them.
OnlyStream == [c \in Client |-> {"STVIS"}]
StreamAndType == [c \in Client |-> IF c = 1 THEN {"STVIS"} ELSE {"STVIS", "KEY"}]
AllButMouse == [c \in Client |-> {"STVIS", "END", "SAVE", "KEY"}]

\* A page that asked for a frame gets one, or it withdraws: what the loop of
\* NXTFR messages is for (the round trip of cBroadcastServer.h:144).  It
\* fails: a request handled between the send and the reset of the flag is
\* lost.
StreamNeverStalls == \A c \in Client : waiting[c] ~> (~waiting[c] \/ ~Alive)

\* That lost request is the only way in which a lone viewer's stream stalls.
StallsOnlyByOverwrite ==
    \A c \in Client : waiting[c] ~> (~waiting[c] \/ lostBy[c] = "overwritten" \/ ~Alive)

\* A page that went away is forgotten: its connection ends and its handle
\* leaves m_connections (on_close).
LeaverForgotten ==
    \A c \in Client :
        page[c] \in {"closed", "lost"}
            ~> (~Alive \/ (c \notin m_connections /\ conState[c] = "gone"))

\* A capture that was asked for is taken: no broadcast keeps the render
\* thread from save().
CaptureTaken == m_saveFrame ~> (~m_saveFrame \/ ~Alive)
=============================================================================
