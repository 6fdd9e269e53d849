---------------------------- MODULE FrameServer ----------------------------
(***************************************************************************)
(* The frame server (cBroadcastServer.cpp, example.cpp) and the pages that *)
(* watch it (websocketConnection.js).  Two threads of the server share its *)
(* flags and its set of connections without any lock:                      *)
(*                                                                         *)
(*   - the render thread runs the loop display(); idle(); of example.cpp;  *)
(*   - the io thread runs on_open, on_message and on_close, one at a time. *)
(*                                                                         *)
(* A step is one access to that shared state.  A connection is a FIFO pipe *)
(* in each direction here: WsConnection models how websocketpp makes it    *)
(* one.  Of a coded frame only this is kept: whether it carries the stream *)
(* header (SPS and PPS) of an H.264 encoder, and whether it is empty.      *)
(* Pixels and event payloads are abstracted away.                          *)
(***************************************************************************)
EXTENDS Integers, Sequences, FiniteSets

CONSTANTS
    Client,     \* the viewers, numbered in the order of the std::set
    Codec,      \* "jpeg" or "h264", the encoder the server was built with
    UserInput,  \* what the person in front of each page does with it
    MaxClicks,  \* bound: inputs per page
    MaxQueue    \* bound: messages in flight in one direction of a connection

ASSUME ClientAssumption == Client \subseteq Nat /\ IsFiniteSet(Client)
ASSUME CodecAssumption == Codec \in {"jpeg", "h264"}
ASSUME InputAssumption ==
    UserInput \in [Client -> SUBSET {"STVIS", "SAVE", "END", "KEY", "MOUSE"}]
ASSUME BoundAssumption == MaxClicks \in Nat /\ MaxQueue \in Nat \ {0}

Event == {"KEY", "MOUSE"}
Request == {"STVIS", "NXTFR"}
Message == Event \cup Request \cup {"SAVE", "END", "CLOSE"}
Frame == {"header", "img", "empty"}

VARIABLES
    needMoreFrames, stop, m_saveFrame,  \* flags of broadcast_server
    m_connections,                      \* its std::set of handles
    m_clientClosed, m_encoder,          \* the GPU encoder and its reset flag
    compressedImg,                      \* the encoder's buffer: getImg, getSize
    refreshed,                          \* isRefresh of the two event handlers
    pc, it,                             \* render thread: place, iterator
    io,                                 \* io thread: the handler it is in
    conState, toServer, toClient,       \* per connection: m_state, two pipes
    page, pageStop, reading,            \* per page: life, `stop', FileReader
    decoding,                           \* per page: its decoder had a header
    crashed                             \* how the process died, if it did

(* History variables: no action reads them, except `clicks' as a bound.    *)
VARIABLES
    clicks,       \* inputs of each page so far
    streamClicks, \* Stream clicks of each page so far
    waiting,      \* the page asked for a frame and has none since
    unanswered,   \* whose request on_message handled, with no send since
    lostBy,       \* what became of a request of the page since its last picture
    headless,     \* who was inserted alone and was sent no header yet
    usesLeft      \* the parses of a device's latest event, less its uses

flagVars == <<needMoreFrames, stop, m_saveFrame>>
encoderVars == <<m_clientClosed, m_encoder, compressedImg>>
renderVars == <<pc, it>>
pageVars == <<page, pageStop, reading, decoding, clicks, streamClicks, waiting>>
requestHistory == <<unanswered, lostBy, headless>>
eventVars == <<refreshed, usesLeft>>
vars == <<needMoreFrames, stop, m_saveFrame, m_connections, m_clientClosed,
          m_encoder, compressedImg, refreshed, pc, it, io, conState, toServer,
          toClient, page, pageStop, reading, decoding, crashed, clicks,
          streamClicks, waiting, unanswered, lostBy, headless, usesLeft>>

Before == -1              \* the iterator before begin()
Alive == crashed = "no"

(* What the io thread is doing: waiting in the reactor, inside insert() or *)
(* m_nvpipe->reset() of on_open, inside erase() of on_close, or parsing an *)
(* event, with n iterations of on_message's loop to go.                    *)
Idle == [op |-> "idle"]
Inserting(c) == [op |-> "insert", hdl |-> c]
Resetting(c) == [op |-> "reset", hdl |-> c]
Erasing(c) == [op |-> "erase", hdl |-> c]
Parsing(e, n) == [op |-> "parse", event |-> e, left |-> n]

RenderPlace ==
    {"display", "encode", "next", "push", "reset", "checkSave", "save",
     "checkKeyboard", "resetKeyboard", "checkMouse", "resetMouse"}

Handler ==
    {Idle} \cup {Inserting(c) : c \in Client} \cup {Resetting(c) : c \in Client}
           \cup {Erasing(c) : c \in Client}
           \cup {Parsing(e, n) : e \in Event, n \in 1..Cardinality(Client)}

TypeOK ==
    /\ needMoreFrames \in BOOLEAN /\ stop \in BOOLEAN /\ m_saveFrame \in BOOLEAN
    /\ m_connections \subseteq Client
    /\ m_clientClosed \in BOOLEAN /\ m_encoder \in {"fresh", "started", "null"}
    /\ compressedImg \in Frame
    /\ refreshed \in [Event -> BOOLEAN]
    /\ pc \in RenderPlace /\ it \in Client \cup {Before}
    /\ io \in Handler
    /\ conState \in [Client -> {"none", "open", "down", "gone"}]
    /\ toServer \in [Client -> Seq(Message)]
    /\ toClient \in [Client -> Seq(Frame)]
    /\ page \in [Client -> {"out", "open", "closed", "lost"}]
    /\ pageStop \in [Client -> BOOLEAN] /\ reading \in [Client -> BOOLEAN]
    /\ decoding \in [Client -> BOOLEAN]
    /\ crashed \in {"no", "uncaught", "undefined"}
    /\ clicks \in [Client -> Nat] /\ streamClicks \in [Client -> Nat]
    /\ waiting \in [Client -> BOOLEAN]
    /\ unanswered \subseteq Client
    /\ lostBy \in [Client -> {"none", "overwritten", "withdrawn", "dry", "undecodable"}]
    /\ headless \subseteq m_connections
    /\ usesLeft \in [Event -> Int]

\* The constructor leaves m_clientClosed, and cKeyboardHandler isRefresh,
\* uninitialized: one key event may be used that never came.  initNvPipe may
\* fail and the server goes on without encoder.
Init ==
    /\ needMoreFrames = FALSE /\ stop = TRUE /\ m_saveFrame = FALSE
    /\ m_connections = {}
    /\ m_clientClosed \in (IF Codec = "h264" THEN BOOLEAN ELSE {FALSE})
    /\ m_encoder \in (IF Codec = "h264" THEN {"fresh", "null"} ELSE {"fresh"})
    /\ compressedImg = "empty"
    /\ refreshed \in {f \in [Event -> BOOLEAN] : ~f["MOUSE"]}
    /\ pc = "display" /\ it = Before
    /\ io = Idle
    /\ conState = [c \in Client |-> "none"]
    /\ toServer = [c \in Client |-> <<>>]
    /\ toClient = [c \in Client |-> <<>>]
    /\ page = [c \in Client |-> "out"]
    /\ pageStop = [c \in Client |-> FALSE]
    /\ reading = [c \in Client |-> FALSE]
    /\ decoding = [c \in Client |-> FALSE]
    /\ crashed = "no"
    /\ clicks = [c \in Client |-> 0] /\ streamClicks = [c \in Client |-> 0]
    /\ waiting = [c \in Client |-> FALSE]
    /\ unanswered = {} /\ lostBy = [c \in Client |-> "none"]
    /\ headless = {}
    /\ usesLeft = [e \in Event |-> 1]

-----------------------------------------------------------------------------
(* The render thread: while (!stop) { display(); idle(); }                 *)

MovesTo(here, there) == Alive /\ pc = here /\ pc' = there

\* Mutant: the test of the flag is lost.
FrameWanted_always == TRUE
FrameWanted == needMoreFrames

\* display(): render, then look whether some page wants the frame.
CheckNeedMoreFrames ==
    /\ MovesTo("display", IF FrameWanted THEN "encode" ELSE "checkSave")
    /\ UNCHANGED <<flagVars, m_connections, encoderVars, eventVars, it, io,
                   conState, toServer, toClient, pageVars, crashed,
                   requestHistory>>

\* A JPEG encoding that fails leaves the frame before it in the buffer, which
\* is sent again (at first an empty one).
EncodeJPEG ==
    /\ compressedImg' \in {"img", compressedImg}
    /\ UNCHANGED m_encoder

\* encodeAndWrapNvPipe: the first frame of an encoder has the header, those
\* after it have one or not (the comment says P frames, the call forces I
\* frames); a failure leaves the size 0.
EncodeNvPipe ==
    \/ compressedImg' = "empty" /\ UNCHANGED m_encoder
    \/ /\ m_encoder = "fresh"
       /\ compressedImg' = "header" /\ m_encoder' = "started"
    \/ /\ m_encoder = "started"
       /\ compressedImg' \in {"img", "header"} /\ UNCHANGED m_encoder

\* Without an encoder NvPipe_Encode and NvPipe_GetError are called all the same.
\* They are not part of the repository, which does not say what they make of a
\* null pointer: an error, as above, or the end of the process.
EncodeWithoutEncoder ==
    /\ Alive /\ pc = "encode"
    /\ Codec = "h264" /\ m_encoder = "null"
    /\ crashed' = "undefined"
    /\ UNCHANGED <<flagVars, m_connections, encoderVars, eventVars, renderVars,
                   io, conState, toServer, toClient, pageVars,
                   requestHistory>>

\* Nobody looks whether the encoding failed; the range-for over m_connections
\* is about to begin.
Encode ==
    /\ MovesTo("encode", "next")
    /\ IF Codec = "jpeg" THEN EncodeJPEG ELSE EncodeNvPipe
    /\ it' = Before
    /\ UNCHANGED <<flagVars, m_connections, m_clientClosed, eventVars, io,
                   conState, toServer, toClient, pageVars, crashed,
                   requestHistory>>

\* Mutant: the iterator is not advanced.
AfterIterator_stuck == {c \in m_connections : c >= it}
\* Where begin(), and then ++, may stand: the set is kept in order.
AfterIterator == {c \in m_connections : c > it}

VisitNext(c) ==
    /\ MovesTo("next", "push")
    /\ c \in AfterIterator
    /\ \A d \in AfterIterator : c <= d
    /\ it' = c
    /\ UNCHANGED <<flagVars, m_connections, encoderVars, eventVars, io,
                   conState, toServer, toClient, pageVars, crashed,
                   requestHistory>>

EndBroadcast ==
    /\ MovesTo("next", "checkSave")
    /\ AfterIterator = {}
    /\ it' = Before
    /\ UNCHANGED <<flagVars, m_connections, encoderVars, eventVars, io,
                   conState, toServer, toClient, pageVars, crashed,
                   requestHistory>>

\* Reading the tree while the io thread rebalances it, or ++ on an erased
\* node.  VisitNext and EndBroadcast are the benign outcomes.
ReadsRacingTree ==
    \/ \E c \in Client : io \in {Inserting(c), Erasing(c)}
    \/ it # Before /\ it \notin m_connections

IterateUndefined ==
    /\ Alive /\ pc = "next" /\ ReadsRacingTree
    /\ crashed' = "undefined"
    /\ UNCHANGED <<flagVars, m_connections, encoderVars, eventVars, renderVars,
                   io, conState, toServer, toClient, pageVars,
                   requestHistory>>

\* m_server.send(it, ...) on an open connection.  Nobody drains the pipe of
\* a page that went away, so what is sent to it is dropped here.
PushFrame ==
    /\ MovesTo("push", "reset")
    /\ conState[it] = "open"
    /\ \/ /\ page[it] = "open"
          /\ Len(toClient[it]) < MaxQueue
          /\ toClient' = [toClient EXCEPT ![it] = Append(@, compressedImg)]
       \/ page[it] # "open" /\ UNCHANGED toClient
    /\ unanswered' = unanswered \ {it}
    /\ headless' = IF compressedImg = "header" THEN headless \ {it} ELSE headless
    /\ UNCHANGED <<flagVars, m_connections, encoderVars, eventVars, it, io,
                   conState, toServer, pageVars, crashed, lostBy>>

\* send() throws websocketpp::exception; the handler catches lib::error_code.
SendFails ==
    /\ Alive /\ pc = "push" /\ conState[it] # "open"
    /\ crashed' = "uncaught"
    /\ UNCHANGED <<flagVars, m_connections, encoderVars, eventVars, renderVars,
                   io, conState, toServer, toClient, pageVars,
                   requestHistory>>

\* The requests of S are lost by something else than an answer.
LosesTo(cause, S) ==
    lostBy' = [c \in Client |-> IF c \in S THEN cause ELSE lostBy[c]]

\* Mutant: the reset after the send is missing.
ClearRequest_missing == UNCHANGED needMoreFrames
ClearRequest == needMoreFrames' = FALSE

\* needMoreFrames = false, the statement after the send.
ResetNeedMoreFrames ==
    /\ MovesTo("reset", "next")
    /\ ClearRequest
    /\ LosesTo("overwritten", unanswered \ AfterIterator)
    /\ UNCHANGED <<stop, m_saveFrame, m_connections, encoderVars, eventVars,
                   it, io, conState, toServer, toClient, pageVars, crashed,
                   unanswered, headless>>

CheckSaveFrame ==
    /\ MovesTo("checkSave", IF m_saveFrame THEN "save" ELSE "checkKeyboard")
    /\ UNCHANGED <<flagVars, m_connections, encoderVars, eventVars, it, io,
                   conState, toServer, toClient, pageVars, crashed,
                   requestHistory>>

\* Mutant: save() leaves the flag up.
CaptureDone_missing == UNCHANGED m_saveFrame
CaptureDone == m_saveFrame' = FALSE

\* save(): the PNG is written, then the flag is cleared.
Save ==
    /\ MovesTo("save", "checkKeyboard")
    /\ CaptureDone
    /\ UNCHANGED <<needMoreFrames, stop, m_connections, encoderVars, eventVars,
                   it, io, conState, toServer, toClient, pageVars, crashed,
                   requestHistory>>

\* idle(): checkKeyboard and checkMouse read refreshed(), use the event ...
CheckHandler(e, here, found, otherwise) ==
    /\ MovesTo(here, IF refreshed[e] THEN found ELSE otherwise)
    /\ usesLeft' = IF refreshed[e] THEN [usesLeft EXCEPT ![e] = @ - 1] ELSE usesLeft
    /\ UNCHANGED <<flagVars, m_connections, encoderVars, refreshed, it, io,
                   conState, toServer, toClient, pageVars, crashed,
                   requestHistory>>

\* Mutant: the event is not marked as consumed.
Taken_kept(e) == UNCHANGED refreshed
Taken(e) == refreshed' = [refreshed EXCEPT ![e] = FALSE]

\* ... and then mark it consumed.
ResetHandler(e, here, there) ==
    /\ MovesTo(here, there)
    /\ Taken(e)
    /\ UNCHANGED <<flagVars, m_connections, encoderVars, usesLeft, it, io,
                   conState, toServer, toClient, pageVars, crashed,
                   requestHistory>>

idle ==
    \/ CheckHandler("KEY", "checkKeyboard", "resetKeyboard", "checkMouse")
    \/ ResetHandler("KEY", "resetKeyboard", "checkMouse")
    \/ CheckHandler("MOUSE", "checkMouse", "resetMouse", "display")
    \/ ResetHandler("MOUSE", "resetMouse", "display")

Render ==
    \/ CheckNeedMoreFrames \/ Encode \/ EncodeWithoutEncoder
    \/ EndBroadcast \/ IterateUndefined
    \/ PushFrame \/ SendFails \/ ResetNeedMoreFrames
    \/ CheckSaveFrame \/ Save \/ idle
    \/ \E c \in Client : VisitNext(c)
-----------------------------------------------------------------------------
(* The io thread: m_server.run() calls one handler at a time.              *)

IoIdle == Alive /\ io = Idle

\* handle_write_http_response: the connection is open, on_open is called and
\* is inside m_connections.insert(hdl).
OpenConnection(c) ==
    /\ IoIdle
    /\ conState[c] = "none" /\ page[c] # "out"
    /\ conState' = [conState EXCEPT ![c] = "open"]
    /\ io' = Inserting(c)
    /\ UNCHANGED <<flagVars, m_connections, encoderVars, eventVars, renderVars,
                   toServer, toClient, pageVars, crashed, requestHistory>>

\* Mutant: the encoder is never reset.
ViewerLeft_unnoticed == FALSE
ViewerLeft == m_clientClosed

\* The handle is in; the GPU encoder is reset if a viewer left before.
InsertConnection(c) ==
    /\ Alive /\ io = Inserting(c)
    /\ m_connections' = m_connections \cup {c}
    /\ io' = IF Codec = "h264" /\ ViewerLeft THEN Resetting(c) ELSE Idle
    /\ headless' = IF m_connections = {} THEN headless \cup {c} ELSE headless
    /\ UNCHANGED <<flagVars, encoderVars, eventVars, renderVars, conState,
                   toServer, toClient, pageVars, crashed, unanswered, lostBy>>

\* m_nvpipe->reset() destroys the encoder and creates another one, which may
\* fail: then there is none for good, because a null encoder is not created
\* again.  If the render thread is encoding, it uses a destroyed encoder.
ResetEncoder(c) ==
    /\ Alive /\ io = Resetting(c)
    /\ m_encoder' \in (IF m_encoder = "null" THEN {"null"} ELSE {"fresh", "null"})
    /\ m_clientClosed' = FALSE
    /\ \/ UNCHANGED crashed
       \/ pc = "encode" /\ m_encoder # "null" /\ crashed' = "undefined"
    /\ io' = Idle
    /\ UNCHANGED <<flagVars, m_connections, compressedImg, eventVars, renderVars,
                   conState, toServer, toClient, pageVars, requestHistory>>

\* The next message of an open connection is m.
Receives(c, m) ==
    /\ IoIdle
    /\ conState[c] = "open"
    /\ toServer[c] # <<>> /\ Head(toServer[c]) = m
    /\ toServer' = [toServer EXCEPT ![c] = Tail(@)]

\* Mutant: a request does not raise the flag.
RaiseRequest_missing == stop' = FALSE /\ UNCHANGED needMoreFrames
RaiseRequest == needMoreFrames' = TRUE /\ stop' = FALSE

\* on_message: NXTFR or STVIS.  The loop over m_connections matches the text
\* in its first iteration only, because it appends the payload each time.
OnRequest(c) ==
    /\ \E m \in Request : Receives(c, m)
    /\ RaiseRequest
    /\ unanswered' = unanswered \cup {c}
    /\ UNCHANGED <<m_saveFrame, m_connections, encoderVars, eventVars, renderVars,
                   io, conState, toClient, pageVars, crashed, lostBy,
                   headless>>

OnSave(c) ==
    /\ Receives(c, "SAVE")
    /\ m_saveFrame' = TRUE
    /\ UNCHANGED <<needMoreFrames, stop, m_connections, encoderVars, eventVars,
                   renderVars, io, conState, toClient, pageVars, crashed,
                   requestHistory>>

\* Mutant: the request survives the end of the stream.
WithdrawRequest_kept == stop' = TRUE /\ UNCHANGED needMoreFrames
\* What END and on_close do to the flags, for every viewer.
WithdrawRequest == stop' = TRUE /\ needMoreFrames' = FALSE
\* The viewer's own request is gone, and that of every other one.
Withdraw(c) ==
    /\ WithdrawRequest
    /\ unanswered' = unanswered \ {c}
    /\ LosesTo("withdrawn", unanswered \ {c})
    /\ UNCHANGED headless

OnEnd(c) ==
    /\ Receives(c, "END")
    /\ Withdraw(c)
    /\ UNCHANGED <<m_saveFrame, m_connections, encoderVars, eventVars, renderVars,
                   io, conState, toClient, pageVars, crashed>>

\* An input event is parsed once for every connection, if the server streams.
OnEvent(c, e) ==
    /\ Receives(c, e)
    /\ io' = IF stop \/ m_connections = {} THEN Idle
             ELSE Parsing(e, Cardinality(m_connections))
    /\ UNCHANGED <<flagVars, m_connections, encoderVars, eventVars, renderVars,
                   conState, toClient, pageVars, crashed, requestHistory>>

MoreToParse(n) == n > 1

\* parse(): the handler's fields are overwritten and isRefresh is raised.
ParseEvent(e, n) ==
    /\ Alive /\ io = Parsing(e, n)
    /\ refreshed' = [refreshed EXCEPT ![e] = TRUE]
    /\ io' = IF MoreToParse(n) THEN Parsing(e, n - 1) ELSE Idle
    /\ usesLeft' = IF n = Cardinality(m_connections)
                   THEN [usesLeft EXCEPT ![e] = n] ELSE usesLeft
    /\ UNCHANGED <<flagVars, m_connections, encoderVars, renderVars,
                   conState, toServer, toClient, pageVars, crashed,
                   requestHistory>>

\* The connection leaves the open state: on a CLOSE frame websocketpp sends
\* the acknowledgement, on a lost connection it terminates.
GoDown(c) ==
    /\ conState' = [conState EXCEPT ![c] = "down"]
    /\ UNCHANGED <<flagVars, m_connections, encoderVars, eventVars, renderVars,
                   io, pageVars, crashed, requestHistory>>

OnCloseFrame(c) ==
    /\ Receives(c, "CLOSE")
    /\ GoDown(c)
    /\ toClient' = [toClient EXCEPT ![c] = <<>>]

LoseConnection(c) ==
    /\ IoIdle
    /\ conState[c] = "open" /\ page[c] = "lost"
    /\ GoDown(c)
    /\ toServer' = [toServer EXCEPT ![c] = <<>>]
    /\ toClient' = [toClient EXCEPT ![c] = <<>>]

\* on_close, up to m_connections.erase(hdl).
OnClose(c) ==
    /\ IoIdle
    /\ conState[c] = "down"
    /\ Withdraw(c)
    /\ io' = Erasing(c)
    /\ UNCHANGED <<m_saveFrame, m_connections, encoderVars, eventVars, renderVars,
                   conState, toServer, toClient, pageVars, crashed>>

\* Mutant: the handle stays in the set.
Erased_kept(c) == m_connections
Erased(c) == m_connections \ {c}

EraseConnection(c) ==
    /\ Alive /\ io = Erasing(c)
    /\ m_connections' = Erased(c)
    /\ conState' = [conState EXCEPT ![c] = "gone"]
    /\ m_clientClosed' = (Codec = "h264")
    /\ io' = Idle
    /\ lostBy' = [lostBy EXCEPT ![c] = "none"]
    /\ headless' = headless \ {c}
    /\ UNCHANGED <<flagVars, m_encoder, compressedImg, eventVars, renderVars,
                   toServer, toClient, pageVars, crashed, unanswered>>

ParseAgain == \E e \in Event, n \in 1..Cardinality(Client) : ParseEvent(e, n)

IoFor(c) ==
    \/ OpenConnection(c) \/ InsertConnection(c) \/ ResetEncoder(c)
    \/ OnRequest(c) \/ OnSave(c) \/ OnEnd(c)
    \/ OnCloseFrame(c) \/ LoseConnection(c) \/ OnClose(c) \/ EraseConnection(c)
    \/ \E e \in Event : OnEvent(c, e)

-----------------------------------------------------------------------------
(* A page: the JavaScript of websocketConnection.js, one callback a step.  *)

serverVars == <<flagVars, m_connections, encoderVars, eventVars, renderVars,
                io, conState, crashed, unanswered, headless>>

PageOpen(c) == Alive /\ page[c] = "open"
Sends(c, m) ==
    /\ Len(toServer[c]) < MaxQueue
    /\ toServer' = [toServer EXCEPT ![c] = Append(@, m)]

Connect(c) ==
    /\ Alive /\ page[c] = "out"
    /\ page' = [page EXCEPT ![c] = "open"]
    /\ UNCHANGED <<serverVars, toServer, toClient, pageStop, reading, decoding,
                   clicks, streamClicks, waiting, lostBy>>

Input(c, m) ==
    /\ PageOpen(c)
    /\ m \in UserInput[c] /\ clicks[c] < MaxClicks
    /\ clicks' = [clicks EXCEPT ![c] = @ + 1]
    /\ Sends(c, m)
    /\ UNCHANGED <<serverVars, toClient, page, reading, decoding, lostBy>>

\* startingConnection, the Stream button.
ClickStream(c) ==
    /\ Input(c, "STVIS")
    /\ pageStop' = [pageStop EXCEPT ![c] = FALSE]
    /\ waiting' = [waiting EXCEPT ![c] = TRUE]
    /\ streamClicks' = [streamClicks EXCEPT ![c] = @ + 1]

\* closingConnection, the end of the stream.
ClickEnd(c) ==
    /\ Input(c, "END")
    /\ pageStop' = [pageStop EXCEPT ![c] = TRUE]
    /\ waiting' = [waiting EXCEPT ![c] = FALSE]
    /\ UNCHANGED streamClicks

\* captureFrame, and the mouse and key listeners of peripherals.js.
SendInput(c) ==
    /\ \E m \in Event \cup {"SAVE"} : Input(c, m)
    /\ UNCHANGED <<pageStop, waiting, streamClicks>>

\* Only a page of the jpeg viewer has a FileReader, and it reads one frame at
\* a time: readAsDataURL throws while it is busy and the frame is dropped.
OnMessageReader(c) ==
    /\ Codec = "jpeg" /\ PageOpen(c) /\ toClient[c] # <<>>
    /\ toClient' = [toClient EXCEPT ![c] = Tail(@)]
    /\ reading' = [reading EXCEPT ![c] = TRUE]
    /\ waiting' = [waiting EXCEPT ![c] = FALSE]
    /\ lostBy' = [lostBy EXCEPT ![c] = "none"]
    /\ UNCHANGED <<serverVars, toServer, page, pageStop, decoding, clicks,
                   streamClicks>>

\* Mutant: the page asks for the next frame even after END.
AsksAgain_always(c) == TRUE
AsksAgain(c) == ~pageStop[c]

\* nextBlob, the end of the FileReader's work.
NextBlob(c) ==
    /\ PageOpen(c) /\ reading[c]
    /\ reading' = [reading EXCEPT ![c] = FALSE]
    /\ IF AsksAgain(c)
       THEN Sends(c, "NXTFR") /\ waiting' = [waiting EXCEPT ![c] = TRUE]
       ELSE UNCHANGED <<toServer, waiting>>
    /\ UNCHANGED <<serverVars, toClient, page, pageStop, decoding, clicks,
                   streamClicks, lostBy>>

\* decodeH264 (Player.js): the decoder gets the next frame.
DecodeFrame(c) ==
    /\ Codec = "h264" /\ PageOpen(c) /\ toClient[c] # <<>>
    /\ toClient' = [toClient EXCEPT ![c] = Tail(@)]
    /\ decoding' = [decoding EXCEPT ![c] = @ \/ Head(toClient[c]) = "header"]
    /\ UNCHANGED <<serverVars, page, pageStop, reading, clicks, streamClicks>>

\* A frame can only be decoded with a header, its own or an earlier one.
Decodable(c) ==
    Head(toClient[c]) = "header" \/ (Head(toClient[c]) = "img" /\ decoding[c])

\* onPictureDecoded: a picture asks for the next one, whatever `stop' says.
PictureDecoded(c) ==
    /\ DecodeFrame(c) /\ Decodable(c)
    /\ Sends(c, "NXTFR")
    /\ waiting' = [waiting EXCEPT ![c] = TRUE]
    /\ lostBy' = [lostBy EXCEPT ![c] = "none"]

\* No picture, no request: the frame was empty, or it belongs to a stream that
\* the page joined too late for its header.
NothingDecoded(c) ==
    /\ DecodeFrame(c) /\ ~Decodable(c)
    /\ lostBy' = [lostBy EXCEPT ![c] =
                      IF Head(toClient[c]) = "empty" THEN "dry" ELSE "undecodable"]
    /\ UNCHANGED <<toServer, waiting>>

\* The page is closed: the browser sends a CLOSE frame ...
ClosePage(c) ==
    /\ PageOpen(c)
    /\ page' = [page EXCEPT ![c] = "closed"]
    /\ toServer' = [toServer EXCEPT ![c] = Append(@, "CLOSE")]
    /\ toClient' = [toClient EXCEPT ![c] = <<>>]
    /\ reading' = [reading EXCEPT ![c] = FALSE]
    /\ decoding' = [decoding EXCEPT ![c] = FALSE]
    /\ waiting' = [waiting EXCEPT ![c] = FALSE]
    /\ UNCHANGED <<serverVars, pageStop, clicks, streamClicks, lostBy>>

\* ... or it is killed, and its kernel ends the TCP connection.
LosePage(c) ==
    /\ PageOpen(c)
    /\ page' = [page EXCEPT ![c] = "lost"]
    /\ toClient' = [toClient EXCEPT ![c] = <<>>]
    /\ reading' = [reading EXCEPT ![c] = FALSE]
    /\ decoding' = [decoding EXCEPT ![c] = FALSE]
    /\ waiting' = [waiting EXCEPT ![c] = FALSE]
    /\ UNCHANGED <<serverVars, toServer, pageStop, clicks, streamClicks, lostBy>>

Browser(c) ==
    \/ OnMessageReader(c) \/ NextBlob(c)
    \/ PictureDecoded(c) \/ NothingDecoded(c)
User(c) ==
    \/ Connect(c) \/ ClickStream(c) \/ ClickEnd(c) \/ SendInput(c)
    \/ ClosePage(c) \/ LosePage(c)

-----------------------------------------------------------------------------
\* Nothing happens any more once the process is dead.
ServerDead == ~Alive /\ UNCHANGED vars

Next ==
    \/ Render \/ ParseAgain \/ ServerDead
    \/ \E c \in Client : IoFor(c) \/ Browser(c) \/ User(c)

Spec == Init /\ [][Next]_vars

\* The loops of both threads never block for good, asio serves every ready
\* connection in turn, a browser runs the callbacks that are due.  Nobody has
\* to click, connect or leave.
Fairness ==
    /\ WF_vars(Render) /\ WF_vars(ParseAgain)
    /\ \A c \in Client : SF_vars(IoFor(c)) /\ WF_vars(Browser(c))

FairSpec == Spec /\ Fairness
-----------------------------------------------------------------------------
(* Safety.                                                                 *)

\* A request is outstanding only while somebody is connected.  With an empty
\* m_connections the loop that clears the flag has no iteration, and the
\* render thread would encode every frame for nobody.  on_close lowers the flag
\* before it erases the handle, and nobody else can raise it in between
\* (cBroadcastServer.cpp:147-153).
RequestHasMember == needMoreFrames => m_connections # {}

Departed(c) == conState[c] \in {"down", "gone"}

\* A server that has its encoder can only die of the viewers' coming and going:
\* of a send to, or an iteration over, a connection that ended, of an iteration
\* while another viewer is being inserted, or of an encoder that is destroyed
\* in use.  Viewers that stay never kill it.  Without the encoder any frame may.
CrashNeedsChurn ==
    ~Alive => \/ \E c \in Client : Departed(c)
              \/ m_connections # {} /\ \E c \in Client : io = Inserting(c)
              \/ Codec = "h264" /\ m_encoder = "null"

\* Being in m_connections and being an open connection are the same thing,
\* but for the handler that is just making them so, and the iterator stands
\* on a member or on a connection that is gone: a frame is never sent to a
\* connection that was not announced by on_open.
SendsToMembers ==
    /\ \A c \in m_connections : conState[c] \in {"open", "down"}
    /\ \A c \in Client :
           conState[c] = "open" => c \in m_connections \/ io = Inserting(c)
    /\ it # Before => it \in m_connections \/ conState[it] = "gone"

\* Why the above hold; with them they are an inductive invariant.
HandlerMatchesState ==
    \A c \in Client :
        /\ io = Inserting(c) => conState[c] = "open" /\ c \notin m_connections
        /\ io = Resetting(c) => c \in m_connections /\ m_clientClosed
        /\ io = Erasing(c) => conState[c] = "down" /\ ~needMoreFrames

Broadcasting == pc \in {"encode", "next", "push", "reset"}
Somebody == m_connections # {} \/ \E c \in Client : conState[c] = "gone"
BroadcastHadMember ==
    /\ Broadcasting => Somebody
    /\ pc \in {"push", "reset"} => it # Before

\* m_clientClosed, uninitialized, may be up before anybody left: then no
\* frame is wanted before the first on_open has lowered it.
ResetMeetsNoEncode ==
    m_clientClosed =>
        /\ Codec = "h264"
        /\ \/ \E c \in Client : Departed(c)
           \/ /\ ~needMoreFrames /\ pc # "encode"
              /\ m_connections = {} \/ \E c \in Client : io = Resetting(c)

\* The members that the loop over m_connections has yet to send to.
StillOwed ==
    IF pc \in {"next", "reset"} THEN AfterIterator
    ELSE IF pc = "push" THEN {c \in m_connections : c >= it} ELSE {}

\* Whoever joins an empty server gets the header of the H.264 stream with the
\* next frame that is encoded for it, although a frame for those who left may
\* still be under way ("so new SPS and PPS H264 frames are sent to the client",
\* cBroadcastServer.cpp:130).
HeaderReaches(c) ==
    \/ m_encoder \in {"fresh", "null"} \/ io = Resetting(c)
    \/ compressedImg = "header" /\ c \in StillOwed
HeaderReachesLoner ==
    Codec = "h264" => \A c \in headless : HeaderReaches(c)

\* Why: the last one to leave an empty server has raised m_clientClosed.
ResetIsDue ==
    Codec = "h264" =>
        /\ m_connections = {} /\ (\E c \in Client : conState[c] = "gone") => m_clientClosed
        /\ m_encoder = "started" => Somebody

IInv ==
    /\ TypeOK
    /\ RequestHasMember
    /\ CrashNeedsChurn
    /\ SendsToMembers
    /\ HandlerMatchesState
    /\ BroadcastHadMember
    /\ ResetMeetsNoEncode
    /\ ResetIsDue
    /\ HeaderReachesLoner

Requests(c) == Cardinality({i \in DOMAIN toServer[c] : toServer[c][i] \in Request})
Claimed == pc \in {"encode", "next", "push"} /\ ~(pc = "next" /\ it # Before)
One(b) == IF b THEN 1 ELSE 0

\* With one viewer the stream is clocked by its requests: every frame and
\* every request under way stems from a click of its own on Stream, so
\* neither the pipe nor the browser ever holds more of them than clicks.
SelfClocking ==
    Cardinality(Client) = 1 =>
        \A c \in Client :
            Len(toClient[c]) + One(reading[c]) + Requests(c)
              + One(Claimed \/ (needMoreFrames /\ pc # "reset"))
            <= streamClicks[c]

\* A page that waits for a frame has a request or a frame under way somewhere
\* between its socket, the flag, the render thread and back; or one of four
\* things ended its loop of requests: the reset of the flag after a send; the
\* END or departure of another viewer; an encoding that failed; a frame that it
\* cannot decode, because the stream began for another viewer.
RequestUnderWay(c) ==
    \/ Requests(c) > 0
    \/ c \in unanswered /\ (needMoreFrames \/ pc = "encode" \/ c \in StillOwed)
    \/ toClient[c] # <<>>

\* Another viewer is or was connected.
OthersCame(c) == \E d \in Client \ {c} : conState[d] # "none"

StallHasCause ==
    \A c \in Client : waiting[c] =>
        \/ RequestUnderWay(c)
        \/ lostBy[c] = "overwritten"
        \/ lostBy[c] = "withdrawn" /\ OthersCame(c)
        \/ lostBy[c] = "dry" /\ Codec = "h264"
        \/ lostBy[c] = "undecodable" /\ Codec = "h264" /\ OthersCame(c)

\* Once the page's last END was handled the server is quiet, because no
\* request of the page can follow it ("Streaming OFF...",
\* websocketConnection.js:386).
EndIsFinal ==
    \A c \in Client :
        (/\ Cardinality(Client) = 1 /\ page[c] = "open" /\ conState[c] = "open"
         /\ pageStop[c] /\ \A i \in DOMAIN toServer[c] : toServer[c][i] # "END")
        => stop /\ ~needMoreFrames

\* on_message parses an input event once for every connection (:170), and
\* idle() may use it between two of these parses: but however they interleave,
\* and whoever joins or leaves meanwhile, it is used at most as often as there
\* were viewers when it came; once for a lone one ("data was consumed",
\* cDummyRenderer.h:97).
EventsPerViewer == \A e \in Event : usesLeft[e] >= 0

\* A send that fails is reported and survived ("SEND failed because",
\* cBroadcastServer.cpp:374).
SendFailureIsSurvived == crashed # "uncaught"

-----------------------------------------------------------------------------
(* The promise of Broadcast, kept whatever the viewers do.                 *)

RoundOf ==
    CASE pc = "encode" -> "claimed"
      [] pc \in {"next", "push"} -> "serving"
      [] pc = "reset" -> "settling"
      [] OTHER -> "idle"

Promise == INSTANCE Broadcast WITH
    audience <- m_connections,
    requested <- needMoreFrames,
    round <- RoundOf,
    owed <- StillOwed

\* Rounds are asked for, and everybody who stays gets exactly one frame of
\* each round (the range-for loops over m_connections).
KeepsPromise == Promise!Spec

=============================================================================
