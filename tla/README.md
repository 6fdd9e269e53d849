# Sight_FrameServer: specifications, model checking and proofs

Sight_FrameServer renders frames on a server and streams them over WebSockets to
the pages of its viewers, which send mouse and key events back. This directory
holds TLA+ specifications of its concurrent core, the TLC runs that check them on
small instances, and TLAPS proofs of the results that matter most for every
instance.

    tlc -workers 2 -config jpeg_one.cfg MCFrameServer      # one run
    tlapm FrameServerProofs.tla                            # one proof module

The repository also contains a vendored websocketpp, asio, an H.264 decoder and its
OpenMAX library, which are by far most of its lines. Of these only the paths that
the server's own guarantees rest on are modelled (a connection's life, its frame
reader, the accept loop), so the modules map to a small share of all lines and to
most of the server's and its page's own.

## 1. The system

Paths are relative to `src/`.

| Component | State | Operations | Talks to |
|---|---|---|---|
| render loop, `source/example.cpp` | `stop` (the signal's), framebuffer, render mode | `display`, `idle`, `loops` | calls `broadcast_server`; reads the event handlers |
| `broadcast_server`, `source/cBroadcastServer.cpp` | `needMoreFrames`, `stop`, `m_saveFrame`, `m_connections`, `m_clientClosed`, the encoders | `on_open`, `on_message`, `on_close` on the io thread; `sendFrame`, `save` on the render thread | websocketpp in both directions, encoders, event handlers |
| start and end, `example.cpp`, `cBroadcastServer.cpp` | the two threads, the acceptor | `main`, `run`, `stop_listening`, the SIGINT handler | websocketpp's endpoint |
| event handlers, `header/c{Keyboard,MouseEvent,Message}Handler.h` | the fields of the latest event, `isRefresh` | `parse` (io thread), `refreshed`, `refresh(false)` (render thread) | none; shared memory |
| GPU encoder wrapper, `header/cNvPipeEncoder.h` | the NvPipe encoder, buffer, size | `encodeAndWrapNvPipe` (render thread), `reset` (io thread) | NvPipe |
| JPEG and PNG encoders, quality, scaling | buffers, quality | `encode`, `savePNG`, `adjustJpegQuality`, `scale` | libjpeg-turbo, libpng |
| statistics, `header/cStats.h`, `cTimer.h` | sum, number, average, timers | `add` (io thread), `printStats`, `getAverage` (render thread) | none; shared memory |
| connection, `communications/websocketpp/impl/connection_impl.hpp` | `m_state`, `m_send_queue`, `m_write_flag`, the batch being written, the handshake timer | the opening handshake, reads, writes, timers (io thread), `send` (render thread) | asio |
| frame reader, `websocketpp/processors/hybi13.hpp`, `frame.hpp` | the field being read, the message being put together, its masking key | `consume`, `get_message` (io thread) | fed by the connection |
| accept loop, `websocketpp/roles/server_endpoint.hpp`, `transport/asio/endpoint.hpp` | `m_state`, `m_acceptor` | `listen`, `start_accept`, `handle_accept`, `stop_listening` | asio |
| page, `Sight_Client/websocketConnection.js` | `stop`, a `FileReader` | Stream, End, Save, `onMessage`, `nextBlob` | its WebSocket |
| player callback, `Sight_Client/Broadway/Player/Player.js` | none of its own | `onPictureDecoded` | its WebSocket |
| listeners, `Sight_Client/peripherals.js`, `bytes.js` | button mask, byte chunks | key and mouse listeners | its WebSocket |

The two threads of the server share everything in the second row without a lock.
A page asks for a frame (`STVIS`, then one `NXTFR` per frame it has shown); the io
thread raises `needMoreFrames`; the render thread sees it, encodes, sends the frame
to every connection and lowers the flag; so the stream clocks itself.

What makes it hard, and what must be right:

- **interleavings without locks**: the flag is lowered *after* the send, so a
  request that comes in between is lost; `m_connections` is iterated while
  handlers change it; the encoder is reset while it may be encoding. Right
  would be: no request lost, frames only to open connections, no use of freed
  state.
- **partial failure**: `send` throws on a connection that is closing, in the
  middle of a broadcast. Right: the others get their frame.
- **one flag for all viewers**: END or the departure of one viewer withdraws the
  request of another; a request of one is served to all.
- **a mailbox of one event**, parsed once per connected viewer, consumed by
  another thread. Right: each event used as often as it was parsed, never again.
- **ordering between page and server**: END can be overtaken by a frame that is
  already under way. Right: the stream stays off.
- **the connection**: data pushed behind the close frame, two threads that ask
  for a write, four ways to end it, a peer that stops reading. Right: a FIFO
  pipe, no lost wake-up, exactly one `on_close`, an end in finite time.
- **the opening handshake**: its timer is cancelled when the response is written,
  but may have expired already. Right: a peer that stalls is dropped in finite
  time, and whatever happens `on_close` answers `on_open`.
- **framing**: reads end anywhere in a frame, fragments and control frames
  interleave, every fragment has its own key. Right: the messages do not depend
  on how the bytes were cut.
- **statistics**: samples are added and averaged by two threads without a lock, and
  paced by two timers. Right: damage is limited to the update it happens in.
- **shutdown**: SIGINT during startup or accepting, viewers who stay. Right:
  nothing runs on deleted objects; the process exits.

`PROJECT.json` lists these at their lines under `hazards`, with the property that
covers each.

## 2. The modules

| Module | Models | Kind |
|---|---|---|
| `Broadcast` | what the server promises its viewers: rounds of frames | abstract specification |
| `FrameServer` | both threads of the server and the pages | detailed; implements `Broadcast` |
| `MCFrameServer` | the properties of `FrameServer` under fairness | for TLC |
| `FrameServerProofs` | theorems about `FrameServer` | for TLAPS |
| `Pipe` | what one connection promises | abstract specification |
| `WsConnection` | one websocketpp connection, from its opening handshake to its end | detailed; implements `Pipe` |
| `WsConnectionProofs` | theorems about `WsConnection` | for TLAPS |
| `Framing` | what a reader makes of whole frames | abstract specification |
| `FrameReader` | hybi13's reader, fed with pieces of the stream | detailed; implements `Framing` |
| `MCFrameReader` | the frames TLC sends it | for TLC |
| `FrameReaderProofs` | theorems about `FrameReader` | for TLAPS |
| `Lifecycle` | `main`, the io thread, the accept loop, SIGINT | detailed |
| `LifecycleProofs` | theorems about `Lifecycle` | for TLAPS |
| `Wire` | events, how they are packed into bytes, and what `parse` makes of a key and a coordinate | functions, used by the next two |
| `Peripherals` | the page's mouse and key listeners | detailed |
| `InputPath` | an event's way through the handlers' fields to the renderer | detailed |
| `Statistics` | `AverageStats` under both threads, and the two timers | detailed |
| `StatisticsProofs` | theorems about `Statistics` | for TLAPS |
| `WireProofs`, `PeripheralsProofs`, `InputPathProofs` | theorems about these | for TLAPS |

`FrameServer` takes from `WsConnection` that what it sends to a page arrives in
order, once, until the connection ends (`toClient`, the theorem
`ConnectionIsPipe`), and that `on_close` is called exactly once after that
(`ClosedOnce`). `WsConnection` takes from `FrameReader` that control frames and data
reach it whole and in order. `conState = "down"` in `FrameServer` is any time between
websocketpp's `closing` (or `closed`) and the call of `on_close`.

### FrameServer

A step is one access to state that both threads share.

- *Render thread*: `pc` is its place in `display(); idle();`. `CheckNeedMoreFrames`,
  `Encode`, then for each connection `VisitNext`, `PushFrame` (or `SendFails`),
  `ResetNeedMoreFrames`; `EndBroadcast`; `CheckSaveFrame`, `Save`; and for the
  keyboard and then the mouse `CheckHandler`, `ResetHandler`. `it` is the
  iterator of the range-for loop; connections are numbered in the set's order.
- *Io thread*: `io` is the handler it is in. `on_open` is `OpenConnection`,
  `InsertConnection` and, with the GPU encoder, `ResetEncoder`; `on_close` is
  `OnClose` (the flags) and `EraseConnection`; `on_message` is one step for a
  request, SAVE and END, and for an input event `OnEvent` followed by one
  `ParseEvent` per connected viewer. The two flags that a handler writes side by
  side are written in one step: only the io thread reads `stop`.
- *Page*: `ClickStream`, `ClickEnd`, `SendInput`, `OnMessageReader` and `NextBlob`
  (JPEG), `PictureDecoded` and `NothingDecoded` (H.264), `ClosePage`, `LosePage`.
  `UserInput` says, page by page, what the person in front of it does.
- *Undefined behaviour*: iterating the set while it is changed, or from an erased
  node, and encoding with an encoder that is being destroyed, either do nothing
  wrong or kill the process (`crashed = "undefined"`); an uncaught exception kills
  it (`"uncaught"`). `m_clientClosed` and the keyboard handler's `isRefresh` start
  with either value, as the constructors leave them uninitialized.

- *Encoders*: `EncodeJPEG` succeeds, or fails and leaves the picture before it in the
  buffer. `EncodeNvPipe`: the first frame of an encoder carries the stream's header;
  a later one may or may not, as the comment at `NvPipe_Encode` and its arguments
  disagree and the encoder is hardware; a failure leaves an empty frame, and a
  `reset` that fails (`ResetEncoder`) leaves no encoder for good.
- *No encoder*: the server goes on without one (`cBroadcastServer.cpp:77`) and hands
  the null pointer to `NvPipe_Encode` and `NvPipe_GetError`
  (`cNvPipeEncoder.h:252-255`). What these make of it the repository does not say, so
  the model has both outcomes: an empty frame, or the end of the process
  (`EncodeWithoutEncoder`). What is claimed of the life of the process is therefore
  claimed of a server that has its encoder.
- *Decoding*: a page's decoder makes a picture of a frame that has the stream's header,
  or of one behind such a frame (`decoding`). An empty frame, and a frame of a stream
  whose header the page never got, gives no picture, so `onPictureDecoded` is not
  called and the page asks for nothing more (`NothingDecoded`). The header is sent
  again for a newcomer only if a viewer has left since the last reset
  (`cBroadcastServer.cpp:131`), so a second viewer may meet this.

`waiting`, `unanswered`, `lostBy` (to what a page's request fell), `headless` (who
joined an empty server and has had no header yet), `usesLeft` (the parses of a
device's latest event, less its uses), `streamClicks` are history variables: no
action reads them (`clicks` only as a bound).

Two things that the model shows are not called findings, because no document
promises otherwise: with two viewers an event is parsed once per viewer
(`cBroadcastServer.cpp:170`) and may be used twice, but not more often
(`EventsPerViewer`); and `onPictureDecoded` (`Player.js:132`) asks again whatever
`stop` says, so an H.264 frame in flight turns the stream on again after END.
`EndIsFinal` is therefore claimed for one viewer of the JPEG page.

### WsConnection

`send()` is three steps (`CheckState`, `Push`, `Dispatch`), because it takes two
locks one after the other and posts outside both. Each callback of the io thread
is one step. The opening handshake: `handle_read_handshake` (the request comes and
is accepted or refused, or is not understood), `ResponseWritten` and
`ResponseFailed`, `HandshakeFailed`; its timer is `OpenTimerExpires`, when the
handler is queued, and `OpenTimeout`, when it runs, with the response possibly
written in between. Then: `write_frame`, `handle_write_frame`, `WriteError`, `ReadPing`,
`ReadClose`, `ProtocolError`, `ReadError`, `CloseTimeout`; `Transmit` is the kernel
taking the next message. The configuration is the server's: plain socket, one io
thread, no `silent_close`, no `drop_on_protocol_error`; the application never calls
`close()`, so every close frame is terminal.

### FrameReader

A step is one iteration of the loop in `consume()`: `copy_basic_header_bytes`,
`BasicHeaderRead` or `BasicHeaderFails`, the same for the extended header,
`process_payload_bytes` or `PayloadFails`, and at the end of a frame `FragmentRead`,
`MessageRead` or `ControlRead` with what `handle_read_frame` does with the message.
`Read` brings between one byte and a buffer full. Bytes have places but no values:
`frame` is what the peer sent at this place, and each field is looked at where the
code has its bytes. A masking key is the number of bytes by which `prepared_key` is
rotated (`circshift_prepared_key` shifts by the full width when that is a multiple
of four, which the servers' processors take as no shift). Whether a text is UTF-8
is a place in the frame, `badAt`, and whether it ends within a code point, `cut`;
the code looks at the latter only if the *last* frame is a text frame
(`IncompleteText`).

Two places where the code is not what one might take it for are in the model:

- The comments say that text messages are checked for UTF-8 (`hybi13.hpp:489-491`) and
  that it is ensured "that text messages end on a valid UTF8 code point" (`:512`). The
  test behind it (`:513`) asks for the opcode of the *last frame*, which for a text in
  fragments is continuation. `Framing` states the comment (`Acceptable`, with
  `EndsOnCodePoint`), and the deviation beside it by name (`Overlooked`): `IsFraming`
  shows that the reader does what is promised but for these messages. It is a
  divergence of comment and code, listed under `hazards`; the handlers of this server
  take binary and text alike and do not read code points.
- The limit on a message is tested with a sum of `size_t` (`:433`), and no test of a
  header refuses a 64-bit length with its top bit set. `SizeT` is that sum, modulo
  `SizeModulus` (2^64, scaled down in `frame_reader`), so a fragment may pass whose
  length makes the sum wrap. Its payload is then appended until memory is out
  (`Exhausted`): the exception of `append` leaves `m_server.run()` (`OutOfMemory`,
  `cBroadcastServer.cpp:282`), and nothing is read any more. Where `MaxMemory` lies is
  not known; `SizeAssumption` asks that it admits what the limits allow and that a
  message of `SizeModulus` bytes does not fit. Under it what is *handed out* is within the
  limit (`HandedOutIsLegal`), which without it would not follow.

### Statistics

A step is one load or store of `x`, `n`, a timer. The io thread adds a sample
(`Measure`, `LoadX`, `StoreX`, `LoadN`, `StoreN`); the render thread sends a frame
(`BeginFrame`, `PushFrame`, `LowerFlag`) and in `idle()` updates (`printStats`,
`getAverage`, `TestCount`, `LoadSum`, `LoadCount`, `StoreAverage`, `ResetX`,
`ResetN`, `ResetTimer`). It is the JPEG build: only there (line 329), and in the
GPU encoder's variant for a device pointer (line 469), is `m_netStatsTimer` reset.
In `sendNvPipeFrame(unsigned char *)` (line 427), which the H.264 build uses, it
never is, and `m_netStats` reports the time since the server was constructed; the
mutant `NetTimer_running` is that code. `toPage` and `toServer` are the two directions
of the connection, each in order; a request is known by the frame it answers.

### Lifecycle

The main thread (`StartThread`, `LeaveLoops`, `StopListeningThrows` or
`CloseAcceptor` and `SetReady`, `JoinAndDelete`) and the io thread (`Listen`,
`ListenFails`, the two looks at `m_state`, `ArmAccept`, `TakeConnection`,
`HandleAccepted`, `HandleAcceptError`, `EndConnection`, `RunReturns`). SIGINT may
come at any moment. A connection only lasts here; what happens on it is in the
other two modules. Using `m_acceptor` from two threads at once is taken to have
one of its two orderly outcomes.

### Wire, Peripherals, InputPath

`Wire` translates a key (`getKey`), packs it and the coordinates (`Uint32`, `Uint16`
of `bytes.js`) and reads them back (`KeyCode`, `Coordinate` of the two `parse`
functions). A button mask is the set of its bits.

`Peripherals` has the state of the page's listeners, `buttonMask`, beside what is
true of the mouse: the buttons that are `pressed` and whether the pointer is `over`
the canvas. Listeners are only called over the canvas, but for the one of
`keypress`, which is the document's. `sent` is what the last listener that was
called has sent. `carried` is a history variable.

`InputPath` begins where an event of any page is received. A step of `ParseMouse`
or `ParseKey` is the assignment of one field; a step of `checkKeyboard` or
`checkMouse` is the reading or the clearing of one: the fields are plain `int`s
and `bool`s that two threads use without a lock. (A read and a write of the same
field in the same instant are taken to yield the old or the new value, which is
what an aligned word does in a build for the servers' processors.) What on_open,
on_close and on_message do besides is in `FrameServer`; here they only set the
number of viewers, by which every event is parsed again and again, and `stop`.
An event that arrives while `stop` is set changes nothing and is no step.
`typed`, `latest` and `spoilt` are history variables: what was typed, which event
was parsed last per device, and whether parsing it ran into the renderer between
`refreshed()` and the end of `refresh(false)`.

## 3. The runs

| Run | Checks | Bounds |
|---|---|---|
| `jpeg_one` | `SelfClocking`, `EndIsFinal`; under fairness `StallsOnlyByOverwrite`, `LeaverForgotten`, `CaptureTaken` | 1 viewer, 3 inputs, 3 messages per pipe |
| `h264_two` | `SendsToMembers`, `CrashNeedsChurn`, `RequestHasMember`, `HeaderReachesLoner`, `StallHasCause`, `EventsPerViewer`, the inductive invariant (with the types), refinement of `Broadcast`, with the encoder reset | 2 viewers, 1 input each (Stream; the second may type a key instead), 1 message per pipe |
| `ws_connection` | the inductive invariant, `NoLostWrite`, `CloseHandlerOnce`, refinement of `Pipe`; under fairness `ClosingEnds`, `HandshakeEnds`, `PushedIsWritten` | 2 sends, 2 control frames |
| `frame_reader` | the inductive invariant, `MaskInStep`, `NothingHeldBack`, refinement of `Framing` | 17 frames, 2 things handed out, limits 2, 4, 6 for 125, 65535 and the largest message, memory for 8 bytes, sums modulo 12 |
| `lifecycle` | the inductive invariant, `DeletedAlone`, `OneLateViewer`, `OnlyStartupThrows`; under fairness `ExitsWhenLeft` | 3 viewers |
| `peripherals` | the type invariant, `MaskOffByCarried`, `WheelIsReleased` | 4 buttons (one unknown), 2 coordinates, 1 key |
| `input_path` | the inductive invariant, `ConsumedIsSeen`, `ModeWasTyped`; under fairness `LastDigitShows` | 2 viewers, 3 masks (none, right, left and right), 1 coordinate, 2 keys ('2' and one that shares its last byte) |
| `statistics` | the inductive invariant, `AverageIsExact`, `StaleAtMostOnce`, `SampleMeasuresItsFrame` | an interval of 2 ticks, samples 0 and 1, 3 frames, 2 clicks |

Four runs show where the program does not do what it says (`PROJECT.json`,
`findings`):

- `stream_stalls`: a `NXTFR` handled between the send and `needMoreFrames = false`
  (`cBroadcastServer.cpp:372`) is lost. The page asks again only after a frame, so
  its stream stops. `StallsOnlyByOverwrite` shows this to be the only cause for a
  lone JPEG viewer; `StallHasCause` gives the four causes with several viewers and
  the GPU encoder: this one; another viewer's END or departure; an encoding that
  fails, whose empty frame decodes to no picture and so to no `NXTFR`; and a frame of
  a stream that began for another viewer, whose header the page never got. Each has
  its side condition (another viewer came; the encoder is the GPU's).
- `send_failure`: `send` throws `websocketpp::exception`
  (`endpoint_impl.hpp:217`), the loop catches `lib::error_code`
  (`cBroadcastServer.cpp:373`). A page that closes during a broadcast ends the
  server.
- `coordinates`: the page packs 300 as two bytes in base 256, as the RFB protocol
  says; `cMouseEventHandler.h:80` reads them in base 255, so the renderer is told
  299. `CoordinateFallsShort` proves what becomes of each coordinate.
- `ctrl_c`: `stop_listening()` leaves connections alone and `run()` does not return
  while there is one, so CTRL+C waits for the last viewer. (`ExitsWhenLeft` also
  needs the exception that SIGINT came before `listen()`: `stop_listening()` then
  throws, the exception is swallowed, and the server never stops.)

**Why the bounds suffice.** The races are between the two threads over one flag,
one iterator and one set: two viewers are enough for a broadcast to stand on one
while the other joins or leaves, and for each to disturb the other's request. A
viewer connects and leaves once, which reaches every handler from every place of
the render thread. One viewer with three inputs covers Stream, End and Stream
again, with a third message racing; by `SelfClocking` pipes of three messages hold
all the requests and frames these can lead to. For
a connection, two data frames beside two control frames give every mix of a
batch under way, a non-empty queue and a close frame in its middle. For the frame
reader, there is a frame for every reason to refuse one, an empty one, every part
of a fragmented message, and a control frame to come in between; its buffer of 20
bytes is longer than the longest header (14) and shorter than two of the longest
frames but one, so that reads end at every place and also carry several frames; that one is
the fragment whose length wraps the sum, with memory for two bytes more than the
limit, so that part of it is read before it fails; the limits are scaled down, what is compared with them is not. For the statistics, an interval
of two ticks is the least in which one timer can be due and the other not; three
frames give two full updates with an add torn between them, two clicks show that
`SampleMeasuresItsFrame` needs its hypothesis. For an event's
way, two viewers make `on_message` parse it twice, which is what brings a second
parse between the renderer's steps; one coordinate is enough, since all of them
are treated alike below 256 (`SmallCoordinateExact`). The invariants
are proved for any instance, so the runs only have to be large enough to find what
liveness and the single-viewer properties could fail by. A page's input is
guarded by `MaxClicks`, a full pipe makes the sender wait (`MaxQueue`); `MaxSends`, `MaxControl`, `MaxHanded`, `MaxSample` and `MaxFrames` do
not occur in the code. `ws_connection`, `frame_reader`, `lifecycle` and `ctrl_c` do
not check for deadlock: a closed connection and an exited process do stop, and so
does a reader whose peer is silent.

**Fairness.** `FrameServer`: weak fairness of the render loop, which never blocks
(asio's `send` only queues), and of the parsing loop; strong fairness per
connection of the io thread, since asio serves ready sockets in turn; weak fairness
of the browser's callbacks. Nobody has to click, connect or leave. `WsConnection`:
weak fairness of `send` once begun and of what the reactor has been posted,
completed or timed, which for the open timer is both that it expires and that its
handler runs; none of the peer. `PushedIsWritten` assumes in the property
itself that the peer goes on reading. `Lifecycle`: weak fairness of the two
threads; none of the signal and the viewers; `ExitsWhenLeft` assumes in the
property that the viewers leave. `InputPath`: weak fairness of `parse`, which has
no wait in it, and of `idle`, which the render loop calls in every round; nobody
has to touch mouse or keyboard. `FrameReader`, `Statistics` and `Peripherals` claim no
liveness and have no fairness.

Every property of a passing run has a mutant in `PROJECT.json`: an operator beside
the original (`..._missing`, `..._kept`, ...) with which TLC finds the property
violated.

## 4. The proofs

All theorems are proved for every value of the constants, from the named
assumptions of the modules: the viewers are finitely many and numbered
(`ClientAssumption`), the bounds are naturals, the control frames differ from data,
memory is smaller than what `size_t` counts (`SizeAssumption`).

- `FrameServerProofs`. `TypeCorrect` first; its one hard case is the loop of
  `on_message`, whose count stays within the number of viewers. Then
  `InductiveInvariant`. `RequestHasMember`, `CrashNeedsChurn` and `SendsToMembers`
  are not inductive: they need what the io thread's place says of the connection
  it is working on (`HandlerMatchesState`), that a broadcast was begun while
  somebody was connected who is still there or has left since
  (`BroadcastHadMember`), and that a raised `m_clientClosed` means that somebody
  left or, where it is only uninitialized, that no frame can be wanted before the
  first `on_open` lowers it (`ResetMeetsNoEncode`). The three invariants follow
  (`RequestsAreHeld`, `SendsAreToMembers`, `OnlyChurnKills`, the last for a server that
  has its encoder).
  `ServerKeepsPromise` is the refinement of `Broadcast`: a render step is a step
  of a round, a handler joins or removes a viewer, asks or withdraws; that a
  viewer leaves only when no request is outstanding, and asks only as a member,
  is where the invariant is used. `LonerGetsHeader`: whoever joins an empty server
  is sent the header; the reason (`ResetIsDue`) is that an empty server somebody has
  left has `m_clientClosed` raised, and that the render thread can have used the
  encoder only while somebody was there.
  The other theorems each have a strengthening of their own, beside `IInv`.
  *Stalls.* `StallsHaveCauses`, for any number of viewers: a page that waits has a
  request in its pipe, one that will be served (`Pending`), a frame coming, or a noted
  cause (`Accounted`); the delicate steps are the END of the page itself, behind which
  a waiting page must have asked again (`Follows`), and the reset after a send, which
  forgets those that the loop has passed. The causes are real (`CausesAreReal`): a
  request was withdrawn only if another viewer's connection existed, lost to an encoder
  that ran dry only with H.264, and to a missing header only if another viewer came,
  because `LonersDecode`: in the pipe of a lone viewer every image has a header before it, unless
  the decoder has had one (`FromTheStart`), however the reset and an encoding
  interleave. What is left for a lone jpeg page is `LoneStreamOnlyOverwritten`.
  *One viewer.* `StreamIsSelfClocking`, where each step moves one unit of the sum or
  drops it (`Clocked`; `CountAppend` and `CountTail` count the requests of a pipe), and
  `LoneEndIsFinal`, for the jpeg page, whose requests are all in front of its END
  (`QuietAfterEnd`).
  *Input events.* `EventsConsumedPerViewer`: `on_message` parses an event once for every
  connection, and between two of these parses `idle()` may use it, so with several
  viewers an event may be used more than once, but never more often than it was parsed,
  whoever joins or leaves meanwhile. The invariant (`Budgeted`) is a budget: of the uses
  an event has left, one is kept for a mark that is up and will be seen (`Marked`), and,
  from the second iteration on, one for each iteration that is left of the loop
  (`Spare`).
  *Leavers.* `DeparturesAreHeard`: a close, wherever the page's other messages were, stays
  the last message of its pipe until `on_close` has heard it; only pages that are gone
  lose their connection; and nothing of an erased viewer is left in any set of the server
  (`Left`: nobody writes to a page that is gone, and it writes CLOSE last).
  *Turns.* `TurnsEnd` bounds the steps of the render thread to its next look at
  `m_saveFrame` (`StepsToCheck`, at most 3 per viewer and 8): each of its steps is one less,
  and the io thread cannot add any, although it inserts into and erases from the set that
  the loop runs over, because the iterator only moves up (`VisitPasses`).
- `WsConnectionProofs`. `InductiveInvariant` carries the accounting
  `pushed = wire \o lost \o m_send_buffer \o m_send_queue` (`Accounting`), the shape
  of the batch being written (`WriteShape`: no message behind a close frame, which
  is the last of its batch and keeps the write flag up for good), `NoLostWrite`,
  `CloseHandlerOnce` (once for a connection whose open handler ran, never for
  another, whenever the expired open timer's handler runs) and `ClosingIsTimed` (a
  handshake under way has its timer running or expired). From these, `NoWriteIsLost`,
  `ClosedOnce`, and `ConnectionIsPipe`, the refinement of `Pipe`: by the
  accounting, the message the kernel takes is the next one that was pushed.
  `WireIsOrdered` states the same of the states: the wire is a beginning of `pushed`, a
  close frame its end, and a message that is missing on it, while the connection is up, has
  a write under way or a call of `write_frame` that will find it. `OnlyForward` is about
  steps: buffers are given to the kernel only behind a write that succeeded and held no
  close frame, `m_state` never goes back, and the open and the close handler are called by
  exactly the steps that open and that close an open connection.
- `FrameReaderProofs`. `Inductive`: the counters give the place within the frame
  (`Aligned`), from which it follows that a header never exceeds its array; what
  was checked at the header still holds in the payload, and the message is there and
  short enough, as far as `size_t` can tell (`Accepted`); `MaskInStep` and `Waiting` (a pending read lacks
  bytes) are inductive with these. `EveryByteInStep` and `FramesAreNotHeld` follow,
  and `ReaderIsFraming`, the refinement: all steps stutter but the ones that end a
  frame or refuse it, where the conditions looked at in three places of the code
  add up to the one of `Framing`. `ReadsAreWorkedOff` bounds the iterations over a read's
  bytes (`WorkLeft`): an iteration that consumes no byte ends a frame, and a header takes at
  least one. `HandedOutIsLegal`: what reaches the handlers is within the
  limits that were checked at the header, although the sum may wrap: what wraps does not fit
  into memory; and behind a close frame come only close frames
  (`OpenUntilClose`). All for any frames, limits and buffer.
- `StatisticsProofs`. `Inductive` has four independent parts: the order of the two
  timers (`TimersAgree`), what the fields hold while the threads interleave
  (`SumsAgree`: an update that meets no add has the fields to itself, so the next
  starts from zero, and is exact if no add overlapped either), the divisor
  (`DivisorIsPositive`), and where the one request of a viewer may be
  (`OneRequest`). `AverageIsMean`, `StaleOnce` and `RoundTripMeasured` follow from
  one part each.
  `NoDivisionByZero` follows the divisor through the quotient into the average
  (`Divides`): `n` is read again behind its test, but only the render thread lowers it.
- `LifecycleProofs`. `InductiveInvariant` adds what the io thread's place says of
  its work (`IoHasWork`), that a closed acceptor stays closed (`ClosedIsFinal`) and
  how a late viewer came in (`LateWasAccepted`); `HandlersEndFirst`,
  `RunningNeverThrows` and `AtMostOneLate` follow. `ShutdownEnds`: once the endpoint is
  closed and main joins (`ShuttingDown`), the process lacks a step to take only if a viewer
  stays, and `StepsToExit` (the accept loop's steps, the accept's, the two threads' and one
  per connection) falls with every step of the threads and never rises. It needs that
  an accepted connection is the one `handle_accept` waits for (`AcceptedIsHeld`).
  Before the endpoint's state is set the accept loop may turn on a closed acceptor any
  number of times, which is why the bound begins there.
- `WireProofs`. `CoordinateFallsShort`: a coordinate n arrives as n - n div 256.
  `OnlyDigitsAreDigits`: though `parse` adds up the bytes of a key with one weight
  for all but the last, no other character becomes a '1' or a '2', because a sum
  with a byte other than the last is at least 255 (`LargeKeysStayLarge`).
  `CoordinatesKeepOrder`: no two coordinates change places, and exactly the two at a
  border of blocks of 256 become one.
- `PeripheralsProofs`. `TypeCorrect`, `OnlyCarriedIsInverted` and
  `NoWheelButTheFirst`, from one lemma about the toggled mask (`ToggledMask`); the
  three are inductive, the last two given the first.
- `InputPathProofs`. `TypeCorrect`, then `Inductive`: `ConsumedIsSeen` looks only at
  the moment before `refresh(false)`, so the invariant follows the latest event
  through parse's assignments (`MouseParsed`, `KeyParsed`) and through the
  renderer's reads and clearings (`MouseRead`, `KeyRead`), as long as it is not
  spoilt. A step of one thread preserves it because either the other thread is
  elsewhere or the step spoils the event (`Unspoilt`). `TwoWasTyped` needs no such
  exception: whatever is torn, a key is one field. `ConsumedWasSeen` has the
  hypothesis that coordinates stay below 256, without which the run `coordinates`
  violates it. `LatestIsRemembered` needs no such hypothesis: the latest event of each
  device, unless it is spoilt, is being parsed, waits behind a raised `isRefresh`, or was
  read in full.

**Only model-checked**: what must happen eventually, because it rests on fairness and so
on ENABLED, which the prover does not handle. Where it could be done, the part of it that
is a matter of safety is proved, so that only "an enabled step is taken in the end"
rests on the runs:

| Checked under fairness | Proved for all instances |
| --- | --- |
| `StallsOnlyByOverwrite` | `LoneStreamOnlyOverwritten`: the request is under way, or was overwritten |
| `LeaverForgotten` | `DeparturesAreHeard`: CLOSE waits in the pipe, and what it leaves is clean |
| `CaptureTaken` | `TurnsEnd`: a bounded number of steps to the next look at the flag |
| `PushedIsWritten` | `WireIsOrdered`: what the wire lacks has somebody to write it |
| `ClosingEnds`, `HandshakeEnds` | `InductiveInvariant` of `WsConnection`: a timer runs or has expired (`ClosingIsTimed`); `OnlyForward` |
| `ExitsWhenLeft` | `ShutdownEnds`: only viewers keep the process, and each step shortens the wait |
| `LastDigitShows` | `LatestIsRemembered`: the event waits for the renderer, or has been acted on |

## 5. Not modelled, and why

- Pixels, encoder output and drawing: no property depends on them. The NvPipe
  encoder and libjpeg-turbo appear as success, failure, and whether a frame has the
  stream's header; libpng as a step that takes time.
- The `NO_COMPRESSION` and `CHANGE_RESOLUTION` builds, the page's MP4 variant:
  alternatives of the modelled paths, not the shipped configuration.
- `adjustJpegQuality`, `RateStats`: nothing calls them (the one call of the former
  is commented out, `cBroadcastServer.cpp:189`). `m_encStats` and `m_sendStats`
  belong to the render thread alone.
- What the *second* viewer's decoder shows: a viewer that joins while another
  streams gets the header only if the encoder repeats it, which is the hardware's
  choice; `HeaderReachesLoner` is about an empty server, and the second viewer's stall
  is one of the causes in `StallHasCause`.
- Floats: sums are exact in `Statistics`. The count's width of 32 bits is not
  reached between two updates.
- Of websocketpp: the text of the HTTP request (it comes, is refused, or is not
  understood), compression, TLS, clients, older drafts, the table of the UTF-8
  automaton, `pause_reading`, `close()` and `ping()` by the application, which the
  server does not call. asio and the page's H.264 decoder: third-party code; what
  is relied on is in the actions of the environment.
- Build files and widgets: no behaviour of the server's own.

## 6. The order of the work, and what could follow

Done, in this order: `FrameServer` with `Broadcast`, `WsConnection` with `Pipe`,
`Lifecycle`, `Wire`, `Peripherals`, `InputPath`; then the encoders, the header of the
stream and the causes of a stall in `FrameServer`, the opening handshake in
`WsConnection`, `FrameReader` with `Framing`, `Statistics`; with their proofs.

What could follow: `FrameServer` over `WsConnection`, the composition in place of the
pipe; `Peripherals` before `InputPath`, what the server believes of the buttons against
the buttons that are pressed.
