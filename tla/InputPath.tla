----------------------------- MODULE InputPath -----------------------------
(***************************************************************************)
(* The way of a mouse or key event from a viewer's page to the renderer.   *)
(*                                                                         *)
(*   - the listeners of the pages send any event (module Peripherals);     *)
(*   - on_message, on the io thread, parses an event into the fields of    *)
(*     cMouseHandler or cKeyboardHandler, once per connected viewer;       *)
(*   - checkKeyboard and checkMouse of cDummyRenderer, on the render       *)
(*     thread, read the fields and then reset them.                        *)
(*                                                                         *)
(* The two threads share the fields without a lock: a step writes or reads *)
(* one of them.  FrameServer models when the threads get to their events;  *)
(* here is what happens to the fields.                                     *)
(***************************************************************************)
EXTENDS Wire, FiniteSets

CONSTANTS
    Mask,        \* the button masks that the pages send
    MaxViewers   \* bound: viewers connected at the same time

ASSUME MaskAssumption == Mask \subseteq Masks
ASSUME MaxViewersAssumption == MaxViewers \in Nat

VARIABLES
    viewers,       \* the size of m_connections
    stop,          \* of broadcast_server: events are not parsed
    parsing,       \* io thread: the event in on_message, and its next field
    mouse,         \* the fields of cMouseHandler ...
    keyboard,      \* ... and of cKeyboardHandler
    pc,            \* render thread: the field that it accesses next
    seen,          \* render thread: what checkMouse has read
    m_renderMode   \* of cDummyRenderer

(* History variables: no action reads them.                                *)
VARIABLES
    typed,         \* the characters whose events have been parsed
    latest,        \* per device: the event that was parsed last
    spoilt         \* per device: its parsing overlapped with the renderer's use

ioVars == <<viewers, stop, parsing, typed, latest>>
renderVars == <<pc, seen, m_renderMode>>
vars == <<viewers, stop, parsing, mouse, keyboard, pc, seen, m_renderMode,
          typed, latest, spoilt>>

Device == {"MOUSE", "KEY"}
Event == EventOf(Mask)
Nothing == [device |-> "none"]
NotParsing == [event |-> Nothing, left |-> 0, at |-> "idle"]

\* The enumerations of cMouseHandler and cKeyboardHandler.
MouseButton == -1..2
State == {"UP", "DOWN"}

\* The places of the render thread between refreshed() and the end of
\* refresh(false): the field that it reads or clears next.
KeySection == {"keyState", "key", "clearKey", "clearKeyState", "consumeKey"}
MouseSection ==
    {"x", "y", "button", "state", "clearButton", "clearState", "consumeMouse"}

ParseState ==
    [event : Event \cup {Nothing}, left : 0..MaxViewers,
     at : {"idle", "x", "y", "button", "state", "key", "refresh"}]
MouseFields ==
    [x : Int, y : Int, button : MouseButton, state : State, isRefresh : BOOLEAN]
KeyboardFields == [key : Int, state : State, isRefresh : BOOLEAN]
Reading == [x : Int, y : Int, button : MouseButton, state : State]
Places == {"checkKeyboard", "checkMouse"} \cup KeySection \cup MouseSection

TypeOK ==
    /\ viewers \in 0..MaxViewers
    /\ stop \in BOOLEAN
    /\ parsing \in ParseState
    /\ mouse \in MouseFields
    /\ keyboard \in KeyboardFields
    /\ pc \in Places
    /\ seen \in Reading
    /\ m_renderMode \in {1, 2}
    /\ typed \subseteq Char
    /\ latest \in [Device -> Event \cup {Nothing}]
    /\ spoilt \in [Device -> BOOLEAN]

\* cKeyboardHandler's constructor leaves isRefresh uninitialized.
Init ==
    /\ viewers = 0
    /\ stop = TRUE
    /\ parsing = NotParsing
    /\ mouse = [x |-> 0, y |-> 0, button |-> -1, state |-> "UP", isRefresh |-> FALSE]
    /\ keyboard \in [key : {-1}, state : {"UP"}, isRefresh : BOOLEAN]
    /\ pc = "checkKeyboard"
    /\ seen = [x |-> 0, y |-> 0, button |-> -1, state |-> "UP"]
    /\ m_renderMode = 1
    /\ typed = {}
    /\ latest = [d \in Device |-> Nothing]
    /\ spoilt = [d \in Device |-> FALSE]
-----------------------------------------------------------------------------
(* The io thread: one handler at a time.                                   *)

IoIdle == parsing = NotParsing
HandlersOnly == UNCHANGED <<mouse, keyboard, renderVars>>

on_open ==
    /\ IoIdle
    /\ viewers < MaxViewers
    /\ viewers' = viewers + 1
    /\ UNCHANGED <<stop, parsing, typed, latest>>
    /\ HandlersOnly

on_close ==
    /\ IoIdle
    /\ viewers > 0
    /\ viewers' = viewers - 1
    /\ stop' = TRUE
    /\ UNCHANGED <<parsing, typed, latest>>
    /\ HandlersOnly

\* on_message: some page asks for a frame, or ends the stream.
OnStreamMessage ==
    /\ IoIdle
    /\ viewers > 0
    /\ stop' = ~stop
    /\ UNCHANGED <<viewers, parsing, typed, latest>>
    /\ HandlersOnly

First(e) == IF e.device = "MOUSE" THEN "x" ELSE "state"

\* on_message: an input event of some page, which is parsed unless the stream
\* is off.  The loop over m_connections is entered.
OnEvent(e) ==
    /\ IoIdle
    /\ viewers > 0
    /\ ~stop
    /\ parsing' = [event |-> e, left |-> viewers, at |-> First(e)]
    /\ latest' = [latest EXCEPT ![e.device] = e]
    /\ typed' = typed \cup {n \in Char : e = KeyEvent(n)}
    /\ UNCHANGED <<viewers, stop>>
    /\ HandlersOnly

\* The next statement of parse(), or the next iteration of on_message's loop
\* over the connections.
GoesOn(here, there) == parsing.at = here /\ parsing' = [parsing EXCEPT !.at = there]
NextIteration ==
    parsing' = IF parsing.left > 1
               THEN [parsing EXCEPT !.left = @ - 1, !.at = First(parsing.event)]
               ELSE NotParsing

\* setButton's switch: one button alone, or none; any other mask is ignored.
\* Mutant: the bits are taken in the order of MouseEvent.button.
ButtonOf_swapped(mask) ==
    CASE mask = {1} -> 0 [] mask = {2} -> 2 [] mask = {3} -> 1 [] OTHER -> mouse.button
ButtonOf(mask) ==
    CASE mask = {1} -> 0 [] mask = {2} -> 1 [] mask = {3} -> 2 [] OTHER -> mouse.button
\* Mutant: a release is not noticed.
StateOf_held(mask) == IF mask \in {{1}, {2}, {3}} THEN "DOWN" ELSE mouse.state
StateOf(mask) ==
    CASE mask = {} -> "UP"
      [] mask \in {{1}, {2}, {3}} -> "DOWN"
      [] OTHER -> mouse.state

\* cMouseHandler::parse: setCoords, setButton, refresh(true).
ParseMouse ==
    LET e == parsing.event IN
    /\ e.device = "MOUSE"
    /\ \/ GoesOn("x", "y") /\ mouse' = [mouse EXCEPT !.x = Coordinate(e.x)]
       \/ GoesOn("y", "button") /\ mouse' = [mouse EXCEPT !.y = Coordinate(e.y)]
       \/ GoesOn("button", "state") /\ mouse' = [mouse EXCEPT !.button = ButtonOf(e.mask)]
       \/ GoesOn("state", "refresh") /\ mouse' = [mouse EXCEPT !.state = StateOf(e.mask)]
       \/ /\ parsing.at = "refresh" /\ NextIteration
          /\ mouse' = [mouse EXCEPT !.isRefresh = TRUE]
    /\ UNCHANGED <<viewers, stop, typed, latest, keyboard, renderVars>>

\* Mutant: refresh(true) is not called.
Refreshed_missing == UNCHANGED keyboard
Refreshed == keyboard' = [keyboard EXCEPT !.isRefresh = TRUE]

\* cKeyboardHandler::parse: setState, setKey, refresh(true).
ParseKey ==
    LET e == parsing.event IN
    /\ e.device = "KEY"
    /\ \/ GoesOn("state", "key") /\ keyboard' = [keyboard EXCEPT !.state = "DOWN"]
       \/ GoesOn("key", "refresh") /\ keyboard' = [keyboard EXCEPT !.key = KeyCode(e.key)]
       \/ parsing.at = "refresh" /\ NextIteration /\ Refreshed
    /\ UNCHANGED <<viewers, stop, typed, latest, mouse, renderVars>>

Parse == ParseMouse \/ ParseKey
-----------------------------------------------------------------------------
(* The render thread: checkKeyboard(); checkMouse(); in idle().            *)

MovesTo(here, there) == pc = here /\ pc' = there

\* The switch over the key: '1' and '2' choose the mode.
ModeOf(key, mode) == CASE key = 49 -> 1 [] key = 50 -> 2 [] OTHER -> mode

checkKeyboard ==
    /\ \/ /\ MovesTo("checkKeyboard", IF keyboard.isRefresh THEN "keyState" ELSE "checkMouse")
          /\ UNCHANGED <<keyboard, m_renderMode>>
       \/ /\ MovesTo("keyState", IF keyboard.state = "DOWN" THEN "key" ELSE "clearKey")
          /\ UNCHANGED <<keyboard, m_renderMode>>
       \/ /\ MovesTo("key", "clearKey")
          /\ m_renderMode' = ModeOf(keyboard.key, m_renderMode)
          /\ UNCHANGED keyboard
       \/ /\ MovesTo("clearKey", "clearKeyState")
          /\ keyboard' = [keyboard EXCEPT !.key = -1]
          /\ UNCHANGED m_renderMode
       \/ /\ MovesTo("clearKeyState", "consumeKey")
          /\ keyboard' = [keyboard EXCEPT !.state = "UP"]
          /\ UNCHANGED m_renderMode
       \/ /\ MovesTo("consumeKey", "checkMouse")
          /\ keyboard' = [keyboard EXCEPT !.isRefresh = FALSE]
          /\ UNCHANGED m_renderMode
    /\ UNCHANGED <<ioVars, mouse, seen>>

\* The state is only read if the button is known; it counts as up otherwise.
checkMouse ==
    /\ \/ /\ MovesTo("checkMouse", IF mouse.isRefresh THEN "x" ELSE "checkKeyboard")
          /\ UNCHANGED <<mouse, seen>>
       \/ MovesTo("x", "y") /\ seen' = [seen EXCEPT !.x = mouse.x] /\ UNCHANGED mouse
       \/ MovesTo("y", "button") /\ seen' = [seen EXCEPT !.y = mouse.y] /\ UNCHANGED mouse
       \/ /\ MovesTo("button", IF mouse.button = -1 THEN "clearButton" ELSE "state")
          /\ seen' = [seen EXCEPT !.button = mouse.button, !.state = "UP"]
          /\ UNCHANGED mouse
       \/ /\ MovesTo("state", "clearButton")
          /\ seen' = [seen EXCEPT !.state = mouse.state]
          /\ UNCHANGED mouse
       \/ /\ MovesTo("clearButton", "clearState")
          /\ mouse' = [mouse EXCEPT !.button = -1]
          /\ UNCHANGED seen
       \/ /\ MovesTo("clearState", "consumeMouse")
          /\ mouse' = [mouse EXCEPT !.state = "UP"]
          /\ UNCHANGED seen
       \/ /\ MovesTo("consumeMouse", "checkKeyboard")
          /\ mouse' = [mouse EXCEPT !.isRefresh = FALSE]
          /\ UNCHANGED seen
    /\ UNCHANGED <<ioVars, keyboard, m_renderMode>>

idle == checkKeyboard \/ checkMouse
-----------------------------------------------------------------------------
\* The renderer is between refreshed() and the end of refresh(false) of a
\* device whose event is being parsed.
Overlap(d) ==
    /\ parsing.event.device = d
    /\ pc \in (IF d = "MOUSE" THEN MouseSection ELSE KeySection)
\* Every iteration of on_message's loop writes all the fields again.
BeginsParsing(d) ==
    /\ parsing' # parsing
    /\ parsing'.event.device = d
    /\ parsing'.at = First(parsing'.event)
Track == spoilt' = [d \in Device |-> Overlap(d)' \/ (spoilt[d] /\ ~BeginsParsing(d))]

Next ==
    /\ \/ on_open \/ on_close \/ OnStreamMessage \/ Parse \/ idle
       \/ \E e \in Event : OnEvent(e)
    /\ Track

Spec == Init /\ [][Next]_vars

\* Both threads run.  Nobody has to touch mouse or keyboard.
FairSpec == Spec /\ WF_vars(Parse /\ Track) /\ WF_vars(idle /\ Track)
-----------------------------------------------------------------------------
(* Properties.                                                             *)

\* What the page sent: the position, in the base that it is packed in.
Position(e) == [x |-> e.x[1] * 256 + e.x[2], y |-> e.y[1] * 256 + e.y[2]]

\* An event that the renderer marks as consumed is the one that was parsed
\* last, and the renderer has acted on all of it: it has seen the position
\* and the button of a mouse event, and a digit has set the mode; unless
\* parse() was at work at the same time (cDummyRenderer.h:72-137).
MouseIsSeen(e) ==
    /\ [x |-> seen.x, y |-> seen.y] = Position(e)
    /\ e.mask = {} => seen.state = "UP"
    /\ \A b \in 1..3 : e.mask = {b} => seen.button = b - 1 /\ seen.state = "DOWN"
KeyIsSeen(e) == \A n \in {49, 50} : e = KeyEvent(n) => m_renderMode = n - 48

ConsumedIsSeen ==
    /\ pc = "consumeMouse" /\ ~spoilt["MOUSE"] =>
           latest["MOUSE"] # Nothing /\ MouseIsSeen(latest["MOUSE"])
    /\ pc = "consumeKey" /\ ~spoilt["KEY"] => KeyIsSeen(latest["KEY"])

\* Nothing but the key '2' starts the second mode, whatever else was typed
\* and however bytes and fields were mixed (cDummyRenderer.h:89).
ModeWasTyped == m_renderMode = 2 => 50 \in typed

\* Why: unless it is spoilt, the latest event is in the handler's fields, as
\* far as parse() has come, until it is cleared, and what the renderer has
\* read is the latest event's.
ButtonFits(e, button) == \A b \in 1..3 : e.mask = {b} => button = b - 1
StateFits(e, state) ==
    /\ e.mask = {} => state = "UP"
    /\ \A b \in 1..3 : e.mask = {b} => state = "DOWN"

MouseParsed(e) ==
    /\ pc \notin MouseSection
    /\ parsing.at \in {"y", "button", "state", "refresh"} => mouse.x = Coordinate(e.x)
    /\ parsing.at \in {"button", "state", "refresh"} => mouse.y = Coordinate(e.y)
    /\ parsing.at \in {"state", "refresh"} => ButtonFits(e, mouse.button)
    /\ parsing.at = "refresh" => StateFits(e, mouse.state)
MouseRead(e) ==
    /\ mouse.x = Coordinate(e.x) /\ mouse.y = Coordinate(e.y)
    /\ pc \in MouseSection => mouse.isRefresh
    /\ mouse.isRefresh /\ pc \notin {"clearState", "consumeMouse"} =>
           ButtonFits(e, mouse.button) /\ StateFits(e, mouse.state)
    /\ pc \in MouseSection \ {"x"} => seen.x = Coordinate(e.x)
    /\ pc \in MouseSection \ {"x", "y"} => seen.y = Coordinate(e.y)
    /\ pc \in MouseSection \ {"x", "y", "button"} => ButtonFits(e, seen.button)
    /\ pc \in MouseSection \ {"x", "y", "button", "state"} => StateFits(e, seen.state)
LatestMouse ==
    IF latest["MOUSE"] = Nothing
    THEN pc \notin MouseSection /\ ~mouse.isRefresh
    ELSE ~spoilt["MOUSE"] => IF parsing.event.device = "MOUSE"
                             THEN MouseParsed(latest["MOUSE"])
                             ELSE MouseRead(latest["MOUSE"])

KeyParsed(e) ==
    /\ pc \notin KeySection
    /\ parsing.at \in {"key", "refresh"} => keyboard.state = "DOWN"
    /\ parsing.at = "refresh" => keyboard.key = KeyCode(e.key)
KeyRead(e) ==
    /\ pc \in KeySection => keyboard.isRefresh
    /\ keyboard.isRefresh =>
           /\ pc # "consumeKey" => keyboard.state = "DOWN"
           /\ pc \notin {"clearKeyState", "consumeKey"} => keyboard.key = KeyCode(e.key)
    /\ pc \in KeySection \ {"keyState", "key"} =>
           m_renderMode = ModeOf(KeyCode(e.key), m_renderMode)
LatestKey ==
    (latest["KEY"] # Nothing /\ ~spoilt["KEY"]) =>
        IF parsing.event.device = "KEY"
        THEN KeyParsed(latest["KEY"])
        ELSE KeyRead(latest["KEY"])

\* What is being parsed is the latest event, and a handler that holds the key
\* '2' got it from somebody who typed it.
ParsesLatest ==
    /\ \A d \in Device : latest[d] # Nothing => latest[d].device = d
    /\ parsing.event.device = "none" => parsing = NotParsing
    /\ \A d \in Device : parsing.event.device = d =>
           parsing.event = latest[d] /\ parsing.left > 0
    /\ parsing.event.device = "MOUSE" =>
           parsing.at \in {"x", "y", "button", "state", "refresh"}
    /\ parsing.event.device = "KEY" => parsing.at \in {"state", "key", "refresh"}
KeysWereTyped ==
    /\ keyboard.key = 50 => 50 \in typed
    /\ parsing.event.device = "KEY" => \E n \in typed : parsing.event = KeyEvent(n)

IInv ==
    /\ TypeOK
    /\ ParsesLatest
    /\ LatestMouse
    /\ LatestKey
    /\ KeysWereTyped
    /\ ModeWasTyped

\* The digit that is parsed last gets its mode in the end, unless the
\* renderer was busy with the key before: an event that arrives between
\* refreshed() and refresh(false) may be lost (cDummyRenderer.h:79, 97).
LastDigitShows ==
    \A n \in {49, 50} \cap Char :
        <>[](latest["KEY"] = KeyEvent(n) /\ ~spoilt["KEY"])
            => <>[](m_renderMode = n - 48)
=============================================================================
