---------------------------- MODULE Peripherals ----------------------------
(***************************************************************************)
(* The mouse and key listeners of a viewer's page (peripherals.js).  They  *)
(* keep a mask of the buttons that are down and send every event to the    *)
(* server with it.  The mask is only kept over the canvas: what the person *)
(* does elsewhere with the mouse calls no listener.                        *)
(***************************************************************************)
EXTENDS Wire, Sequences

CONSTANT Button     \* the buttons of the mouse, by MouseEvent.which

ASSUME ButtonAssumption == Button \subseteq Nat

VARIABLES
    readyState,  \* of the page's WebSocket
    buttonMask,  \* of the listeners
    sent,        \* what the last listener that was called has sent
    over,        \* the pointer is over the canvas
    pressed,     \* the buttons that are down
    carried      \* history: buttons that were down as the pointer came in

pointerVars == <<over, pressed, carried>>
vars == <<readyState, buttonMask, sent, over, pressed, carried>>

TypeOK ==
    /\ readyState \in {"CONNECTING", "OPEN", "CLOSED"}
    /\ buttonMask \in Masks
    /\ sent \in Seq(EventOf(Masks))
    /\ over \in BOOLEAN
    /\ pressed \subseteq Button
    /\ carried \subseteq Button

\* connectAndCallbacks and addMyListeners, as the page is loaded.
Init ==
    /\ readyState = "CONNECTING"
    /\ buttonMask = {}
    /\ sent = <<>>
    /\ over \in BOOLEAN
    /\ pressed = {}
    /\ carried = {}

\* The socket opens, fails or closes.
SocketChanges ==
    /\ \/ readyState = "CONNECTING" /\ readyState' \in {"OPEN", "CLOSED"}
       \/ readyState = "OPEN" /\ readyState' = "CLOSED"
    /\ sent' = <<>>
    /\ UNCHANGED <<buttonMask, pointerVars>>

\* sendBytes: only on an open connection.
sendBytes(events) ==
    /\ sent' = IF readyState = "OPEN" THEN events ELSE <<>>
    /\ UNCHANGED readyState

\* Mutant: the button is not looked at; the bit may not fit into the byte.
Toggled_any(which) == (buttonMask \ {which}) \cup ({which} \ buttonMask)

\* buttonMask ^= 1 << (which - 1), for the three buttons that are known.
Toggled(which) ==
    LET bit == {which} \cap (1..3)
    IN (buttonMask \ bit) \cup (bit \ buttonMask)

\* Mutant: the listener of mouseup does not change the mask.
UpMask_kept(which) == buttonMask
UpMask(which) == Toggled(which)

\* A button goes down.
mouseDownHandler(b) ==
    /\ b \notin pressed
    /\ pressed' = pressed \cup {b}
    /\ IF over
       THEN /\ buttonMask' = Toggled(b)
            /\ \E x, y \in Offset : sendBytes(<<MouseEvent(buttonMask', x, y)>>)
       ELSE UNCHANGED buttonMask /\ sendBytes(<<>>)
    /\ UNCHANGED <<over, carried>>

\* A button goes up.
mouseUpHandler(b) ==
    /\ b \in pressed
    /\ pressed' = pressed \ {b}
    /\ IF over
       THEN /\ buttonMask' = UpMask(b)
            /\ \E x, y \in Offset : sendBytes(<<MouseEvent(buttonMask', x, y)>>)
       ELSE UNCHANGED buttonMask /\ sendBytes(<<>>)
    /\ UNCHANGED <<over, carried>>

mouseMoveHandler ==
    /\ over
    /\ \E x, y \in Offset : sendBytes(<<MouseEvent(buttonMask, x, y)>>)
    /\ UNCHANGED <<buttonMask, pointerVars>>

\* Mutant: the second event sets the bit again.
Unset_again(mask, bit) == mask \cup {bit}
\* buttonMask ^= 1 << 3 or 1 << 4, once the bit has been set.
Unset(mask, bit) == mask \ {bit}

\* The wheel is a press and a release of button 4 or 5.
mouseWheelHandler ==
    /\ over
    /\ \E bit \in {4, 5}, x, y \in Offset :
           LET down == buttonMask \cup {bit}
               up == Unset(down, bit)
           IN /\ buttonMask' = up
              /\ sendBytes(<<MouseEvent(down, x, y), MouseEvent(up, x, y)>>)
    /\ UNCHANGED pointerVars

\* The pointer leaves the canvas; the server is not told.
mouseOutHandler ==
    /\ over /\ over' = FALSE
    /\ buttonMask' = {}
    /\ sendBytes(<<>>)
    /\ UNCHANGED <<pressed, carried>>

\* It comes back, perhaps with buttons held.  No listener is called.
PointerEnters ==
    /\ ~over /\ over' = TRUE
    /\ carried' = pressed
    /\ sendBytes(<<>>)
    /\ UNCHANGED <<buttonMask, pressed>>

\* The listener of keypress.  The one of keyup is commented out, so every key
\* event says "down".
keyDownHandler ==
    /\ \E n \in Char : sendBytes(<<KeyEvent(n)>>)
    /\ UNCHANGED <<buttonMask, pointerVars>>

Next ==
    \/ SocketChanges
    \/ \E b \in Button : mouseDownHandler(b) \/ mouseUpHandler(b)
    \/ mouseMoveHandler \/ mouseWheelHandler \/ mouseOutHandler
    \/ PointerEnters \/ keyDownHandler

Spec == Init /\ [][Next]_vars
-----------------------------------------------------------------------------
(* Properties.                                                             *)

\* Over the canvas the mask is wrong about those buttons that were down as
\* the pointer came in, and about no others: XOR inverts them (they seem up
\* while they are held, and down from their release on) until the pointer
\* leaves again (peripherals.js:136, 157, 190).
MaskOffByCarried ==
    IF over
    THEN \A b \in 1..3 :
             (b \in buttonMask) = ((b \in pressed) # (b \in carried))
    ELSE buttonMask = {}

\* A button that is not in the mask of an event is reported as pressed by
\* the wheel for one event only: what is sent last, and the mask, have no
\* bit of the wheel (peripherals.js:172-185).
WheelIsReleased ==
    /\ buttonMask \subseteq 1..3
    /\ sent # <<>> =>
           LET e == sent[Len(sent)] IN e.device = "MOUSE" => e.mask = buttonMask
=============================================================================
