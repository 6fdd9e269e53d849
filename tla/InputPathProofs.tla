-------------------------- MODULE InputPathProofs --------------------------
(* The invariants of the way of an event, for every number of viewers and  *)
(* every set of masks, coordinates and characters.                         *)
EXTENDS InputPath, WireProofs

\* The events: each has the fields of its device, and these have values that
\* the handlers read as numbers.
LEMMA MouseEvents ==
    ASSUME NEW e \in Event, e.device = "MOUSE"
    PROVE  /\ e.mask \in Mask
           /\ Coordinate(e.x) \in Int
           /\ Coordinate(e.y) \in Int
<1>1. PICK m \in Mask, x \in Offset, y \in Offset : e = MouseEvent(m, x, y)
    BY DEF Event, EventOf, KeyEvent
<1>2. e.mask = m /\ e.x = Uint16(x) /\ e.y = Uint16(y)
    BY <1>1 DEF MouseEvent
<1>3. x \in Nat /\ y \in Nat
    BY OffsetAssumption
<1> QED
    BY <1>2, <1>3, CoordinateInt

LEMMA KeyEvents ==
    ASSUME NEW e \in Event, e.device = "KEY"
    PROVE  \E n \in Char : e = KeyEvent(n)
BY DEF Event, EventOf, MouseEvent

LEMMA KeyOfEvent ==
    ASSUME NEW n \in Char
    PROVE  /\ KeyCode(KeyEvent(n).key) \in Int
           /\ \A d \in {49, 50} : KeyCode(KeyEvent(n).key) = d <=> n = d
<1>1. n \in Nat /\ n < 1114112
    BY CharAssumption
<1>2. KeyEvent(n).key = Uint32(getKey(n))
    BY DEF KeyEvent
<1>3. getKey(n) \in Nat
    BY <1>1, SMT DEF getKey
<1> QED
    BY <1>1, <1>2, <1>3, KeyCodeNat, OnlyDigitsAreDigits

LEMMA EventDevices ==
    /\ \A e \in Event : e.device \in Device
    /\ Nothing.device = "none"
BY DEF Event, EventOf, MouseEvent, KeyEvent, Device, Nothing

\* Type correctness: every field of the two handlers, and what the threads
\* hold, has a value of its type.
THEOREM TypeCorrect == Spec => []TypeOK
<1>1. Init => TypeOK
    BY MaxViewersAssumption
    DEF Init, TypeOK, NotParsing, Nothing, MouseButton, State, Device,
        ParseState, MouseFields, KeyboardFields, Reading, Places
<1>2. TypeOK /\ [Next]_vars => TypeOK'
    <2> SUFFICES ASSUME TypeOK, [Next]_vars PROVE TypeOK'
        OBVIOUS
    <2> USE MaxViewersAssumption DEF TypeOK, HandlersOnly, renderVars, ioVars
    <2>1. ASSUME Track PROVE spoilt' \in [Device -> BOOLEAN]
        BY <2>1 DEF Track, Overlap, BeginsParsing
    <2>2. ASSUME on_open, Track PROVE TypeOK'
        BY <2>1, <2>2 DEF on_open
    <2>3. ASSUME on_close, Track PROVE TypeOK'
        BY <2>1, <2>3 DEF on_close
    <2>4. ASSUME OnStreamMessage, Track PROVE TypeOK'
        BY <2>1, <2>4 DEF OnStreamMessage
    <2>5. ASSUME NEW e \in Event, OnEvent(e), Track PROVE TypeOK'
        <3>1. latest' \in [Device -> Event \cup {Nothing}]
            BY <2>5 DEF OnEvent
        <3>2. parsing' \in ParseState
            BY <2>5 DEF OnEvent, First, ParseState
        <3>3. typed' \subseteq Char
            BY <2>5 DEF OnEvent
        <3> QED
            BY <2>1, <2>5, <3>1, <3>2, <3>3 DEF OnEvent
    <2>6. ASSUME NextIteration PROVE parsing' \in ParseState
        <3>1. CASE parsing.left > 1
            <4>1. parsing.left - 1 \in 0..MaxViewers
                BY <3>1 DEF ParseState
            <4>2. parsing' = [parsing EXCEPT !.left = parsing.left - 1,
                                             !.at = First(parsing.event)]
                BY <2>6, <3>1 DEF NextIteration
            <4> QED
                BY <4>1, <4>2 DEF First, ParseState
        <3>2. CASE ~(parsing.left > 1)
            BY <2>6, <3>2 DEF NextIteration, NotParsing, ParseState
        <3> QED BY <3>1, <3>2
    <2>7. ASSUME ParseMouse, Track PROVE TypeOK'
        <3>1. parsing.event \in Event /\ parsing.event.device = "MOUSE"
            BY <2>7, EventDevices DEF ParseMouse, ParseState
        <3>2. /\ Coordinate(parsing.event.x) \in Int
              /\ Coordinate(parsing.event.y) \in Int
            BY <3>1, MouseEvents
        <3>3. /\ ButtonOf(parsing.event.mask) \in MouseButton
              /\ StateOf(parsing.event.mask) \in State
            BY DEF ButtonOf, StateOf, MouseButton, State, MouseFields
        <3>4. mouse' \in MouseFields
            BY <2>7, <3>2, <3>3 DEF ParseMouse, MouseFields
        <3>5. parsing' \in ParseState
            BY <2>6, <2>7 DEF ParseMouse, GoesOn, ParseState
        <3> QED
            BY <2>1, <2>7, <3>4, <3>5 DEF ParseMouse
    <2>8. ASSUME ParseKey, Track PROVE TypeOK'
        <3>1. parsing.event \in Event /\ parsing.event.device = "KEY"
            BY <2>8, EventDevices DEF ParseKey, ParseState
        <3>2. KeyCode(parsing.event.key) \in Int
            BY <3>1, KeyEvents, KeyOfEvent
        <3>3. keyboard' \in KeyboardFields
            BY <2>8, <3>2 DEF ParseKey, Refreshed, State, KeyboardFields
        <3>4. parsing' \in ParseState
            BY <2>6, <2>8 DEF ParseKey, GoesOn, ParseState
        <3> QED
            BY <2>1, <2>8, <3>3, <3>4 DEF ParseKey
    <2>9. ASSUME checkKeyboard, Track PROVE TypeOK'
        <3>1. keyboard' \in KeyboardFields
            <4>1. \/ keyboard' = keyboard
                  \/ keyboard' = [keyboard EXCEPT !.key = -1]
                  \/ keyboard' = [keyboard EXCEPT !.state = "UP"]
                  \/ keyboard' = [keyboard EXCEPT !.isRefresh = FALSE]
                BY <2>9 DEF checkKeyboard
            <4>2. keyboard \in KeyboardFields /\ -1 \in Int
                OBVIOUS
            <4> QED
                BY <4>1, <4>2 DEF State, KeyboardFields
        <3>2. m_renderMode' \in {1, 2}
            BY <2>9 DEF checkKeyboard, ModeOf
        <3>3. pc' \in Places
            BY <2>9 DEF checkKeyboard, MovesTo, KeySection, Places
        <3> QED
            BY <2>1, <2>9, <3>1, <3>2, <3>3 DEF checkKeyboard
    <2>10. ASSUME checkMouse, Track PROVE TypeOK'
        <3>1. mouse' \in MouseFields
            <4>1. \/ mouse' = mouse
                  \/ mouse' = [mouse EXCEPT !.button = -1]
                  \/ mouse' = [mouse EXCEPT !.state = "UP"]
                  \/ mouse' = [mouse EXCEPT !.isRefresh = FALSE]
                BY <2>10 DEF checkMouse
            <4>2. mouse \in MouseFields /\ -1 \in MouseButton
                BY DEF MouseButton
            <4> QED
                BY <4>1, <4>2 DEF State, MouseFields
        <3>2. seen' \in Reading
            BY <2>10 DEF checkMouse, State, MouseFields, Reading
        <3>3. pc' \in Places
            BY <2>10 DEF checkMouse, MovesTo, MouseSection, Places
        <3> QED
            BY <2>1, <2>10, <3>1, <3>2, <3>3 DEF checkMouse
    <2>11. CASE UNCHANGED vars
        BY <2>11 DEF vars
    <2> HIDE DEF TypeOK, HandlersOnly, renderVars, ioVars
    <2> QED
        BY <2>2, <2>3, <2>4, <2>5, <2>7, <2>8, <2>9, <2>10, <2>11
        DEF Next, Parse, idle
<1> QED
    BY <1>1, <1>2, PTL DEF Spec
-----------------------------------------------------------------------------
(* The invariant, part by part.                                            *)

\* The steps that leave parse() and the fields of the handlers alone.
Elsewhere == on_open \/ on_close \/ OnStreamMessage

LEMMA NextCases ==
    ASSUME [Next]_vars
    PROVE  \/ Track /\ (\/ Elsewhere \/ (\E e \in Event : OnEvent(e))
                        \/ ParseMouse \/ ParseKey \/ checkKeyboard \/ checkMouse)
           \/ UNCHANGED vars
BY DEF Next, Parse, idle, Elsewhere

LEMMA ParseEvents ==
    ASSUME TypeOK
    PROVE  /\ ParseMouse => parsing.event \in Event /\ parsing.event.device = "MOUSE"
           /\ ParseKey => parsing.event \in Event /\ parsing.event.device = "KEY"
BY EventDevices DEF ParseMouse, ParseKey, TypeOK, ParseState

LEMMA KeepsParsing ==
    ASSUME TypeOK, ParsesLatest, [Next]_vars
    PROVE  ParsesLatest'
<1> USE DEF ParsesLatest
<1>1. CASE Elsewhere
    BY <1>1 DEF Elsewhere, on_open, on_close, OnStreamMessage
<1>2. ASSUME NEW e \in Event, OnEvent(e) PROVE ParsesLatest'
    <2>1. /\ parsing'.event = e /\ parsing'.left = viewers /\ parsing'.at = First(e)
          /\ latest' = [latest EXCEPT ![e.device] = e]
          /\ viewers \in Nat /\ viewers > 0
        BY <1>2 DEF OnEvent, TypeOK
    <2>2. e.device \in Device
        BY EventDevices
    <2>3. latest'[e.device] = e
        BY <2>1, <2>2 DEF TypeOK
    <2>4. e.device = "MOUSE" \/ e.device = "KEY"
        BY <2>2 DEF Device
    <2> QED
        BY <2>1, <2>3, <2>4 DEF First
<1>3. ASSUME parsing.event.device \in Device, NextIteration, UNCHANGED latest
      PROVE  ParsesLatest'
    <2>1. CASE parsing.left > 1
        <3>1. parsing' = [parsing EXCEPT !.left = parsing.left - 1,
                                         !.at = First(parsing.event)]
            BY <1>3, <2>1 DEF NextIteration
        <3>2. parsing.left - 1 > 0
            BY <2>1 DEF TypeOK, ParseState
        <3>3. /\ parsing'.event = parsing.event
              /\ parsing'.left = parsing.left - 1
              /\ parsing'.at = First(parsing.event)
            BY <3>1 DEF TypeOK, ParseState
        <3> QED
            BY <1>3, <3>2, <3>3 DEF First, Device
    <2>2. CASE ~(parsing.left > 1)
        BY <1>3, <2>2, EventDevices DEF NextIteration, NotParsing, Device
    <2> QED BY <2>1, <2>2
<1>4. CASE ParseMouse
    <2>1. parsing.event.device = "MOUSE" /\ UNCHANGED latest
        BY <1>4 DEF ParseMouse
    <2>2. CASE NextIteration
        BY <1>3, <2>1, <2>2 DEF Device
    <2>3. CASE ~NextIteration
        BY <1>4, <2>1, <2>3 DEF ParseMouse, GoesOn, TypeOK, ParseState
    <2> QED BY <2>2, <2>3
<1>5. CASE ParseKey
    <2>1. parsing.event.device = "KEY" /\ UNCHANGED latest
        BY <1>5 DEF ParseKey
    <2>2. CASE NextIteration
        BY <1>3, <2>1, <2>2 DEF Device
    <2>3. CASE ~NextIteration
        BY <1>5, <2>1, <2>3 DEF ParseKey, GoesOn, TypeOK, ParseState
    <2> QED BY <2>2, <2>3
<1>6. CASE checkKeyboard \/ checkMouse
    BY <1>6 DEF checkKeyboard, checkMouse, ioVars
<1>7. CASE UNCHANGED vars
    BY <1>7 DEF vars
<1> QED
    BY <1>1, <1>2, <1>4, <1>5, <1>6, <1>7, NextCases

LEMMA KeepsTyped ==
    ASSUME TypeOK, KeysWereTyped, ModeWasTyped, [Next]_vars
    PROVE  KeysWereTyped' /\ ModeWasTyped'
<1> USE DEF KeysWereTyped, ModeWasTyped
<1>1. CASE Elsewhere
    BY <1>1 DEF Elsewhere, on_open, on_close, OnStreamMessage, HandlersOnly, renderVars
<1>2. ASSUME NEW e \in Event, OnEvent(e) PROVE KeysWereTyped' /\ ModeWasTyped'
    <2>1. /\ parsing'.event = e
          /\ typed' = typed \cup {n \in Char : e = KeyEvent(n)}
          /\ UNCHANGED <<keyboard, m_renderMode>>
        BY <1>2 DEF OnEvent, HandlersOnly, renderVars
    <2>2. e.device = "KEY" => \E n \in Char : e = KeyEvent(n)
        BY KeyEvents
    <2> QED
        BY <2>1, <2>2
<1>3. ASSUME NextIteration
      PROVE  parsing'.event = parsing.event \/ parsing'.event.device = "none"
    <2>1. CASE parsing.left > 1
        BY <1>3, <2>1 DEF NextIteration, TypeOK, ParseState
    <2>2. CASE ~(parsing.left > 1)
        BY <1>3, <2>2 DEF NextIteration, NotParsing, Nothing
    <2> QED BY <2>1, <2>2
<1>4. CASE ParseMouse
    <2>1. parsing'.event = parsing.event \/ parsing'.event.device = "none"
        BY <1>3, <1>4 DEF ParseMouse, GoesOn, TypeOK, ParseState
    <2> QED
        BY <1>4, <2>1 DEF ParseMouse, renderVars
<1>5. CASE ParseKey
    <2>1. parsing'.event = parsing.event \/ parsing'.event.device = "none"
        BY <1>3, <1>5 DEF ParseKey, GoesOn, TypeOK, ParseState
    <2>2. PICK n \in typed : parsing.event = KeyEvent(n)
        BY <1>5 DEF ParseKey
    <2>3. n \in Char
        BY DEF TypeOK
    <2>4. KeyCode(parsing.event.key) = 50 => 50 \in typed
        BY <2>2, <2>3, KeyOfEvent
    <2>5. keyboard'.key = keyboard.key \/ keyboard'.key = KeyCode(parsing.event.key)
        BY <1>5 DEF ParseKey, Refreshed, TypeOK, KeyboardFields
    <2> QED
        BY <1>5, <2>1, <2>4, <2>5 DEF ParseKey, renderVars
<1>6. CASE checkKeyboard
    <2>1. keyboard'.key = keyboard.key \/ keyboard'.key = -1
        BY <1>6 DEF checkKeyboard, TypeOK, KeyboardFields
    <2>2. \/ m_renderMode' = m_renderMode
          \/ m_renderMode' = ModeOf(keyboard.key, m_renderMode)
        BY <1>6 DEF checkKeyboard
    <2>3. m_renderMode' = 2 => 50 \in typed
        BY <2>2 DEF ModeOf
    <2>4. UNCHANGED <<parsing, typed>>
        BY <1>6 DEF checkKeyboard, ioVars
    <2>5. keyboard'.key = 50 => keyboard.key = 50
        BY <2>1
    <2> QED
        BY <2>3, <2>4, <2>5
<1>7. CASE checkMouse
    BY <1>7 DEF checkMouse, ioVars
<1>8. CASE UNCHANGED vars
    BY <1>8 DEF vars
<1> QED
    BY <1>1, <1>2, <1>4, <1>5, <1>6, <1>7, <1>8, NextCases

\* Nobody but the person who types the key '2' starts the second mode.
THEOREM TwoWasTyped == Spec => []ModeWasTyped
<1>1. Init => KeysWereTyped /\ ModeWasTyped
    BY DEF Init, KeysWereTyped, ModeWasTyped, NotParsing, Nothing
<1>2. TypeOK /\ KeysWereTyped /\ ModeWasTyped /\ [Next]_vars
          => KeysWereTyped' /\ ModeWasTyped'
    BY KeepsTyped
<1> QED
    BY <1>1, <1>2, TypeCorrect, PTL DEF Spec

\* A step after which a device is not spoilt.
LEMMA Unspoilt ==
    ASSUME TypeOK, Track, NEW d \in Device, ~spoilt'[d]
    PROVE  /\ ~Overlap(d)'
           /\ spoilt[d] => BeginsParsing(d)
BY DEF Track, TypeOK

LEMMA GoingOn ==
    ASSUME TypeOK, NEW here, NEW there, GoesOn(here, there)
    PROVE  parsing.at = here /\ parsing'.at = there /\ parsing'.event = parsing.event
BY DEF GoesOn, TypeOK, ParseState

LEMMA GoingAround ==
    ASSUME TypeOK, NextIteration
    PROVE  \/ parsing'.at = First(parsing.event) /\ parsing'.event = parsing.event
           \/ parsing' = NotParsing
<1>1. CASE parsing.left > 1
    <2>1. parsing' = [parsing EXCEPT !.left = parsing.left - 1,
                                     !.at = First(parsing.event)]
        BY <1>1 DEF NextIteration
    <2> QED
        BY <2>1 DEF TypeOK, ParseState
<1>2. CASE ~(parsing.left > 1)
    BY <1>2 DEF NextIteration
<1> QED BY <1>1, <1>2

LEMMA MouseFits ==
    ASSUME TypeOK, NEW e
    PROVE  /\ ButtonFits(e, ButtonOf(e.mask))
           /\ StateFits(e, StateOf(e.mask))
<1>1. \A b, c \in 1..3 : {b} = {c} <=> b = c
    OBVIOUS
<1>2. ASSUME NEW b \in 1..3, e.mask = {b} PROVE ButtonOf(e.mask) = b - 1
    <2>1. CASE b = 1
        BY <1>2, <2>1 DEF ButtonOf
    <2>2. CASE b = 2
        BY <1>1, <1>2, <2>2 DEF ButtonOf
    <2>3. CASE b = 3
        BY <1>1, <1>2, <2>3 DEF ButtonOf
    <2> QED BY <2>1, <2>2, <2>3
<1>3. e.mask = {} => StateOf(e.mask) = "UP"
    BY DEF StateOf
<1>4. ASSUME NEW b \in 1..3, e.mask = {b} PROVE StateOf(e.mask) = "DOWN"
    <2>1. e.mask \in {{1}, {2}, {3}} /\ e.mask # {}
        BY <1>4
    <2> QED
        BY <2>1 DEF StateOf
<1> QED
    BY <1>2, <1>3, <1>4 DEF ButtonFits, StateFits

LEMMA KeepsLatestMouse ==
    ASSUME TypeOK, ParsesLatest, LatestMouse, [Next]_vars
    PROVE  LatestMouse'
<1> DEFINE e == latest["MOUSE"]
           Unchanged == UNCHANGED <<mouse, seen, pc>> /\ latest'["MOUSE"] = e
<1> "MOUSE" \in Device /\ "KEY" \in Device /\ Nothing.device = "none"
    BY EventDevices DEF Device
<1>1. ASSUME Elsewhere, Track PROVE LatestMouse'
    <2>1. UNCHANGED <<parsing, latest, mouse, seen, pc>>
        BY <1>1 DEF Elsewhere, on_open, on_close, OnStreamMessage, HandlersOnly, renderVars
    <2>2. ~spoilt'["MOUSE"] => ~spoilt["MOUSE"]
        BY <1>1, <2>1, Unspoilt DEF BeginsParsing
    <2> QED
        BY <2>1, <2>2 DEF LatestMouse, MouseParsed, MouseRead
<1>2. ASSUME NEW f \in Event, OnEvent(f), Track PROVE LatestMouse'
    <2>1. /\ parsing = NotParsing
          /\ parsing'.event = f /\ parsing'.at = First(f)
          /\ latest' = [latest EXCEPT ![f.device] = f]
          /\ UNCHANGED <<mouse, seen, pc>>
        BY <1>2 DEF OnEvent, IoIdle, HandlersOnly, renderVars
    <2>2. CASE f.device = "MOUSE"
        <3>1. latest'["MOUSE"] = f /\ f # Nothing
            BY <2>1, <2>2 DEF TypeOK
        <3>2. parsing'.at = "x"
            BY <2>1, <2>2 DEF First
        <3>3. ~spoilt'["MOUSE"] => pc' \notin MouseSection
            BY <1>2, <2>1, <2>2, Unspoilt DEF Overlap
        <3> QED
            BY <2>1, <2>2, <3>1, <3>2, <3>3 DEF LatestMouse, MouseParsed
    <2>3. CASE f.device # "MOUSE"
        <3>1. latest'["MOUSE"] = latest["MOUSE"]
            BY <2>1, <2>3 DEF TypeOK
        <3>2. ~spoilt'["MOUSE"] => ~spoilt["MOUSE"]
            BY <1>2, <2>1, <2>3, Unspoilt DEF BeginsParsing
        <3>3. parsing.event.device # "MOUSE" /\ parsing'.event.device # "MOUSE"
            BY <2>1, <2>3 DEF NotParsing
        <3> QED
            BY <2>1, <3>1, <3>2, <3>3 DEF LatestMouse, MouseRead
    <2> QED BY <2>2, <2>3
<1>3. ASSUME ParseMouse, Track PROVE LatestMouse'
    <2>1. /\ parsing.event = e /\ parsing.event \in Event
          /\ e.device = "MOUSE" /\ e # Nothing
          /\ First(e) = "x"
          /\ latest'["MOUSE"] = e
          /\ UNCHANGED <<seen, pc>>
        BY <1>3, ParseEvents DEF ParseMouse, ParsesLatest, renderVars, First
    <2>2. ~spoilt'["MOUSE"] /\ parsing'.event.device = "MOUSE" => pc \notin MouseSection
        BY <1>3, <2>1, Unspoilt DEF Overlap
    <2>3. ~spoilt'["MOUSE"] /\ parsing'.at # "x" => ~spoilt["MOUSE"]
        BY <1>3, <2>1, Unspoilt, EventDevices DEF BeginsParsing, First
    <2>4. ~spoilt["MOUSE"] => MouseParsed(e)
        BY <2>1 DEF LatestMouse
    <2> SUFFICES ASSUME ~spoilt'["MOUSE"]
                 PROVE  IF parsing'.event.device = "MOUSE"
                        THEN MouseParsed(e)' ELSE MouseRead(e)'
        BY <2>1 DEF LatestMouse
    <2>5. CASE GoesOn("x", "y") /\ mouse' = [mouse EXCEPT !.x = Coordinate(e.x)]
        <3>1. parsing'.event = e /\ parsing'.at = "y"
            BY <2>1, <2>5, GoingOn
        <3>2. mouse'.x = Coordinate(e.x)
            BY <2>5 DEF TypeOK, MouseFields
        <3> QED
            BY <2>1, <2>2, <3>1, <3>2 DEF MouseParsed
    <2>6. CASE GoesOn("y", "button") /\ mouse' = [mouse EXCEPT !.y = Coordinate(e.y)]
        <3>1. parsing.at = "y" /\ parsing'.event = e /\ parsing'.at = "button"
            BY <2>1, <2>6, GoingOn
        <3>2. mouse'.x = mouse.x /\ mouse'.y = Coordinate(e.y)
            BY <2>6 DEF TypeOK, MouseFields
        <3> QED
            BY <2>1, <2>2, <2>3, <2>4, <3>1, <3>2 DEF MouseParsed
    <2>7. CASE GoesOn("button", "state") /\ mouse' = [mouse EXCEPT !.button = ButtonOf(e.mask)]
        <3>1. parsing.at = "button" /\ parsing'.event = e /\ parsing'.at = "state"
            BY <2>1, <2>7, GoingOn
        <3>2. /\ mouse'.x = mouse.x /\ mouse'.y = mouse.y
              /\ mouse'.button = ButtonOf(e.mask)
            BY <2>7 DEF TypeOK, MouseFields
        <3>3. ButtonFits(e, mouse'.button)
            BY <3>2, MouseFits
        <3> QED
            BY <2>1, <2>2, <2>3, <2>4, <3>1, <3>2, <3>3 DEF MouseParsed
    <2>8. CASE GoesOn("state", "refresh") /\ mouse' = [mouse EXCEPT !.state = StateOf(e.mask)]
        <3>1. parsing.at = "state" /\ parsing'.event = e /\ parsing'.at = "refresh"
            BY <2>1, <2>8, GoingOn
        <3>2. /\ mouse'.x = mouse.x /\ mouse'.y = mouse.y
              /\ mouse'.button = mouse.button /\ mouse'.state = StateOf(e.mask)
            BY <2>8 DEF TypeOK, MouseFields
        <3>3. StateFits(e, mouse'.state)
            BY <3>2, MouseFits
        <3> QED
            BY <2>1, <2>2, <2>3, <2>4, <3>1, <3>2, <3>3 DEF MouseParsed
    <2>9. CASE /\ parsing.at = "refresh" /\ NextIteration
               /\ mouse' = [mouse EXCEPT !.isRefresh = TRUE]
        <3>1. CASE parsing'.at = "x" /\ parsing'.event = e
            BY <2>1, <2>2, <3>1 DEF MouseParsed
        <3>2. CASE parsing' = NotParsing
            <4>1. parsing'.event.device # "MOUSE" /\ parsing'.at # "x"
                BY <3>2 DEF NotParsing
            <4>2. /\ mouse'.x = mouse.x /\ mouse'.y = mouse.y
                  /\ mouse'.button = mouse.button /\ mouse'.state = mouse.state
                BY <2>9 DEF TypeOK, MouseFields
            <4>3. MouseParsed(e)
                BY <2>3, <2>4, <4>1
            <4> QED
                BY <2>1, <2>9, <4>1, <4>2, <4>3 DEF MouseParsed, MouseRead, MouseSection
        <3> QED
            BY <2>1, <2>9, <3>1, <3>2, GoingAround
    <2> QED
        BY <1>3, <2>1, <2>5, <2>6, <2>7, <2>8, <2>9 DEF ParseMouse
<1>4. ASSUME ParseKey, Track PROVE LatestMouse'
    <2>1. parsing.event.device = "KEY" /\ UNCHANGED <<mouse, seen, pc, latest>>
        BY <1>4 DEF ParseKey, renderVars
    <2>2. parsing'.event.device # "MOUSE"
        <3>1. CASE NextIteration
            BY <2>1, <3>1, GoingAround DEF NotParsing
        <3>2. CASE ~NextIteration
            BY <1>4, <2>1, <3>2, GoingOn DEF ParseKey
        <3> QED BY <3>1, <3>2
    <2>3. ~spoilt'["MOUSE"] => ~spoilt["MOUSE"]
        BY <1>4, <2>2, Unspoilt DEF BeginsParsing
    <2> QED
        BY <2>1, <2>2, <2>3 DEF LatestMouse, MouseRead
<1>5. ASSUME checkKeyboard, Track PROVE LatestMouse'
    <2>1. pc \notin MouseSection /\ pc' \notin MouseSection
        BY <1>5 DEF checkKeyboard, MovesTo, MouseSection
    <2>2. UNCHANGED <<parsing, latest, mouse, seen>>
        BY <1>5 DEF checkKeyboard, ioVars
    <2>3. ~spoilt'["MOUSE"] => ~spoilt["MOUSE"]
        BY <1>5, <2>2, Unspoilt DEF BeginsParsing
    <2> QED
        BY <2>1, <2>2, <2>3 DEF LatestMouse, MouseParsed, MouseRead, MouseSection
<1>6. ASSUME checkMouse, Track PROVE LatestMouse'
    <2>1. UNCHANGED <<parsing, latest>>
        BY <1>6 DEF checkMouse, ioVars
    <2>2. ~spoilt'["MOUSE"] => ~spoilt["MOUSE"]
        BY <1>6, <2>1, Unspoilt DEF BeginsParsing
    <2>3. CASE e = Nothing
        <3>1. pc = "checkMouse" /\ ~mouse.isRefresh
            BY <1>6, <2>3 DEF LatestMouse, checkMouse, MovesTo, MouseSection
        <3>2. pc' = "checkKeyboard" /\ UNCHANGED mouse
            BY <1>6, <3>1 DEF checkMouse, MovesTo
        <3> QED
            BY <2>1, <2>3, <3>1, <3>2 DEF LatestMouse, MouseSection
    <2>4. CASE e # Nothing /\ parsing.event.device = "MOUSE"
        <3> SUFFICES ASSUME ~spoilt'["MOUSE"] PROVE MouseParsed(e)'
            BY <2>1, <2>4 DEF LatestMouse
        <3>1. MouseParsed(e)
            BY <2>2, <2>4 DEF LatestMouse
        <3>2. pc = "checkMouse" /\ UNCHANGED mouse
            BY <1>6, <3>1 DEF MouseParsed, checkMouse, MovesTo, MouseSection
        <3>3. pc' \notin MouseSection
            BY <1>6, <2>1, <2>4, Unspoilt DEF Overlap
        <3> QED
            BY <2>1, <3>1, <3>2, <3>3 DEF MouseParsed
    <2>5. CASE e # Nothing /\ parsing.event.device # "MOUSE"
        <3> SUFFICES ASSUME ~spoilt'["MOUSE"] PROVE MouseRead(e)'
            BY <2>1, <2>5 DEF LatestMouse
        <3>1. MouseRead(e)
            BY <2>2, <2>5 DEF LatestMouse
        <3> USE <2>1, <3>1 DEF MouseRead, MouseSection, TypeOK, MouseFields, Reading
        <3>2. CASE pc = "checkMouse"
            BY <1>6, <3>2 DEF checkMouse, MovesTo
        <3>3. CASE pc = "x"
            BY <1>6, <3>3 DEF checkMouse, MovesTo
        <3>4. CASE pc = "y"
            BY <1>6, <3>4 DEF checkMouse, MovesTo
        <3>5. CASE pc = "button"
            <4>1. ButtonFits(e, mouse.button) /\ StateFits(e, mouse.state)
                BY <3>5
            <4>2. mouse.button = -1 => StateFits(e, "UP")
                BY <4>1 DEF ButtonFits, StateFits
            <4>3. /\ pc' = IF mouse.button = -1 THEN "clearButton" ELSE "state"
                  /\ seen' = [seen EXCEPT !.button = mouse.button, !.state = "UP"]
                  /\ UNCHANGED mouse
                BY <1>6, <3>5 DEF checkMouse, MovesTo
            <4>4. /\ seen'.x = seen.x /\ seen'.y = seen.y
                  /\ seen'.button = mouse.button /\ seen'.state = "UP"
                BY <4>3
            <4> QED
                BY <3>5, <4>1, <4>2, <4>3, <4>4
        <3>6. CASE pc = "state"
            BY <1>6, <3>6 DEF checkMouse, MovesTo
        <3>7. CASE pc = "clearButton"
            BY <1>6, <3>7 DEF checkMouse, MovesTo
        <3>8. CASE pc = "clearState"
            BY <1>6, <3>8 DEF checkMouse, MovesTo
        <3>9. CASE pc = "consumeMouse"
            BY <1>6, <3>9 DEF checkMouse, MovesTo
        <3> QED
            BY <1>6, <3>2, <3>3, <3>4, <3>5, <3>6, <3>7, <3>8, <3>9
            DEF checkMouse, MovesTo
    <2> QED BY <2>3, <2>4, <2>5
<1>7. CASE UNCHANGED vars
    BY <1>7 DEF vars, LatestMouse, MouseParsed, MouseRead
<1> QED
    BY <1>1, <1>2, <1>3, <1>4, <1>5, <1>6, <1>7, NextCases

LEMMA ModeSettles ==
    ASSUME NEW key, NEW mode
    PROVE  ModeOf(key, ModeOf(key, mode)) = ModeOf(key, mode)
BY DEF ModeOf

LEMMA KeepsLatestKey ==
    ASSUME TypeOK, ParsesLatest, LatestKey, [Next]_vars
    PROVE  LatestKey'
<1> DEFINE e == latest["KEY"]
<1> "MOUSE" \in Device /\ "KEY" \in Device /\ Nothing.device = "none"
    BY EventDevices DEF Device
<1>1. ASSUME Elsewhere, Track PROVE LatestKey'
    <2>1. UNCHANGED <<parsing, latest, keyboard, m_renderMode, pc>>
        BY <1>1 DEF Elsewhere, on_open, on_close, OnStreamMessage, HandlersOnly, renderVars
    <2>2. ~spoilt'["KEY"] => ~spoilt["KEY"]
        BY <1>1, <2>1, Unspoilt DEF BeginsParsing
    <2> QED
        BY <2>1, <2>2 DEF LatestKey, KeyParsed, KeyRead
<1>2. ASSUME NEW f \in Event, OnEvent(f), Track PROVE LatestKey'
    <2>1. /\ parsing = NotParsing
          /\ parsing'.event = f /\ parsing'.at = First(f)
          /\ latest' = [latest EXCEPT ![f.device] = f]
          /\ UNCHANGED <<keyboard, m_renderMode, pc>>
        BY <1>2 DEF OnEvent, IoIdle, HandlersOnly, renderVars
    <2>2. CASE f.device = "KEY"
        <3>1. parsing'.at = "state"
            BY <2>1, <2>2 DEF First
        <3>2. ~spoilt'["KEY"] => pc' \notin KeySection
            BY <1>2, <2>1, <2>2, Unspoilt DEF Overlap
        <3> QED
            BY <2>1, <2>2, <3>1, <3>2 DEF LatestKey, KeyParsed
    <2>3. CASE f.device # "KEY"
        <3>1. latest'["KEY"] = latest["KEY"]
            BY <2>1, <2>3 DEF TypeOK
        <3>2. ~spoilt'["KEY"] => ~spoilt["KEY"]
            BY <1>2, <2>1, <2>3, Unspoilt DEF BeginsParsing
        <3>3. parsing.event.device # "KEY" /\ parsing'.event.device # "KEY"
            BY <2>1, <2>3 DEF NotParsing
        <3> QED
            BY <2>1, <3>1, <3>2, <3>3 DEF LatestKey, KeyRead
    <2> QED BY <2>2, <2>3
<1>3. ASSUME ParseMouse, Track PROVE LatestKey'
    <2>1. /\ parsing.event.device = "MOUSE"
          /\ UNCHANGED <<keyboard, m_renderMode, pc, latest>>
        BY <1>3 DEF ParseMouse, renderVars
    <2>2. parsing'.event.device # "KEY"
        <3>1. CASE NextIteration
            BY <2>1, <3>1, GoingAround DEF NotParsing
        <3>2. CASE ~NextIteration
            BY <1>3, <2>1, <3>2, GoingOn DEF ParseMouse
        <3> QED BY <3>1, <3>2
    <2>3. ~spoilt'["KEY"] => ~spoilt["KEY"]
        BY <1>3, <2>2, Unspoilt DEF BeginsParsing
    <2> QED
        BY <2>1, <2>2, <2>3 DEF LatestKey, KeyRead
<1>4. ASSUME ParseKey, Track PROVE LatestKey'
    <2>1. /\ parsing.event = e
          /\ e.device = "KEY" /\ e # Nothing
          /\ First(e) = "state"
          /\ UNCHANGED <<latest, m_renderMode, pc>>
        BY <1>4 DEF ParseKey, ParsesLatest, renderVars, First
    <2>2. ~spoilt'["KEY"] /\ parsing'.event.device = "KEY" => pc \notin KeySection
        BY <1>4, <2>1, Unspoilt DEF Overlap
    <2>3. ~spoilt'["KEY"] /\ parsing'.at # "state" => ~spoilt["KEY"]
        BY <1>4, <2>1, Unspoilt, EventDevices DEF BeginsParsing, First
    <2>4. ~spoilt["KEY"] => KeyParsed(e)
        BY <2>1 DEF LatestKey
    <2> SUFFICES ASSUME ~spoilt'["KEY"]
                 PROVE  IF parsing'.event.device = "KEY"
                        THEN KeyParsed(e)' ELSE KeyRead(e)'
        BY <2>1 DEF LatestKey
    <2>5. CASE GoesOn("state", "key") /\ keyboard' = [keyboard EXCEPT !.state = "DOWN"]
        <3>1. parsing'.event = e /\ parsing'.at = "key"
            BY <2>1, <2>5, GoingOn
        <3>2. keyboard'.state = "DOWN"
            BY <2>5 DEF TypeOK, KeyboardFields
        <3> QED
            BY <2>1, <2>2, <3>1, <3>2 DEF KeyParsed
    <2>6. CASE GoesOn("key", "refresh") /\ keyboard' = [keyboard EXCEPT !.key = KeyCode(e.key)]
        <3>1. parsing.at = "key" /\ parsing'.event = e /\ parsing'.at = "refresh"
            BY <2>1, <2>6, GoingOn
        <3>2. keyboard'.state = keyboard.state /\ keyboard'.key = KeyCode(e.key)
            BY <2>6 DEF TypeOK, KeyboardFields
        <3> QED
            BY <2>1, <2>2, <2>3, <2>4, <3>1, <3>2 DEF KeyParsed
    <2>7. CASE parsing.at = "refresh" /\ NextIteration /\ Refreshed
        <3>1. CASE parsing'.at = "state" /\ parsing'.event = e
            BY <2>1, <2>2, <3>1 DEF KeyParsed
        <3>2. CASE parsing' = NotParsing
            <4>1. parsing'.event.device # "KEY" /\ parsing'.at # "state"
                BY <3>2 DEF NotParsing
            <4>2. keyboard'.state = keyboard.state /\ keyboard'.key = keyboard.key
                BY <2>7 DEF Refreshed, TypeOK, KeyboardFields
            <4>3. KeyParsed(e)
                BY <2>3, <2>4, <4>1
            <4> QED
                BY <2>1, <2>7, <4>1, <4>2, <4>3 DEF KeyParsed, KeyRead, KeySection
        <3> QED
            BY <2>1, <2>7, <3>1, <3>2, GoingAround
    <2> QED
        BY <1>4, <2>1, <2>5, <2>6, <2>7 DEF ParseKey
<1>5. ASSUME checkKeyboard, Track PROVE LatestKey'
    <2>1. UNCHANGED <<parsing, latest>>
        BY <1>5 DEF checkKeyboard, ioVars
    <2>2. ~spoilt'["KEY"] => ~spoilt["KEY"]
        BY <1>5, <2>1, Unspoilt DEF BeginsParsing
    <2>3. CASE parsing.event.device = "KEY"
        <3> SUFFICES ASSUME e # Nothing, ~spoilt'["KEY"] PROVE KeyParsed(e)'
            BY <2>1, <2>3 DEF LatestKey
        <3>1. KeyParsed(e)
            BY <2>2, <2>3 DEF LatestKey
        <3>2. pc = "checkKeyboard" /\ UNCHANGED keyboard
            BY <1>5, <3>1 DEF KeyParsed, checkKeyboard, MovesTo, KeySection
        <3>3. pc' \notin KeySection
            BY <1>5, <2>1, <2>3, Unspoilt DEF Overlap
        <3> QED
            BY <2>1, <3>1, <3>2, <3>3 DEF KeyParsed
    <2>4. CASE parsing.event.device # "KEY"
        <3> SUFFICES ASSUME e # Nothing, ~spoilt'["KEY"] PROVE KeyRead(e)'
            BY <2>1, <2>4 DEF LatestKey
        <3>1. KeyRead(e)
            BY <2>2, <2>4 DEF LatestKey
        <3> USE <2>1, <3>1 DEF KeyRead, KeySection, TypeOK, KeyboardFields
        <3>2. CASE pc = "checkKeyboard"
            BY <1>5, <3>2 DEF checkKeyboard, MovesTo
        <3>3. CASE pc = "keyState"
            BY <1>5, <3>3 DEF checkKeyboard, MovesTo
        <3>4. CASE pc = "key"
            BY <1>5, <3>4, ModeSettles DEF checkKeyboard, MovesTo
        <3>5. CASE pc = "clearKey"
            BY <1>5, <3>5 DEF checkKeyboard, MovesTo
        <3>6. CASE pc = "clearKeyState"
            BY <1>5, <3>6 DEF checkKeyboard, MovesTo
        <3>7. CASE pc = "consumeKey"
            BY <1>5, <3>7 DEF checkKeyboard, MovesTo
        <3> QED
            BY <1>5, <3>2, <3>3, <3>4, <3>5, <3>6, <3>7 DEF checkKeyboard, MovesTo
    <2> QED BY <2>3, <2>4
<1>6. ASSUME checkMouse, Track PROVE LatestKey'
    <2>1. pc \notin KeySection /\ pc' \notin KeySection
        BY <1>6 DEF checkMouse, MovesTo, KeySection
    <2>2. UNCHANGED <<parsing, latest, keyboard, m_renderMode>>
        BY <1>6 DEF checkMouse, ioVars
    <2>3. ~spoilt'["KEY"] => ~spoilt["KEY"]
        BY <1>6, <2>2, Unspoilt DEF BeginsParsing
    <2> QED
        BY <2>1, <2>2, <2>3 DEF LatestKey, KeyParsed, KeyRead, KeySection
<1>7. CASE UNCHANGED vars
    BY <1>7 DEF vars, LatestKey, KeyParsed, KeyRead
<1> QED
    BY <1>1, <1>2, <1>3, <1>4, <1>5, <1>6, <1>7, NextCases

\* The invariant: unless the two threads met in its fields, a handler holds
\* the event that was parsed last until the renderer has acted on it.
THEOREM Inductive == Spec => []IInv
<1>1. Init => ParsesLatest /\ LatestMouse /\ LatestKey /\ KeysWereTyped /\ ModeWasTyped
    <2>1. "MOUSE" \in Device /\ "KEY" \in Device /\ Nothing.device = "none"
        BY EventDevices DEF Device
    <2> QED
        BY <2>1 DEF Init, ParsesLatest, LatestMouse, LatestKey, KeysWereTyped,
                    ModeWasTyped, NotParsing, Device, MouseSection
<1>2. /\ TypeOK /\ ParsesLatest /\ LatestMouse /\ LatestKey /\ KeysWereTyped
      /\ ModeWasTyped /\ [Next]_vars
      => ParsesLatest' /\ LatestMouse' /\ LatestKey' /\ KeysWereTyped' /\ ModeWasTyped'
    BY KeepsParsing, KeepsLatestMouse, KeepsLatestKey, KeepsTyped
<1>3. Spec => [](ParsesLatest /\ LatestMouse /\ LatestKey /\ KeysWereTyped /\ ModeWasTyped)
    BY <1>1, <1>2, TypeCorrect, PTL DEF Spec
<1> QED
    BY <1>3, TypeCorrect, PTL DEF IInv

\* What the renderer consumes it has seen, in a window of at most 256 pixels
\* (a larger one has coordinates that the handler does not understand:
\* CoordinateFallsShort).
THEOREM ConsumedWasSeen ==
    ASSUME Offset \subseteq 0..255
    PROVE  Spec => []ConsumedIsSeen
<1>1. IInv => ConsumedIsSeen
    <2> SUFFICES ASSUME IInv PROVE ConsumedIsSeen
        OBVIOUS
    <2> USE DEF IInv
    <2>1. ASSUME pc = "consumeMouse", ~spoilt["MOUSE"]
          PROVE  latest["MOUSE"] # Nothing /\ MouseIsSeen(latest["MOUSE"])
        <3> DEFINE e == latest["MOUSE"]
        <3>1. pc \in MouseSection
            BY <2>1 DEF MouseSection
        <3>2. e # Nothing
            BY <3>1 DEF LatestMouse
        <3>3. MouseRead(e)
            BY <2>1, <3>1, <3>2 DEF LatestMouse, MouseParsed
        <3>4. /\ seen.x = Coordinate(e.x) /\ seen.y = Coordinate(e.y)
              /\ ButtonFits(e, seen.button) /\ StateFits(e, seen.state)
            BY <2>1, <3>1, <3>3 DEF MouseRead
        <3>5. e \in Event
            BY <3>2 DEF TypeOK, Device
        <3>6. e.device = "MOUSE"
            BY <3>2 DEF ParsesLatest, Device
        <3>7. PICK m \in Mask, x \in Offset, y \in Offset : e = MouseEvent(m, x, y)
            BY <3>5, <3>6 DEF Event, EventOf, KeyEvent
        <3>8. e.x = Uint16(x) /\ e.y = Uint16(y)
            BY <3>7 DEF MouseEvent
        <3>9. x \in 0..255 /\ y \in 0..255
            OBVIOUS
        <3>10. [x |-> seen.x, y |-> seen.y] = Position(e)
            <4>1. seen.x = x /\ seen.y = y
                BY <3>4, <3>8, <3>9, SmallCoordinateExact
            <4>2. /\ Uint16(x)[1] * 256 + Uint16(x)[2] = x
                  /\ Uint16(y)[1] * 256 + Uint16(y)[2] = y
                BY <3>9, SmallCoordinateExact
            <4>3. Position(e) = [x |-> x, y |-> y]
                BY <3>8, <4>2, Zenon DEF Position
            <4> QED
                BY <4>1, <4>3
        <3> QED
            BY <3>2, <3>4, <3>10 DEF MouseIsSeen, ButtonFits, StateFits
    <2>2. ASSUME pc = "consumeKey", ~spoilt["KEY"] PROVE KeyIsSeen(latest["KEY"])
        <3> SUFFICES ASSUME NEW n \in {49, 50}, latest["KEY"] = KeyEvent(n)
                     PROVE  m_renderMode = n - 48
            BY DEF KeyIsSeen
        <3>1. latest["KEY"] # Nothing
            BY DEF KeyEvent, Nothing
        <3>2. pc \in KeySection \ {"keyState", "key"}
            BY <2>2 DEF KeySection
        <3>3. m_renderMode = ModeOf(KeyCode(KeyEvent(n).key), m_renderMode)
            BY <2>2, <3>1, <3>2 DEF LatestKey, KeyParsed, KeyRead
        <3>4. KeyCode(KeyEvent(n).key) = n
            BY OnlyDigitsAreDigits DEF KeyEvent
        <3> QED
            BY <3>3, <3>4 DEF ModeOf
    <2> QED
        BY <2>1, <2>2 DEF ConsumedIsSeen
<1> QED
    BY <1>1, Inductive, PTL
-----------------------------------------------------------------------------
\* The renderer has acted on a whole event.
MouseActedOn(e) ==
    /\ seen.x = Coordinate(e.x) /\ seen.y = Coordinate(e.y)
    /\ ButtonFits(e, seen.button) /\ StateFits(e, seen.state)
KeyActedOn(e) == m_renderMode = ModeOf(KeyCode(e.key), m_renderMode)

\* The event that was parsed last is not forgotten: the renderer will find
\* isRefresh raised for it, or has acted on it.
MouseRemembered ==
    /\ latest["MOUSE"] # Nothing /\ ~spoilt["MOUSE"]
    /\ parsing.event.device # "MOUSE"
    => mouse.isRefresh \/ MouseActedOn(latest["MOUSE"])
KeyRemembered ==
    /\ latest["KEY"] # Nothing /\ ~spoilt["KEY"]
    /\ parsing.event.device # "KEY"
    => keyboard.isRefresh \/ KeyActedOn(latest["KEY"])

\* A step that is neither the parser's nor the renderer's with this device.
LEMMA QuietRemembers ==
    ASSUME TypeOK, Track, NEW d \in Device,
           parsing'.event.device # d, parsing.event.device # d, ~spoilt'[d]
    PROVE  ~spoilt[d]
BY Unspoilt DEF BeginsParsing

\* Every step keeps the latest mouse event in mind.
LEMMA KeepsMouse ==
    ASSUME IInv, MouseRemembered, [Next]_vars
    PROVE  MouseRemembered'
<1> DEFINE e == latest["MOUSE"]
<1> "MOUSE" \in Device /\ "KEY" \in Device /\ Nothing.device = "none"
    BY EventDevices DEF Device
<1> USE DEF IInv
<1>1. ASSUME Track, UNCHANGED <<mouse, seen>>, latest'["MOUSE"] = e,
             parsing.event.device # "MOUSE"
      PROVE  MouseRemembered'
    BY <1>1, QuietRemembers DEF MouseRemembered, MouseActedOn
<1>2. ASSUME Elsewhere, Track PROVE MouseRemembered'
    BY <1>1, <1>2 DEF Elsewhere, on_open, on_close, OnStreamMessage, IoIdle, NotParsing,
                      HandlersOnly, renderVars
<1>3. ASSUME NEW f \in Event, OnEvent(f), Track PROVE MouseRemembered'
    <2>1. parsing'.event = f /\ parsing.event.device = "none"
          /\ latest' = [latest EXCEPT ![f.device] = f]
          /\ UNCHANGED <<mouse, seen>> /\ f.device \in Device
        BY <1>3, EventDevices DEF OnEvent, IoIdle, NotParsing, HandlersOnly, renderVars
    <2>2. CASE f.device = "MOUSE"
        BY <2>1, <2>2 DEF MouseRemembered
    <2>3. CASE f.device = "KEY"
        BY <1>1, <1>3, <2>1, <2>3 DEF TypeOK
    <2> QED
        BY <2>1, <2>2, <2>3 DEF Device
<1>4. ASSUME ParseMouse, Track PROVE MouseRemembered'
    <2>1. parsing.event.device = "MOUSE"
        BY <1>4 DEF ParseMouse
    <2>2. \A here, there : GoesOn(here, there) => parsing'.event = parsing.event
        BY GoingOn
    <2>3. CASE parsing'.event = parsing.event
        BY <2>1, <2>3 DEF MouseRemembered
    <2>4. CASE mouse' = [mouse EXCEPT !.isRefresh = TRUE]
        BY <2>4 DEF MouseRemembered, TypeOK, MouseFields
    <2> QED
        BY <1>4, <2>2, <2>3, <2>4 DEF ParseMouse
<1>5. ASSUME ParseKey, Track PROVE MouseRemembered'
    BY <1>1, <1>5 DEF ParseKey, renderVars
<1>6. ASSUME checkKeyboard, Track PROVE MouseRemembered'
    <2>1. UNCHANGED <<parsing, latest, mouse, seen>>
        BY <1>6 DEF checkKeyboard, ioVars
    <2> QED
        BY <1>1, <1>6, <2>1 DEF MouseRemembered
<1>7. ASSUME checkMouse, Track PROVE MouseRemembered'
    <2>1. UNCHANGED <<parsing, latest>>
        BY <1>7 DEF checkMouse, ioVars
    <2> SUFFICES ASSUME e # Nothing, ~spoilt'["MOUSE"], parsing.event.device # "MOUSE"
                 PROVE  mouse'.isRefresh \/ MouseActedOn(e)'
        BY <2>1 DEF MouseRemembered
    <2>2. ~spoilt["MOUSE"]
        BY <1>7, <2>1, QuietRemembers
    <2>3. MouseRead(e) /\ (mouse.isRefresh \/ MouseActedOn(e))
        BY <2>2 DEF LatestMouse, MouseRemembered
    <2>4. CASE pc = "consumeMouse"
        <3>1. MouseActedOn(e) /\ UNCHANGED seen
            BY <1>7, <2>3, <2>4 DEF MouseRead, MouseActedOn, MouseSection, checkMouse, MovesTo
        <3> QED
            BY <2>1, <3>1 DEF MouseActedOn
    <2>5. CASE pc = "checkMouse"
        <3>1. UNCHANGED <<mouse, seen>>
            BY <1>7, <2>5 DEF checkMouse, MovesTo
        <3> QED
            BY <2>1, <2>3, <3>1 DEF MouseActedOn
    <2>6. CASE pc \in MouseSection \ {"consumeMouse"}
        <3>1. mouse.isRefresh
            BY <2>3, <2>6 DEF MouseRead
        <3>2. mouse'.isRefresh = mouse.isRefresh
            BY <1>7, <2>6 DEF checkMouse, MovesTo, MouseSection, TypeOK, MouseFields
        <3> QED
            BY <3>1, <3>2
    <2> QED
        BY <1>7, <2>4, <2>5, <2>6 DEF checkMouse, MovesTo, MouseSection
<1>8. CASE UNCHANGED vars
    BY <1>8 DEF vars, MouseRemembered, MouseActedOn
<1> QED
    BY <1>2, <1>3, <1>4, <1>5, <1>6, <1>7, <1>8, NextCases

\* Every step keeps the latest key event in mind.
LEMMA KeepsKey ==
    ASSUME IInv, KeyRemembered, [Next]_vars
    PROVE  KeyRemembered'
<1> DEFINE e == latest["KEY"]
<1> "MOUSE" \in Device /\ "KEY" \in Device /\ Nothing.device = "none"
    BY EventDevices DEF Device
<1> USE DEF IInv
<1>1. ASSUME Track, UNCHANGED <<keyboard, m_renderMode>>, latest'["KEY"] = e,
             parsing.event.device # "KEY"
      PROVE  KeyRemembered'
    BY <1>1, QuietRemembers DEF KeyRemembered, KeyActedOn
<1>2. ASSUME Elsewhere, Track PROVE KeyRemembered'
    BY <1>1, <1>2 DEF Elsewhere, on_open, on_close, OnStreamMessage, IoIdle, NotParsing,
                      HandlersOnly, renderVars
<1>3. ASSUME NEW f \in Event, OnEvent(f), Track PROVE KeyRemembered'
    <2>1. parsing'.event = f /\ parsing.event.device = "none"
          /\ latest' = [latest EXCEPT ![f.device] = f]
          /\ UNCHANGED <<keyboard, m_renderMode>> /\ f.device \in Device
        BY <1>3, EventDevices DEF OnEvent, IoIdle, NotParsing, HandlersOnly, renderVars
    <2>2. CASE f.device = "KEY"
        BY <2>1, <2>2 DEF KeyRemembered
    <2>3. CASE f.device = "MOUSE"
        BY <1>1, <1>3, <2>1, <2>3 DEF TypeOK
    <2> QED
        BY <2>1, <2>2, <2>3 DEF Device
<1>4. ASSUME ParseKey, Track PROVE KeyRemembered'
    <2>1. parsing.event.device = "KEY"
        BY <1>4 DEF ParseKey
    <2>2. \A here, there : GoesOn(here, there) => parsing'.event = parsing.event
        BY GoingOn
    <2>3. CASE parsing'.event = parsing.event
        BY <2>1, <2>3 DEF KeyRemembered
    <2>4. CASE Refreshed
        BY <2>4 DEF Refreshed, KeyRemembered, TypeOK, KeyboardFields
    <2> QED
        BY <1>4, <2>2, <2>3, <2>4 DEF ParseKey
<1>5. ASSUME ParseMouse, Track PROVE KeyRemembered'
    BY <1>1, <1>5 DEF ParseMouse, renderVars
<1>6. ASSUME checkMouse, Track PROVE KeyRemembered'
    <2>1. UNCHANGED <<parsing, latest, keyboard, m_renderMode>>
        BY <1>6 DEF checkMouse, ioVars
    <2> QED
        BY <1>1, <1>6, <2>1 DEF KeyRemembered
<1>7. ASSUME checkKeyboard, Track PROVE KeyRemembered'
    <2>1. UNCHANGED <<parsing, latest>>
        BY <1>7 DEF checkKeyboard, ioVars
    <2> SUFFICES ASSUME e # Nothing, ~spoilt'["KEY"], parsing.event.device # "KEY"
                 PROVE  keyboard'.isRefresh \/ KeyActedOn(e)'
        BY <2>1 DEF KeyRemembered
    <2>2. ~spoilt["KEY"]
        BY <1>7, <2>1, QuietRemembers
    <2>3. KeyRead(e) /\ (keyboard.isRefresh \/ KeyActedOn(e))
        BY <2>2 DEF LatestKey, KeyRemembered
    <2>4. CASE pc = "consumeKey"
        <3>1. KeyActedOn(e) /\ UNCHANGED m_renderMode
            BY <1>7, <2>3, <2>4 DEF KeyRead, KeyActedOn, KeySection, checkKeyboard, MovesTo
        <3> QED
            BY <2>1, <3>1 DEF KeyActedOn
    <2>5. CASE pc = "checkKeyboard"
        <3>1. UNCHANGED <<keyboard, m_renderMode>>
            BY <1>7, <2>5 DEF checkKeyboard, MovesTo
        <3> QED
            BY <2>1, <2>3, <3>1 DEF KeyActedOn
    <2>6. CASE pc \in KeySection \ {"consumeKey"}
        <3>1. keyboard.isRefresh
            BY <2>3, <2>6 DEF KeyRead
        <3>2. keyboard'.isRefresh = keyboard.isRefresh
            BY <1>7, <2>6 DEF checkKeyboard, MovesTo, KeySection, TypeOK, KeyboardFields
        <3> QED
            BY <3>1, <3>2
    <2> QED
        BY <1>7, <2>4, <2>5, <2>6 DEF checkKeyboard, MovesTo, KeySection
<1>8. CASE UNCHANGED vars
    BY <1>8 DEF vars, KeyRemembered, KeyActedOn
<1> QED
    BY <1>2, <1>3, <1>4, <1>5, <1>6, <1>7, <1>8, NextCases

\* Of each device the event that was parsed last is being parsed, waits for
\* the renderer or has been acted on, unless the threads met in its handler:
\* the safety half of LastDigitShows, for both devices.
THEOREM LatestIsRemembered == Spec => [](MouseRemembered /\ KeyRemembered)
<1>1. Init => MouseRemembered /\ KeyRemembered
    BY DEF Init, MouseRemembered, KeyRemembered, Device
<1>2. IInv /\ MouseRemembered /\ KeyRemembered /\ [Next]_vars
          => MouseRemembered' /\ KeyRemembered'
    BY KeepsMouse, KeepsKey
<1> QED
    BY <1>1, <1>2, Inductive, PTL DEF Spec
=============================================================================
