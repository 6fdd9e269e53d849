------------------------- MODULE PeripheralsProofs -------------------------
(* The invariants of the page's listeners, for every mouse, every set of   *)
(* coordinates and every set of characters.                                *)
EXTENDS Peripherals, TLAPS

LEMMA EventsAreEvents ==
    /\ \A mask \in Masks, x, y \in Offset : MouseEvent(mask, x, y) \in EventOf(Masks)
    /\ \A n \in Char : KeyEvent(n) \in EventOf(Masks)
BY DEF EventOf

LEMMA ToggledMask ==
    ASSUME buttonMask \in Masks, NEW b \in Button
    PROVE  /\ Toggled(b) \in Masks
           /\ \A c : c \in Toggled(b) <=> IF c = b /\ b \in 1..3
                                          THEN c \notin buttonMask
                                          ELSE c \in buttonMask
<1>1. CASE b \in 1..3
    <2>1. {b} \cap (1..3) = {b}
        BY <1>1
    <2>2. Toggled(b) = (buttonMask \ {b}) \cup ({b} \ buttonMask)
        BY <2>1 DEF Toggled
    <2>3. b \in 1..5
        BY <1>1
    <2> QED
        BY <1>1, <2>2, <2>3 DEF Masks
<1>2. CASE b \notin 1..3
    <2>1. {b} \cap (1..3) = {}
        BY <1>2
    <2>2. Toggled(b) = buttonMask
        BY <2>1 DEF Toggled
    <2> QED
        BY <1>2, <2>2
<1> QED
    BY <1>1, <1>2

\* Type correctness of the listeners (peripherals.js): the mask has no bits
\* but those of the buttons and the wheel, and what is sent is an event.
THEOREM TypeCorrect == Spec => []TypeOK
<1>1. Init => TypeOK
    BY DEF Init, TypeOK, Masks
<1>2. TypeOK /\ [Next]_vars => TypeOK'
    <2> SUFFICES ASSUME TypeOK, [Next]_vars PROVE TypeOK'
        OBVIOUS
    <2> USE DEF TypeOK, pointerVars
    <2>1. CASE SocketChanges
        BY <2>1 DEF SocketChanges
    <2>2. ASSUME NEW b \in Button, mouseDownHandler(b) PROVE TypeOK'
        <3>1. CASE over
            <4>1. buttonMask' \in Masks
                BY <2>2, <3>1, ToggledMask DEF mouseDownHandler
            <4>2. PICK x, y \in Offset : sendBytes(<<MouseEvent(buttonMask', x, y)>>)
                BY <2>2, <3>1 DEF mouseDownHandler
            <4>3. sent' \in Seq(EventOf(Masks)) /\ UNCHANGED readyState
                BY <4>1, <4>2, EventsAreEvents DEF sendBytes
            <4> QED
                BY <2>2, <4>1, <4>3 DEF mouseDownHandler
        <3>2. CASE ~over
            BY <2>2, <3>2 DEF mouseDownHandler, sendBytes
        <3> QED BY <3>1, <3>2
    <2>3. ASSUME NEW b \in Button, mouseUpHandler(b) PROVE TypeOK'
        <3>1. CASE over
            <4>1. buttonMask' \in Masks
                BY <2>3, <3>1, ToggledMask DEF mouseUpHandler, UpMask
            <4>2. PICK x, y \in Offset : sendBytes(<<MouseEvent(buttonMask', x, y)>>)
                BY <2>3, <3>1 DEF mouseUpHandler
            <4>3. sent' \in Seq(EventOf(Masks)) /\ UNCHANGED readyState
                BY <4>1, <4>2, EventsAreEvents DEF sendBytes
            <4> QED
                BY <2>3, <4>1, <4>3 DEF mouseUpHandler
        <3>2. CASE ~over
            BY <2>3, <3>2 DEF mouseUpHandler, sendBytes
        <3> QED BY <3>1, <3>2
    <2>4. CASE mouseMoveHandler
        BY <2>4, EventsAreEvents DEF mouseMoveHandler, sendBytes
    <2>5. CASE mouseWheelHandler
        <3>1. PICK bit \in {4, 5}, x \in Offset, y \in Offset :
                  LET down == buttonMask \cup {bit}
                      up == down \ {bit}
                  IN /\ buttonMask' = up
                     /\ sendBytes(<<MouseEvent(down, x, y), MouseEvent(up, x, y)>>)
            BY <2>5 DEF mouseWheelHandler, Unset
        <3>2. /\ buttonMask \cup {bit} \in Masks
              /\ (buttonMask \cup {bit}) \ {bit} \in Masks
            BY DEF Masks
        <3>3. sent' \in Seq(EventOf(Masks))
            BY <3>1, <3>2, EventsAreEvents DEF sendBytes
        <3> QED
            BY <2>5, <3>1, <3>2, <3>3 DEF mouseWheelHandler, sendBytes
    <2>6. CASE mouseOutHandler
        <3>1. {} \in Masks
            BY DEF Masks
        <3>2. sent' = <<>> /\ UNCHANGED readyState
            BY <2>6 DEF mouseOutHandler, sendBytes
        <3>3. sent' \in Seq(EventOf(Masks))
            BY <3>2
        <3>4. /\ buttonMask' \in Masks
              /\ over' \in BOOLEAN
              /\ pressed' \subseteq Button
              /\ carried' \subseteq Button
            BY <2>6, <3>1 DEF mouseOutHandler
        <3> QED
            BY <3>2, <3>3, <3>4
    <2>7. CASE PointerEnters
        BY <2>7 DEF PointerEnters, sendBytes
    <2>8. CASE keyDownHandler
        BY <2>8, EventsAreEvents DEF keyDownHandler, sendBytes
    <2>9. CASE UNCHANGED vars
        BY <2>9 DEF vars
    <2> QED
        BY <2>1, <2>2, <2>3, <2>4, <2>5, <2>6, <2>7, <2>8, <2>9 DEF Next
<1> QED
    BY <1>1, <1>2, PTL DEF Spec

\* The mask is wrong about the buttons carried over the border, and no others.
THEOREM OnlyCarriedIsInverted == Spec => []MaskOffByCarried
<1>1. Init => MaskOffByCarried
    BY DEF Init, MaskOffByCarried
<1>2. TypeOK /\ MaskOffByCarried /\ [Next]_vars => MaskOffByCarried'
    <2> SUFFICES ASSUME TypeOK, MaskOffByCarried, [Next]_vars
                 PROVE  MaskOffByCarried'
        OBVIOUS
    <2> USE DEF MaskOffByCarried, pointerVars
    <2>1. CASE SocketChanges
        BY <2>1 DEF SocketChanges
    <2>2. ASSUME NEW b \in Button, mouseDownHandler(b) PROVE MaskOffByCarried'
        BY <2>2, ToggledMask DEF mouseDownHandler, TypeOK
    <2>3. ASSUME NEW b \in Button, mouseUpHandler(b) PROVE MaskOffByCarried'
        BY <2>3, ToggledMask DEF mouseUpHandler, UpMask, TypeOK
    <2>4. CASE mouseMoveHandler
        BY <2>4 DEF mouseMoveHandler
    <2>5. CASE mouseWheelHandler
        <3>1. \A b \in 1..3 : b \in buttonMask' <=> b \in buttonMask
            BY <2>5 DEF mouseWheelHandler, Unset
        <3> QED
            BY <2>5, <3>1 DEF mouseWheelHandler
    <2>6. CASE mouseOutHandler
        BY <2>6 DEF mouseOutHandler
    <2>7. CASE PointerEnters
        BY <2>7 DEF PointerEnters
    <2>8. CASE keyDownHandler
        BY <2>8 DEF keyDownHandler
    <2>9. CASE UNCHANGED vars
        BY <2>9 DEF vars
    <2> QED
        BY <2>1, <2>2, <2>3, <2>4, <2>5, <2>6, <2>7, <2>8, <2>9 DEF Next
<1> QED
    BY <1>1, <1>2, TypeCorrect, PTL DEF Spec

LEMMA LastOfOne ==
    ASSUME NEW e PROVE Len(<<e>>) = 1 /\ <<e>>[1] = e
OBVIOUS

\* No event but the first of a turn of the wheel has a bit of the wheel.
THEOREM NoWheelButTheFirst == Spec => []WheelIsReleased
<1>1. Init => WheelIsReleased
    BY DEF Init, WheelIsReleased
<1>2. TypeOK /\ WheelIsReleased /\ [Next]_vars => WheelIsReleased'
    <2> SUFFICES ASSUME TypeOK, WheelIsReleased, [Next]_vars
                 PROVE  WheelIsReleased'
        OBVIOUS
    <2> DEFINE Quiet == buttonMask' \subseteq 1..3 /\ sent' = <<>>
               Tells(e) == /\ buttonMask' \subseteq 1..3
                           /\ sendBytes(<<e>>)
                           /\ e.device = "MOUSE" => e.mask = buttonMask'
    <2>1. ASSUME Quiet PROVE WheelIsReleased'
        BY <2>1 DEF WheelIsReleased
    <2>2. ASSUME NEW e, Tells(e) PROVE WheelIsReleased'
        BY <2>2, LastOfOne DEF WheelIsReleased, sendBytes
    <2>3. buttonMask \subseteq 1..3
        BY DEF WheelIsReleased
    <2>4. ASSUME NEW b \in Button PROVE Toggled(b) \subseteq 1..3
        BY <2>3 DEF Toggled
    <2>5. CASE SocketChanges
        BY <2>1, <2>3, <2>5 DEF SocketChanges
    <2>6. ASSUME NEW b \in Button, mouseDownHandler(b) \/ mouseUpHandler(b)
          PROVE  WheelIsReleased'
        <3>1. CASE over
            <4>1. buttonMask' = Toggled(b)
                BY <2>6, <3>1 DEF mouseDownHandler, mouseUpHandler, UpMask
            <4>2. PICK x, y \in Offset : sendBytes(<<MouseEvent(buttonMask', x, y)>>)
                BY <2>6, <3>1 DEF mouseDownHandler, mouseUpHandler
            <4>3. Tells(MouseEvent(buttonMask', x, y))
                BY <2>4, <4>1, <4>2 DEF MouseEvent
            <4> QED
                BY <2>2, <4>3
        <3>2. CASE ~over
            BY <2>1, <2>3, <2>6, <3>2 DEF mouseDownHandler, mouseUpHandler, sendBytes
        <3> QED BY <3>1, <3>2
    <2>7. CASE mouseMoveHandler
        <3>1. PICK x, y \in Offset : sendBytes(<<MouseEvent(buttonMask, x, y)>>)
            BY <2>7 DEF mouseMoveHandler
        <3>2. Tells(MouseEvent(buttonMask, x, y))
            BY <2>3, <2>7, <3>1 DEF mouseMoveHandler, MouseEvent
        <3> QED
            BY <2>2, <3>2
    <2>8. CASE mouseWheelHandler
        <3>1. PICK bit \in {4, 5}, x \in Offset, y \in Offset :
                  LET down == buttonMask \cup {bit}
                      up == down \ {bit}
                  IN /\ buttonMask' = up
                     /\ sendBytes(<<MouseEvent(down, x, y), MouseEvent(up, x, y)>>)
            BY <2>8 DEF mouseWheelHandler, Unset
        <3> DEFINE first == MouseEvent(buttonMask \cup {bit}, x, y)
                   second == MouseEvent(buttonMask', x, y)
        <3>2. buttonMask' \subseteq 1..3
            BY <2>3, <3>1
        <3>3. sent' = <<>> \/ sent' = <<first, second>>
            BY <3>1 DEF sendBytes
        <3>4. second.mask = buttonMask'
            BY DEF MouseEvent
        <3>5. ASSUME sent' = <<first, second>> PROVE sent'[Len(sent')] = second
            <4> HIDE DEF first, second
            <4> QED BY <3>5
        <3> QED
            BY <3>2, <3>3, <3>4, <3>5 DEF WheelIsReleased
    <2>9. CASE mouseOutHandler
        BY <2>1, <2>9 DEF mouseOutHandler, sendBytes
    <2>10. CASE PointerEnters
        BY <2>1, <2>3, <2>10 DEF PointerEnters, sendBytes
    <2>11. CASE keyDownHandler
        <3>1. PICK n \in Char : sendBytes(<<KeyEvent(n)>>)
            BY <2>11 DEF keyDownHandler
        <3>2. Tells(KeyEvent(n))
            BY <2>3, <2>11, <3>1 DEF keyDownHandler, KeyEvent
        <3> QED
            BY <2>2, <3>2
    <2>12. CASE UNCHANGED vars
        BY <2>12 DEF vars, WheelIsReleased
    <2> QED
        BY <2>5, <2>6, <2>7, <2>8, <2>9, <2>10, <2>11, <2>12 DEF Next
<1> QED
    BY <1>1, <1>2, TypeCorrect, PTL DEF Spec
=============================================================================
