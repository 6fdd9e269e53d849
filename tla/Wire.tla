-------------------------------- MODULE Wire --------------------------------
(***************************************************************************)
(* The events that a page sends to the server, and what becomes of a key   *)
(* and of a coordinate on the way: the listener translates the key         *)
(* (getKey), the number is packed into bytes (bytes.js), and parse() of    *)
(* cMouseHandler and cKeyboardHandler reads it back.                       *)
(***************************************************************************)
EXTENDS Integers

CONSTANTS
    Offset,  \* the coordinates that the pointer takes
    Char     \* the characters that are typed, by KeyboardEvent.which

ASSUME OffsetAssumption == \A n \in Offset : n \in Nat /\ n < 65536
ASSUME CharAssumption == \A n \in Char : n \in Nat /\ n < 1114112

\* DataView.setUint16 and setUint32, big-endian.
Uint16(n) == <<(n \div 256) % 256, n % 256>>
Uint32(n) == <<(n \div 16777216) % 256, (n \div 65536) % 256,
               (n \div 256) % 256, n % 256>>

\* The keysym for the character of a keypress.
getKey(n) ==
    CASE n = 8 -> 65288    \* backspace
      [] n = 9 -> 65289    \* tab
      [] n = 13 -> 65293   \* return
      [] n = 16 -> 65505   \* shift
      [] n = 17 -> 65507   \* ctrl
      [] n = 46 -> 65535   \* delete
      [] n = 219 -> 91     \* left square bracket
      [] n = 220 -> 92     \* backslash
      [] n = 221 -> 93     \* right square bracket
      [] n = 222 -> 39     \* quote
      [] n = 187 -> 43     \* plus
      [] n = 188 -> 44     \* comma
      [] n = 189 -> 45     \* minus
      [] n = 190 -> 46     \* period
      [] n = 191 -> 47     \* slash
      [] n = 186 -> 58     \* colon
      [] OTHER -> n

\* cMouseHandler::parse.
Coordinate(b) == b[1] * 255 + b[2]

\* Mutant: only the last byte is looked at.
KeyCode_low(b) == b[4]
\* cKeyboardHandler::parse.
KeyCode(b) == b[1] * 255 + b[2] * 255 + b[3] * 255 + b[4]

\* A button mask is a set of bits: 1 to 3 are buttons, 4 and 5 the wheel.
Masks == SUBSET (1..5)

\* doMouseEvent and doKeyEvent.
MouseEvent(mask, x, y) ==
    [device |-> "MOUSE", mask |-> mask, x |-> Uint16(x), y |-> Uint16(y)]
KeyEvent(n) == [device |-> "KEY", key |-> Uint32(getKey(n))]

EventOf(masks) ==
    {MouseEvent(m, x, y) : m \in masks, x \in Offset, y \in Offset}
        \cup {KeyEvent(n) : n \in Char}
=============================================================================
