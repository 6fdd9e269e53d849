----------------------------- MODULE WireProofs -----------------------------
(* What a coordinate and a key become on the way from the page's listener  *)
(* to the server's handler, for every value.                               *)
EXTENDS Wire, TLAPS

LEMMA DivMod ==
    ASSUME NEW n \in Nat
    PROVE  /\ n = 256 * (n \div 256) + (n % 256)
           /\ n % 256 \in 0..255
           /\ n \div 256 \in Nat
BY SMT

\* The page packs a coordinate in base 256 and the server unpacks it in base
\* 255: what arrives falls short by one for each 256, and is exact only
\* below that (bytes.js:34, cMouseEventHandler.h:80).
THEOREM CoordinateFallsShort ==
    ASSUME NEW n \in Nat, n < 65536
    PROVE  Coordinate(Uint16(n)) = n - (n \div 256)
<1>1. n \div 256 < 256
    BY SMT
<1>2. (n \div 256) % 256 = n \div 256
    BY <1>1, DivMod, SMT
<1> QED
    BY <1>2, DivMod, SMT DEF Coordinate, Uint16

LEMMA SmallCoordinateExact ==
    ASSUME NEW n \in 0..255
    PROVE  Coordinate(Uint16(n)) = n /\ Uint16(n)[1] * 256 + Uint16(n)[2] = n
BY SMT DEF Coordinate, Uint16

LEMMA CoordinateInt ==
    ASSUME NEW n \in Nat
    PROVE  Coordinate(Uint16(n)) \in Int
BY SMT DEF Coordinate, Uint16

LEMMA KeyCodeNat ==
    ASSUME NEW n \in Nat
    PROVE  KeyCode(Uint32(n)) \in Nat
<1> DEFINE b == Uint32(n)
<1>1. b[1] \in Nat /\ b[2] \in Nat /\ b[3] \in Nat /\ b[4] \in Nat
    BY SMT DEF Uint32
<1> HIDE DEF b
<1>2. KeyCode(b) \in Nat
    BY <1>1, SMT DEF KeyCode
<1> QED
    BY <1>2 DEF b

\* A key beyond one byte is mangled, but never into a character below 255.
LEMMA LargeKeysStayLarge ==
    ASSUME NEW n \in Nat, n > 255, n < 16777216
    PROVE  KeyCode(Uint32(n)) >= 255
<1>1. Uint32(n)[3] >= 1 \/ Uint32(n)[2] >= 1
    <2>1. CASE n < 65536
        <3>1. n \div 256 >= 1 /\ n \div 256 < 256
            BY <2>1, SMT
        <3>2. (n \div 256) % 256 = n \div 256
            BY <3>1, DivMod, SMT
        <3> QED
            BY <3>1, <3>2, SMT DEF Uint32
    <2>2. CASE n >= 65536
        <3>1. n \div 65536 >= 1 /\ n \div 65536 < 256 /\ n \div 65536 \in Nat
            BY <2>2, SMT
        <3>2. (n \div 65536) % 256 = n \div 65536
            BY <3>1, SMT
        <3> QED
            BY <3>1, <3>2, SMT DEF Uint32
    <2> QED
        BY <2>1, <2>2, SMT
<1> DEFINE b == Uint32(n)
<1>2. b[1] \in Nat /\ b[2] \in Nat /\ b[3] \in Nat /\ b[4] \in Nat
    BY SMT DEF Uint32
<1>3. b[3] >= 1 \/ b[2] >= 1
    BY <1>1
<1> HIDE DEF b
<1>4. KeyCode(b) >= 255
    BY <1>2, <1>3, SMT DEF KeyCode
<1> QED
    BY <1>4, SMT DEF b

LEMMA SmallKeysExact ==
    ASSUME NEW n \in 0..255
    PROVE  KeyCode(Uint32(n)) = n
BY SMT DEF KeyCode, Uint32

\* Of all the characters that can be typed, the server takes '2' only for '2'
\* and '1' only for '1', and it takes these for themselves.
THEOREM OnlyDigitsAreDigits ==
    ASSUME NEW n \in Nat, n < 1114112, NEW d \in {49, 50}
    PROVE  KeyCode(Uint32(getKey(n))) = d <=> n = d
<1> DEFINE Special == {8, 9, 13, 16, 17, 46}
<1>1. n <= 255 /\ n \notin Special => getKey(n) \in 0..255
    BY SMT DEF getKey
<1>2. n > 255 \/ n \in Special =>
          getKey(n) \in Nat /\ getKey(n) > 255 /\ getKey(n) < 16777216
    <2>1. n > 255 => getKey(n) = n
        BY SMT DEF getKey
    <2>2. n \in Special => getKey(n) \in {65288, 65289, 65293, 65505, 65507, 65535}
        BY SMT DEF getKey
    <2> QED
        BY <2>1, <2>2, SMT
<1>3. getKey(n) = d <=> n = d
    BY SMT DEF getKey
<1> HIDE DEF Special
<1>4. CASE n <= 255 /\ n \notin Special
    <2>1. KeyCode(Uint32(getKey(n))) = getKey(n)
        BY <1>1, <1>4, SmallKeysExact, SMT
    <2> QED
        BY <2>1, <1>3, SMT
<1>5. CASE n > 255 \/ n \in Special
    <2>1. KeyCode(Uint32(getKey(n))) >= 255
        BY <1>2, <1>5, LargeKeysStayLarge, SMT
    <2>2. n # d
        BY <1>5, SMT DEF Special
    <2> QED
        BY <2>1, <2>2, SMT
<1>6. n <= 255 \/ n > 255
    BY SMT
<1> QED
    BY <1>4, <1>5, <1>6

\* Where the pointer goes in the window: it never arrives on the wrong side of
\* another place, and of two places exactly the last of one block of 256 and
\* the first of the next become one (cMouseEventHandler.h:80).
THEOREM CoordinatesKeepOrder ==
    ASSUME NEW m \in Nat, NEW n \in Nat, m < n, n < 65536
    PROVE  /\ Coordinate(Uint16(m)) <= Coordinate(Uint16(n))
           /\ Coordinate(Uint16(m)) = Coordinate(Uint16(n))
                  <=> n = m + 1 /\ n % 256 = 0
<1> DEFINE a == m \div 256
           b == n \div 256
           r == m % 256
           s == n % 256
<1>1. /\ m = 256 * a + r /\ a \in Nat /\ r \in 0..255
      /\ n = 256 * b + s /\ b \in Nat /\ s \in 0..255
    BY DivMod
<1>2. Coordinate(Uint16(m)) = m - a /\ Coordinate(Uint16(n)) = n - b
    BY CoordinateFallsShort
<1> HIDE DEF a, b, r, s
<1>3. a <= b
    BY <1>1, SMT
<1>4. CASE a = b
    BY <1>1, <1>2, <1>4, SMT DEF s
<1>5. CASE a < b
    <2>1. n - b - (m - a) = 255 * (b - a) + s - r
        BY <1>1, SMT
    <2>2. n - b - (m - a) >= 0
        BY <1>1, <1>5, <2>1, SMT
    <2>3. n - b = m - a <=> b = a + 1 /\ s = 0 /\ r = 255
        BY <1>1, <1>5, <2>1, SMT
    <2>4. b = a + 1 /\ s = 0 /\ r = 255 <=> n = m + 1 /\ s = 0
        BY <1>1, <1>5, SMT
    <2> QED
        BY <1>1, <1>2, <2>2, <2>3, <2>4, SMT DEF s
<1> QED
    BY <1>1, <1>3, <1>4, <1>5, SMT
=============================================================================
