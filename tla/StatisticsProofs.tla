-------------------------- MODULE StatisticsProofs --------------------------
(* The invariants of the network statistics, for every interval, every     *)
(* sample and any number of frames and clicks.                             *)
EXTENDS Statistics, TLAPS

\* A sample is no idle io thread, and remains a sample as it is added.
LEMMA Samples ==
    /\ IoIdle \notin Sample /\ IoIdle.at = "idle"
    /\ \A s \in Sample : s.at \in IoAt /\ s.at # "idle"
    /\ \A s \in Sample, at \in IoAt, old \in Nat :
           /\ [s EXCEPT !.at = at, !.old = old] \in Sample
           /\ [s EXCEPT !.at = at] \in Sample
    /\ \A at \in IoAt, v \in Nat, f \in Nat, since \in Nat, old \in Nat :
           Adding(at, v, f, since, old) \in Sample
BY DEF IoIdle, Sample, IoAt, Adding

\* What a sample is about does not change.
LEMMA SamplesKept ==
    \A s \in Sample, at \in IoAt, old \in Nat :
        /\ [s EXCEPT !.at = at, !.old = old].answers = s.answers
        /\ [s EXCEPT !.at = at, !.old = old].since = s.since
        /\ [s EXCEPT !.at = at].answers = s.answers
        /\ [s EXCEPT !.at = at].since = s.since
BY DEF Sample

\* An element is put behind a queue of elements of any set S.
LEMMA Queue ==
    ASSUME NEW S, NEW q \in Seq(S), NEW e \in S
    PROVE  /\ Append(q, e) \in Seq(S)
           /\ Len(Append(q, e)) = Len(q) + 1
           /\ Append(q, e) # <<>>
           /\ q = <<>> => Head(Append(q, e)) = e
           /\ q # <<>> => Head(Append(q, e)) = Head(q)
OBVIOUS

\* Its first element and the rest.
LEMMA QueueHead ==
    ASSUME NEW S, NEW q \in Seq(S), q # <<>>
    PROVE  Head(q) \in S /\ Tail(q) \in Seq(S) /\ Len(Tail(q)) = Len(q) - 1
OBVIOUS

\* A queue without elements.
LEMMA EmptyQueue ==
    ASSUME NEW S, NEW q \in Seq(S)
    PROVE  Len(q) \in Nat /\ (q = <<>> <=> Len(q) = 0)
OBVIOUS

\* One message.
LEMMA SingleMessage ==
    ASSUME NEW S, NEW q \in Seq(S), Len(q) = 1
    PROVE  Tail(q) = <<>>
<1>1. q # <<>>
    BY EmptyQueue
<1>2. Tail(q) \in Seq(S) /\ Len(Tail(q)) = 0
    BY <1>1, QueueHead
<1> QED
    BY <1>2, EmptyQueue, Zenon

\* At most one of two numbers, and it is there.
LEMMA OneOfTwo ==
    \A a, b \in Nat : (a + b <= 1 \/ b + a <= 1) /\ a > 0 => a = 1 /\ b = 0
OBVIOUS

\* The pipes, which carry numbers of frames.
LEMMA Pipes ==
    ASSUME NEW q \in Seq(Nat)
    PROVE  /\ Len(q) \in Nat /\ (q = <<>> <=> Len(q) = 0)
           /\ q # <<>> => /\ Head(q) \in Nat /\ Tail(q) \in Seq(Nat)
                          /\ Len(Tail(q)) = Len(q) - 1
           /\ Len(q) = 1 => Tail(q) = <<>>
           /\ \A e \in Nat : /\ Append(q, e) \in Seq(Nat)
                             /\ Len(Append(q, e)) = Len(q) + 1
                             /\ Append(q, e) # <<>>
                             /\ q = <<>> => Head(Append(q, e)) = e
                             /\ q # <<>> => Head(Append(q, e)) = Head(q)
<1>1. Len(q) \in Nat /\ (q = <<>> <=> Len(q) = 0)
    BY EmptyQueue, Zenon
<1>2. q # <<>> => /\ Head(q) \in Nat /\ Tail(q) \in Seq(Nat)
                  /\ Len(Tail(q)) = Len(q) - 1
    BY QueueHead, Zenon
<1>3. Len(q) = 1 => Tail(q) = <<>>
    BY SingleMessage, Zenon
<1>4. ASSUME NEW e \in Nat
      PROVE  /\ Append(q, e) \in Seq(Nat)
             /\ Len(Append(q, e)) = Len(q) + 1
             /\ Append(q, e) # <<>>
             /\ q = <<>> => Head(Append(q, e)) = e
             /\ q # <<>> => Head(Append(q, e)) = Head(q)
    BY <1>4, Queue, Zenon
<1> QED
    BY <1>1, <1>2, <1>3, <1>4, Zenon

\* Sums are numbers.
LEMMA SumsAreNat == \A a, b \in Nat : a + b \in Nat /\ a + 1 \in Nat
OBVIOUS

\* The types.
LEMMA TypeStep ==
    ASSUME TypeOK, [Next]_vars
    PROVE  TypeOK'
<1> USE IntervalAssumption, BoundAssumption DEF TypeOK, RenderAt, Updating
<1>1. ASSUME Click PROVE TypeOK'
    <2>2. toServer' \in Seq(Nat)
        BY <1>1, Pipes DEF Click
    <2> QED
        BY <1>1, <2>2 DEF Click, statsVars, clockVars, pageVars, historyVars
<1>2. ASSUME Answer PROVE TypeOK'
    BY <1>2, Pipes DEF Answer, statsVars, clockVars, pageVars, historyVars
<1>3. ASSUME Tick PROVE TypeOK'
    BY <1>3 DEF Tick, statsVars, clockVars, pageVars, historyVars
<1>4. ASSUME LoadX PROVE TypeOK'
    BY <1>4, Samples DEF LoadX, IoAt, statsVars, clockVars, pageVars, historyVars
<1>5. ASSUME StoreX PROVE TypeOK'
    <2>1. io \in Sample
        BY <1>5, Samples DEF StoreX
    <2>2. io.old + io.v \in Nat
        BY <2>1 DEF Sample
    <2> QED
        BY <1>5, <2>1, <2>2, Samples DEF StoreX, Sum, IoAt, statsVars, clockVars, pageVars, historyVars
<1>6. ASSUME LoadN PROVE TypeOK'
    BY <1>6, Samples DEF LoadN, IoAt, statsVars, clockVars, pageVars, historyVars
<1>7. ASSUME StoreN PROVE TypeOK'
    <2>1. io \in Sample
        BY <1>7, Samples DEF StoreN
    <2>2. io.old \in Nat /\ io.v \in Nat
        BY <2>1 DEF Sample
    <2>3. n' \in Nat /\ sum' \in Nat /\ count' \in Nat
        <3>1. n' = io.old + 1 /\ sum' = sum + io.v /\ count' = count + 1
            BY <1>7, Zenon DEF StoreN
        <3>2. sum \in Nat /\ count \in Nat
            BY Zenon
        <3> QED
            BY <2>2, <3>1, <3>2, SumsAreNat, Zenon
    <2>4. io' = IoIdle /\ needMoreFrames' \in BOOLEAN
        BY <1>7 DEF StoreN
    <2>5. UNCHANGED <<timerFrame, clockVars, x, average, pc, quotient, frames, pageVars, met, torn, stale>>
        BY <1>7 DEF StoreN
    <2> QED
        BY <2>3, <2>4, <2>5 DEF clockVars, pageVars
<1>8. ASSUME NEW s \in 0..MaxSample, Measure(s) PROVE TypeOK'
    <2>1. Head(toServer) \in Nat /\ Tail(toServer) \in Seq(Nat)
        BY <1>8, Pipes DEF Measure
    <2>3. io' \in Sample
        <3>1. "measured" \in IoAt /\ s \in Nat /\ timerFrame \in Nat /\ 0 \in Nat
            BY DEF IoAt
        <3>2. Adding("measured", s, Head(toServer), timerFrame, 0) \in Sample
            BY <2>1, <3>1, Samples, Zenon
        <3> QED
            BY <1>8, <3>2 DEF Measure
    <2> QED
        BY <1>8, <2>1, <2>3 DEF Measure, Meets, statsVars, clockVars, pageVars, historyVars
<1>9. ASSUME CheckNeedMoreFrames PROVE TypeOK'
    BY <1>9 DEF CheckNeedMoreFrames, statsVars, clockVars, pageVars, historyVars
<1>10. ASSUME BeginFrame PROVE TypeOK'
    BY <1>10 DEF BeginFrame, statsVars, clockVars, pageVars, historyVars, NetTimer
<1>11. ASSUME PushFrame PROVE TypeOK'
    BY <1>11, Pipes DEF PushFrame, statsVars, clockVars, pageVars, historyVars
<1>12. ASSUME LowerFlag PROVE TypeOK'
    BY <1>12 DEF LowerFlag, statsVars, clockVars, pageVars, historyVars
<1>13. ASSUME printStats PROVE TypeOK'
    BY <1>13 DEF printStats, statsVars, clockVars, pageVars, historyVars, StatsTimer
<1>14. ASSUME getAverage PROVE TypeOK'
    <2>1. met' \in BOOLEAN
        BY <1>14 DEF getAverage
    <2>2. stale' \in Nat
        BY <1>14 DEF getAverage
    <2>3. pc' \in RenderAt
        BY <1>14 DEF getAverage
    <2> QED
        BY <1>14, <2>1, <2>2, <2>3 DEF getAverage, statsVars, clockVars, pageVars, historyVars
<1>15. ASSUME TestCount PROVE TypeOK'
    BY <1>15 DEF TestCount, statsVars, clockVars, pageVars, historyVars
<1>16. ASSUME LoadSum PROVE TypeOK'
    BY <1>16 DEF LoadSum, statsVars, clockVars, pageVars, historyVars
<1>17. ASSUME LoadCount PROVE TypeOK'
    BY <1>17 DEF LoadCount, statsVars, clockVars, pageVars, historyVars
<1>18. ASSUME StoreAverage PROVE TypeOK'
    BY <1>18 DEF StoreAverage, statsVars, clockVars, pageVars, historyVars
<1>19. ASSUME ResetX PROVE TypeOK'
    BY <1>19 DEF ResetX, statsVars, clockVars, pageVars, historyVars
<1>20. ASSUME ResetN PROVE TypeOK'
    BY <1>20 DEF ResetN, statsVars, clockVars, pageVars, historyVars, CountAfter
<1>21. ASSUME ResetTimer PROVE TypeOK'
    BY <1>21 DEF ResetTimer, statsVars, clockVars, pageVars, historyVars
<1>22. CASE UNCHANGED vars
    BY <1>22 DEF vars, statsVars, clockVars, pageVars, historyVars
<1> QED
    BY <1>1, <1>2, <1>3, <1>4, <1>5, <1>6, <1>7, <1>8, <1>9, <1>10, <1>11, <1>12, <1>13, <1>14, <1>15, <1>16, <1>17, <1>18, <1>19, <1>20, <1>21, <1>22 DEF Next, Io, Render

\* The two timers of the render thread.
LEMMA TimerStep ==
    ASSUME TypeOK, TimersAgree, [Next]_vars
    PROVE  TimersAgree'
<1> USE IntervalAssumption DEF TypeOK, TimersAgree
<1>1. ASSUME Click PROVE TimersAgree'
    BY <1>1 DEF Click, statsVars, clockVars, pageVars, historyVars
<1>2. ASSUME Answer PROVE TimersAgree'
    BY <1>2 DEF Answer, statsVars, clockVars, pageVars, historyVars
<1>3. ASSUME Tick PROVE TimersAgree'
    BY <1>3 DEF Tick, statsVars, clockVars, pageVars, historyVars
<1>4. ASSUME LoadX PROVE TimersAgree'
    BY <1>4 DEF LoadX, statsVars, clockVars, pageVars, historyVars
<1>5. ASSUME StoreX PROVE TimersAgree'
    BY <1>5 DEF StoreX, statsVars, clockVars, pageVars, historyVars
<1>6. ASSUME LoadN PROVE TimersAgree'
    BY <1>6 DEF LoadN, statsVars, clockVars, pageVars, historyVars
<1>7. ASSUME StoreN PROVE TimersAgree'
    BY <1>7 DEF StoreN, statsVars, clockVars, pageVars, historyVars
<1>8. ASSUME NEW s \in 0..MaxSample, Measure(s) PROVE TimersAgree'
    BY <1>8 DEF Measure, statsVars, clockVars, pageVars, historyVars
<1>9. ASSUME CheckNeedMoreFrames PROVE TimersAgree'
    BY <1>9 DEF CheckNeedMoreFrames, statsVars, clockVars, pageVars, historyVars
<1>10. ASSUME BeginFrame PROVE TimersAgree'
    BY <1>10 DEF BeginFrame, statsVars, clockVars, pageVars, historyVars
<1>11. ASSUME PushFrame PROVE TimersAgree'
    BY <1>11 DEF PushFrame, statsVars, clockVars, pageVars, historyVars
<1>12. ASSUME LowerFlag PROVE TimersAgree'
    BY <1>12 DEF LowerFlag, statsVars, clockVars, pageVars, historyVars
<1>13. ASSUME printStats PROVE TimersAgree'
    BY <1>13 DEF printStats, statsVars, clockVars, pageVars, historyVars, StatsTimer
<1>14. ASSUME getAverage PROVE TimersAgree'
    BY <1>14 DEF getAverage, statsVars, clockVars, pageVars, historyVars
<1>15. ASSUME TestCount PROVE TimersAgree'
    BY <1>15 DEF TestCount, statsVars, clockVars, pageVars, historyVars
<1>16. ASSUME LoadSum PROVE TimersAgree'
    BY <1>16 DEF LoadSum, statsVars, clockVars, pageVars, historyVars
<1>17. ASSUME LoadCount PROVE TimersAgree'
    BY <1>17 DEF LoadCount, statsVars, clockVars, pageVars, historyVars
<1>18. ASSUME StoreAverage PROVE TimersAgree'
    BY <1>18 DEF StoreAverage, statsVars, clockVars, pageVars, historyVars
<1>19. ASSUME ResetX PROVE TimersAgree'
    BY <1>19 DEF ResetX, statsVars, clockVars, pageVars, historyVars
<1>20. ASSUME ResetN PROVE TimersAgree'
    BY <1>20 DEF ResetN, statsVars, clockVars, pageVars, historyVars
<1>21. ASSUME ResetTimer PROVE TimersAgree'
    BY <1>21 DEF ResetTimer, statsVars, clockVars, pageVars, historyVars
<1>22. CASE UNCHANGED vars
    BY <1>22 DEF vars, statsVars, clockVars, pageVars, historyVars
<1> QED
    BY <1>1, <1>2, <1>3, <1>4, <1>5, <1>6, <1>7, <1>8, <1>9, <1>10, <1>11, <1>12, <1>13, <1>14, <1>15, <1>16, <1>17, <1>18, <1>19, <1>20, <1>21, <1>22 DEF Next, Io, Render

\* The sums, as the threads interleave.
LEMMA SumStep ==
    ASSUME TypeOK, SumsAgree, DivisorIsPositive, [Next]_vars
    PROVE  SumsAgree'
<1> USE DEF TypeOK, DivisorIsPositive
<1>1. ASSUME Click PROVE SumsAgree'
    BY <1>1 DEF Click, SumsAgree, Updating, Mean, statsVars, clockVars, pageVars, historyVars
<1>2. ASSUME Answer PROVE SumsAgree'
    BY <1>2 DEF Answer, SumsAgree, Updating, Mean, statsVars, clockVars, pageVars, historyVars
<1>3. ASSUME Tick PROVE SumsAgree'
    BY <1>3 DEF Tick, SumsAgree, Updating, Mean, statsVars, clockVars, pageVars, historyVars
<1>4. ASSUME LoadX PROVE SumsAgree'
    <2>1. io \in Sample /\ io # IoIdle
        BY <1>4, Samples DEF LoadX
    <2> QED
        BY <1>4, <2>1, Samples DEF LoadX, Sample, SumsAgree, Updating, statsVars, clockVars, pageVars, historyVars, Mean
<1>5. ASSUME StoreX PROVE SumsAgree'
    <2>1. io \in Sample /\ io # IoIdle
        BY <1>5, Samples DEF StoreX
    <2> QED
        BY <1>5, <2>1, Samples DEF StoreX, Sample, SumsAgree, Updating, statsVars, clockVars, pageVars, historyVars, Sum, Mean
<1>6. ASSUME LoadN PROVE SumsAgree'
    <2>1. io \in Sample /\ io # IoIdle
        BY <1>6, Samples DEF LoadN
    <2> QED
        BY <1>6, <2>1, Samples DEF LoadN, Sample, SumsAgree, Updating, statsVars, clockVars, pageVars, historyVars, Mean
<1>7. ASSUME StoreN PROVE SumsAgree'
    <2>1. io \in Sample /\ io # IoIdle
        BY <1>7, Samples DEF StoreN
    <2> QED
        BY <1>7, <2>1, Samples DEF StoreN, Sample, SumsAgree, Updating, statsVars, clockVars, pageVars, historyVars, Mean
<1>8. ASSUME NEW s \in 0..MaxSample, Measure(s) PROVE SumsAgree'
    <2>1. io' # IoIdle /\ io'.at = "measured"
        BY <1>8, Samples DEF Measure, Adding, IoIdle
    <2> QED
        BY <1>8, <2>1, Samples DEF Measure, Meets, Mean, SumsAgree, Updating, statsVars, clockVars, pageVars, historyVars
<1>9. ASSUME CheckNeedMoreFrames PROVE SumsAgree'
    BY <1>9 DEF CheckNeedMoreFrames, SumsAgree, Updating, Mean, statsVars, clockVars, pageVars, historyVars
<1>10. ASSUME BeginFrame PROVE SumsAgree'
    BY <1>10 DEF BeginFrame, SumsAgree, Updating, Mean, statsVars, clockVars, pageVars, historyVars, NetTimer
<1>11. ASSUME PushFrame PROVE SumsAgree'
    BY <1>11 DEF PushFrame, SumsAgree, Updating, Mean, statsVars, clockVars, pageVars, historyVars
<1>12. ASSUME LowerFlag PROVE SumsAgree'
    BY <1>12 DEF LowerFlag, SumsAgree, Updating, Mean, statsVars, clockVars, pageVars, historyVars
<1>13. ASSUME printStats PROVE SumsAgree'
    BY <1>13 DEF printStats, SumsAgree, Updating, Mean, statsVars, clockVars, pageVars, historyVars, StatsTimer
<1>14. ASSUME getAverage PROVE SumsAgree'
    <2>1. ~met' /\ pc' = "test" => io = IoIdle
        BY <1>14 DEF getAverage
    <2>2. pc' = "display" => ~met'
        BY <1>14 DEF getAverage, SumsAgree, Updating
    <2> QED
        BY <1>14, <2>1, <2>2, Samples DEF getAverage, Mean, SumsAgree, Updating, statsVars, clockVars, pageVars, historyVars
<1>15. ASSUME TestCount PROVE SumsAgree'
    BY <1>15 DEF TestCount, SumsAgree, Updating, Mean, statsVars, clockVars, pageVars, historyVars
<1>16. ASSUME LoadSum PROVE SumsAgree'
    BY <1>16 DEF LoadSum, SumsAgree, Updating, Mean, statsVars, clockVars, pageVars, historyVars
<1>17. ASSUME LoadCount PROVE SumsAgree'
    BY <1>17 DEF LoadCount, SumsAgree, Updating, Mean, statsVars, clockVars, pageVars, historyVars
<1>18. ASSUME StoreAverage PROVE SumsAgree'
    BY <1>18 DEF StoreAverage, SumsAgree, Updating, Mean, statsVars, clockVars, pageVars, historyVars
<1>19. ASSUME ResetX PROVE SumsAgree'
    BY <1>19 DEF ResetX, SumsAgree, Updating, Mean, statsVars, clockVars, pageVars, historyVars
<1>20. ASSUME ResetN PROVE SumsAgree'
    BY <1>20 DEF ResetN, SumsAgree, Updating, Mean, statsVars, clockVars, pageVars, historyVars, CountAfter, IoIdle
<1>21. ASSUME ResetTimer PROVE SumsAgree'
    BY <1>21 DEF ResetTimer, SumsAgree, Updating, Mean, statsVars, clockVars, pageVars, historyVars
<1>22. CASE UNCHANGED vars
    BY <1>22 DEF vars, statsVars, clockVars, pageVars, historyVars, SumsAgree, Updating, Mean
<1> QED
    BY <1>1, <1>2, <1>3, <1>4, <1>5, <1>6, <1>7, <1>8, <1>9, <1>10, <1>11, <1>12, <1>13, <1>14, <1>15, <1>16, <1>17, <1>18, <1>19, <1>20, <1>21, <1>22 DEF Next, Io, Render

\* The count is positive between its two readings.
LEMMA DivisorStep ==
    ASSUME TypeOK, DivisorIsPositive, [Next]_vars
    PROVE  DivisorIsPositive'
<1> USE DEF TypeOK, DivisorIsPositive
<1>1. ASSUME Click PROVE DivisorIsPositive'
    BY <1>1 DEF Click, statsVars, clockVars, pageVars, historyVars
<1>2. ASSUME Answer PROVE DivisorIsPositive'
    BY <1>2 DEF Answer, statsVars, clockVars, pageVars, historyVars
<1>3. ASSUME Tick PROVE DivisorIsPositive'
    BY <1>3 DEF Tick, statsVars, clockVars, pageVars, historyVars
<1>4. ASSUME LoadX PROVE DivisorIsPositive'
    BY <1>4 DEF LoadX, statsVars, clockVars, pageVars, historyVars
<1>5. ASSUME StoreX PROVE DivisorIsPositive'
    BY <1>5 DEF StoreX, statsVars, clockVars, pageVars, historyVars
<1>6. ASSUME LoadN PROVE DivisorIsPositive'
    BY <1>6 DEF LoadN, statsVars, clockVars, pageVars, historyVars
<1>7. ASSUME StoreN PROVE DivisorIsPositive'
    <2>1. io \in Sample
        BY <1>7, Samples DEF StoreN
    <2>2. io.old \in Nat
        BY <2>1 DEF Sample
    <2> QED
        BY <1>7, <2>2 DEF StoreN, statsVars, clockVars, pageVars, historyVars
<1>8. ASSUME NEW s \in 0..MaxSample, Measure(s) PROVE DivisorIsPositive'
    BY <1>8 DEF Measure, statsVars, clockVars, pageVars, historyVars
<1>9. ASSUME CheckNeedMoreFrames PROVE DivisorIsPositive'
    BY <1>9 DEF CheckNeedMoreFrames, statsVars, clockVars, pageVars, historyVars
<1>10. ASSUME BeginFrame PROVE DivisorIsPositive'
    BY <1>10 DEF BeginFrame, statsVars, clockVars, pageVars, historyVars
<1>11. ASSUME PushFrame PROVE DivisorIsPositive'
    BY <1>11 DEF PushFrame, statsVars, clockVars, pageVars, historyVars
<1>12. ASSUME LowerFlag PROVE DivisorIsPositive'
    BY <1>12 DEF LowerFlag, statsVars, clockVars, pageVars, historyVars
<1>13. ASSUME printStats PROVE DivisorIsPositive'
    BY <1>13 DEF printStats, statsVars, clockVars, pageVars, historyVars
<1>14. ASSUME getAverage PROVE DivisorIsPositive'
    BY <1>14 DEF getAverage, statsVars, clockVars, pageVars, historyVars
<1>15. ASSUME TestCount PROVE DivisorIsPositive'
    BY <1>15 DEF TestCount, statsVars, clockVars, pageVars, historyVars
<1>16. ASSUME LoadSum PROVE DivisorIsPositive'
    BY <1>16 DEF LoadSum, statsVars, clockVars, pageVars, historyVars
<1>17. ASSUME LoadCount PROVE DivisorIsPositive'
    BY <1>17 DEF LoadCount, statsVars, clockVars, pageVars, historyVars
<1>18. ASSUME StoreAverage PROVE DivisorIsPositive'
    BY <1>18 DEF StoreAverage, statsVars, clockVars, pageVars, historyVars
<1>19. ASSUME ResetX PROVE DivisorIsPositive'
    BY <1>19 DEF ResetX, statsVars, clockVars, pageVars, historyVars
<1>20. ASSUME ResetN PROVE DivisorIsPositive'
    BY <1>20 DEF ResetN, statsVars, clockVars, pageVars, historyVars
<1>21. ASSUME ResetTimer PROVE DivisorIsPositive'
    BY <1>21 DEF ResetTimer, statsVars, clockVars, pageVars, historyVars
<1>22. CASE UNCHANGED vars
    BY <1>22 DEF vars, statsVars, clockVars, pageVars, historyVars
<1> QED
    BY <1>1, <1>2, <1>3, <1>4, <1>5, <1>6, <1>7, <1>8, <1>9, <1>10, <1>11, <1>12, <1>13, <1>14, <1>15, <1>16, <1>17, <1>18, <1>19, <1>20, <1>21, <1>22 DEF Next, Io, Render

\* The one request of a viewer that has clicked once.
LEMMA RequestStep ==
    ASSUME TypeOK, clicks <= 1 => OneRequest, clicks = 0 => NoRequest, [Next]_vars
    PROVE  (clicks <= 1 => OneRequest)' /\ (clicks = 0 => NoRequest)'
<1> USE DEF TypeOK
<1>1. ASSUME Click PROVE (clicks <= 1 => OneRequest)' /\ (clicks = 0 => NoRequest)'
    <2>1. 0 \in Nat
        OBVIOUS
    <2> QED
        BY <1>1, <2>1, Pipes DEF Click, OneRequest, NoRequest, statsVars, clockVars, pageVars, historyVars
<1>2. ASSUME Answer PROVE (clicks <= 1 => OneRequest)' /\ (clicks = 0 => NoRequest)'
    <2>1. Head(toPage) \in Nat /\ Len(toPage) \in Nat /\ Len(toPage) > 0 /\ Len(toServer) \in Nat
        BY <1>2, Pipes DEF Answer
    <2>2. CASE clicks <= 1
        <3>1. Len(toPage) = 1 /\ Len(toServer) = 0
            <4>1. Len(toPage) + Len(toServer) <= 1
                BY <2>2 DEF OneRequest
            <4> QED
                BY <2>1, <4>1, OneOfTwo, Zenon
        <3>2. toPage' = <<>> /\ toServer = <<>>
            BY <1>2, <3>1, Pipes DEF Answer
        <3>3. Len(toServer') = 1 /\ Head(toServer') = Head(toPage) /\ Len(toPage') = 0
            <4>1. toServer' = Append(toServer, Head(toPage)) /\ toPage' = <<>>
                BY <1>2, <3>2 DEF Answer
            <4>2. Len(toServer') = Len(toServer) + 1 /\ Head(toServer') = Head(toPage)
                BY <2>1, <3>2, <4>1, Pipes, Zenon
            <4>3. Len(<<>>) = 0
                OBVIOUS
            <4> QED
                BY <3>1, <4>1, <4>2, <4>3
        <3> QED
            BY <1>2, <2>2, <3>2, <3>3 DEF Answer, OneRequest, NoRequest, statsVars, clockVars, historyVars
    <2> QED
        BY <1>2, <2>2 DEF Answer, OneRequest, NoRequest, statsVars, clockVars, pageVars, historyVars
<1>3. ASSUME Tick PROVE (clicks <= 1 => OneRequest)' /\ (clicks = 0 => NoRequest)'
    BY <1>3 DEF Tick, OneRequest, NoRequest, statsVars, clockVars, pageVars, historyVars
<1>4. ASSUME LoadX PROVE (clicks <= 1 => OneRequest)' /\ (clicks = 0 => NoRequest)'
    <2>1. io \in Sample /\ io # IoIdle
        BY <1>4, Samples DEF LoadX
    <2>2. io'.answers = io.answers /\ io'.since = io.since
        BY <1>4, <2>1, SamplesKept DEF LoadX, IoAt
    <2> QED
        BY <1>4, <2>1, <2>2 DEF LoadX, OneRequest, NoRequest, statsVars, clockVars, pageVars, historyVars
<1>5. ASSUME StoreX PROVE (clicks <= 1 => OneRequest)' /\ (clicks = 0 => NoRequest)'
    <2>1. io \in Sample /\ io # IoIdle
        BY <1>5, Samples DEF StoreX
    <2>2. io'.answers = io.answers /\ io'.since = io.since
        BY <1>5, <2>1, SamplesKept DEF StoreX, IoAt
    <2> QED
        BY <1>5, <2>1, <2>2 DEF StoreX, OneRequest, NoRequest, statsVars, clockVars, pageVars, historyVars, Sum
<1>6. ASSUME LoadN PROVE (clicks <= 1 => OneRequest)' /\ (clicks = 0 => NoRequest)'
    <2>1. io \in Sample /\ io # IoIdle
        BY <1>6, Samples DEF LoadN
    <2>2. io'.answers = io.answers /\ io'.since = io.since
        BY <1>6, <2>1, SamplesKept DEF LoadN, IoAt
    <2> QED
        BY <1>6, <2>1, <2>2 DEF LoadN, OneRequest, NoRequest, statsVars, clockVars, pageVars, historyVars
<1>7. ASSUME StoreN PROVE (clicks <= 1 => OneRequest)' /\ (clicks = 0 => NoRequest)'
    BY <1>7 DEF StoreN, OneRequest, NoRequest, statsVars, clockVars, pageVars, historyVars, IoIdle
<1>8. ASSUME NEW s \in 0..MaxSample, Measure(s) PROVE (clicks <= 1 => OneRequest)' /\ (clicks = 0 => NoRequest)'
    <2>1. /\ Head(toServer) \in Nat /\ Tail(toServer) \in Seq(Nat)
          /\ Len(toServer) \in Nat /\ Len(toServer) > 0 /\ Len(toPage) \in Nat
        BY <1>8, Pipes DEF Measure
    <2>2. ASSUME clicks <= 1
          PROVE  Len(toServer) = 1 /\ toPage = <<>> /\ Tail(toServer) = <<>>
        <3>1. Len(toPage) + Len(toServer) <= 1
            BY <2>2 DEF OneRequest
        <3>2. Len(toServer) = 1 /\ Len(toPage) = 0
            BY <2>1, <3>1, OneOfTwo, Zenon
        <3>3. toServer \in Seq(Nat) /\ toPage \in Seq(Nat)
            OBVIOUS
        <3>4. toPage = <<>>
            BY <3>2, <3>3, EmptyQueue, Zenon
        <3>5. Tail(toServer) = <<>>
            BY <3>2, <3>3, SingleMessage, Zenon
        <3> QED
            BY <3>2, <3>4, <3>5
    <2>3. /\ io'.answers = Head(toServer) /\ io'.since = timerFrame
          /\ io' # IoIdle
        BY <1>8, Samples DEF Measure, Adding, IoIdle
    <2>4. Len(<<>>) = 0
        OBVIOUS
    <2> QED
        BY <1>8, <2>1, <2>2, <2>3, <2>4 DEF Measure, OneRequest, NoRequest, statsVars, clockVars, historyVars
<1>9. ASSUME CheckNeedMoreFrames PROVE (clicks <= 1 => OneRequest)' /\ (clicks = 0 => NoRequest)'
    BY <1>9 DEF CheckNeedMoreFrames, OneRequest, NoRequest, statsVars, clockVars, pageVars, historyVars
<1>10. ASSUME BeginFrame PROVE (clicks <= 1 => OneRequest)' /\ (clicks = 0 => NoRequest)'
    BY <1>10 DEF BeginFrame, OneRequest, NoRequest, statsVars, clockVars, pageVars, historyVars, NetTimer
<1>11. ASSUME PushFrame PROVE (clicks <= 1 => OneRequest)' /\ (clicks = 0 => NoRequest)'
    <2>1. CASE clicks <= 1
        <3>1. Len(toPage) \in Nat /\ Len(toServer) \in Nat
            BY Pipes
        <3>2. toPage = <<>> /\ toServer = <<>> /\ io = IoIdle
            BY <1>11, <2>1 DEF PushFrame, OneRequest
        <3>3. Len(toPage') = 1 /\ Head(toPage') = frames /\ Len(toServer') = 0
            BY <1>11, <3>2, Pipes DEF PushFrame
        <3> QED
            BY <1>11, <2>1, <3>2, <3>3 DEF PushFrame, OneRequest, NoRequest, statsVars, clockVars, historyVars
    <2> QED
        BY <1>11, <2>1 DEF PushFrame, OneRequest, NoRequest, statsVars, clockVars, pageVars, historyVars
<1>12. ASSUME LowerFlag PROVE (clicks <= 1 => OneRequest)' /\ (clicks = 0 => NoRequest)'
    BY <1>12 DEF LowerFlag, OneRequest, NoRequest, statsVars, clockVars, pageVars, historyVars
<1>13. ASSUME printStats PROVE (clicks <= 1 => OneRequest)' /\ (clicks = 0 => NoRequest)'
    BY <1>13 DEF printStats, OneRequest, NoRequest, statsVars, clockVars, pageVars, historyVars, StatsTimer
<1>14. ASSUME getAverage PROVE (clicks <= 1 => OneRequest)' /\ (clicks = 0 => NoRequest)'
    BY <1>14 DEF getAverage, OneRequest, NoRequest, statsVars, clockVars, pageVars, historyVars
<1>15. ASSUME TestCount PROVE (clicks <= 1 => OneRequest)' /\ (clicks = 0 => NoRequest)'
    BY <1>15 DEF TestCount, OneRequest, NoRequest, statsVars, clockVars, pageVars, historyVars
<1>16. ASSUME LoadSum PROVE (clicks <= 1 => OneRequest)' /\ (clicks = 0 => NoRequest)'
    BY <1>16 DEF LoadSum, OneRequest, NoRequest, statsVars, clockVars, pageVars, historyVars
<1>17. ASSUME LoadCount PROVE (clicks <= 1 => OneRequest)' /\ (clicks = 0 => NoRequest)'
    BY <1>17 DEF LoadCount, OneRequest, NoRequest, statsVars, clockVars, pageVars, historyVars
<1>18. ASSUME StoreAverage PROVE (clicks <= 1 => OneRequest)' /\ (clicks = 0 => NoRequest)'
    BY <1>18 DEF StoreAverage, OneRequest, NoRequest, statsVars, clockVars, pageVars, historyVars
<1>19. ASSUME ResetX PROVE (clicks <= 1 => OneRequest)' /\ (clicks = 0 => NoRequest)'
    BY <1>19 DEF ResetX, OneRequest, NoRequest, statsVars, clockVars, pageVars, historyVars
<1>20. ASSUME ResetN PROVE (clicks <= 1 => OneRequest)' /\ (clicks = 0 => NoRequest)'
    BY <1>20 DEF ResetN, OneRequest, NoRequest, statsVars, clockVars, pageVars, historyVars
<1>21. ASSUME ResetTimer PROVE (clicks <= 1 => OneRequest)' /\ (clicks = 0 => NoRequest)'
    BY <1>21 DEF ResetTimer, OneRequest, NoRequest, statsVars, clockVars, pageVars, historyVars
<1>22. CASE UNCHANGED vars
    BY <1>22 DEF vars, statsVars, clockVars, pageVars, historyVars, OneRequest, NoRequest
<1> QED
    BY <1>1, <1>2, <1>3, <1>4, <1>5, <1>6, <1>7, <1>8, <1>9, <1>10, <1>11, <1>12, <1>13, <1>14, <1>15, <1>16, <1>17, <1>18, <1>19, <1>20, <1>21, <1>22 DEF Next, Io, Render

\* The invariant is inductive.
THEOREM Inductive == Spec => []IInv
<1>1. Init => IInv
    <2> SUFFICES ASSUME Init PROVE IInv
        OBVIOUS
    <2>1. TypeOK
        <3>1. toPage \in Seq(Nat) /\ toServer \in Seq(Nat)
            BY Pipes DEF Init
        <3>2. average \in Nat \X Nat /\ quotient \in Nat \X Nat
            BY DEF Init
        <3>3. io \in {IoIdle} \cup Sample /\ pc \in RenderAt
            BY DEF Init, RenderAt
        <3>4. needMoreFrames \in BOOLEAN /\ met \in BOOLEAN /\ torn \in BOOLEAN
            BY DEF Init
        <3>5. statsAge \in 0..Interval /\ timerAge \in 0..Interval
            BY IntervalAssumption DEF Init
        <3>6. /\ timerFrame \in Nat /\ frames \in Nat /\ x \in Nat /\ n \in Nat
              /\ clicks \in Nat /\ sum \in Nat /\ count \in Nat /\ stale \in Nat
            BY DEF Init
        <3> QED
            BY <3>1, <3>2, <3>3, <3>4, <3>5, <3>6 DEF TypeOK
    <2>2. TimersAgree /\ SumsAgree /\ DivisorIsPositive
        BY IntervalAssumption
        DEF Init, TimersAgree, SumsAgree, DivisorIsPositive, Updating, IoIdle, Mean
    <2>3. OneRequest /\ NoRequest
        BY DEF Init, OneRequest, NoRequest
    <2> QED
        BY <2>1, <2>2, <2>3 DEF IInv
<1>2. IInv /\ [Next]_vars => IInv'
    BY TypeStep, TimerStep, SumStep, DivisorStep, RequestStep DEF IInv
<1> QED
    BY <1>1, <1>2, PTL DEF Spec

\* The average is the mean of the samples added since the last update, unless
\* add() overlapped this update or the one before.
THEOREM AverageIsMean == Spec => []AverageIsExact
<1>1. IInv => AverageIsExact
    BY DEF IInv, SumsAgree, AverageIsExact, Updating, Mean
<1> QED
    BY <1>1, Inductive, PTL

\* No average is printed a third time.
THEOREM StaleOnce == Spec => []StaleAtMostOnce
<1>1. IInv => StaleAtMostOnce
    BY DEF IInv, TimersAgree, StaleAtMostOnce
<1> QED
    BY <1>1, Inductive, PTL

\* A viewer that clicked once is measured against the frame it answers.
THEOREM RoundTripMeasured == Spec => []SampleMeasuresItsFrame
<1>1. IInv => SampleMeasuresItsFrame
    BY DEF IInv, OneRequest, SampleMeasuresItsFrame, IoIdle
<1> QED
    BY <1>1, Inductive, PTL
-----------------------------------------------------------------------------
\* A quotient of a positive number of samples, or of none at all.
Divides(q) == q = <<0, 0>> \/ q[2] > 0

\* What printStats divides by is never zero, whatever the io thread does
\* between the reads of n.
NeverByZero ==
    /\ DivisorIsPositive
    /\ pc = "store" => Divides(quotient)
    /\ Divides(average)

\* The quotient is loaded behind the test of n, and the average is stored from
\* the quotient.
LEMMA QuotientStep ==
    ASSUME TypeOK, NeverByZero, [Next]_vars
    PROVE  NeverByZero'
<1>1. DivisorIsPositive'
    BY DivisorStep DEF NeverByZero
<1>2. ASSUME UNCHANGED <<quotient, average>>, pc' # "store" \/ pc = "store"
      PROVE  NeverByZero'
    BY <1>1, <1>2 DEF NeverByZero, Divides
<1>3. CASE TestCount
    BY <1>1, <1>3 DEF NeverByZero, Divides, TestCount, statsVars
<1>4. CASE LoadSum
    BY <1>1, <1>4 DEF NeverByZero, Divides, LoadSum, statsVars
<1>5. CASE LoadCount
    <2>1. n > 0 /\ quotient' = <<quotient[1], n>>
        BY <1>5 DEF NeverByZero, DivisorIsPositive, LoadCount
    <2> QED
        BY <1>1, <1>5, <2>1 DEF NeverByZero, Divides, LoadCount, statsVars
<1>6. CASE StoreAverage
    BY <1>1, <1>6 DEF NeverByZero, Divides, StoreAverage
<1>7. CASE UNCHANGED vars
    BY <1>2, <1>7 DEF vars, statsVars
<1>8. CASE Click \/ Answer \/ Tick \/ LoadX \/ StoreX \/ LoadN \/ StoreN
    BY <1>2, <1>8 DEF Click, Answer, Tick, LoadX, StoreX, LoadN, StoreN, statsVars
<1>9. ASSUME NEW v \in 0..MaxSample, Measure(v) PROVE NeverByZero'
    BY <1>2, <1>9 DEF Measure, statsVars
<1>10. CASE CheckNeedMoreFrames \/ BeginFrame \/ PushFrame \/ LowerFlag
    BY <1>2, <1>10 DEF CheckNeedMoreFrames, BeginFrame, PushFrame, LowerFlag, statsVars
<1>11. CASE printStats \/ getAverage \/ ResetX \/ ResetN \/ ResetTimer
    BY <1>2, <1>11 DEF printStats, getAverage, ResetX, ResetN, ResetTimer, statsVars
<1> QED
    BY <1>3, <1>4, <1>5, <1>6, <1>7, <1>8, <1>9, <1>10, <1>11 DEF Next, Io, Render

\* No average is a division by zero: n is tested once and read twice, while
\* the other thread adds, but only the render thread takes it back to zero.
THEOREM NoDivisionByZero == Spec => []NeverByZero
<1>1. Init => NeverByZero
    BY DEF Init, NeverByZero, DivisorIsPositive, Divides
<1>2. IInv /\ NeverByZero /\ [Next]_vars => NeverByZero'
    BY QuotientStep DEF IInv
<1> QED
    BY <1>1, <1>2, Inductive, PTL DEF Spec
=============================================================================
