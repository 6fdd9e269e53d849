----------------------------- MODULE Statistics -----------------------------
(***************************************************************************)
(* The network statistics of a server built with STATS and JPEG_ENCODING,  *)
(* with one viewer that does not end its stream.  m_netStats is an         *)
(* AverageStats to which the io thread adds a sample with every request,   *)
(* and which the render thread averages, prints and resets about once in   *)
(* updateMillis, both without a lock.  (m_encStats and m_sendStats belong  *)
(* to the render thread alone.)                                            *)
(*                                                                         *)
(* A sample is the time since m_netStatsTimer was reset; here it is some   *)
(* number, together with the frame for which that was.  A step is one load *)
(* or store of a field, or one look at a clock.  Clocks are not set back.  *)
(***************************************************************************)
EXTENDS Naturals, Sequences

CONSTANTS
    Interval,   \* updateMillis
    MaxSample,  \* bound: the largest sample
    MaxFrames,  \* bound: frames
    MaxClicks   \* bound: clicks on Stream

ASSUME IntervalAssumption == Interval \in Nat \ {0}
ASSUME BoundAssumption == MaxSample \in Nat /\ MaxFrames \in Nat /\ MaxClicks \in Nat

VARIABLES
    needMoreFrames, \* a frame is asked for
    timerFrame,     \* the frame for which m_netStatsTimer was reset
    statsAge,       \* m_statsTimer: time since its reset, up to Interval
    timerAge,       \* m_netStats.timer, likewise
    x, n,           \* m_netStats: sum and number of the samples
    average,        \* m_netStats.average: the quotient, as the two numbers
    pc,             \* the render thread
    quotient,       \* what it has loaded of x and n
    io,             \* the io thread
    frames,         \* frames begun
    toPage,         \* frames on their way, by number
    toServer        \* requests on theirs, by the frame they answer (0: a click)

(* History variables; clicks is also a bound.                              *)
VARIABLES
    sum, count, \* the samples added since the last update
    met,        \* an add and this update have overlapped
    torn,       \* an add and the update before have
    stale,      \* updates in a row that printed the average before
    clicks      \* clicks on Stream

statsVars == <<x, n, average>>
clockVars == <<statsAge, timerAge>>
pageVars == <<toPage, toServer, clicks>>
historyVars == <<sum, count, met, torn, stale>>
vars == <<needMoreFrames, timerFrame, clockVars, statsVars, pc, quotient, io,
          frames, pageVars, historyVars>>

IoIdle == [at |-> "idle"]
\* A sample v of a request that answers frame f (0: a click), measured since
\* the reset for frame `since`; `old` is the value of the field just loaded.
Adding(at, v, f, since, old) ==
    [at |-> at, v |-> v, answers |-> f, since |-> since, old |-> old]

IoAt == {"measured", "loadedX", "storedX", "loadedN"}
Updating == {"test", "loadX", "loadN", "store", "resetX", "resetN"}

Init ==
    /\ needMoreFrames = FALSE /\ timerFrame = 0
    /\ statsAge = 0 /\ timerAge \in 0..Interval
    /\ x = 0 /\ n = 0 /\ average = <<0, 0>>
    /\ pc = "display" /\ quotient = <<0, 0>> /\ io = IoIdle
    /\ frames = 0 /\ toPage = <<>> /\ toServer = <<>>
    /\ sum = 0 /\ count = 0 /\ met = FALSE /\ torn = FALSE /\ stale = 0 /\ clicks = 0
-----------------------------------------------------------------------------
(* The page: a click asks for a first frame, a frame for the next.         *)

Click ==
    /\ clicks < MaxClicks
    /\ clicks' = clicks + 1
    /\ toServer' = Append(toServer, 0)
    /\ UNCHANGED <<needMoreFrames, timerFrame, clockVars, statsVars, pc, quotient, io,
                   frames, toPage, historyVars>>

Answer ==
    /\ toPage # <<>>
    /\ toPage' = Tail(toPage)
    /\ toServer' = Append(toServer, Head(toPage))
    /\ UNCHANGED <<needMoreFrames, timerFrame, clockVars, statsVars, pc, quotient, io,
                   frames, clicks, historyVars>>

Tick ==
    /\ statsAge' = IF statsAge < Interval THEN statsAge + 1 ELSE statsAge
    /\ timerAge' = IF timerAge < Interval THEN timerAge + 1 ELSE timerAge
    /\ UNCHANGED <<needMoreFrames, timerFrame, statsVars, pc, quotient, io, frames,
                   pageVars, historyVars>>
-----------------------------------------------------------------------------
(* The io thread: on_message adds a sample, then raises the flag.          *)

\* History: does an add or an update under way now meet the other?
Meets == met' = (met \/ pc \in Updating)

Measure(v) ==
    /\ io = IoIdle
    /\ toServer # <<>>
    /\ toServer' = Tail(toServer)
    /\ io' = Adding("measured", v, Head(toServer), timerFrame, 0)
    /\ Meets
    /\ UNCHANGED <<needMoreFrames, timerFrame, clockVars, statsVars, pc, quotient,
                   frames, toPage, clicks, sum, count, torn, stale>>

LoadX ==
    /\ io.at = "measured"
    /\ io' = [io EXCEPT !.at = "loadedX", !.old = x]
    /\ UNCHANGED <<needMoreFrames, timerFrame, clockVars, statsVars, pc, quotient,
                   frames, pageVars, historyVars>>

\* Mutant: the sample replaces the sum.
Sum_lost == io.v
Sum == io.old + io.v

StoreX ==
    /\ io.at = "loadedX"
    /\ x' = Sum
    /\ io' = [io EXCEPT !.at = "storedX"]
    /\ UNCHANGED <<needMoreFrames, timerFrame, clockVars, n, average, pc, quotient,
                   frames, pageVars, historyVars>>

LoadN ==
    /\ io.at = "storedX"
    /\ io' = [io EXCEPT !.at = "loadedN", !.old = n]
    /\ UNCHANGED <<needMoreFrames, timerFrame, clockVars, statsVars, pc, quotient,
                   frames, pageVars, historyVars>>

\* The add is done.  needMoreFrames is raised behind it.
StoreN ==
    /\ io.at = "loadedN"
    /\ n' = io.old + 1
    /\ sum' = sum + io.v /\ count' = count + 1
    /\ io' = IoIdle
    /\ needMoreFrames' = TRUE
    /\ UNCHANGED <<timerFrame, clockVars, x, average, pc, quotient, frames, pageVars,
                   met, torn, stale>>

Io == LoadX \/ StoreX \/ LoadN \/ StoreN \/ \E v \in 0..MaxSample : Measure(v)
-----------------------------------------------------------------------------
(* The render thread: sendJPEGFrame().                                     *)

CheckNeedMoreFrames ==
    /\ pc = "display"
    /\ pc' = IF needMoreFrames /\ frames < MaxFrames THEN "send" ELSE "print"
    /\ UNCHANGED <<needMoreFrames, timerFrame, clockVars, statsVars, quotient, io,
                   frames, pageVars, historyVars>>

\* Mutant: the timer is not reset, as it is not in sendNvPipeFrame(unsigned char *).
NetTimer_running(f) == timerFrame
\* m_netStatsTimer.reset().
NetTimer(f) == f

BeginFrame ==
    /\ pc = "send"
    /\ frames' = frames + 1
    /\ timerFrame' = NetTimer(frames + 1)
    /\ pc' = "sent"
    /\ UNCHANGED <<needMoreFrames, clockVars, statsVars, quotient, io, pageVars,
                   historyVars>>

PushFrame ==
    /\ pc = "sent"
    /\ toPage' = Append(toPage, frames)
    /\ pc' = "lower"
    /\ UNCHANGED <<needMoreFrames, timerFrame, clockVars, statsVars, quotient, io,
                   frames, toServer, clicks, historyVars>>

LowerFlag ==
    /\ pc = "lower"
    /\ needMoreFrames' = FALSE
    /\ pc' = "print"
    /\ UNCHANGED <<timerFrame, clockVars, statsVars, quotient, io, frames, pageVars,
                   historyVars>>
-----------------------------------------------------------------------------
(* The render thread: printStats() and getAverage().                       *)

\* Mutant: m_statsTimer is not reset, so every iteration prints.
StatsTimer_running == statsAge
\* m_statsTimer.reset().
StatsTimer == 0

printStats ==
    /\ pc = "print"
    /\ IF statsAge >= Interval
       THEN statsAge' = StatsTimer /\ pc' = "elapsed"
       ELSE pc' = "display" /\ UNCHANGED statsAge
    /\ UNCHANGED <<needMoreFrames, timerFrame, timerAge, statsVars, quotient, io,
                   frames, pageVars, historyVars>>

\* getAverage: the timer of m_netStats itself, reset a little later than
\* m_statsTimer was; if it has not elapsed the average before is printed again.
getAverage ==
    /\ pc = "elapsed"
    /\ IF timerAge < Interval
       THEN pc' = "display" /\ stale' = stale + 1 /\ UNCHANGED met
       ELSE pc' = "test" /\ met' = (io # IoIdle) /\ UNCHANGED stale
    /\ UNCHANGED <<needMoreFrames, timerFrame, clockVars, statsVars, quotient, io,
                   frames, pageVars, sum, count, torn>>

\* n > 0 ?
TestCount ==
    /\ pc = "test"
    /\ quotient' = <<0, 0>>
    /\ pc' = IF n > 0 THEN "loadX" ELSE "store"
    /\ UNCHANGED <<needMoreFrames, timerFrame, clockVars, statsVars, io, frames,
                   pageVars, historyVars>>

LoadSum ==
    /\ pc = "loadX"
    /\ quotient' = <<x, 0>>
    /\ pc' = "loadN"
    /\ UNCHANGED <<needMoreFrames, timerFrame, clockVars, statsVars, io, frames,
                   pageVars, historyVars>>

LoadCount ==
    /\ pc = "loadN"
    /\ quotient' = <<quotient[1], n>>
    /\ pc' = "store"
    /\ UNCHANGED <<needMoreFrames, timerFrame, clockVars, statsVars, io, frames,
                   pageVars, historyVars>>

StoreAverage ==
    /\ pc = "store"
    /\ average' = quotient
    /\ stale' = 0
    /\ pc' = "resetX"
    /\ UNCHANGED <<needMoreFrames, timerFrame, clockVars, x, n, quotient, io, frames,
                   pageVars, sum, count, met, torn>>

ResetX ==
    /\ pc = "resetX"
    /\ x' = 0
    /\ pc' = "resetN"
    /\ UNCHANGED <<needMoreFrames, timerFrame, clockVars, n, average, quotient, io,
                   frames, pageVars, historyVars>>

\* Mutant: only the sum is reset.
CountAfter_kept == n
CountAfter == 0

\* n = 0: the update is done; an add that it met may spoil the next one too.
ResetN ==
    /\ pc = "resetN"
    /\ n' = CountAfter
    /\ sum' = 0 /\ count' = 0
    /\ torn' = met /\ met' = FALSE
    /\ pc' = "resetTimer"
    /\ UNCHANGED <<needMoreFrames, timerFrame, clockVars, x, average, quotient, io,
                   frames, pageVars, stale>>

ResetTimer ==
    /\ pc = "resetTimer"
    /\ timerAge' = 0
    /\ pc' = "display"
    /\ UNCHANGED <<needMoreFrames, timerFrame, statsAge, statsVars, quotient, io,
                   frames, pageVars, historyVars>>

Render ==
    \/ CheckNeedMoreFrames \/ BeginFrame \/ PushFrame \/ LowerFlag
    \/ printStats \/ getAverage
    \/ TestCount \/ LoadSum \/ LoadCount \/ StoreAverage
    \/ ResetX \/ ResetN \/ ResetTimer

Next == Click \/ Answer \/ Tick \/ Io \/ Render

Spec == Init /\ [][Next]_vars
-----------------------------------------------------------------------------
Sample == [at : IoAt, v : Nat, answers : Nat, since : Nat, old : Nat]
RenderAt == {"display", "send", "sent", "lower", "print", "elapsed", "resetTimer"}
            \cup Updating

TypeOK ==
    /\ needMoreFrames \in BOOLEAN /\ timerFrame \in Nat /\ frames \in Nat
    /\ statsAge \in 0..Interval /\ timerAge \in 0..Interval
    /\ x \in Nat /\ n \in Nat /\ average \in Nat \X Nat /\ quotient \in Nat \X Nat
    /\ pc \in RenderAt
    /\ io \in {IoIdle} \cup Sample
    /\ toPage \in Seq(Nat) /\ toServer \in Seq(Nat) /\ clicks \in Nat
    /\ sum \in Nat /\ count \in Nat /\ stale \in Nat
    /\ met \in BOOLEAN /\ torn \in BOOLEAN

\* m_netStats.timer is reset behind m_statsTimer, so it is the younger of the
\* two, but for the time between printStats' reset and its own.
TimersAgree ==
    /\ stale = 1 => timerAge >= statsAge
    /\ pc = "elapsed" => timerAge >= statsAge /\ (stale = 1 => timerAge = Interval)
    /\ stale \in {0, 1}
    /\ pc \in {"resetX", "resetN", "resetTimer"} => stale = 0

\* What average is to be.
Mean == IF count = 0 THEN <<0, 0>> ELSE <<sum, count>>

\* Outside an update the fields hold what was added, and the add under way
\* has loaded what they hold; an update that meets no add has them to itself.
SumsAgree ==
    /\ pc \notin Updating =>
           /\ ~met
           /\ ~torn =>
                /\ n = count
                /\ x = IF io.at \in {"storedX", "loadedN"} THEN sum + io.v ELSE sum
                /\ io.at = "loadedX" => io.old = x
                /\ io.at = "loadedN" => io.old = n
    /\ pc \in Updating /\ ~met =>
           /\ io = IoIdle
           /\ pc = "resetN" => x = 0
           /\ ~torn =>
                /\ n = count
                /\ pc # "resetN" => x = sum
                /\ pc = "loadN" => quotient = <<sum, 0>>
                /\ pc = "store" => quotient = Mean
                /\ pc = "resetX" => average = Mean

\* An average is never computed with n = 0, although n is read twice.
DivisorIsPositive == pc \in {"loadX", "loadN"} => n > 0

\* A viewer that has clicked once has at most one message or request under
\* way, none of them while a frame is begun, and it is about the last frame.
OneRequest ==
    LET flying == toPage # <<>> \/ toServer # <<>>
        busy == io # IoIdle
    IN  /\ timerFrame = frames
        /\ Len(toPage) + Len(toServer) <= 1
        /\ ~(flying /\ busy)
        /\ flying \/ busy =>
               pc \notin {"send", "sent"} /\ (needMoreFrames => pc = "lower")
        /\ toPage # <<>> => Head(toPage) = timerFrame
        /\ toServer # <<>> => Head(toServer) \in {0, timerFrame}
        /\ busy /\ io.answers > 0 => io.since = io.answers

\* Nothing is under way before the first click.
NoRequest ==
    /\ toPage = <<>> /\ toServer = <<>> /\ io = IoIdle
    /\ ~needMoreFrames /\ pc \notin {"send", "sent", "lower"}

\* The inductive invariant: the types, the two timers, the sums under the two
\* threads' steps, and where the one request of a viewer may be.
IInv ==
    /\ TypeOK /\ TimersAgree /\ SumsAgree /\ DivisorIsPositive
    /\ clicks <= 1 => OneRequest
    /\ clicks = 0 => NoRequest

\* What the render thread has stored is the mean of the samples added since
\* the last update, unless an add was under way during this update or the one
\* before: a sample that is torn between two updates does no lasting damage.
AverageIsExact ==
    pc = "resetX" /\ ~met /\ ~torn =>
        average = IF count = 0 THEN <<0, 0>> ELSE <<sum, count>>

\* The same average is printed twice at most: an update that comes too early
\* for m_netStats.timer, which runs a little behind m_statsTimer, is followed
\* by one that does not.
StaleAtMostOnce == stale <= 1

\* As long as a viewer has clicked once, the sample of a NXTFR is the time
\* since the frame it answers was begun: the round trip that the header
\* promises of m_netStats.
SampleMeasuresItsFrame ==
    io.at = "measured" /\ io.answers > 0 /\ clicks = 1 => io.since = io.answers
=============================================================================
