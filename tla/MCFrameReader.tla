--------------------------- MODULE MCFrameReader ---------------------------
(***************************************************************************)
(* The frames with which TLC checks FrameReader: the parts of fragmented   *)
(* messages, control frames, and one frame for each reason to refuse it.   *)
(* The limits are scaled down; what they are compared with is not.         *)
(***************************************************************************)
EXTENDS FrameReader

Whole == [op |-> "binary", fin |-> TRUE, rsv |-> FALSE, masked |-> TRUE,
          code |-> "basic", size |-> 1, badAt |-> 0, cut |-> FALSE]

MCFrame == {
    Whole, [Whole EXCEPT !.size = 0],
    [Whole EXCEPT !.code = "16bit", !.size = 3],
    [Whole EXCEPT !.code = "64bit", !.size = 5],
    [Whole EXCEPT !.op = "text", !.fin = FALSE, !.cut = TRUE],
    [Whole EXCEPT !.op = "continuation", !.fin = FALSE],
    [Whole EXCEPT !.op = "continuation", !.code = "16bit", !.size = 3],
    [Whole EXCEPT !.op = "continuation", !.size = 2, !.badAt = 2],
    [Whole EXCEPT !.op = "continuation", !.cut = TRUE],
    [Whole EXCEPT !.op = "continuation", !.code = "64bit", !.size = 11],
    [Whole EXCEPT !.op = "ping", !.size = 2],
    [Whole EXCEPT !.op = "close", !.size = 0],
    [Whole EXCEPT !.op = "text", !.cut = TRUE],
    [Whole EXCEPT !.op = "pong", !.fin = FALSE],
    [Whole EXCEPT !.op = "reserved"],
    [Whole EXCEPT !.masked = FALSE],
    [Whole EXCEPT !.code = "16bit", !.size = 2]}
=============================================================================
