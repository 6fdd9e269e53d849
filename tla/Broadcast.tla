----------------------------- MODULE Broadcast -----------------------------
(***************************************************************************)
(* What the frame server promises its viewers, with no threads, sockets or *)
(* iterators: frames are sent in rounds, a round is begun only while a     *)
(* request is outstanding, everybody who is in the audience from the       *)
(* beginning of a round to its end gets exactly one frame of it, and the   *)
(* request is settled only after somebody was served.                      *)
(*                                                                         *)
(* FrameServer implements this specification; the refinement mapping is    *)
(* given there.                                                            *)
(***************************************************************************)
CONSTANT Client

VARIABLES
    audience,   \* the viewers that can be served
    requested,  \* somebody asked for a frame and nobody withdrew the request
    round,      \* where the current round stands
    owed        \* the viewers this round has still to visit

bvars == <<audience, requested, round, owed>>

Init ==
    /\ audience = {}
    /\ requested = FALSE
    /\ round = "idle"
    /\ owed = {}

\* A viewer that joins during a round may or may not be part of that round.
Join(c) ==
    /\ c \notin audience
    /\ audience' = audience \cup {c}
    /\ \/ UNCHANGED owed
       \/ round \in {"serving", "settling"} /\ owed' = owed \cup {c}
    /\ UNCHANGED <<requested, round>>

\* A viewer only leaves when no request is outstanding.
Leave(c) ==
    /\ ~requested
    /\ audience' = audience \ {c}
    /\ owed' = owed \ {c}
    /\ UNCHANGED <<requested, round>>

\* Only a member of the audience can ask.
Ask ==
    /\ audience # {}
    /\ requested' = TRUE
    /\ UNCHANGED <<audience, round, owed>>

Withdraw ==
    /\ requested' = FALSE
    /\ UNCHANGED <<audience, round, owed>>

\* A round is claimed when a request is seen; its audience is fixed later,
\* when the frame has been encoded.
Claim ==
    /\ round = "idle"
    /\ requested
    /\ round' = "claimed"
    /\ UNCHANGED <<audience, requested, owed>>

Begin ==
    /\ round = "claimed"
    /\ round' = "serving"
    /\ owed' = audience
    /\ UNCHANGED <<audience, requested>>

Serve(c) ==
    /\ round = "serving"
    /\ c \in owed
    /\ owed' = owed \ {c}
    /\ round' = "settling"
    /\ UNCHANGED <<audience, requested>>

\* The request is settled after a viewer was served, whoever made it.
Settle ==
    /\ round = "settling"
    /\ requested' = FALSE
    /\ round' = "serving"
    /\ UNCHANGED <<audience, owed>>

End ==
    /\ round = "serving"
    /\ owed = {}
    /\ round' = "idle"
    /\ UNCHANGED <<audience, requested, owed>>

Next ==
    \/ \E c \in Client : Join(c) \/ Leave(c) \/ Serve(c)
    \/ Ask \/ Withdraw \/ Claim \/ Begin \/ Settle \/ End

Spec == Init /\ [][Next]_bvars
=============================================================================
