-------------------------------- MODULE Pipe --------------------------------
(***************************************************************************)
(* What one WebSocket connection promises its two users: the messages that *)
(* it accepts reach the peer in the order in which it accepted them, none  *)
(* twice and none left out, nothing follows a close frame, and nothing is  *)
(* delivered once the connection is down.  What was accepted but not       *)
(* delivered by then is dropped in silence.                                *)
(*                                                                         *)
(* WsConnection implements this specification.                             *)
(***************************************************************************)
EXTENDS Naturals, Sequences

CONSTANTS Message, Close

VARIABLES
    accepted,   \* every message that was accepted, in order
    delivered,  \* every message that reached the peer's side, in order
    down        \* the connection is closed for good

pvars == <<accepted, delivered, down>>

Init ==
    /\ accepted = <<>>
    /\ delivered = <<>>
    /\ down = FALSE

Accept(m) ==
    /\ accepted' = Append(accepted, m)
    /\ UNCHANGED <<delivered, down>>

Deliver ==
    /\ ~down
    /\ Len(delivered) < Len(accepted)
    /\ \A i \in 1..Len(delivered) : delivered[i] # Close
    /\ delivered' = Append(delivered, accepted[Len(delivered) + 1])
    /\ UNCHANGED <<accepted, down>>

GoDown ==
    /\ down' = TRUE
    /\ UNCHANGED <<accepted, delivered>>

Next ==
    \/ \E m \in Message : Accept(m)
    \/ Deliver
    \/ GoDown

Spec == Init /\ [][Next]_pvars
=============================================================================
