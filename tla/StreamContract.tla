--------------------------- MODULE StreamContract ---------------------------
(***************************************************************************)
(* What a script may expect of one direction of a stream: what it offers   *)
(* is delivered in order and without gaps (delivered is a prefix of what   *)
(* was offered, hence a number), and closing the stream loses nothing      *)
(* unless the connection is broken.                                        *)
(***************************************************************************)
EXTENDS Naturals

VARIABLES offered, delivered, phase     \* "open", "broken" or "closed"
vars == <<offered, delivered, phase>>

Init == offered = 0 /\ delivered = 0 /\ phase = "open"

\* A write may be delivered in the same step, wholly or in part.
Offer ==
    /\ phase # "closed" /\ phase' = phase
    /\ offered' \in Nat /\ offered' > offered
    /\ delivered' \in delivered .. offered'
    /\ phase = "broken" => delivered' = delivered

Deliver ==
    /\ phase = "open" /\ phase' = phase
    /\ delivered' \in delivered + 1 .. offered
    /\ offered' = offered

Break == phase = "open" /\ phase' = "broken" /\ UNCHANGED <<offered, delivered>>

Close ==
    /\ \/ phase = "open" /\ delivered = offered
       \/ phase = "broken"
    /\ phase' = "closed"
    /\ UNCHANGED <<offered, delivered>>

Next == Offer \/ Deliver \/ Break \/ Close
Spec == Init /\ [][Next]_vars
=============================================================================
