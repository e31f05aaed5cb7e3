------------------------------ MODULE FifoLink ------------------------------
(***************************************************************************)
(* What the link between the map server and one client promises: packets   *)
(* pushed for the client arrive once each, in the order they were pushed.  *)
(* Packets are named by their number of order.                             *)
(***************************************************************************)
EXTENDS Integers, Sequences

VARIABLES
    pushed,   \* packets pushed so far
    got       \* packets that have arrived

Init == pushed = 0 /\ got = <<>>

Push == pushed' = pushed + 1 /\ UNCHANGED got

\* Any number of the packets that come next arrive together.
Deliver ==
    /\ \E n \in Len(got) + 1 .. pushed : got' = [i \in 1 .. n |-> i]
    /\ UNCHANGED pushed

Next == Push \/ Deliver

Spec == Init /\ [][Next]_<<pushed, got>>
=============================================================================
