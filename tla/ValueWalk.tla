------------------------------ MODULE ValueWalk ------------------------------
(***************************************************************************)
(* What reading a message value by value means, whatever reads it: the     *)
(* values are met one at a time, in the order they are written, and each   *)
(* of them once.                                                           *)
(***************************************************************************)
EXTENDS Integers, Sequences

VARIABLES
  places,   \* where the values of the message begin
  met       \* those met, in the order they were met

Ahead == {p \in places : \A i \in 1 .. Len(met) : met[i] < p}

Init == places \subseteq Nat /\ met = <<>>

Meet ==
  \E p \in Ahead :
    /\ \A q \in Ahead : p <= q
    /\ met' = Append(met, p)
    /\ UNCHANGED places

Safety == Init /\ [][Meet]_<<places, met>>

Spec == Safety /\ WF_<<places, met>>(Meet)
=============================================================================
