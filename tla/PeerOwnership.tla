--------------------------- MODULE PeerOwnership ---------------------------
(***************************************************************************)
(* What the nodes.dat parser promises about the peers it allocates, as its *)
(* header (src/nodes_dat.h) states it: the parser owns a peer until        *)
(* nd_parse_get_peers hands all of its peers over to the caller at once;   *)
(* whoever owns a list frees its peers, oldest first, each exactly once.   *)
(***************************************************************************)
EXTENDS Integers, Sequences

VARIABLE owner   \* of each peer, in the order of decoding

Owners == {"parser", "caller", "freed"}

OwnedBy(who) == {i \in DOMAIN owner : owner[i] = who}

Init == owner = <<>>

Decode == owner' = Append(owner, "parser")

HandOver ==
  /\ OwnedBy("caller") = {}
  /\ owner' = [i \in DOMAIN owner |->
                 IF owner[i] = "parser" THEN "caller" ELSE owner[i]]

FreeOldest(who) ==
  \E i \in OwnedBy(who) :
    /\ \A j \in OwnedBy(who) : i <= j
    /\ owner' = [owner EXCEPT ![i] = "freed"]

Next == Decode \/ HandOver \/ FreeOldest("parser") \/ FreeOldest("caller")

Spec == Init /\ [][Next]_owner
=============================================================================
