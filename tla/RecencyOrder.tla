---------------------------- MODULE RecencyOrder ----------------------------
(***************************************************************************)
(* What a k-bucket promises: it knows a bounded number of contacts, and of *)
(* each two of them which was heard of later.  A contact it knows is never *)
(* forgotten nor turned away; one it does not know is taken in only while  *)
(* there is room.                                                          *)
(***************************************************************************)
EXTENDS Integers, FiniteSets

CONSTANTS Contacts, Room

VARIABLES
  known,   \* the contacts
  newer    \* pairs of contacts: the first was heard of after the second

Init == known = {} /\ newer = {}

\* c is now newer than every other contact
HeardOf(c) ==
  /\ known' = known \cup {c}
  /\ newer' = {p \in newer : c \notin {p[1], p[2]}} \cup ({c} \X (known \ {c}))

Accept(c) ==
  /\ c \in known \/ Cardinality(known) < Room
  /\ HeardOf(c)

Next == \E c \in Contacts : Accept(c)

Spec == Init /\ [][Next]_<<known, newer>>
=============================================================================
