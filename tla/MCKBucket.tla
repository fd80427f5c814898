----------------------------- MODULE MCKBucket -----------------------------
(* KBucket with more contacts than it has room for. *)
EXTENDS KBucket

CONSTANTS c1, c2, c3, c4, c5

MCContacts   == {c1, c2, c3, c4, c5}
MCContactMax == 3
=============================================================================
