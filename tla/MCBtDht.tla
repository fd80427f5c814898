------------------------------ MODULE MCBtDht ------------------------------
(* BtDht with a timeout of three units, steps of the wall clock shorter than
   it, and lookups and delays longer than it. *)
EXTENDS BtDht

MCPeerTimeout == 3
MCMaxStep     == 2
MCMaxLag      == 7
MCMaxInbox    == 2
=============================================================================
