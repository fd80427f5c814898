------------------------------ MODULE MCNnode ------------------------------
(* Nnode with two names for files and command lines of up to three options. *)
EXTENDS Nnode

MCFiles == {"a.json", "b.json"}
MCMaxOptions == 3
=============================================================================
