---------------------------- MODULE MCNodesDat ----------------------------
(* NodesDat on files of every shape, with short words and entries. *)
EXTENDS NodesDatInv

MCWordLen == 2
MCV0Len   == 3
MCV2Len   == 4

File(z, v, n, s) == [zero |-> z, version |-> v, nr |-> n, size |-> s]

\* v2 of two entries and v0 of three, each cut short, whole, and followed by
\* bytes that belong to no entry; an empty v2; an unknown version
MCFiles ==
  {File(0, 2, 2, 11), File(0, 2, 2, 14), File(0, 2, 2, 19)} \cup
  {File(3, 0, 0, 9), File(3, 0, 0, 11), File(3, 0, 0, 15)} \cup
  {File(0, 2, 0, 8), File(0, 1, 2, 14)}
===========================================================================
