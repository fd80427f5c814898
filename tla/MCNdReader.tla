---------------------------- MODULE MCNdReader ----------------------------
(* NdReader on files of every shape, with short words, entries and buffer. *)
EXTENDS NdReader

MCWordLen == 2
MCV0Len   == 3
MCV2Len   == 4
MCBufLen  == 5

Shape(z, v, n, s) == [zero |-> z, version |-> v, nr |-> n, size |-> s]

\* every length a file of three entries may be cut or padded to, in both
\* formats, and a version the parser does not know
MCFiles ==
  {Shape(0, 2, 3, s) : s \in 0 .. 26} \cup {Shape(3, 0, 0, s) : s \in 0 .. 16}
    \cup {Shape(0, 2, 0, 11), Shape(0, 1, 2, 14)}
===========================================================================
