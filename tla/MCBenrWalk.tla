----------------------------- MODULE MCBenrWalk -----------------------------
(* BenrWalk on nested well-formed messages and all they may be cut to, on
   lists of lists as deep as they get, and on the test's messages. *)
EXTENDS BenrWalk

\* holds the longest integer of the tests
MCUintMax == 1048576
X == 120

Atoms == {StringOf(<<E>>), StringOf(<<One, COLON>>), NumberOf(<<MINUS, Three>>)}
Flat  == {ListOf(<<>>), DictOf(StringOf(<<E>>) \o NumberOf(<<One, Three>>))}
Nested == {ListOf(a \o b) : a \in Atoms \cup Flat, b \in Atoms \cup Flat}
            \cup {DictOf(StringOf(<<D>>) \o a \o StringOf(<<X>>) \o b) :
                    a \in Atoms \cup Flat, b \in Atoms \cup Flat}

\* lists of nothing but lists: what n of them, however nested, may look like
OnlyLists ==
  LET in[n \in 0 .. 6] ==
        IF n = 0 THEN {<<>>}
        ELSE UNION {{ListOf(a) \o b : a \in in[m], b \in in[n - 1 - m]} :
                      m \in 0 .. n - 1}
  IN UNION {{ListOf(a) : a \in in[n]} : n \in {0, 1, 2, 3, 5}}

MCValues ==
  {c[1] : c \in ApiCases} \cup Atoms \cup Flat \cup Nested
    \cup {ListOf(n \o StringOf(<<>>) \o n) : n \in Nested}
    \cup {DictOf(StringOf(<<L>>) \o n) : n \in Nested}
    \cup OnlyLists

Symbols == {D, L, I, E, COLON, One, X}
MCOthers ==
  UNION {{<<c>> \o s : c \in {D, L}, s \in [1 .. n -> Symbols]} : n \in 0 .. 2}
    \cup {<<c>> : c \in Symbols}
=============================================================================
