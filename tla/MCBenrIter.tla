----------------------------- MODULE MCBenrIter -----------------------------
(* BenrIter on nested well-formed containers, everything they may be cut to,
   and every short sequence of the bytes that mean something. *)
EXTENDS BenrIter

\* a uintmax_t of six bits: longer than any message, and numbers of two digits wrap
MCUintMax == 64

One   == 49
Two   == 50
Three == 51
X     == 120

String(s)      == <<48 + Len(s), COLON>> \o s
Number(digits) == <<I>> \o digits \o <<E>>
List(items) == <<L>> \o items \o <<E>>
Dict(pairs) == <<D>> \o pairs \o <<E>>

Atoms == {String(<<E>>), String(<<One, COLON>>), Number(<<MINUS, Three>>)}
Flat  == {List(<<>>), Dict(String(<<E>>) \o Number(<<One, Two>>))}
Nested == {List(a \o b) : a \in Atoms \cup Flat, b \in Atoms \cup Flat}
            \cup {Dict(String(<<D>>) \o a \o String(<<X>>) \o b) :
                    a \in Atoms \cup Flat, b \in Atoms \cup Flat}

MCValues == Flat \cup Nested \cup {List(n \o String(<<>>)) : n \in Nested}
                 \cup {Dict(String(<<L>>) \o n) : n \in Nested}

\* strings with the lengths 63, 64, 65, 66 and 129, of which a uintmax_t keeps
\* 63, 0, 1, 2 and 1
Wrapping == {<<c>> \o n \o <<COLON, X, E>> \o s :
               c \in {D, L}, s \in {<<>>, <<X>>},
               n \in {<<54, 51>>, <<54, 52>>, <<54, 53>>, <<54, 54>>, <<One, 50, 57>>}}

\* a key without a value, alone and behind a pair, and bytes behind the dictionary
NoValue == {Dict(a \o String(<<X>>)) \o s :
              a \in {<<>>, String(<<E>>) \o List(<<>>)},
              s \in {<<E>>, Number(<<One>>) \o <<E>>, String(<<X>>) \o <<E>>,
                    String(<<E>>) \o String(<<X>>) \o <<E>>}}

\* short messages of the bytes that mean something
Symbols == {D, L, I, E, MINUS, COLON, One, X}
MCOthers ==
  UNION {{<<c>> \o s : c \in {D, L}, s \in [1 .. n -> Symbols]} : n \in 0 .. 4}
    \cup {<<c>> : c \in Symbols} \cup Wrapping \cup NoValue
=============================================================================
