---------------------------- MODULE MCEventReader ----------------------------
(* EventReader on the tests' own tables, on well-formed messages with their
   events, cut short and with tables that differ, and on malformed messages. *)
EXTENDS EventReader

MCUintMax == 65536

X == 120

Atoms == {String(<<E>>), String(<<One, COLON>>), Number(<<MINUS, One>>), Number(<<One, One>>)}
Flat  == {List(<<>>), Dict(<<>>), List(String(<<L>>)), Dict(String(<<E>>) \o Number(<<One>>))}
MCValues == Atoms \cup {TestC[1], TestD[1], TestE[1]} \cup Flat
  \cup {List(a \o b) : a \in Atoms \cup Flat, b \in Atoms \cup Flat}
  \cup {Dict(String(<<D>>) \o a \o String(<<E, X>>) \o b) : a \in Flat, b \in Atoms \cup Flat}

\* the events of a message and one more, or one of them changed
Exact(m) == <<m, EventsOf(m) \o <<Done, Done>>>>
Changed(m) ==
  LET all == EventsOf(m) IN
  {<<m, [all EXCEPT ![j] = e]>> : j \in 1 .. Len(all), e \in {IntIs(-1), StrIs(<<L>>), End}}
CutShort(m) == {<<SubSeq(m, 1, n), EventsOf(m) \o <<Done>>>> : n \in 0 .. Len(m) - 1}

Others == {<<X>>, <<I, X, E>>, <<I>>, <<I, MINUS>>, <<I, One, COLON>>, <<One>>, <<One, X>>,
           <<One, COLON>>, <<L, One, COLON>>, <<D, I, One>>, <<E, E, X>>}
Failing(m) ==
  {<<m, e>> : e \in UNION {[1 .. 3 -> {Plain(k) : k \in BenpErrors}]}}
    \cup {<<m, <<f>> \o e>> : f \in {IsList, IsDict}, e \in [1 .. 2 -> {Plain(k) : k \in BenpErrors}]}

MCTables ==
  Tests \cup {Exact(m) : m \in MCValues} \cup UNION {Changed(m) : m \in MCValues}
    \cup UNION {CutShort(m) : m \in MCValues} \cup UNION {Failing(m) : m \in Others}
=============================================================================
