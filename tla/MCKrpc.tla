------------------------------- MODULE MCKrpc -------------------------------
(* Krpc on the messages the program writes, on dictionaries of up to three
   entries, on everything they may be cut to, and on what is no dictionary. *)
EXTENDS Krpc

MCUintMax == 65536

P == 112
F == 102
X == 120

\* one letter for each query stands for its name
MCQueryName == [n \in Queries |->
  CASE n = "ping" -> <<P>> [] n = "find_node" -> <<F>>
    [] n = "get_peers" -> <<71>> [] n = "announce_peer" -> <<80, X>>]

\* ids of two bytes for those of twenty, with and without a zero byte
MCIds      == {<<a, b>> : a \in {X, E}, b \in {X, 48}}
MCIdsOfNul == {<<a, b>> : a \in {X, 0}, b \in {X, 0}}
MCTrans    == <<T, T>>

Generated == {GenPing(id, MCTrans) : id \in MCIds}
               \cup {GenPingResponse(id, MCTrans) : id \in MCIds}

S(text) == Printed(Len(text)) \o <<COLON>> \o text
Num     == <<I, 49, E>>

Entries == {S(<<Y>>) \o S(<<Q>>), S(<<Y>>) \o S(<<R>>), S(<<Y>>) \o Num,
            S(<<Q>>) \o S(<<P>>), S(<<Q>>) \o S(<<F>>),
            S(<<A>>) \o BenDict(S(<<Y>>) \o S(<<E>>)),
            S(<<R>>) \o BenDict(S(<<D>>) \o BenDict(<<>>) \o S(<<Y>>) \o S(<<E>>)),
            S(<<Y, Y>>) \o S(<<E>>), <<48>> \o S(<<Y>>) \o S(<<E>>)}

MCValues ==
  Generated \cup {BenDict(<<>>)} \cup {BenDict(a) : a \in Entries}
    \cup {BenDict(a \o b) : a, b \in Entries}
    \cup {BenDict(a \o b \o c) : a, b, c \in Entries}

\* up to four tokens behind the opening of a dictionary, in any order: keys
\* without values, keys that are no strings, end markers and garbage anywhere
Tokens == {S(<<Y>>), S(<<Q>>), Num, <<D>>, <<L>>, <<E>>, <<X>>}
MCOthers ==
  {<<D>> \o a \o b \o c \o d :
     a, b \in Tokens, c, d \in Tokens \cup {<<>>}}
    \cup {<<L, E>>, <<E>>, <<X>>, Num}

\* a dictionary that is not closed
MCOthersOpen == {<<D>> \o S(<<Y>>) \o S(<<Q>>)}

MCPings == {GenPing(id, MCTrans) : id \in MCIdsOfNul}

=============================================================================
