-------------------------------- MODULE Krpc --------------------------------
(***************************************************************************)
(* The KRPC messages of src/bt_dht.c: how krpc_gen_ping writes them with   *)
(* src/ben.h, and how krpc_msg_parse reads them with the iterators of      *)
(* BenrIter.  Each step of krpc_msg_parse joins a step of the iterator.    *)
(***************************************************************************)
EXTENDS BenrIter

CONSTANTS
  QueryName,   \* the bytes of the name of each query
  Ids, Trans   \* node ids (any bytes), and the transaction id of every ping

Queries == {"ping", "find_node", "get_peers", "announce_peer"}

ASSUME NamesAssumption ==
  /\ DOMAIN QueryName = Queries
  /\ \A x, y \in Queries : QueryName[x] = QueryName[y] => x = y

A == 97
Q == 113
R == 114
T == 116
V == 118
Y == 121
Keys == {A, E, Q, R, T, Y, V}

-----------------------------------------------------------------------------
(* Writing: ben.h, and the generators *)

\* %zu, of at most two digits
Printed(n) ==
  IF n < 10 THEN <<48 + n>> ELSE <<48 + (n \div 10), 48 + (n % 10)>>

\* %.*s: at most len bytes, and none from the first zero byte on
UpToNul(s) ==
  LET n == CHOOSE i \in 0 .. Len(s) :
             /\ \A j \in 1 .. i : s[j] # 0
             /\ i = Len(s) \/ s[i + 1] = 0
  IN SubSeq(s, 1, n)

BenString(s) == Printed(Len(s)) \o <<COLON>> \o UpToNul(s)
BenDict(s)   == <<D>> \o s \o <<E>>
BenKey(c)    == BenString(<<c>>)

\* mutated: written as an answer
GenPingAsAnswer(id, trans) ==
  BenDict(BenKey(A) \o BenDict(BenString(<<I, D>>) \o BenString(id))
            \o BenKey(Q) \o BenString(QueryName["ping"])
            \o BenKey(T) \o BenString(trans)
            \o BenKey(Y) \o BenKey(R))

GenPing(id, trans) ==
  BenDict(BenKey(A) \o BenDict(BenString(<<I, D>>) \o BenString(id))
            \o BenKey(Q) \o BenString(QueryName["ping"])
            \o BenKey(T) \o BenString(trans)
            \o BenKey(Y) \o BenKey(Q))

GenPingResponse(id, trans) ==
  BenDict(BenKey(R) \o BenDict(BenString(<<I, D>>) \o BenString(id))
            \o BenKey(T) \o BenString(trans)
            \o BenKey(Y) \o BenKey(R))

-----------------------------------------------------------------------------
(* Reading: krpc_msg_parse *)

VARIABLES
  at,       \* where krpc_msg_parse is
  entry,    \* v_a .. v_v, by their key
  type,     \* msg->type
  query,    \* msg->query.query
  result,   \* what krpc_msg_parse returns
  keyed     \* history: no container was met in the place of a key

krpcVars == <<at, entry, type, query, result, keyed>>
allVars  == <<iterVars, krpcVars>>

KrpcInit ==
  /\ Init
  /\ at = "open"
  /\ entry = [c \in Keys |-> None]
  /\ type = "NONE"
  /\ query = "NONE"
  /\ result = 0
  /\ keyed = TRUE

NotADict ==
  /\ at = "open"
  /\ BenrInit(data).kind # "DICT"
  /\ result' = -1
  /\ at' = "refused"
  /\ UNCHANGED <<iterVars, entry, type, query, keyed>>

OpenDict ==
  /\ at = "open"
  /\ BenrInit(data).kind = "DICT"
  /\ OpenMessage
  /\ at' = "loop"
  /\ UNCHANGED <<entry, type, query, result, keyed>>

NextEntry ==
  /\ at = "loop"
  /\ DictNext
  /\ at' = "call"
  /\ UNCHANGED <<entry, type, query, result, keyed>>

InReader ==
  /\ at = "call"
  /\ Skip
  /\ UNCHANGED krpcVars

CallReturns ==
  /\ at = "call"
  /\ pc = "idle"
  /\ UNCHANGED <<iterVars, type, query, result>>

\* the bytes of a string
Text(b) == SubSeq(data, b.at.pos, b.at.pos + b.at.len - 1)

\* mutated: the first letter of a longer key is taken for it
NoteEntryByLetter ==
  /\ CallReturns
  /\ ret = "ok"
  /\ entry' = IF key.kind = "STRING" /\ key.at.len > 0 /\ Text(key)[1] \in Keys
              THEN [entry EXCEPT ![Text(key)[1]] = val] ELSE entry
  /\ keyed' = (keyed /\ ~IsContainer(key))
  /\ at' = "loop"

\* a key of one byte that is known is noted, any other passed over
NoteEntry ==
  /\ CallReturns
  /\ ret = "ok"
  /\ entry' = IF key.kind = "STRING" /\ key.at.len = 1 /\ Text(key)[1] \in Keys
              THEN [entry EXCEPT ![Text(key)[1]] = val] ELSE entry
  /\ keyed' = (keyed /\ ~IsContainer(key))
  /\ at' = "loop"

\* mutated: the end of the dictionary is taken for an entry
RanOutOnError ==
  /\ CallReturns
  /\ ret = "bad"
  /\ at' = "parse"
  /\ UNCHANGED <<entry, keyed>>

\* the end, or an error in a container: what was found so far is looked at
RanOut ==
  /\ CallReturns
  /\ ret # "ok"
  /\ at' = "parse"
  /\ UNCHANGED <<entry, keyed>>

\* krpc_parse_y
ParseY(b) ==
  IF b.kind # "STRING" \/ b.at.len # 1 THEN "NONE"
  ELSE CASE Text(b)[1] = E -> "ERROR"
         [] Text(b)[1] = Q -> "QUERY"
         [] Text(b)[1] = R -> "RESPONSE"
         [] OTHER -> "NONE"

\* krpc_msg_parse_query
Named(b) == {x \in Queries : b.kind = "STRING" /\ Text(b) = QueryName[x]}

\* return -1, before or after the message was understood
Refuse ==
  /\ result' = -1
  /\ at' = "refused"

ParseType ==
  /\ at = "parse"
  /\ type' = ParseY(entry[Y])
  /\ \/ type' = "NONE" /\ Refuse
     \/ type' \in {"QUERY", "RESPONSE"} /\ at' = "query" /\ UNCHANGED result
     \/ type' = "ERROR" /\ at' = "elements" /\ UNCHANGED result
  /\ UNCHANGED <<iterVars, entry, query, keyed>>

\* mutated: a name that is not known is let through
ParseQueryAnyName ==
  /\ at = "query"
  /\ query' \in Named(entry[Q]) \cup {"NONE"}
  /\ at' = "elements"
  /\ UNCHANGED <<iterVars, entry, type, keyed, result>>

\* of a response as of a query, and what is refused leaves msg->query unset
ParseQuery ==
  /\ at = "query"
  /\ \/ query' \in Named(entry[Q]) /\ at' = "elements" /\ UNCHANGED result
     \/ Named(entry[Q]) = {} /\ Refuse /\ UNCHANGED query
  /\ UNCHANGED <<iterVars, entry, type, keyed>>

\* the TODO: -1 is returned for what was understood as well
ParseElements ==
  /\ at = "elements"
  /\ result' = -1
  /\ at' = "understood"
  /\ UNCHANGED <<iterVars, entry, type, query, keyed>>

KrpcNext ==
  \/ NotADict \/ OpenDict \/ NextEntry \/ InReader
  \/ NoteEntry \/ RanOut \/ ParseType \/ ParseQuery \/ ParseElements

\* krpc_msg_parse runs until it returns
KrpcSpec == KrpcInit /\ [][KrpcNext]_allVars /\ WF_allVars(KrpcNext)

-----------------------------------------------------------------------------
(* Properties *)

Returned == at \in {"refused", "understood"}

\* the string at p has those bytes
StringAt(s, p, text) ==
  /\ p # 0 /\ StringEnd(s, p) # 0
  /\ \E c \in p + 1 .. Len(s) :
       /\ s[c] = COLON /\ AllDigits(s, p, c - 1)
       /\ SubSeq(s, c + 1, StringEnd(s, p) - 1) = text

\* where the key and the value at p end; 0 when there is no such pair
PairEnd(s, p) == IF StringEnd(s, p) = 0 THEN 0 ELSE ValueEnd(s, StringEnd(s, p))

\* the position of the value of the last pair with that key, of those from each
\* position on and of those of a dictionary; 0 when there is none
LastFrom(s, c) ==
  LET last[p \in 1 .. Len(s) + 1] ==
        LET later == IF PairEnd(s, p) = 0 THEN 0 ELSE last[PairEnd(s, p)]
        IN IF later = 0 /\ StringAt(s, p, <<c>>) THEN StringEnd(s, p) ELSE later
  IN last

LastValue(s, c) == LastFrom(s, c)[2]

\* A well-formed message (one in memory: a uintmax_t holds its length) is
\* understood as what it says: the type is that of its last `y', the query that
\* of its last `q', and it is refused only for want of a `y' or, in a query, of a
\* `q' that names one.  A response with such a `q' is understood; of one without,
\* which the code refuses and its own krpc_gen_ping_response writes, nothing is said.
ParsedAsWritten ==
  Returned /\ WellFormed(data) /\ Len(data) < UINTMAX /\ data[1] = D =>
    LET y == LastValue(data, Y)
        q == LastValue(data, Q)
    IN /\ type = (IF StringAt(data, y, <<E>>) THEN "ERROR"
                  ELSE IF StringAt(data, y, <<Q>>) THEN "QUERY"
                  ELSE IF StringAt(data, y, <<R>>) THEN "RESPONSE" ELSE "NONE")
       /\ type # "RESPONSE" =>
            /\ \A x \in Queries :
                 query = x <=> type = "QUERY" /\ StringAt(data, q, QueryName[x])
            /\ at = "understood" <=>
                 type = "ERROR" \/ (type = "QUERY" /\ query # "NONE")
       /\ type = "RESPONSE" /\ (\E x \in Queries : StringAt(data, q, QueryName[x])) =>
            at = "understood"

\* The parse of a well-formed message returns.
WellFormedReturns == WellFormed(data) ~> Returned

\* the token at p, as the reader takes it
TokenAt(s, p) == BenrNext(s, Ctx(p, Len(s) + 1 - p))

\* what the depth of nesting changes by at a token
Deeper(b) == IF IsContainer(b) THEN 1 ELSE IF b.kind = "X_END" THEN -1 ELSE 0

\* the depth of nesting at the position p: of the tokens before it, containers
\* less end markers
Nesting(s, p) ==
  LET d[c \in 1 .. Len(s) + 1] ==
        LET x == TokenAt(s, c)
        IN IF c >= p \/ x.ctx.pos = c THEN 0 ELSE Deeper(x.b) + d[x.ctx.pos]
  IN d[1]

\* the token b stands behind the key c, a string of that one byte, in the top
\* level dictionary
StandsBehind(b, c) ==
  \E p \in 1 .. Len(data) :
    LET x == TokenAt(data, p) IN
    /\ x.b.kind = "STRING" /\ Text(x.b) = <<c>>
    /\ BenrNext(data, x.ctx).b = b
    /\ Nesting(data, p) = 1

\* Whatever the message, even one that is no bencoding: what is noted for a key
\* is the value behind that key in the top level dictionary, and not one of an
\* inner container, as long as no container stands where a key should.
EntriesAreTheirKeys ==
  keyed => \A c \in Keys : entry[c] # None => StandsBehind(entry[c], c)

(* What src/bt_dht.c says and the code does not keep. *)

\* "we should now have all the entries we care about, start parsing them": a
\* dictionary that is not closed never gets there, its loop does not end.
EntriesRunOut == <>Returned

\* "a = { "id" : MY_NODE_ID }", "q = "ping"", "t = SOME_ID", "y = "q"": a ping is
\* read as what was written.  Not so when the id has a zero byte: the string
\* announces the whole id and ends before that byte.
PingsAreUnderstood ==
  Returned =>
    \A id \in Ids : data = GenPing(id, Trans) =>
      LET a == <<50, COLON, I, D>> \o Printed(Len(id)) \o <<COLON>> \o id IN
      /\ at = "understood"
      /\ type = "QUERY" /\ query = "ping"
      /\ Text(entry[T]) = Trans
      /\ SubSeq(data, entry[A].at.pos, entry[A].at.pos + Len(a) - 1) = a

=============================================================================
