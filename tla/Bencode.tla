------------------------------- MODULE Bencode -------------------------------
(***************************************************************************)
(* The bencoding itself, as a grammar over positions: the reference the    *)
(* readers are checked against.  Numbers have no width here.               *)
(***************************************************************************)
EXTENDS Bytes

AllDigits(s, first, last) ==
  /\ first <= last
  /\ \A r \in first .. last : s[r] \in Digits

\* the number written in s[first .. last]
Decimal(s, first, last) ==
  LET n[i \in first - 1 .. last] ==
        IF i < first THEN 0 ELSE 10 * n[i - 1] + s[i] - 48
  IN n[last]

\* the position after the integer, or the string, at p; 0 when there is none
FirstDigit(s, p) ==
  IF p < Len(s) /\ s[p + 1] = MINUS THEN p + 2 ELSE p + 1

IntEnd(s, p) ==
  LET Ends == {q \in p + 1 .. Len(s) :
                 s[q] = E /\ AllDigits(s, FirstDigit(s, p), q - 1)}
  IN IF Ends = {} THEN 0 ELSE 1 + CHOOSE q \in Ends : TRUE

StringEnd(s, p) ==
  LET Ends == {q + 1 + Decimal(s, p, q - 1) :
                 q \in {c \in p + 1 .. Len(s) :
                          s[c] = COLON /\ AllDigits(s, p, c - 1)}}
  IN IF \E q \in Ends : q <= Len(s) + 1 THEN CHOOSE q \in Ends : TRUE ELSE 0

\* grammar[p, "value"]: the position after the value at p; grammar[p, "items"]
\* and grammar[p, "pairs"]: the end marker of the list or dictionary whose
\* elements go on at p.  0 when there is none.
Grammar(s) ==
  LET g[x \in (1 .. Len(s) + 1) \X {"value", "items", "pairs"}] ==
        LET p == x[1]
            Closed(rest) == LET q == g[p + 1, rest] IN IF q = 0 THEN 0 ELSE q + 1
            Then(q, what) == IF q = 0 THEN 0 ELSE g[q, what]
        IN CASE p > Len(s) -> 0
             [] x[2] = "value" /\ p <= Len(s) ->
                  (CASE s[p] = I -> IntEnd(s, p)
                     [] s[p] = L -> Closed("items")
                     [] s[p] = D -> Closed("pairs")
                     [] s[p] \in Digits -> StringEnd(s, p)
                     [] OTHER -> 0)
             [] x[2] # "value" /\ p <= Len(s) ->
                  IF s[p] = E THEN p
                  ELSE IF x[2] = "items" THEN Then(g[p, "value"], "items")
                  ELSE IF s[p] \notin Digits THEN 0
                  ELSE Then(Then(StringEnd(s, p), "value"), "pairs")
  IN g

ValueEnd(s, p) == Grammar(s)[p, "value"]
Close(s, kind, p) == Grammar(s)[p, IF kind = "LIST" THEN "items" ELSE "pairs"]

WellFormed(s) == s # <<>> /\ ValueEnd(s, 1) = Len(s) + 1

\* where the values begin that are read from such a place on, keys not among them;
\* from gives those of the places that are read next
ValuesAt(s, from, p, what) ==
  LET g == Grammar(s)
      at == IF what = "items" THEN p ELSE StringEnd(s, p)
  IN CASE g[p, what] = 0 -> {}
       [] g[p, what] # 0 /\ what = "value" ->
            {p} \cup (CASE s[p] = L -> from[p + 1, "items"]
                        [] s[p] = D -> from[p + 1, "pairs"]
                        [] OTHER -> {})
       [] g[p, what] # 0 /\ what # "value" ->
            IF s[p] = E THEN {} ELSE from[at, "value"] \cup from[g[at, "value"], what]

ValuesFrom(s) ==
  LET from[x \in (1 .. Len(s) + 1) \X {"value", "items", "pairs"}] ==
        ValuesAt(s, from, x[1], x[2])
  IN from

\* all those of a well-formed message
ValuePositions(s) == IF WellFormed(s) THEN ValuesFrom(s)[1, "value"] ELSE {}

\* the integer at p
Integer(s, p) ==
  LET n == Decimal(s, FirstDigit(s, p), IntEnd(s, p) - 2)
  IN IF s[p + 1] = MINUS THEN -n ELSE n

\* an intmax_t holds x
Fits(x) == -UINTMAX <= 2 * x /\ 2 * x < UINTMAX
=============================================================================
