----------------------------- MODULE KrpcProof -----------------------------
(* Proofs about Krpc, for every message. *)
EXTENDS Krpc, BenrProof

-----------------------------------------------------------------------------
(* A token goes on in the message, or leaves the context where it is. *)

Moving == {"INT", "STRING", "LIST", "DICT", "X_END"}
Staying == ErrorKinds \cup {"NONE"}

\* a number goes on behind its terminator
LEMMA UintMoves ==
  ASSUME NEW t \in Seq(Nat), NEW f \in 1 .. Len(t) + 1, NEW end,
         NEW u, u = InitUint(t, Rest(t, f), end)
  PROVE  \/ u.b.kind \in ErrorKinds
         \/ u.b.kind = "UINT" /\ \E q \in f + 1 .. Len(t) + 1 : u.ctx = Rest(t, q)
<1>1. Rest(t, f).pos = f /\ Unread(Rest(t, f)) = f .. Len(t)
  BY RestIs, Zenon
<1>2. PICK q : q = Stop(t, Rest(t, f))
  OBVIOUS
<1>3. CASE ~Stops(t, Rest(t, f))
  <2>1. u = Fail("UNEXPECTED_EOF_IN_INT", 0, 0, Rest(t, f))
    BY <1>3, Zenon DEF InitUint
  <2>2. QED
    BY <2>1, FailIs, KindsDiffer
<1>4. CASE Stops(t, Rest(t, f)) /\ t[q] = end
  <2>1. q \in f .. Len(t)
    BY <1>1, <1>2, <1>4, Zenon DEF Stops, Stop
  <2>2. PICK num : u = Take(Benr("UINT", num, Nowhere), Advance(Rest(t, f), q + 1 - f))
    BY <1>1, <1>2, <1>4, Zenon DEF InitUint
  <2>3. PICK n \in Nat : n = Len(t)
    OBVIOUS
  <2>4. q + 1 - f \in 0 .. n + 1 - f /\ f + (q + 1 - f) = q + 1 /\ q + 1 \in f + 1 .. n + 1
    BY <2>1, <2>3
  <2>5. Advance(Rest(t, f), q + 1 - f) = Rest(t, q + 1)
    BY <2>3, <2>4, AdvanceIs, Zenon
  <2>6. u.b.kind = "UINT" /\ u.ctx = Rest(t, q + 1)
    BY <2>2, <2>5, TakeIs
  <2>7. QED
    BY <2>3, <2>4, <2>6, Zenon
<1>5. CASE Stops(t, Rest(t, f)) /\ t[q] # end
  <2>1. u = Fail("UNEXPECTED_BYTE_IN_INT", 0, q, Rest(t, f))
    BY <1>2, <1>5, Zenon DEF InitUint
  <2>2. u.b.kind = "UNEXPECTED_BYTE_IN_INT"
    BY <2>1, FailIs
  <2>3. QED
    BY <2>2 DEF ErrorKinds
<1>6. QED
  BY <1>3, <1>4, <1>5

\* the token x leaves the context at p, or goes on
Moves(x, t, p) ==
  \/ x.ctx = Rest(t, p) /\ x.b.kind \in Staying
  \/ /\ x.b.kind \in Moving
     /\ \E q \in p + 1 .. Len(t) + 1 : x.ctx = Rest(t, q)
     /\ IsContainer(x.b) => x.b.at = x.ctx
     /\ x.b.kind = "STRING" => \E q \in 1 .. Len(t) + 1 : \E l \in 0 .. Len(t) + 1 - q :
                                 x.b.at = Ctx(q, l)

\* an integer
LEMMA IntMoves ==
  ASSUME NEW t \in Seq(Nat), NEW p \in 1 .. Len(t)
  PROVE  Moves(NextInt(t, Rest(t, p)), t, p)
<1>1. PICK n \in Nat : n = Len(t)
  OBVIOUS
<1> DEFINE d == Advance(Rest(t, p), 1)
           minus == Peek(t, d) = MINUS
           g == IF minus THEN Advance(d, 1) ELSE d
           u == InitUint(t, g, E)
           x == NextInt(t, Rest(t, p))
<1>2. x = IF d.len = 0 THEN Fail("UNEXPECTED_EOF", 0, 0, Rest(t, p))
          ELSE IF u.b.kind # "UINT" THEN Take(u.b, Rest(t, p))
          ELSE Take(Benr("INT", Signed(u.b.num, IF minus THEN -1 ELSE 1), Nowhere), u.ctx)
  BY Zenon DEF NextInt
<1>3. d = Rest(t, p + 1) /\ p + 1 \in 1 .. n + 1
  <2>1. 1 \in 0 .. n + 1 - p /\ p \in 1 .. n + 1 /\ p + 1 \in 1 .. n + 1
    BY <1>1
  <2>2. QED
    BY <1>1, <2>1, AdvanceIs, Zenon
<1> HIDE DEF d, x
<1>4. CASE d.len = 0
  <2>1. x.b.kind = "UNEXPECTED_EOF" /\ x.ctx = Rest(t, p)
    BY <1>2, <1>4, FailIs
  <2>2. QED
    BY <2>1, KindsDiffer DEF Moves, Staying, x
<1>5. CASE d.len # 0
  <2>1. p + 1 # n + 1
    BY <1>1, <1>3, <1>5, RestIs, Zenon
  <2>2. Advance(d, 1) = Rest(t, p + 2)
    <3>1. 1 \in 0 .. n + 1 - (p + 1) /\ p + 1 + 1 = p + 2
      BY <1>1, <1>3, <2>1
    <3>2. Advance(Rest(t, p + 1), 1) = Rest(t, p + 1 + 1)
      BY <1>1, <1>3, <3>1, AdvanceIs, Zenon
    <3>3. QED
      BY <1>3, <3>1, <3>2
  <2>3. PICK f \in {p + 1, p + 2} : g = Rest(t, f)
    BY <1>3, <2>2
  <2> HIDE DEF g
  <2>4. f \in 1 .. n + 1 /\ f > p
    BY <1>1, <1>3, <2>1, <2>3
  <2>5. \/ u.b.kind \in ErrorKinds
        \/ u.b.kind = "UINT" /\ \E q \in f + 1 .. n + 1 : u.ctx = Rest(t, q)
    BY <1>1, <2>3, <2>4, UintMoves
  <2> HIDE DEF u, minus
  <2>6. CASE u.b.kind \in ErrorKinds
    <3>1. x = Take(u.b, Rest(t, p))
      BY <1>2, <1>5, <2>6, KindsDiffer
    <3>2. QED
      BY <2>6, <3>1, TakenIs DEF Moves, Staying, x
  <2>7. CASE u.b.kind = "UINT" /\ \E q \in f + 1 .. n + 1 : u.ctx = Rest(t, q)
    <3>1. PICK num : x = Take(Benr("INT", num, Nowhere), u.ctx)
      BY <1>2, <1>5, <2>7, Zenon
    <3>2. x.b.kind = "INT" /\ x.ctx = u.ctx
      BY <3>1, TakeIs
    <3>3. PICK q \in f + 1 .. n + 1 : u.ctx = Rest(t, q)
      BY <2>7
    <3>4. q \in p + 1 .. n + 1
      BY <1>1, <2>4, <3>3
    <3>5. x.b.kind \in Moving /\ x.b.kind # "STRING" /\ ~IsContainer(x.b)
      BY <3>2 DEF Moving, IsContainer, ContainerKinds
    <3>6. QED
      BY <1>1, <3>2, <3>3, <3>4, <3>5, Zenon DEF Moves, x
  <2>8. QED
    BY <2>5, <2>6, <2>7
<1>6. QED
  BY <1>4, <1>5

\* a string
LEMMA StringMoves ==
  ASSUME NEW t \in Seq(Nat), NEW p \in 1 .. Len(t)
  PROVE  Moves(NextString(t, Rest(t, p)), t, p)
<1>1. PICK n \in Nat : n = Len(t) /\ p \in 1 .. n + 1
  OBVIOUS
<1> DEFINE u == InitUint(t, Rest(t, p), COLON)
           x == NextString(t, Rest(t, p))
<1>2. x = IF u.b.kind # "UINT" THEN Take(u.b, Rest(t, p))
          ELSE IF u.b.num \in 0 .. u.ctx.len
            THEN Take(Benr("STRING", 0, Ctx(u.ctx.pos, u.b.num)), Advance(u.ctx, u.b.num))
          ELSE Fail("STRING_TOO_LONG", u.b.num, 0, Rest(t, p))
  BY Zenon DEF NextString
<1>3. \/ u.b.kind \in ErrorKinds
      \/ u.b.kind = "UINT" /\ \E q \in p + 1 .. n + 1 : u.ctx = Rest(t, q)
  <2> HIDE DEF x
  <2>1. p \in 1 .. Len(t) + 1
    BY <1>1
  <2>2. QED
    BY <1>1, <2>1, UintMoves
<1> HIDE DEF u, x
<1>4. CASE u.b.kind \in ErrorKinds
  <2>1. x = Take(u.b, Rest(t, p))
    BY <1>2, <1>4, KindsDiffer
  <2>2. QED
    BY <1>4, <2>1, TakenIs DEF Moves, Staying, x
<1>5. CASE /\ u.b.kind = "UINT" /\ \E q \in p + 1 .. n + 1 : u.ctx = Rest(t, q)
           /\ u.b.num \notin 0 .. u.ctx.len
  <2>1. x = Fail("STRING_TOO_LONG", u.b.num, 0, Rest(t, p))
    BY <1>2, <1>5, Zenon
  <2>2. x.b.kind = "STRING_TOO_LONG" /\ x.ctx = Rest(t, p)
    BY <2>1, FailIs
  <2>3. QED
    BY <2>2, KindsDiffer DEF Moves, Staying, x
<1>6. CASE /\ u.b.kind = "UINT" /\ \E q \in p + 1 .. n + 1 : u.ctx = Rest(t, q)
           /\ u.b.num \in 0 .. u.ctx.len
  <2>1. PICK q \in p + 1 .. n + 1 : u.ctx = Rest(t, q)
    BY <1>6
  <2>2. q \in 1 .. n + 1
    BY <1>1, <2>1
  <2>3. u.ctx.pos = q /\ u.ctx.len = n + 1 - q
    <3>1. Rest(t, q).pos = q /\ Rest(t, q).len = n + 1 - q
      BY <1>1, <2>2, RestIs, Zenon
    <3>2. QED
      BY <2>1, <3>1, Zenon
  <2>4. PICK l : l = u.b.num /\ l \in 0 .. n + 1 - q
    BY <1>6, <2>3
  <2>5. x = Take(Benr("STRING", 0, Ctx(q, l)), Advance(Rest(t, q), l))
    <3>1. l \in 0 .. u.ctx.len
      BY <1>6, <2>4
    <3>2. x = Take(Benr("STRING", 0, Ctx(u.ctx.pos, l)), Advance(u.ctx, l))
      BY <1>2, <1>6, <2>4, <3>1, Zenon
    <3>3. QED
      BY <2>1, <2>3, <3>2
  <2>6. Advance(Rest(t, q), l) = Rest(t, q + l)
    BY <1>1, <2>2, <2>4, AdvanceIs, Zenon
  <2>7. x.b.kind = "STRING" /\ x.b.at = Ctx(q, l) /\ x.ctx = Rest(t, q + l)
    <3>1. PICK c : c = Rest(t, q + l)
      OBVIOUS
    <3>2. PICK place : place = Ctx(q, l)
      OBVIOUS
    <3>3. x = Take(Benr("STRING", 0, place), c)
      BY <2>5, <2>6, <3>1, <3>2, Zenon
    <3>4. x.b.kind = "STRING" /\ x.b.at = place /\ x.ctx = c
      BY <3>3, TakeIs
    <3>5. QED
      BY <3>1, <3>2, <3>4, Zenon
  <2>8. q + l \in p + 1 .. n + 1
    BY <1>1, <2>1, <2>4, SMTT(30)
  <2>9. x.b.kind \in Moving /\ ~IsContainer(x.b)
    BY <2>7 DEF Moving, IsContainer, ContainerKinds
  <2>10. QED
    BY <1>1, <2>2, <2>4, <2>7, <2>8, <2>9, Zenon DEF Moves, x
<1>7. QED
  BY <1>3, <1>4, <1>5, <1>6

\* any token
LEMMA TokenMoves ==
  ASSUME NEW t \in Seq(Nat), NEW p \in 1 .. Len(t) + 1
  PROVE  Moves(TokenAt(t, p), t, p)
<1>1. TokenAt(t, p) = BenrNext(t, Rest(t, p))
  BY Zenon DEF TokenAt, Rest
<1>2. PICK n \in Nat : n = Len(t)
  OBVIOUS
<1> DEFINE c == Rest(t, p)
           x == BenrNext(t, c)
<1>3. CASE p = Len(t) + 1
  <2>1. IsNothing(x, t, p)
    BY <1>3, NothingLeft
  <2>2. QED
    BY <1>1, <2>1 DEF IsNothing, Moves, Staying
<1>4. CASE p # Len(t) + 1
  <2>1. p \in 1 .. n /\ p + 1 \in p + 1 .. n + 1 /\ 1 \in 0 .. n + 1 - p
    BY <1>2, <1>4
  <2>2. c.len # 0 /\ Peek(t, c) = t[p] /\ c.pos = p
    BY <1>4, RestIs, Zenon
  <2>3. Advance(c, 1) = Rest(t, p + 1)
    BY <1>2, <2>1, AdvanceIs, Zenon
  <2>4. PICK b : b = t[p]
    OBVIOUS
  <2>5. x = CASE b = I -> NextInt(t, c)
              [] b = D -> Open("DICT", c)
              [] b = L -> Open("LIST", c)
              [] b = E -> Take(Benr("X_END", 0, Nowhere), Advance(c, 1))
              [] b \in Digits -> NextString(t, c)
              [] OTHER -> Fail("UNEXPECTED_BYTE", 0, c.pos, c)
    BY <2>2, <2>4, Zenon DEF BenrNext
  <2> HIDE DEF x, c
  <2>6. CASE b = I
    <3>1. x = NextInt(t, c)
      BY <2>5, <2>6 DEF I, D, L, E, Digits
    <3>2. QED
      BY <1>1, <1>2, <2>1, <3>1, IntMoves DEF x, c
  <2>7. CASE b \in Digits
    <3>1. x = NextString(t, c)
      BY <2>5, <2>7 DEF I, D, L, E, Digits
    <3>2. QED
      BY <1>1, <1>2, <2>1, <3>1, StringMoves DEF x, c
  <2>8. CASE b \in {D, L, E}
    <3>1. PICK r : r = Advance(c, 1)
      OBVIOUS
    <3>2. x \in {Take(Benr("DICT", 0, r), r), Take(Benr("LIST", 0, r), r),
                 Take(Benr("X_END", 0, Nowhere), r)}
      <4>1. /\ I # D /\ I # L /\ I # E /\ D # L /\ D # E /\ L # E
            /\ D \notin Digits /\ L \notin Digits /\ E \notin Digits
        BY DEF I, D, L, E, Digits
      <4>2. b = D => x = Open("DICT", c)
        BY <2>5, <4>1
      <4>3. b = L => x = Open("LIST", c)
        BY <2>5, <4>1
      <4>4. b = E => x = Take(Benr("X_END", 0, Nowhere), Advance(c, 1))
        BY <2>5, <4>1
      <4>5. QED
        BY <2>8, <3>1, <4>2, <4>3, <4>4, Zenon DEF Open
    <3>3. /\ x.b.kind \in {"DICT", "LIST", "X_END"} /\ x.ctx = r
          /\ x.b.kind \in {"DICT", "LIST"} => x.b.at = r
      BY <3>2 DEF Take, Benr
    <3>4. /\ x.b.kind \in Moving /\ x.b.kind # "STRING"
          /\ IsContainer(x.b) => x.b.at = x.ctx
      BY <3>3 DEF Moving, IsContainer, ContainerKinds
    <3>5. QED
      BY <1>1, <1>2, <2>1, <2>3, <3>1, <3>3, <3>4, Zenon DEF Moves, x, c
  <2>9. CASE b \notin {I, D, L, E} \cup Digits
    <3>1. x = Fail("UNEXPECTED_BYTE", 0, c.pos, c)
      BY <2>5, <2>9
    <3>2. x.b.kind = "UNEXPECTED_BYTE" /\ x.ctx = c
      BY <3>1, FailIs
    <3>3. x.b.kind \in Staying
      BY <3>2 DEF Staying, ErrorKinds
    <3>4. QED
      BY <1>1, <3>2, <3>3, Zenon DEF Moves, x, c
  <2>10. QED
    BY <2>6, <2>7, <2>8, <2>9
<1>5. QED
  BY <1>3, <1>4
-----------------------------------------------------------------------------
(* The depth of nesting *)

\* the position after the token at p
After(s, p) == TokenAt(s, p).ctx.pos

\* d[c] is what the depth of nesting changes by between c and p
Counts(d, s, p) ==
  /\ d \in [1 .. Len(s) + 1 -> Int]
  /\ \A c \in 1 .. Len(s) + 1 :
       d[c] = IF c >= p \/ After(s, c) = c THEN 0
              ELSE Deeper(TokenAt(s, c).b) + d[After(s, c)]

\* no token goes back, or beyond the end
LEMMA AfterIs ==
  ASSUME NEW s \in Seq(Nat), NEW n \in Nat, n = Len(s), NEW c \in 1 .. n + 1
  PROVE  /\ After(s, c) \in c .. n + 1
         /\ Deeper(TokenAt(s, c).b) \in Int
<1>1. Moves(TokenAt(s, c), s, c)
  BY TokenMoves
<1>2. \A q \in 1 .. n + 1 : Rest(s, q).pos = q
  BY RestIs
<1>3. \A q \in c + 1 .. n + 1 : q \in 1 .. n + 1 /\ q \in c .. n + 1
  OBVIOUS
<1>4. PICK q \in c .. n + 1 : TokenAt(s, c).ctx = Rest(s, q)
  BY <1>1, <1>3 DEF Moves
<1>5. q \in 1 .. n + 1
  OBVIOUS
<1>6. After(s, c) = q
  BY <1>2, <1>4, <1>5, Zenon DEF After
<1>7. QED
  BY <1>6 DEF Deeper

\* Nesting has the value its definition says.
LEMMA NestingIs ==
  ASSUME NEW s \in Seq(Nat), NEW p \in 1 .. Len(s) + 1
  PROVE  \E d : Counts(d, s, p) /\ Nesting(s, p) = d[1]
<1>1. PICK n \in Nat : n = Len(s)
  OBVIOUS
<1> DEFINE S == 1 .. n + 1
           Counted == Int
           to == [c \in S |-> After(s, c)]
           here == [c \in S |-> Deeper(TokenAt(s, c).b)]
           rank == [c \in S |-> n + 1 - c]
           F == [c \in S |-> [g \in [S -> Counted] |->
                   IF c >= p \/ to[c] = c THEN 0 ELSE here[c] + g[to[c]]]]
           d == CHOOSE d : d = [c \in 1 .. Len(s) + 1 |->
                   IF c >= p \/ TokenAt(s, c).ctx.pos = c THEN 0
                   ELSE Deeper(TokenAt(s, c).b) + d[TokenAt(s, c).ctx.pos]]
<1>2. \A c \in S : /\ to[c] = After(s, c) /\ to[c] \in S /\ to[c] \in c .. n + 1
                    /\ here[c] = Deeper(TokenAt(s, c).b) /\ here[c] \in Int
  <2>1. ASSUME NEW c \in S PROVE After(s, c) \in c .. n + 1 /\ Deeper(TokenAt(s, c).b) \in Int
    BY <1>1, AfterIs
  <2>2. \A c \in S : \A q \in c .. n + 1 : q \in S
    OBVIOUS
  <2>3. \A c \in S : to[c] = After(s, c) /\ here[c] = Deeper(TokenAt(s, c).b)
    OBVIOUS
  <2> HIDE DEF to, here
  <2>4. QED
    BY <2>1, <2>2, <2>3
<1> HIDE DEF to, here
<1>3. /\ rank \in [S -> Nat]
      /\ \A c \in S : to[c] # c => rank[to[c]] < rank[c]
  <2>1. rank \in [S -> Nat] /\ \A c \in S : rank[c] = n + 1 - c
    OBVIOUS
  <2> HIDE DEF rank
  <2>2. ASSUME NEW c \in S, to[c] # c PROVE rank[to[c]] < rank[c]
    <3>1. PICK q \in c .. n + 1 : q = to[c] /\ q \in S
      BY <1>2
    <3>2. n + 1 - q < n + 1 - c
      BY <2>2, <3>1
    <3>3. QED
      BY <2>1, <3>1, <3>2, Zenon
  <2>3. QED
    BY <2>1, <2>2
<1> HIDE DEF rank
<1>4. /\ \A c \in S : \A g \in [S -> Counted] :
           F[c][g] = IF c >= p \/ to[c] = c THEN 0 ELSE here[c] + g[to[c]]
      /\ F \in [S -> [[S -> Counted] -> Counted]]
  <2>1. ASSUME NEW c \in S, NEW g \in [S -> Counted]
        PROVE  (IF c >= p \/ to[c] = c THEN 0 ELSE here[c] + g[to[c]]) \in Counted
    <3>1. PICK q \in S : q = to[c]
      BY <1>2, Zenon
    <3>2. PICK x \in Int, y \in Int : x = here[c] /\ y = g[q]
      BY <1>2
    <3>3. x + y \in Int /\ 0 \in Int
      OBVIOUS
    <3>4. QED
      BY <3>1, <3>2, <3>3, Zenon
  <2> HIDE DEF S, Counted
  <2>2. QED
    BY <2>1
<1> HIDE DEF F
<1>5. Recursion(F, rank, S, Counted)
  <2>1. ASSUME NEW c \in S, NEW g \in [S -> Counted], NEW h \in [S -> Counted],
               \A y \in S : rank[y] < rank[c] => g[y] = h[y]
        PROVE  F[c][g] = F[c][h]
    <3>1. to[c] # c => g[to[c]] = h[to[c]]
      BY <1>2, <1>3, <2>1, Zenon
    <3>2. F[c][g] = IF c >= p \/ to[c] = c THEN 0 ELSE here[c] + g[to[c]]
      BY <1>4, Zenon
    <3>3. F[c][h] = IF c >= p \/ to[c] = c THEN 0 ELSE here[c] + h[to[c]]
      BY <1>4, Zenon
    <3>4. QED
      BY <3>1, <3>2, <3>3, Zenon
  <2>2. QED
    BY <1>3, <1>4, <2>1, Zenon DEF Recursion
<1>6. PICK f \in [S -> Counted] : \A c \in S : f[c] = F[c][f]
  <2>1. 0 \in Counted
    OBVIOUS
  <2> HIDE DEF S, Counted
  <2>2. Counted # {}
    BY <2>1
  <2>3. QED
    BY <1>5, <2>2, RecursionHasFunction
<1>7. f = [c \in 1 .. Len(s) + 1 |->
             IF c >= p \/ TokenAt(s, c).ctx.pos = c THEN 0
             ELSE Deeper(TokenAt(s, c).b) + f[TokenAt(s, c).ctx.pos]]
  <2>1. f = [c \in S |-> f[c]]
    OBVIOUS
  <2>2. ASSUME NEW c \in S
        PROVE  f[c] = IF c >= p \/ TokenAt(s, c).ctx.pos = c THEN 0
                      ELSE Deeper(TokenAt(s, c).b) + f[TokenAt(s, c).ctx.pos]
    <3>1. to[c] = TokenAt(s, c).ctx.pos /\ here[c] = Deeper(TokenAt(s, c).b)
      BY <1>2, Zenon DEF After
    <3>2. f[c] = IF c >= p \/ to[c] = c THEN 0 ELSE here[c] + f[to[c]]
      BY <1>4, <1>6, Zenon
    <3>3. QED
      BY <3>1, <3>2
  <2>3. QED
    BY <1>1, <2>1, <2>2, Zenon
<1>8. d = [c \in 1 .. Len(s) + 1 |->
             IF c >= p \/ TokenAt(s, c).ctx.pos = c THEN 0
             ELSE Deeper(TokenAt(s, c).b) + d[TokenAt(s, c).ctx.pos]]
  BY <1>7, Zenon
<1>9. Nesting(s, p) = d[1]
  BY Zenon DEF Nesting
<1> HIDE DEF d
<1>10. \A c \in S : d[c] = IF c >= p \/ to[c] = c THEN 0 ELSE here[c] + d[to[c]]
  <2>1. ASSUME NEW c \in S
        PROVE  d[c] = IF c >= p \/ to[c] = c THEN 0 ELSE here[c] + d[to[c]]
    <3>1. to[c] = TokenAt(s, c).ctx.pos /\ here[c] = Deeper(TokenAt(s, c).b)
      BY <1>2, Zenon DEF After
    <3>2. d[c] = IF c >= p \/ TokenAt(s, c).ctx.pos = c THEN 0
                 ELSE Deeper(TokenAt(s, c).b) + d[TokenAt(s, c).ctx.pos]
      BY <1>1, <1>8, Zenon
    <3>3. QED
      BY <3>1, <3>2
  <2>2. QED
    BY <2>1, Zenon
<1>11. \A c \in S : d[c] \in Int
  <2> DEFINE Bad == {c \in S : d[c] \notin Int}
  <2>1. ASSUME NEW c \in Bad PROVE to[c] \in Bad /\ rank[to[c]] < rank[c]
    <3>1. CASE c >= p \/ to[c] = c
      <4>1. d[c] = 0
        BY <1>10, <3>1, Zenon
      <4>2. QED
        BY <4>1
    <3>2. CASE ~(c >= p \/ to[c] = c)
      <4>1. to[c] \in S /\ rank[to[c]] < rank[c]
        BY <1>2, <1>3, <3>2, Zenon
      <4>2. d[c] = here[c] + d[to[c]] /\ here[c] \in Int
        BY <1>2, <1>10, <3>2, Zenon
      <4>3. d[to[c]] \notin Int
        BY <4>2
      <4>4. QED
        BY <4>1, <4>3
    <3>3. QED
      BY <3>1, <3>2
  <2>2. Bad \subseteq S
    OBVIOUS
  <2>3. Bad = {}
    <3> HIDE DEF Bad, S
    <3>1. QED
      BY <1>3, <2>1, <2>2, NoDescent, Zenon
  <2>4. QED
    BY <2>3
<1>12. d \in [1 .. Len(s) + 1 -> Int]
  BY <1>1, <1>8, <1>11
<1>13. Counts(d, s, p)
  <2>1. ASSUME NEW c \in S
        PROVE  d[c] = IF c >= p \/ After(s, c) = c THEN 0
                      ELSE Deeper(TokenAt(s, c).b) + d[After(s, c)]
    <3>1. to[c] = After(s, c) /\ here[c] = Deeper(TokenAt(s, c).b)
      BY <1>2, Zenon
    <3>2. d[c] = IF c >= p \/ to[c] = c THEN 0 ELSE here[c] + d[to[c]]
      BY <1>10, Zenon
    <3>3. QED
      BY <3>1, <3>2
  <2>2. QED
    BY <1>1, <1>12, <2>1, Zenon DEF Counts
<1>14. QED
  BY <1>9, <1>13

\* the tokens of s follow each other from 1 to p through the positions W
Way(W, s, p) ==
  /\ W \subseteq 1 .. p
  /\ 1 \in W /\ p \in W
  /\ \A c \in W \ {p} : After(s, c) \in W /\ After(s, c) # c

Reached(s, p) == \E W : Way(W, s, p)

\* the message begins outside of every container
LEMMA NestingStarts ==
  ASSUME NEW s \in Seq(Nat)
  PROVE  Reached(s, 1) /\ Nesting(s, 1) = 0
<1>1. 1 \in 1 .. Len(s) + 1 /\ 1 >= 1
  OBVIOUS
<1>2. Way({1}, s, 1)
  BY DEF Way
<1>3. PICK d : Counts(d, s, 1) /\ Nesting(s, 1) = d[1]
  BY <1>1, NestingIs
<1>4. d[1] = 0
  BY <1>1, <1>3, Zenon DEF Counts
<1>5. QED
  BY <1>2, <1>3, <1>4, Zenon DEF Reached

\* A token that is reached and moves on changes the depth by what it is.
LEMMA NestingOn ==
  ASSUME NEW s \in Seq(Nat), NEW p \in 1 .. Len(s) + 1, Reached(s, p), After(s, p) # p
  PROVE  /\ Reached(s, After(s, p))
         /\ Nesting(s, After(s, p)) = Nesting(s, p) + Deeper(TokenAt(s, p).b)
<1>1. PICK n \in Nat : n = Len(s)
  OBVIOUS
<1>2. PICK q \in p + 1 .. n + 1 : q = After(s, p)
  <2>1. PICK q : q = After(s, p)
    OBVIOUS
  <2>2. q \in p .. n + 1
    BY <1>1, <2>1, AfterIs, Zenon
  <2>3. QED
    BY <2>1, <2>2
<1>3. PICK W : Way(W, s, p)
  BY DEF Reached
<1>4. /\ p \in 1 .. n + 1 /\ q \in 1 .. n + 1 /\ p < q /\ p # q /\ 1 \in 1 .. n + 1
      /\ 1 .. p \subseteq 1 .. q /\ 1 .. p \subseteq 1 .. n + 1
      /\ \A c \in 1 .. p : c # p => c < p /\ ~(c >= p) /\ ~(c >= q)
      /\ p >= p /\ q >= q /\ ~(p >= q)
  <2>1. p \in 1 .. n + 1 /\ q \in 1 .. n + 1 /\ p < q /\ 1 \in 1 .. n + 1
    BY <1>1, <1>2
  <2>2. p \in Nat /\ q \in Nat /\ p # q /\ p >= p /\ q >= q /\ ~(p >= q)
    BY <2>1
  <2>3. 1 .. p \subseteq 1 .. q /\ 1 .. p \subseteq 1 .. n + 1
    BY <2>1
  <2>4. ASSUME NEW c \in 1 .. p, c # p PROVE c < p /\ ~(c >= p) /\ ~(c >= q)
    BY <2>1, <2>2, <2>4
  <2>5. QED
    BY <2>1, <2>2, <2>3, <2>4, Zenon
<1>5. Reached(s, q)
  <2>1. Way(W \cup {q}, s, q)
    <3>1. W \cup {q} \subseteq 1 .. q
      <4>1. q \in 1 .. q
        BY <1>4
      <4>2. QED
        BY <1>3, <1>4, <4>1, Zenon DEF Way
    <3>2. ASSUME NEW c \in (W \cup {q}) \ {q}
          PROVE  After(s, c) \in W \cup {q} /\ After(s, c) # c
      BY <1>2, <1>3, <1>4, <3>2, Zenon DEF Way
    <3>3. QED
      BY <1>3, <3>1, <3>2 DEF Way
  <2>2. QED
    BY <2>1 DEF Reached
<1>6. PICK d : Counts(d, s, p) /\ Nesting(s, p) = d[1]
  BY NestingIs
<1>7. PICK f : Counts(f, s, q) /\ Nesting(s, q) = f[1]
  BY <1>1, <1>4, NestingIs
<1>8. PICK x \in Int : x = Deeper(TokenAt(s, p).b)
  BY DEF Deeper
<1>9. \A c \in W : f[c] = d[c] + x
  <2> DEFINE S == 1 .. n + 1
             Bad == {c \in W : f[c] # d[c] + x}
             rank == [c \in S |-> n + 1 - c]
  <2>1. W \subseteq S /\ Bad \subseteq S
    BY <1>3, <1>4 DEF Way
  <2>2. rank \in [S -> Nat]
    OBVIOUS
  <2>3. ASSUME NEW c \in Bad PROVE \E y \in Bad : rank[y] < rank[c]
    <3>1. c \in W /\ c \in S
      BY <2>1
    <3>2. c # p
      <4>1. ASSUME c = p PROVE FALSE
        <5>1. d[p] = 0 /\ f[q] = 0
          BY <1>1, <1>4, <1>6, <1>7, Zenon DEF Counts
        <5>2. f[p] = x + f[q]
          BY <1>1, <1>2, <1>4, <1>7, <1>8, Zenon DEF Counts
        <5>3. QED
          BY <4>1, <5>1, <5>2
      <4>2. QED
        BY <4>1
    <3>3. PICK y \in W : y = After(s, c) /\ y # c
      <4>1. c \in W \ {p}
        BY <3>1, <3>2
      <4>2. After(s, c) \in W /\ After(s, c) # c
        BY <1>3, <4>1, Zenon DEF Way
      <4>3. QED
        BY <4>2
    <3>4. ~(c >= p) /\ ~(c >= q)
      BY <1>3, <1>4, <3>1, <3>2 DEF Way
    <3>5. y \in c .. n + 1 /\ c \in 1 .. n + 1
      BY <1>1, <3>1, <3>3, AfterIs, Zenon
    <3>6. PICK z \in Int : z = Deeper(TokenAt(s, c).b)
      BY DEF Deeper
    <3>7. d[c] = z + d[y] /\ f[c] = z + f[y]
      BY <1>1, <1>6, <1>7, <3>1, <3>3, <3>4, <3>6, Zenon DEF Counts
    <3>8. d[y] \in Int /\ f[y] \in Int
      BY <1>1, <1>6, <1>7, <2>1, <3>3 DEF Counts
    <3>9. f[y] # d[y] + x
      BY <3>7, <3>8
    <3>10. rank[y] < rank[c]
      BY <2>1, <3>3, <3>5
    <3>11. QED
      BY <3>3, <3>9, <3>10
  <2>4. Bad = {}
    <3> HIDE DEF Bad, rank, S
    <3>1. QED
      BY <2>1, <2>2, <2>3, NoDescent
  <2>5. QED
    BY <2>4
<1>10. f[1] = d[1] + x
  BY <1>3, <1>9, Zenon DEF Way
<1>11. QED
  BY <1>2, <1>5, <1>6, <1>7, <1>8, <1>10, Zenon

-----------------------------------------------------------------------------
(* krpc_msg_parse stays in the top level dictionary *)

\* the message goes on with c at that depth of nesting
AtDepth(c, n) ==
  \E q \in 1 .. Len(data) + 1 :
    c = Rest(data, q) /\ Reached(data, q) /\ Nesting(data, q) = n

\* a token taken changes the depth by what it is, and an error by nothing
LEMMA TokenOn ==
  ASSUME data \in Seq(Nat), NEW c, NEW n \in Int, AtDepth(c, n)
  PROVE  AtDepth(BenrNext(data, c).ctx, n + Deeper(BenrNext(data, c).b))
<1>1. PICK q \in 1 .. Len(data) + 1 :
        c = Rest(data, q) /\ Reached(data, q) /\ Nesting(data, q) = n
  BY DEF AtDepth
<1>2. BenrNext(data, c) = TokenAt(data, q)
  BY <1>1, Zenon DEF TokenAt, Rest
<1>3. PICK x : x = TokenAt(data, q)
  OBVIOUS
<1>4. Moves(x, data, q)
  BY <1>3, TokenMoves
<1>5. CASE x.ctx = Rest(data, q) /\ x.b.kind \in Staying
  <2>1. Deeper(x.b) = 0
    BY <1>5 DEF Staying, ErrorKinds, Deeper, IsContainer, ContainerKinds
  <2>2. n + 0 = n
    OBVIOUS
  <2>3. QED
    BY <1>1, <1>2, <1>3, <1>5, <2>1, <2>2, Zenon DEF AtDepth
<1>6. ASSUME NEW r \in q + 1 .. Len(data) + 1, x.ctx = Rest(data, r)
      PROVE  AtDepth(x.ctx, n + Deeper(x.b))
  <2>1. r \in 1 .. Len(data) + 1 /\ r # q
    OBVIOUS
  <2>2. After(data, q) = r
    <3>1. Rest(data, r).pos = r
      BY <2>1, RestIs
    <3>2. QED
      BY <1>3, <1>6, <3>1, Zenon DEF After
  <2>3. Reached(data, r) /\ Nesting(data, r) = Nesting(data, q) + Deeper(x.b)
    BY <1>1, <1>3, <2>1, <2>2, NestingOn, Zenon
  <2>4. QED
    BY <1>1, <1>6, <2>1, <2>3, Zenon DEF AtDepth
<1>7. QED
  BY <1>2, <1>3, <1>4, <1>5, <1>6, Zenon DEF Moves

\* v is the token behind the key kk in the top level dictionary
Behind(kk, vv) ==
  \E p \in 1 .. Len(data) + 1 :
    LET x == TokenAt(data, p)
    IN x.b = kk /\ BenrNext(data, x.ctx).b = vv /\ Nesting(data, p) = 1

\* what is behind a key of one byte stands behind that byte
LEMMA BehindIsEntry ==
  ASSUME data \in Seq(Nat), NEW kk, NEW vv, Behind(kk, vv),
         kk.kind = "STRING", kk.at.len = 1
  PROVE  StandsBehind(vv, Text(kk)[1])
<1>1. PICK p \in 1 .. Len(data) + 1 :
        LET x == TokenAt(data, p)
        IN x.b = kk /\ BenrNext(data, x.ctx).b = vv /\ Nesting(data, p) = 1
  BY Zenon DEF Behind
<1>2. PICK x : x = TokenAt(data, p)
  OBVIOUS
<1>3. Moves(x, data, p)
  BY <1>2, TokenMoves
<1>4. p \in 1 .. Len(data)
  <2>1. ASSUME p = Len(data) + 1 PROVE FALSE
    <3>1. x = BenrNext(data, Rest(data, Len(data) + 1))
      BY <1>2, <2>1, Zenon DEF TokenAt, Rest
    <3>2. x.b.kind = "NONE"
      BY <3>1, NothingLeft, Zenon DEF IsNothing
    <3>3. QED
      BY <1>1, <1>2, <3>2
  <2>2. QED
    BY <2>1
<1>5. PICK i \in 1 .. Len(data) : kk.at.pos = i
  <2>1. x.b.kind = "STRING" /\ x.b = kk
    BY <1>1, <1>2
  <2>2. "STRING" \notin Staying
    BY DEF Staying, ErrorKinds
  <2>3. PICK q \in 1 .. Len(data) + 1 : \E l \in 0 .. Len(data) + 1 - q : kk.at = Ctx(q, l)
    BY <1>3, <2>1, <2>2, Zenon DEF Moves
  <2>4. PICK l \in 0 .. Len(data) + 1 - q : kk.at = Ctx(q, l)
    BY <2>3
  <2>5. kk.at.pos = q /\ l = 1
    BY <2>4 DEF Ctx
  <2>6. q \in 1 .. Len(data)
    BY <2>4, <2>5
  <2>7. QED
    BY <2>5, <2>6
<1>6. Text(kk) = <<Text(kk)[1]>>
  <2>1. i + 1 - 1 = i /\ i - i + 1 = 1
    OBVIOUS
  <2>2. Text(kk) = SubSeq(data, i, i)
    BY <1>5, <2>1, Zenon DEF Text
  <2>3. Text(kk) \in Seq(Nat) /\ Len(Text(kk)) = 1
    BY <2>2
  <2>4. QED
    BY <2>3
<1>7. QED
  BY <1>1, <1>2, <1>4, <1>6, Zenon DEF StandsBehind

\* what is noted for a key stands behind it
Noted == \A c \in Keys : entry[c] # None => StandsBehind(entry[c], c)

\* Where krpc_msg_parse is in the message, at each of its stops: between
\* entries at depth one, within a value at the depth it counts.
KInv ==
  /\ data \in Seq(Nat)
  /\ DOMAIN entry = Keys
  /\ keyed =>
       /\ Noted
       /\ at = "loop" => AtDepth(ctx, 1)
       /\ at = "call" /\ pc = "skip" /\ ~IsContainer(k) =>
            depth \in Nat \ {0} /\ AtDepth(skip, 1 + depth) /\ Behind(k, v)
       /\ at = "call" /\ pc = "idle" /\ ret = "ok" /\ ~IsContainer(key) =>
            AtDepth(ctx, 1) /\ Behind(key, val)

\* it holds at the start
LEMMA KrpcStarts == KrpcInit => KInv
<1> SUFFICES ASSUME KrpcInit PROVE KInv
  OBVIOUS
<1>1. data \in Seq(Nat)
  BY InitInside, BytesAre, Zenon DEF KrpcInit, BenrInv
<1>2. at = "open" /\ entry = [c \in Keys |-> None]
  BY Zenon DEF KrpcInit
<1>3. QED
  BY <1>1, <1>2 DEF KInv, Noted

\* nothing said of the message alone changes with the rest
LEMMA MessageStays ==
  ASSUME data' = data
  PROVE  /\ \A c, n : AtDepth(c, n) => AtDepth(c, n)'
         /\ \A kk, vv : Behind(kk, vv) => Behind(kk, vv)'
         /\ \A b, c : StandsBehind(b, c) => StandsBehind(b, c)'
<1>1. ASSUME NEW c, NEW n, AtDepth(c, n) PROVE AtDepth(c, n)'
  BY <1>1 DEF AtDepth
<1>2. ASSUME NEW kk, NEW vv, Behind(kk, vv) PROVE Behind(kk, vv)'
  BY <1>2 DEF Behind
<1>3. ASSUME NEW b, NEW c, StandsBehind(b, c) PROVE StandsBehind(b, c)'
  BY <1>3 DEF StandsBehind, Text
<1>4. QED
  BY <1>1, <1>2, <1>3

\* a step that leaves the entries
LEMMA NotedStays ==
  ASSUME data' = data, entry' = entry, Noted
  PROVE  Noted'
BY MessageStays, Zenon DEF Noted

\* a step that sets one of them
LEMMA NotedSet ==
  ASSUME data \in Seq(Nat), data' = data, DOMAIN entry = Keys, Noted,
         NEW y \in Keys, StandsBehind(val, y), entry' = [entry EXCEPT ![y] = val]
  PROVE  Noted'
<1>1. entry'[y] = val /\ \A c \in Keys : c # y => entry'[c] = entry[c]
  OBVIOUS
<1>2. QED
  BY <1>1, MessageStays, Zenon DEF Noted

\* the dictionary is opened
LEMMA OpenStep == KInv /\ OpenDict => KInv'
<1> SUFFICES ASSUME KInv, OpenDict PROVE KInv'
  OBVIOUS
<1>1. data \in Seq(Nat) /\ 1 \in 1 .. Len(data) + 1
  BY DEF KInv
<1>2. /\ data' = data /\ entry' = entry /\ keyed' = keyed /\ at' = "loop"
      /\ ctx' = BenrInit(data).at /\ BenrInit(data).kind = "DICT"
  BY DEF OpenDict, OpenMessage, Iterate
<1>3. PICK x : x = TokenAt(data, 1)
  OBVIOUS
<1>4. Whole(data) = Rest(data, 1)
  <2>1. Len(data) + 1 - 1 = Len(data)
    BY <1>1
  <2>2. QED
    BY <2>1, Zenon DEF Whole, Rest
<1>5. x = BenrNext(data, Whole(data))
  BY <1>3, <1>4, Zenon DEF TokenAt, Rest
<1>6. BenrInit(data) = x.b
  <2>1. Benr("UNEXPECTED_BYTE", 0, Ctx(1, 0)).kind # "DICT"
    BY DEF Benr
  <2>2. QED
    BY <1>2, <1>5, <2>1 DEF BenrInit
<1>7. ctx' = x.ctx
  <2>1. Moves(x, data, 1)
    BY <1>1, <1>3, TokenMoves
  <2>2. IsContainer(x.b) /\ x.b.kind \notin Staying
    BY <1>2, <1>6 DEF IsContainer, ContainerKinds, Staying, ErrorKinds
  <2>3. x.b.at = x.ctx
    BY <2>1, <2>2, Zenon DEF Moves
  <2>4. QED
    BY <1>2, <1>6, <2>3, Zenon
<1>8. AtDepth(x.ctx, 1)
  <2>1. AtDepth(Whole(data), 0)
    BY <1>1, <1>4, NestingStarts DEF AtDepth
  <2>2. Deeper(x.b) = 1
    BY <1>2, <1>6 DEF Deeper, IsContainer, ContainerKinds
  <2>3. 0 \in Int /\ 0 + 1 = 1
    OBVIOUS
  <2>4. QED
    BY <1>1, <1>5, <2>1, <2>2, <2>3, TokenOn, Zenon
<1>9. AtDepth(ctx, 1)'
  BY <1>2, <1>7, <1>8, MessageStays, Zenon
<1>10. keyed => Noted'
  BY <1>2, NotedStays, Zenon DEF KInv
<1>11. QED
  BY <1>2, <1>9, <1>10 DEF KInv

\* the next key and its value, or what opens it
LEMMA EntryStep == KInv /\ NextEntry => KInv'
<1> SUFFICES ASSUME KInv, NextEntry PROVE KInv'
  OBVIOUS
<1>1. data \in Seq(Nat) /\ at = "loop" /\ at' = "call" /\ keyed' = keyed
      /\ entry' = entry /\ data' = data
  BY DEF KInv, NextEntry, DictNext, Call
<1>2. PICK x : x = BenrNext(data, ctx)
  OBVIOUS
<1>3. PICK y : y = BenrNext(data, x.ctx)
  OBVIOUS
<1>4. \/ ReturnEnd(x.ctx) \/ ReturnEnd(y.ctx)
      \/ x.b.kind # "X_END" /\ y.b.kind # "X_END" /\ Element(x.b, y)
  BY <1>2, <1>3 DEF NextEntry, DictNext
<1>5. keyed => Noted'
  BY <1>1, NotedStays, Zenon DEF KInv
<1>6. ASSUME keyed PROVE AtDepth(ctx, 1)
  BY <1>1, <1>6 DEF KInv
<1>7. CASE ReturnEnd(x.ctx) \/ ReturnEnd(y.ctx)
  <2>1. pc' = "idle" /\ ret' = "end"
    BY <1>7 DEF ReturnEnd
  <2>2. QED
    BY <1>1, <1>5, <2>1 DEF KInv
<1>8. ASSUME keyed, ~IsContainer(x.b), x.b.kind # "X_END", y.b.kind # "X_END"
      PROVE  /\ Behind(x.b, y.b)'
             /\ AtDepth(y.ctx, 1 + Deeper(y.b))'
  <2>1. Deeper(x.b) = 0 /\ 1 + 0 = 1
    BY <1>8 DEF Deeper
  <2>2. AtDepth(x.ctx, 1)
    <3>1. 1 \in Int
      OBVIOUS
    <3>2. QED
      BY <1>1, <1>2, <1>6, <1>8, <2>1, <3>1, TokenOn, Zenon
  <2>3. AtDepth(y.ctx, 1 + Deeper(y.b))
    BY <1>1, <1>3, <2>2, TokenOn
  <2>4. PICK q \in 1 .. Len(data) + 1 : ctx = Rest(data, q) /\ Nesting(data, q) = 1
    BY <1>6, <1>8, Zenon DEF AtDepth
  <2>5. x = TokenAt(data, q)
    BY <1>2, <2>4, Zenon DEF TokenAt, Rest
  <2>6. Behind(x.b, y.b)
    BY <1>3, <2>4, <2>5, Zenon DEF Behind
  <2>7. QED
    BY <1>1, <2>3, <2>6, MessageStays, Zenon
<1>9. CASE x.b.kind # "X_END" /\ y.b.kind # "X_END" /\ Element(x.b, y)
  <2>1. CASE ~IsContainer(y.b) /\ Return(x.b, y.b)
    <3>1. pc' = "idle" /\ key' = x.b /\ val' = y.b /\ ctx' = y.ctx
      BY <1>9, <2>1 DEF Element, Return
    <3>2. Deeper(y.b) = 0 /\ 1 + 0 = 1
      BY <1>9, <2>1 DEF Deeper
    <3>3. keyed /\ ~IsContainer(key)' => AtDepth(ctx, 1)' /\ Behind(key, val)'
      BY <1>8, <1>9, <3>1, <3>2 DEF IsContainer
    <3>4. QED
      BY <1>1, <1>5, <3>1, <3>3 DEF KInv
  <2>2. CASE /\ IsContainer(y.b) /\ pc' = "skip" /\ k' = x.b /\ v' = y.b
             /\ skip' = y.ctx /\ depth' = 1
    <3>1. Deeper(y.b) = 1 /\ 1 \in Nat \ {0}
      BY <2>2 DEF Deeper
    <3>2. keyed /\ ~IsContainer(k)' => AtDepth(skip, 1 + depth)' /\ Behind(k, v)'
      BY <1>8, <1>9, <2>2, <3>1 DEF IsContainer
    <3>3. QED
      BY <1>1, <1>5, <2>2, <3>1, <3>2 DEF KInv
  <2>3. QED
    BY <1>9, <2>1, <2>2 DEF Element
<1>10. QED
  BY <1>4, <1>7, <1>9

\* a token of a value that is passed over
LEMMA ReaderStep == KInv /\ InReader => KInv'
<1> SUFFICES ASSUME KInv, InReader PROVE KInv'
  OBVIOUS
<1>1. data \in Seq(Nat) /\ at = "call" /\ at' = at /\ keyed' = keyed
      /\ entry' = entry /\ pc = "skip"
  BY DEF KInv, InReader, krpcVars, Skip
<1>2. PICK t : /\ t = BenrNext(data, skip)
               /\ ScanDeeper(t) \/ ScanOn(t) \/ ScanUp(t) \/ Skipped(t) \/ SkipFails(t)
  BY DEF InReader, Skip
<1>3. data' = data
  BY <1>2 DEF ScanDeeper, ScanOn, ScanUp, Skipped, SkipFails, Scan
<1>4. keyed => Noted'
  BY <1>1, <1>3, NotedStays, Zenon DEF KInv
<1>5. PICK kk : kk = k
  OBVIOUS
<1>6. PICK vv : vv = v
  OBVIOUS
<1>7. PICK n : n = depth
  OBVIOUS
<1>8. ASSUME keyed, ~IsContainer(kk)
      PROVE  /\ n \in Nat \ {0}
             /\ Behind(kk, vv)'
             /\ AtDepth(t.ctx, 1 + n + Deeper(t.b))'
  <2>1. n \in Nat \ {0} /\ AtDepth(skip, 1 + n) /\ Behind(kk, vv)
    BY <1>1, <1>5, <1>6, <1>7, <1>8, Zenon DEF KInv
  <2>2. 1 + n \in Int
    BY <2>1
  <2>3. AtDepth(t.ctx, 1 + n + Deeper(t.b))
    BY <1>1, <1>2, <2>1, <2>2, TokenOn, Zenon
  <2>4. QED
    BY <1>3, <2>1, <2>3, MessageStays, Zenon
<1>9. CASE ScanDeeper(t) \/ ScanOn(t) \/ ScanUp(t)
  <2>1. /\ pc' = "skip" /\ k' = kk /\ v' = vv /\ skip' = t.ctx
        /\ \/ depth' = n + 1 /\ IsContainer(t.b)
           \/ depth' = n /\ t.b.kind \in {"STRING", "INT"}
           \/ depth' = n - 1 /\ n > 1 /\ t.b.kind = "X_END"
    BY <1>1, <1>5, <1>6, <1>7, <1>9 DEF ScanDeeper, ScanOn, ScanUp, Scan
  <2>2. n \in Nat \ {0} => depth' \in Nat \ {0} /\ 1 + n + Deeper(t.b) = 1 + depth'
    BY <2>1 DEF Deeper, IsContainer, ContainerKinds
  <2>3. keyed /\ ~IsContainer(k)' =>
          depth' \in Nat \ {0} /\ AtDepth(skip, 1 + depth)' /\ Behind(k, v)'
    BY <1>8, <2>1, <2>2 DEF IsContainer
  <2>4. QED
    BY <1>1, <1>3, <1>4, <2>1, <2>3 DEF KInv
<1>10. CASE Skipped(t)
  <2>1. pc' = "idle" /\ key' = kk /\ val' = vv /\ ctx' = t.ctx /\ n = 1 /\ t.b.kind = "X_END"
    BY <1>5, <1>6, <1>7, <1>10 DEF Skipped, Return
  <2>2. 1 + n + Deeper(t.b) = 1
    BY <2>1 DEF Deeper, IsContainer, ContainerKinds
  <2>3. keyed /\ ~IsContainer(key)' => AtDepth(ctx, 1)' /\ Behind(key, val)'
    BY <1>8, <2>1, <2>2 DEF IsContainer
  <2>4. QED
    BY <1>1, <1>3, <1>4, <2>1, <2>3 DEF KInv
<1>11. CASE SkipFails(t)
  <2>1. pc' = "idle" /\ ret' = "bad"
    BY <1>11 DEF SkipFails
  <2>2. QED
    BY <1>1, <1>3, <1>4, <2>1 DEF KInv
<1>12. QED
  BY <1>2, <1>9, <1>10, <1>11

\* the entry is noted, or passed over
LEMMA NoteStep == KInv /\ NoteEntry => KInv'
<1> SUFFICES ASSUME KInv, NoteEntry PROVE KInv'
  OBVIOUS
<1>1. /\ data \in Seq(Nat) /\ DOMAIN entry = Keys
      /\ at = "call" /\ pc = "idle" /\ ret = "ok" /\ at' = "loop"
      /\ keyed' = (keyed /\ ~IsContainer(key))
      /\ data' = data /\ ctx' = ctx
  BY DEF KInv, NoteEntry, CallReturns, iterVars
<1>2. PICK y : y = Text(key)[1]
  OBVIOUS
<1>3. \/ entry' = entry
      \/ /\ key.kind = "STRING" /\ key.at.len = 1 /\ y \in Keys
         /\ entry' = [entry EXCEPT ![y] = val]
  BY <1>2, Zenon DEF NoteEntry
<1>4. DOMAIN entry' = Keys
  BY <1>1, <1>3
<1>5. ASSUME keyed' PROVE Noted' /\ AtDepth(ctx, 1)'
  <2>1. Noted /\ AtDepth(ctx, 1) /\ Behind(key, val)
    BY <1>1, <1>5, Zenon DEF KInv
  <2>2. PICK c : c = ctx
    OBVIOUS
  <2>3. AtDepth(c, 1)'
    BY <1>1, <2>1, <2>2, MessageStays, Zenon
  <2>4. AtDepth(ctx, 1)'
    BY <1>1, <2>2, <2>3
  <2>5. CASE entry' = entry
    BY <1>1, <2>1, <2>4, <2>5, NotedStays, Zenon
  <2>6. CASE /\ key.kind = "STRING" /\ key.at.len = 1 /\ y \in Keys
             /\ entry' = [entry EXCEPT ![y] = val]
    <3>1. StandsBehind(val, y)
      BY <1>1, <1>2, <2>1, <2>6, BehindIsEntry, Zenon
    <3>2. Noted'
      BY <1>1, <2>1, <2>6, <3>1, NotedSet
    <3>3. QED
      BY <2>4, <3>2
  <2>7. QED
    BY <1>3, <2>5, <2>6
<1>6. QED
  BY <1>1, <1>4, <1>5 DEF KInv

\* Every step of krpc_msg_parse keeps it in its place.
LEMMA KrpcSteps == KInv /\ [KrpcNext]_allVars => KInv'
<1> SUFFICES ASSUME KInv, [KrpcNext]_allVars PROVE KInv'
  OBVIOUS
<1>1. ASSUME data' = data, entry' = entry, keyed' = keyed, at' \notin {"loop", "call"}
      PROVE  KInv'
  <2>1. keyed => Noted'
    BY <1>1, NotedStays, Zenon DEF KInv
  <2>2. QED
    BY <1>1, <2>1 DEF KInv
<1>2. CASE NotADict
  BY <1>1, <1>2 DEF NotADict, iterVars
<1>3. CASE RanOut
  BY <1>1, <1>3 DEF RanOut, CallReturns, iterVars
<1>4. CASE ParseType
  BY <1>1, <1>4 DEF ParseType, Refuse, iterVars
<1>5. CASE ParseQuery
  BY <1>1, <1>5 DEF ParseQuery, Refuse, iterVars
<1>6. CASE ParseElements
  BY <1>1, <1>6 DEF ParseElements, iterVars
<1>7. CASE UNCHANGED allVars
  <2>1. UNCHANGED <<data, entry, keyed, at, ctx, skip, depth, k, v, key, val, pc, ret>>
    BY <1>7 DEF allVars, iterVars, krpcVars, locals
  <2>2. keyed => Noted'
    BY <2>1, NotedStays, Zenon DEF KInv
  <2>3. QED
    BY <2>1, <2>2 DEF KInv, AtDepth, Behind, IsContainer
<1>8. QED
  BY <1>2, <1>3, <1>4, <1>5, <1>6, <1>7, OpenStep, EntryStep, ReaderStep, NoteStep
     DEF KrpcNext

(* Whatever the message, krpc_msg_parse notes for a key nothing but what stands
   behind it in the top level dictionary. *)
THEOREM EntriesOfTheirKeys == KrpcSpec => []EntriesAreTheirKeys
<1>1. KInv => EntriesAreTheirKeys
  BY DEF KInv, Noted, EntriesAreTheirKeys
<1>2. QED
  BY <1>1, KrpcStarts, KrpcSteps, PTL DEF KrpcSpec

-----------------------------------------------------------------------------
(* The pairs of a dictionary, and the last of them with a key *)

\* a string begins with a digit
LEMMA StringBegins ==
  ASSUME NEW s \in Seq(Nat), NEW p \in 1 .. Len(s) + 1, StringEnd(s, p) # 0
  PROVE  p \in 1 .. Len(s) /\ s[p] \in Digits /\ StringEnd(s, p) \in p + 2 .. Len(s) + 1
<1>1. PICK n \in Nat : n = Len(s)
  OBVIOUS
<1>2. p # n + 1
  <2>1. ASSUME p = n + 1 PROVE FALSE
    <3>1. p + 1 .. n = {}
      BY <2>1
    <3>2. StringEnd(s, p) = 0
      BY <1>1, <3>1 DEF StringEnd
    <3>3. QED
      BY <3>2
  <2>2. QED
    BY <2>1
<1>3. p \in 1 .. n
  BY <1>1, <1>2
<1>4. PICK q \in p + 1 .. n : StringTo(s, p, q) /\ StringEnd(s, p) \in p + 2 .. n + 1
  BY <1>1, <1>3, StringParts
<1>5. p \in p .. q - 1
  BY <1>3, <1>4
<1>6. s[p] \in Digits
  BY <1>4, <1>5 DEF StringTo, AllDigits
<1>7. QED
  BY <1>1, <1>3, <1>4, <1>6

\* a pair ends further on
LEMMA PairEndIs ==
  ASSUME NEW s \in Seq(Nat), NEW p \in 1 .. Len(s) + 1
  PROVE  PairEnd(s, p) = 0 \/ PairEnd(s, p) \in p + 1 .. Len(s) + 1
<1>1. PICK n, e : n \in Nat /\ n = Len(s) /\ e = StringEnd(s, p)
  OBVIOUS
<1>2. CASE e = 0
  BY <1>1, <1>2 DEF PairEnd
<1>3. CASE e # 0
  <2>1. PairEnd(s, p) = ValueEnd(s, e) /\ e \in p + 2 .. n + 1 /\ p \in 1 .. n
    BY <1>1, <1>3, StringBegins DEF PairEnd
  <2>2. CASE e = n + 1
    BY <1>1, <2>1, <2>2, ValueEndAtEnd
  <2>3. CASE e # n + 1
    <3>1. e \in 1 .. n
      BY <1>1, <2>1, <2>3
    <3>2. ValueEnd(s, e) = 0 \/ ValueEnd(s, e) \in e + 1 .. n + 1
      BY <1>1, <3>1, ValueEndIs
    <3>3. \A q \in e + 1 .. n + 1 : q \in p + 1 .. n + 1
      BY <2>1
    <3>4. QED
      BY <1>1, <2>1, <3>2, <3>3
  <2>4. QED
    BY <2>2, <2>3
<1>4. QED
  BY <1>2, <1>3

\* what is later is the last, or else the string at p, if it is c
LastHere(s, c, p, later) == IF later = 0 /\ StringAt(s, p, <<c>>) THEN StringEnd(s, p) ELSE later

\* The last value behind c, from p on, is what its definition says.
LEMMA LastFromIs ==
  ASSUME NEW s \in Seq(Nat), NEW c, NEW p \in 1 .. Len(s) + 1
  PROVE  LastFrom(s, c)[p] =
           LastHere(s, c, p, IF PairEnd(s, p) = 0 THEN 0 ELSE LastFrom(s, c)[PairEnd(s, p)])
<1>1. PICK n \in Nat : n = Len(s)
  OBVIOUS
<1> DEFINE S == 1 .. n + 1
           Ends == 0 .. n + 1
           to == [q \in S |-> PairEnd(s, q)]
           F == [q \in S |-> [g \in [S -> Ends] |->
                   LastHere(s, c, q, IF to[q] = 0 THEN 0 ELSE g[to[q]])]]
           rank == [q \in S |-> n + 1 - q]
           d == CHOOSE last : last = [q \in 1 .. Len(s) + 1 |->
                  IF (IF PairEnd(s, q) = 0 THEN 0 ELSE last[PairEnd(s, q)]) = 0
                       /\ StringAt(s, q, <<c>>)
                  THEN StringEnd(s, q)
                  ELSE IF PairEnd(s, q) = 0 THEN 0 ELSE last[PairEnd(s, q)]]
<1>2. \A q \in S : to[q] = PairEnd(s, q) /\ (to[q] = 0 \/ to[q] \in q + 1 .. n + 1)
  <2>1. \A q \in S : PairEnd(s, q) = 0 \/ PairEnd(s, q) \in q + 1 .. n + 1
    BY <1>1, PairEndIs
  <2>2. \A q \in S : to[q] = PairEnd(s, q)
    OBVIOUS
  <2> HIDE DEF to, S
  <2>3. QED
    BY <2>1, <2>2
<1>3. ASSUME NEW q \in S, NEW later \in Ends PROVE LastHere(s, c, q, later) \in Ends
  <2>1. StringEnd(s, q) = 0 \/ StringEnd(s, q) \in q + 2 .. n + 1
    BY <1>1, StringBegins
  <2>2. StringEnd(s, q) \in Ends
    BY <2>1
  <2>3. QED
    BY <2>2 DEF LastHere
<1> HIDE DEF to
<1>4. /\ rank \in [S -> Nat]
      /\ \A q \in S : to[q] # 0 => to[q] \in S /\ rank[to[q]] < rank[q]
  <2>1. rank \in [S -> Nat] /\ \A q \in S : rank[q] = n + 1 - q
    OBVIOUS
  <2> HIDE DEF rank
  <2>2. ASSUME NEW q \in S, to[q] # 0 PROVE to[q] \in S /\ rank[to[q]] < rank[q]
    <3>1. PICK r \in q + 1 .. n + 1 : r = to[q]
      BY <1>2, <2>2
    <3>2. r \in S /\ n + 1 - r < n + 1 - q
      OBVIOUS
    <3>3. QED
      BY <2>1, <3>1, <3>2, Zenon
  <2>3. QED
    BY <2>1, <2>2
<1> HIDE DEF rank
<1>5. 0 \in Ends
  OBVIOUS
<1>6. /\ \A q \in S : \A g \in [S -> Ends] :
           F[q][g] = LastHere(s, c, q, IF to[q] = 0 THEN 0 ELSE g[to[q]])
      /\ F \in [S -> [[S -> Ends] -> Ends]]
  <2> HIDE DEF S, Ends
  <2>1. ASSUME NEW q \in S, NEW g \in [S -> Ends]
        PROVE  LastHere(s, c, q, IF to[q] = 0 THEN 0 ELSE g[to[q]]) \in Ends
    <3>1. PICK later \in Ends : later = IF to[q] = 0 THEN 0 ELSE g[to[q]]
      BY <1>4, <1>5
    <3>2. QED
      BY <1>3, <3>1, Zenon
  <2>2. QED
    BY <2>1
<1> HIDE DEF F
<1>7. Recursion(F, rank, S, Ends)
  <2>1. ASSUME NEW q \in S, NEW g \in [S -> Ends], NEW h \in [S -> Ends],
               \A y \in S : rank[y] < rank[q] => g[y] = h[y]
        PROVE  F[q][g] = F[q][h]
    <3>1. to[q] # 0 => g[to[q]] = h[to[q]]
      BY <1>4, <2>1, Zenon
    <3>2. PICK later : later = IF to[q] = 0 THEN 0 ELSE g[to[q]]
      OBVIOUS
    <3>3. later = IF to[q] = 0 THEN 0 ELSE h[to[q]]
      BY <3>1, <3>2
    <3>4. F[q][g] = LastHere(s, c, q, later)
      BY <1>6, <3>2, Zenon
    <3>5. F[q][h] = LastHere(s, c, q, later)
      BY <1>6, <3>3, Zenon
    <3>6. QED
      BY <3>4, <3>5
  <2>2. QED
    BY <1>4, <1>6, <2>1, Zenon DEF Recursion
<1>8. PICK f \in [S -> Ends] : \A q \in S : f[q] = F[q][f]
  <2> HIDE DEF S, Ends
  <2>1. Ends # {}
    BY <1>5
  <2>2. QED
    BY <1>7, <2>1, RecursionHasFunction
<1>9. f = [q \in 1 .. Len(s) + 1 |->
             IF (IF PairEnd(s, q) = 0 THEN 0 ELSE f[PairEnd(s, q)]) = 0 /\ StringAt(s, q, <<c>>)
             THEN StringEnd(s, q)
             ELSE IF PairEnd(s, q) = 0 THEN 0 ELSE f[PairEnd(s, q)]]
  <2>1. f = [q \in S |-> f[q]]
    OBVIOUS
  <2>2. ASSUME NEW q \in S
        PROVE  f[q] = LastHere(s, c, q, IF PairEnd(s, q) = 0 THEN 0 ELSE f[PairEnd(s, q)])
    BY <1>2, <1>6, <1>8, Zenon
  <2>3. QED
    BY <1>1, <2>1, <2>2, Zenon DEF LastHere
<1>10. d = [q \in 1 .. Len(s) + 1 |->
             IF (IF PairEnd(s, q) = 0 THEN 0 ELSE d[PairEnd(s, q)]) = 0 /\ StringAt(s, q, <<c>>)
             THEN StringEnd(s, q)
             ELSE IF PairEnd(s, q) = 0 THEN 0 ELSE d[PairEnd(s, q)]]
  BY <1>9, Zenon
<1>11. LastFrom(s, c) = d
  BY Zenon DEF LastFrom
<1> HIDE DEF d
<1>12. d[p] = LastHere(s, c, p, IF PairEnd(s, p) = 0 THEN 0 ELSE d[PairEnd(s, p)])
  BY <1>10, Zenon DEF LastHere
<1>13. QED
  BY <1>11, <1>12, Zenon

-----------------------------------------------------------------------------
(* The bytes of a string, as the grammar and as the reader have them *)

\* Where the bytes of a string are.
LEMMA StringBytes ==
  ASSUME NEW s \in Seq(Nat), NEW p \in 1 .. Len(s), StringEnd(s, p) # 0,
         NEW b, StringFrom(b, s, p, StringEnd(s, p))
  PROVE  \E c \in p + 1 .. Len(s), l \in Nat :
           /\ b.at.pos = c + 1 /\ b.at.len = l /\ StringEnd(s, p) = c + 1 + l
           /\ StringEnd(s, p) \in p + 2 .. Len(s) + 1
           /\ s[c] = COLON /\ AllDigits(s, p, c - 1)
<1>1. PICK n, e : n \in Nat /\ n = Len(s) /\ e = StringEnd(s, p)
  OBVIOUS
<1>2. e \in p + 2 .. n + 1
  BY <1>1, StringParts, Zenon
<1>3. PICK x \in p + 2 .. e : x = b.at.pos
  BY <1>1, Zenon DEF StringFrom
<1>4. PICK l \in Nat : l = b.at.len
  BY Zenon DEF StringFrom
<1>5. x + l = e /\ s[x - 1] = COLON /\ AllDigits(s, p, x - 2)
  BY <1>1, <1>3, <1>4, Zenon DEF StringFrom
<1>6. PICK c : c = x - 1
  OBVIOUS
<1>7. c \in p + 1 .. n /\ x = c + 1 /\ x - 2 = c - 1 /\ e = c + 1 + l
  <2>1. p \in Nat /\ p + 2 <= x /\ x <= e /\ e <= n + 1 /\ x \in Nat /\ e \in Nat
    BY <1>2, <1>3
  <2>2. x + l = e
    BY <1>5
  <2>3. QED
    BY <1>1, <1>6, <2>1, <2>2
<1>8. s[c] = COLON /\ AllDigits(s, p, c - 1)
  BY <1>5, <1>6, <1>7, Zenon
<1>9. QED
  BY <1>1, <1>2, <1>3, <1>4, <1>7, <1>8, Zenon

\* The text of a string that was read is the one the message has there.
LEMMA StringIsText ==
  ASSUME data \in Seq(Nat), NEW p \in 1 .. Len(data), StringEnd(data, p) # 0,
         NEW b, StringFrom(b, data, p, StringEnd(data, p)), NEW text
  PROVE  StringAt(data, p, text) <=> Text(b) = text
<1>1. PICK n, e : n \in Nat /\ n = Len(data) /\ e = StringEnd(data, p)
  OBVIOUS
<1>2. PICK c \in p + 1 .. n, l \in Nat :
        /\ b.at.pos = c + 1 /\ b.at.len = l /\ e = c + 1 + l /\ e \in p + 2 .. n + 1
        /\ data[c] = COLON /\ AllDigits(data, p, c - 1)
  BY <1>1, StringBytes
<1>3. Text(b) = SubSeq(data, c + 1, e - 1)
  <2>1. e - 1 = c + 1 + l - 1
    BY <1>2
  <2>2. QED
    BY <1>2, <2>1, Zenon DEF Text
<1>4. ASSUME NEW r \in p + 1 .. n, data[r] = COLON, AllDigits(data, p, r - 1) PROVE r = c
  <2>1. COLON \notin Digits
    BY Signs
  <2>2. r \in Nat /\ c \in Nat /\ p \in Nat
    BY <1>2, SMTT(30)
  <2>3. QED
    BY <1>2, <1>4, <2>1, <2>2, OneEnd
<1>5. p # 0
  OBVIOUS
<1>6. StringAt(data, p, text) <=>
        \E r \in p + 1 .. n : /\ data[r] = COLON /\ AllDigits(data, p, r - 1)
                              /\ SubSeq(data, r + 1, e - 1) = text
  BY <1>1, <1>5 DEF StringAt
<1>7. ASSUME StringAt(data, p, text) PROVE Text(b) = text
  <2>1. PICK r \in p + 1 .. n : /\ data[r] = COLON /\ AllDigits(data, p, r - 1)
                                /\ SubSeq(data, r + 1, e - 1) = text
    BY <1>6, <1>7
  <2>2. r = c
    BY <1>4, <2>1
  <2>3. QED
    BY <1>3, <2>1, <2>2
<1>8. ASSUME Text(b) = text PROVE StringAt(data, p, text)
  <2>1. c \in p + 1 .. n /\ data[c] = COLON /\ AllDigits(data, p, c - 1)
    BY <1>2
  <2>2. SubSeq(data, c + 1, e - 1) = text
    BY <1>3, <1>8
  <2>3. QED
    BY <1>6, <2>1, <2>2
<1>9. QED
  BY <1>7, <1>8

\* A string of one byte is that byte.
LEMMA OneByteText ==
  ASSUME data \in Seq(Nat), NEW p \in 1 .. Len(data), StringEnd(data, p) # 0,
         NEW b, StringFrom(b, data, p, StringEnd(data, p)), NEW c
  PROVE  /\ Text(b) = <<c>> => b.at.len = 1 /\ Text(b)[1] = c
         /\ b.at.len = 1 /\ Text(b)[1] = c => Text(b) = <<c>>
<1>1. PICK n, e : n \in Nat /\ n = Len(data) /\ e = StringEnd(data, p)
  OBVIOUS
<1>2. PICK x \in p + 1 .. n, l \in Nat :
        /\ b.at.pos = x + 1 /\ b.at.len = l /\ e = x + 1 + l /\ e \in p + 2 .. n + 1
        /\ data[x] = COLON /\ AllDigits(data, p, x - 1)
  BY <1>1, StringBytes
<1>3. PICK text : text = Text(b)
  OBVIOUS
<1>4. text = SubSeq(data, x + 1, x + 1 + l - 1)
  BY <1>2, <1>3, Zenon DEF Text
<1>5. text \in Seq(Nat) /\ Len(text) = l
  <2>1. x + 1 \in Nat /\ x + 1 >= 1 /\ x + 1 + l - 1 \in Int /\ x + 1 + l - 1 <= n
        /\ x + 1 + l - 1 - (x + 1) + 1 = l
    BY <1>1, <1>2
  <2>2. QED
    BY <1>1, <1>4, <2>1
<1>6. ASSUME text = <<c>> PROVE l = 1 /\ text[1] = c
  BY <1>5, <1>6
<1>7. ASSUME l = 1, text[1] = c PROVE text = <<c>>
  <2>1. text = <<text[1]>>
    BY <1>5, <1>7
  <2>2. QED
    BY <1>7, <2>1
<1>8. QED
  BY <1>2, <1>3, <1>6, <1>7

\* a key of one byte
LEMMA KeyIs ==
  ASSUME data \in Seq(Nat), NEW p \in 1 .. Len(data), StringEnd(data, p) # 0,
         NEW b, StringFrom(b, data, p, StringEnd(data, p)), NEW c
  PROVE  StringAt(data, p, <<c>>) <=> b.at.len = 1 /\ Text(b)[1] = c
<1>1. /\ StringAt(data, p, <<c>>) => Text(b) = <<c>>
      /\ Text(b) = <<c>> => StringAt(data, p, <<c>>)
  <2>1. PICK text : text = <<c>>
    OBVIOUS
  <2>2. StringAt(data, p, text) <=> Text(b) = text
    BY StringIsText
  <2>3. QED
    BY <2>1, <2>2, Zenon
<1>2. QED
  BY <1>1, OneByteText, Zenon

-----------------------------------------------------------------------------
(* A dictionary that was received whole *)

DictReceived ==
  data \in Seq(Nat) /\ WellFormed(data) /\ Len(data) < UINTMAX /\ data[1] = D

\* it is opened, and its pairs go on behind its first byte
LEMMA DictIs ==
  ASSUME DictReceived
  PROVE  /\ Source(data) /\ Begins(data, data) /\ Len(data) \in Nat
         /\ 2 \in 1 .. Len(data) + 1
         /\ Close(data, "DICT", 2) # 0
         /\ BenrInit(data).kind = "DICT" /\ BenrInit(data).at = Rest(data, 2)
<1>1. PICK n \in Nat : n = Len(data) /\ data \in Seq(Nat) /\ n < UINTMAX
  BY DEF DictReceived
<1>2. Begins(data, data)
  BY <1>1 DEF Begins, Same
<1>3. Source(data)
  BY <1>2 DEF Source, DictReceived
<1>4. n # 0 /\ ValueEnd(data, 1) = n + 1 /\ data[1] = D
  <2>1. data # <<>> /\ ValueEnd(data, 1) = n + 1 /\ data[1] = D
    BY <1>1, Zenon DEF DictReceived, WellFormed
  <2>2. QED
    BY <1>1, <2>1
<1>5. 1 \in 1 .. n /\ 2 \in 1 .. n + 1 /\ 1 \in 1 .. n + 1 /\ 1 + 1 = 2
  BY <1>1, <1>4
<1>6. ValueEnd(data, 1) = PastEnd(Close(data, "DICT", 2))
  BY <1>1, <1>4, <1>5, ValueEndIs, Zenon
<1>7. Close(data, "DICT", 2) # 0
  BY <1>1, <1>4, <1>6 DEF PastEnd
<1>8. PICK x : x = BenrNext(data, Rest(data, 1))
  OBVIOUS
<1>9. x.b.kind = "DICT" /\ x.b.at = Rest(data, 2)
  <2>1. Opens(x, data, 1, "DICT")
    BY <1>1, <1>2, <1>4, <1>5, <1>8, TokenIs, Zenon
  <2>2. QED
    BY <1>5, <2>1 DEF Opens
<1>10. Whole(data) = Rest(data, 1)
  <2>1. n + 1 - 1 = n
    BY <1>1
  <2>2. QED
    BY <1>1, <2>1, Zenon DEF Whole, Rest
<1>11. BenrInit(data) = x.b
  BY <1>8, <1>9, <1>10 DEF BenrInit
<1>12. QED
  BY <1>1, <1>2, <1>3, <1>5, <1>7, <1>9, <1>11

\* kk and vv are the key and the value of the pair at p, behind which the
\* dictionary goes on
Found(p, kk, vv) ==
  /\ p \in 1 .. Len(data)
  /\ StringEnd(data, p) \in 1 .. Len(data)
  /\ StringFrom(kk, data, p, StringEnd(data, p))
  /\ vv = TokenAt(data, StringEnd(data, p)).b
  /\ vv.kind \in {"STRING", "INT", "LIST", "DICT"}
  /\ ValueEnd(data, p) = StringEnd(data, p)
  /\ PairEnd(data, p) = ValueEnd(data, StringEnd(data, p))
  /\ PairEnd(data, p) \in 1 .. Len(data) + 1
  /\ Close(data, "DICT", PairEnd(data, p)) # 0

\* Where the pairs of the dictionary go on, the reader finds its end marker, or
\* the next pair.
LEMMA PairRead ==
  ASSUME DictReceived, NEW p \in 1 .. Len(data) + 1, Close(data, "DICT", p) # 0,
         NEW x, x = BenrNext(data, Rest(data, p)), NEW y, y = BenrNext(data, x.ctx)
  PROVE  \/ x.b.kind = "X_END" /\ StringEnd(data, p) = 0
         \/ /\ x.b.kind = "STRING" /\ Found(p, x.b, y.b)
            /\ TakenAs(y, data, data, StringEnd(data, p))
<1>1. PICK n \in Nat : n = Len(data) /\ data \in Seq(Nat) /\ n < UINTMAX
  BY DEF DictReceived
<1>2. Begins(data, data) /\ ~(n < n)
  BY <1>1, DictIs
<1>3. p # n + 1
  <2>1. "DICT" \in Kinds
    BY DEF Kinds
  <2>2. QED
    BY <1>1, <2>1, CloseAtEnd, Zenon
<1>4. p \in 1 .. n
  BY <1>1, <1>3
<1>5. CASE data[p] = E
  <2>1. x.b.kind = "X_END"
    BY <1>1, <1>2, <1>4, <1>5, TokenIs, Zenon DEF IsEnd
  <2>2. StringEnd(data, p) = 0
    <3>1. ASSUME StringEnd(data, p) # 0 PROVE FALSE
      <4>1. data[p] \in Digits
        BY <1>1, <3>1, StringBegins
      <4>2. QED
        BY <1>5, <4>1, Signs
    <3>2. QED
      BY <3>1
  <2>3. QED
    BY <2>1, <2>2
<1>6. CASE data[p] # E
  <2>1. PICK e : e = StringEnd(data, p)
    OBVIOUS
  <2>2. PICK f : f = ValueEnd(data, e)
    OBVIOUS
  <2>3. data[p] \in Digits /\ e # 0 /\ f # 0 /\ Close(data, "DICT", f) # 0
    BY <1>1, <1>4, <1>6, <2>1, <2>2, CloseIs, Zenon
  <2>4. e \in p + 2 .. n + 1
    BY <1>1, <2>1, <2>3, StringBegins
  <2>5. e # n + 1
    BY <1>1, <2>2, <2>3, ValueEndAtEnd
  <2>6. e \in 1 .. n
    BY <1>4, <2>4, <2>5
  <2>7. ValueEnd(data, p) = e
    BY <1>1, <1>4, <2>1, <2>3, ValueEndIs, Zenon
  <2>8. PairEnd(data, p) = f
    BY <2>1, <2>2, <2>3 DEF PairEnd
  <2>9. f \in 1 .. n + 1
    <3>1. f \in e + 1 .. n + 1
      BY <1>1, <2>2, <2>3, <2>6, ValueEndIs, Zenon
    <3>2. QED
      BY <2>6, <3>1
  <2>10. IsString(x, data, data, p, e)
    BY <1>1, <1>2, <1>4, <2>1, <2>3, TokenIs, Zenon DEF CutShort
  <2>11. x.b.kind = "STRING" /\ StringFrom(x.b, data, p, e) /\ x.ctx = Rest(data, e)
    BY <2>10, Zenon DEF IsString, StringFrom
  <2>12. y = BenrNext(data, Rest(data, e)) /\ y = TokenAt(data, e)
    BY <2>11, Zenon DEF TokenAt, Rest
  <2>13. TakenAs(y, data, data, e)
    BY <1>1, <1>2, <2>2, <2>3, <2>6, <2>12, ValueToken, Zenon DEF CutShort
  <2>14. y.b.kind \in {"STRING", "INT", "LIST", "DICT"}
    BY <2>13, Zenon DEF TakenAs, ReadAs
  <2>15. Found(p, x.b, y.b)
    BY <1>1, <1>4, <2>1, <2>2, <2>3, <2>6, <2>7, <2>8, <2>9, <2>11, <2>12, <2>14, Zenon
       DEF Found
  <2>16. QED
    BY <2>1, <2>11, <2>13, <2>15
<1>7. QED
  BY <1>5, <1>6

\* b is what is noted of a value at q; 0 when there is none
EntryIs(b, q) ==
  IF q = 0 THEN b = None
  ELSE q \in 1 .. Len(data) /\ ValueEnd(data, q) # 0 /\ b = TokenAt(data, q).b

\* when it is a string, there is one in the message
LEMMA EntryString ==
  ASSUME DictReceived, NEW b, NEW q, EntryIs(b, q), b.kind = "STRING"
  PROVE  /\ q \in 1 .. Len(data) /\ StringEnd(data, q) # 0
         /\ StringFrom(b, data, q, StringEnd(data, q))
<1>1. PICK n \in Nat : n = Len(data) /\ data \in Seq(Nat) /\ n < UINTMAX
  BY DEF DictReceived
<1>2. Begins(data, data) /\ ~(n < n)
  BY <1>1, DictIs
<1>3. q # 0
  BY DEF EntryIs, None, Benr
<1>4. q \in 1 .. n /\ ValueEnd(data, q) # 0 /\ b = TokenAt(data, q).b
  BY <1>1, <1>3 DEF EntryIs
<1>5. ReadAs(b, data, data, q)
  <2>1. PICK x : x = BenrNext(data, Rest(data, q)) /\ b = x.b
    BY <1>4, Zenon DEF TokenAt, Rest
  <2>2. QED
    BY <1>1, <1>2, <1>4, <2>1, ValueToken, ZenonT(40) DEF CutShort, TakenAs
<1>6. StringFrom(b, data, q, ValueEnd(data, q))
  BY <1>5, Zenon DEF ReadAs
<1>7. data[q] \in Digits
  <2>1. PICK last : last = b.at.pos - 2
    OBVIOUS
  <2>2. q <= last /\ AllDigits(data, q, last)
    BY <1>6, <2>1, Zenon DEF StringFrom, AllDigits
  <2>3. last \in Int
    <3>1. PICK y \in q + 2 .. ValueEnd(data, q) : y = b.at.pos
      BY <1>6, Zenon DEF StringFrom
    <3>2. QED
      BY <2>1, <3>1
  <2>4. q \in q .. last
    BY <1>4, <2>2, <2>3
  <2>5. QED
    BY <2>2, <2>4 DEF AllDigits
<1>8. ValueEnd(data, q) = StringEnd(data, q)
  BY <1>1, <1>4, <1>7, ValueEndIs, Zenon
<1>9. QED
  BY <1>1, <1>4, <1>6, <1>8, Zenon

\* its text is the one the message has there
LEMMA EntryText ==
  ASSUME DictReceived, NEW b, NEW q, EntryIs(b, q), NEW text
  PROVE  StringAt(data, q, text) <=> b.kind = "STRING" /\ Text(b) = text
<1>1. PICK n \in Nat : n = Len(data) /\ data \in Seq(Nat) /\ n < UINTMAX
  BY DEF DictReceived
<1>2. ASSUME b.kind = "STRING" PROVE StringAt(data, q, text) <=> Text(b) = text
  <2>1. /\ q \in 1 .. Len(data) /\ StringEnd(data, q) # 0
        /\ StringFrom(b, data, q, StringEnd(data, q))
    BY <1>2, EntryString
  <2>2. QED
    BY <1>1, <2>1, StringIsText
<1>3. ASSUME StringAt(data, q, text) PROVE b.kind = "STRING"
  <2>1. q # 0 /\ StringEnd(data, q) # 0
    BY <1>3, Zenon DEF StringAt
  <2>2. q \in 1 .. n /\ q \in 1 .. n + 1 /\ b = TokenAt(data, q).b
    BY <1>1, <2>1 DEF EntryIs
  <2>3. data[q] \in Digits
    BY <1>1, <2>1, <2>2, StringBegins
  <2>4. PICK x : x = BenrNext(data, Rest(data, q)) /\ b = x.b
    BY <2>2, Zenon DEF TokenAt, Rest
  <2>5. Begins(data, data) /\ ~(n < n)
    BY <1>1, DictIs
  <2>6. IsString(x, data, data, q, StringEnd(data, q))
    BY <1>1, <2>1, <2>2, <2>3, <2>4, <2>5, TokenIs, Zenon DEF CutShort
  <2>7. QED
    BY <2>4, <2>6, Zenon DEF IsString, StringFrom
<1>4. QED
  BY <1>2, <1>3, Zenon

\* a string of one byte is what the parser compares with that byte
LEMMA EntryByte ==
  ASSUME DictReceived, NEW b, NEW q, EntryIs(b, q), NEW c
  PROVE  StringAt(data, q, <<c>>) <=> b.kind = "STRING" /\ b.at.len = 1 /\ Text(b)[1] = c
<1>1. /\ StringAt(data, q, <<c>>) => b.kind = "STRING" /\ Text(b) = <<c>>
      /\ b.kind = "STRING" /\ Text(b) = <<c>> => StringAt(data, q, <<c>>)
  <2>1. PICK text : text = <<c>>
    OBVIOUS
  <2>2. StringAt(data, q, text) <=> b.kind = "STRING" /\ Text(b) = text
    BY EntryText
  <2>3. QED
    BY <2>1, <2>2, Zenon
<1>2. ASSUME b.kind = "STRING"
      PROVE  /\ Text(b) = <<c>> => b.at.len = 1 /\ Text(b)[1] = c
             /\ b.at.len = 1 /\ Text(b)[1] = c => Text(b) = <<c>>
  <2>1. data \in Seq(Nat)
    BY DEF DictReceived
  <2>2. /\ q \in 1 .. Len(data) /\ StringEnd(data, q) # 0
        /\ StringFrom(b, data, q, StringEnd(data, q))
    BY <1>2, EntryString
  <2>3. QED
    BY <2>1, <2>2, OneByteText, Zenon
<1>3. QED
  BY <1>1, <1>2, Zenon

\* krpc_parse_y takes the type for the one that is written
LEMMA TypeIs ==
  ASSUME DictReceived, NEW b, NEW q, EntryIs(b, q)
  PROVE  ParseY(b) = IF StringAt(data, q, <<E>>) THEN "ERROR"
                     ELSE IF StringAt(data, q, <<Q>>) THEN "QUERY"
                     ELSE IF StringAt(data, q, <<R>>) THEN "RESPONSE" ELSE "NONE"
<1>1. PICK e \in BOOLEAN, m \in BOOLEAN, r \in BOOLEAN :
        /\ e = StringAt(data, q, <<E>>) /\ m = StringAt(data, q, <<Q>>)
        /\ r = StringAt(data, q, <<R>>)
  BY DEF StringAt
<1>2. PICK first : first = Text(b)[1]
  OBVIOUS
<1>3. PICK one \in BOOLEAN : one = (b.kind = "STRING" /\ b.at.len = 1)
  OBVIOUS
<1>4. (e <=> one /\ first = E) /\ (m <=> one /\ first = Q) /\ (r <=> one /\ first = R)
  <2>1. \A c : StringAt(data, q, <<c>>) <=> b.kind = "STRING" /\ b.at.len = 1 /\ first = c
    BY <1>2, EntryByte, Zenon
  <2>2. \A c : StringAt(data, q, <<c>>) <=> one /\ first = c
    BY <1>3, <2>1, Zenon
  <2>3. QED
    BY <1>1, <2>2, Zenon
<1>5. E # Q /\ E # R /\ Q # R
  BY DEF E, Q, R
<1>6. /\ ~one => ParseY(b) = "NONE"
      /\ one /\ first = E => ParseY(b) = "ERROR"
      /\ one /\ first = Q => ParseY(b) = "QUERY"
      /\ one /\ first = R => ParseY(b) = "RESPONSE"
      /\ one /\ first \notin {E, Q, R} => ParseY(b) = "NONE"
  <2>1. CASE ~one
    BY <1>3, <2>1 DEF ParseY
  <2>2. CASE one
    <3>1. ParseY(b) = CASE Text(b)[1] = E -> "ERROR"
                        [] Text(b)[1] = Q -> "QUERY"
                        [] Text(b)[1] = R -> "RESPONSE"
                        [] OTHER -> "NONE"
      BY <1>3, <2>2, Zenon DEF ParseY
    <3>2. ParseY(b) = CASE first = E -> "ERROR"
                        [] first = Q -> "QUERY"
                        [] first = R -> "RESPONSE"
                        [] OTHER -> "NONE"
      BY <1>2, <3>1, Zenon
    <3>3. QED
      BY <1>5, <2>2, <3>2
  <2>3. QED
    BY <2>1, <2>2
<1>7. ParseY(b) = IF e THEN "ERROR" ELSE IF m THEN "QUERY" ELSE IF r THEN "RESPONSE" ELSE "NONE"
  BY <1>4, <1>5, <1>6
<1>8. QED
  BY <1>1, <1>7, Zenon

\* so does krpc_msg_parse_query the name of the query
LEMMA NamedIs ==
  ASSUME DictReceived, NEW b, NEW q, EntryIs(b, q), NEW x \in Queries
  PROVE  x \in Named(b) <=> StringAt(data, q, QueryName[x])
<1>1. PICK text : text = QueryName[x]
  OBVIOUS
<1>2. StringAt(data, q, text) <=> b.kind = "STRING" /\ Text(b) = text
  BY EntryText
<1>3. x \in Named(b) <=> b.kind = "STRING" /\ Text(b) = text
  BY <1>1 DEF Named
<1>4. QED
  BY <1>1, <1>2, <1>3, Zenon

-----------------------------------------------------------------------------
(* krpc_msg_parse looks through the dictionary *)

\* What is noted in ent is, for each key, the value behind the last pair with
\* that key, of those before p.
Looked(ent, p) ==
  \A c \in Keys : \E q :
    /\ EntryIs(ent[c], q)
    /\ LastValue(data, c) = IF LastFrom(data, c)[p] # 0 THEN LastFrom(data, c)[p] ELSE q

\* of all of them
AllLooked(ent) == \A c \in Keys : EntryIs(ent[c], LastValue(data, c))

\* before the first pair nothing is noted
LEMMA LookStarts ==
  ASSUME NEW ent, \A c \in Keys : ent[c] = None
  PROVE  Looked(ent, 2)
<1>1. ASSUME NEW c \in Keys
      PROVE  \E q : /\ EntryIs(ent[c], q)
                    /\ LastValue(data, c)
                         = IF LastFrom(data, c)[2] # 0 THEN LastFrom(data, c)[2] ELSE q
  <2>1. EntryIs(ent[c], 0)
    BY DEF EntryIs
  <2>2. LastValue(data, c) = IF LastFrom(data, c)[2] # 0 THEN LastFrom(data, c)[2] ELSE 0
    BY DEF LastValue
  <2>3. QED
    BY <2>1, <2>2
<1>2. QED
  BY <1>1, Zenon DEF Looked

\* where no pair is left the last one of each key was met
LEMMA LookEnds ==
  ASSUME DictReceived, NEW p \in 1 .. Len(data) + 1, StringEnd(data, p) = 0,
         NEW ent, Looked(ent, p)
  PROVE  AllLooked(ent)
<1>1. ASSUME NEW c \in Keys PROVE EntryIs(ent[c], LastValue(data, c))
  <2>1. LastFrom(data, c)[p] = LastHere(data, c, p, 0)
    <3>1. PairEnd(data, p) = 0
      BY DEF PairEnd
    <3>2. (IF PairEnd(data, p) = 0 THEN 0 ELSE LastFrom(data, c)[PairEnd(data, p)]) = 0
      BY <3>1
    <3>3. LastFrom(data, c)[p] =
            LastHere(data, c, p, IF PairEnd(data, p) = 0 THEN 0 ELSE LastFrom(data, c)[PairEnd(data, p)])
      BY LastFromIs, Zenon DEF DictReceived
    <3>4. QED
      BY <3>2, <3>3, Zenon
  <2>2. LastFrom(data, c)[p] = 0
    BY <2>1, Zenon DEF LastHere, StringAt
  <2>3. PICK q : /\ EntryIs(ent[c], q)
                 /\ LastValue(data, c)
                      = IF LastFrom(data, c)[p] # 0 THEN LastFrom(data, c)[p] ELSE q
    BY Zenon DEF Looked
  <2>4. LastValue(data, c) = q
    BY <2>2, <2>3
  <2>5. QED
    BY <2>3, <2>4
<1>2. QED
  BY <1>1 DEF AllLooked

\* the pair at p, noted when its key is a known one
LEMMA LookOn ==
  ASSUME DictReceived, NEW p \in 1 .. Len(data), NEW kk, NEW vv, Found(p, kk, vv),
         NEW ent, DOMAIN ent = Keys, Looked(ent, p),
         NEW new, new = (IF kk.kind = "STRING" /\ kk.at.len = 1 /\ Text(kk)[1] \in Keys
                         THEN [ent EXCEPT ![Text(kk)[1]] = vv] ELSE ent)
  PROVE  DOMAIN new = Keys /\ Looked(new, PairEnd(data, p))
<1>1. PICK n \in Nat : n = Len(data) /\ data \in Seq(Nat) /\ n < UINTMAX
  BY DEF DictReceived
<1>2. PICK e : e = StringEnd(data, p)
  OBVIOUS
<1>3. PICK r : r = PairEnd(data, p)
  OBVIOUS
<1>4. e \in 1 .. n /\ StringFrom(kk, data, p, e) /\ vv = TokenAt(data, e).b
      /\ r \in 1 .. n + 1 /\ r = ValueEnd(data, e)
  BY <1>1, <1>2, <1>3, Zenon DEF Found
<1>5. kk.kind = "STRING" /\ e # 0 /\ r # 0
  <2>1. kk.kind = "STRING"
    BY <1>4, Zenon DEF StringFrom
  <2>2. QED
    BY <1>4, <2>1
<1>6. PICK first : first = Text(kk)[1]
  OBVIOUS
<1>7. PICK one \in BOOLEAN : one = (kk.at.len = 1)
  OBVIOUS
<1>8. /\ one /\ first \in Keys => new = [ent EXCEPT ![first] = vv]
      /\ ~(one /\ first \in Keys) => new = ent
  BY <1>5, <1>6, <1>7
<1>9. EntryIs(vv, e)
  BY <1>1, <1>4, <1>5 DEF EntryIs
<1>10. ASSUME NEW c \in Keys
       PROVE  \E q : /\ EntryIs(new[c], q)
                     /\ LastValue(data, c)
                          = IF LastFrom(data, c)[r] # 0 THEN LastFrom(data, c)[r] ELSE q
  <2>1. PICK here, later : here = LastFrom(data, c)[p] /\ later = LastFrom(data, c)[r]
    OBVIOUS
  <2>2. here = IF later = 0 /\ StringAt(data, p, <<c>>) THEN e ELSE later
    <3>1. (IF PairEnd(data, p) = 0 THEN 0 ELSE LastFrom(data, c)[PairEnd(data, p)]) = later
      BY <1>3, <1>5, <2>1
    <3>2. p \in 1 .. Len(data) + 1
      BY <1>1
    <3>3. here = LastHere(data, c, p,
                      IF PairEnd(data, p) = 0 THEN 0 ELSE LastFrom(data, c)[PairEnd(data, p)])
      BY <1>1, <2>1, <3>2, LastFromIs, Zenon
    <3>4. here = LastHere(data, c, p, later)
      BY <3>1, <3>3, Zenon
    <3>5. QED
      BY <1>2, <3>4, Zenon DEF LastHere
  <2>3. PICK q : EntryIs(ent[c], q) /\ LastValue(data, c) = IF here # 0 THEN here ELSE q
    BY <2>1, Zenon DEF Looked
  <2>4. StringAt(data, p, <<c>>) <=> one /\ first = c
    BY <1>1, <1>2, <1>4, <1>5, <1>6, <1>7, KeyIs, ZenonT(40)
  <2>5. CASE one /\ first = c
    <3>1. EntryIs(new[c], e)
      BY <1>8, <1>9, <2>5
    <3>2. LastValue(data, c) = IF later # 0 THEN later ELSE e
      BY <1>5, <2>2, <2>3, <2>4, <2>5
    <3>3. QED
      BY <2>1, <3>1, <3>2
  <2>6. CASE ~(one /\ first = c)
    <3>1. EntryIs(new[c], q)
      BY <1>8, <2>3, <2>6
    <3>2. LastValue(data, c) = IF later # 0 THEN later ELSE q
      BY <2>2, <2>3, <2>4, <2>6
    <3>3. QED
      BY <2>1, <3>1, <3>2
  <2>7. QED
    BY <2>5, <2>6
<1>11. Looked(new, r)
  BY <1>10, Zenon DEF Looked
<1>12. DOMAIN new = Keys
  BY <1>8
<1>13. QED
  BY <1>3, <1>11, <1>12

\* Where krpc_msg_parse is in a dictionary that was received whole, and what it
\* has of it: the pairs before p are looked through, and at the end all of them.
AtPair(p) ==
  /\ Looked(entry, p)
  /\ \/ pc = "idle" /\ ret = "ok" /\ ctx = Rest(data, PairEnd(data, p)) /\ Found(p, key, val)
     \/ pc = "skip" /\ ret = "ok" /\ from = p /\ Found(p, k, v)

BetweenPairs(p) == ctx = Rest(data, p) /\ Close(data, "DICT", p) # 0 /\ Looked(entry, p)

Asked == type \in {"QUERY", "RESPONSE"}

Right ==
  /\ DOMAIN entry = Keys
  /\ at = "open" => pc = "idle" /\ over = "none" /\ \A c \in Keys : entry[c] = None
  /\ at \in {"loop", "call"} => over = "DICT"
  /\ at \in {"open", "loop", "call", "parse"} => type = "NONE" /\ query = "NONE"
  /\ at = "loop" =>
       pc = "idle" /\ ret = "ok" /\ \E p \in 1 .. Len(data) + 1 : BetweenPairs(p)
  /\ at = "call" =>
       \/ pc = "idle" /\ ret = "end" /\ AllLooked(entry)
       \/ \E p \in 1 .. Len(data) : AtPair(p)
  /\ at \notin {"open", "loop", "call"} => AllLooked(entry)
  /\ at \notin {"open", "loop", "call", "parse"} => type = ParseY(entry[Y])
  /\ at = "query" => Asked /\ query = "NONE"
  /\ at \in {"elements", "understood"} =>
       \/ type = "ERROR" /\ query = "NONE"
       \/ Asked /\ query \in Named(entry[Q])
  /\ at = "refused" => query = "NONE" /\ (type = "NONE" \/ (Asked /\ Named(entry[Q]) = {}))

\* what is said of the message alone stays, also of what a step sets
LEMMA DictStays ==
  ASSUME data' = data
  PROVE  /\ DictReceived' => DictReceived
         /\ \A p : Len(data)' = Len(data) /\ Rest(data, p)' = Rest(data, p)
         /\ \A p : PairEnd(data, p)' = PairEnd(data, p)
         /\ \A p : Close(data, "DICT", p)' = Close(data, "DICT", p)
         /\ \A p, kk, vv : Found(p, kk, vv) => Found(p, kk, vv)'
         /\ \A ent, p : Looked(ent, p) => Looked(ent, p)'
         /\ \A ent : AllLooked(ent) => AllLooked(ent)'
         /\ \A b : Named(b)' = Named(b) /\ ParseY(b)' = ParseY(b)
<1>1. DictReceived' => DictReceived
  BY DEF DictReceived
<1>2. \A p, kk, vv : Found(p, kk, vv) => Found(p, kk, vv)'
  BY DEF Found
<1>3. \A b, q : EntryIs(b, q) => EntryIs(b, q)'
  BY DEF EntryIs
<1>4. \A c : LastValue(data, c)' = LastValue(data, c) /\ LastFrom(data, c)' = LastFrom(data, c)
  OBVIOUS
<1>5. \A ent, p : Looked(ent, p) => Looked(ent, p)'
  BY <1>3, <1>4 DEF Looked
<1>6. \A ent : AllLooked(ent) => AllLooked(ent)'
  BY <1>3, <1>4 DEF AllLooked
<1>7. \A b : Named(b)' = Named(b) /\ ParseY(b)' = ParseY(b)
  BY DEF Named, ParseY, Text
<1>8. \A p : Len(data)' = Len(data) /\ Rest(data, p)' = Rest(data, p)
  OBVIOUS
<1>9. \A p : PairEnd(data, p)' = PairEnd(data, p)
  OBVIOUS
<1>10. \A p : Close(data, "DICT", p)' = Close(data, "DICT", p)
  OBVIOUS
<1>11. QED
  BY <1>1, <1>2, <1>5, <1>6, <1>7, <1>8, <1>9, <1>10, Zenon

\* it holds at the start
LEMMA RightStarts == KrpcInit => Right
<1> SUFFICES ASSUME KrpcInit PROVE Right
  OBVIOUS
<1>1. /\ at = "open" /\ entry = [c \in Keys |-> None] /\ type = "NONE" /\ query = "NONE"
      /\ pc = "idle" /\ over = "none"
  BY DEF KrpcInit, Init
<1>2. QED
  BY <1>1 DEF Right

\* the dictionary is opened
LEMMA OpenRight ==
  ASSUME DictReceived, Right, OpenDict
  PROVE  Right'
<1>1. /\ data' = data /\ entry' = entry /\ type' = type /\ query' = query /\ at' = "loop"
      /\ pc' = pc /\ over' = BenrInit(data).kind /\ ctx' = BenrInit(data).at /\ ret' = "ok"
      /\ at = "open"
  BY DEF OpenDict, OpenMessage, Iterate
<1>2. over' = "DICT" /\ ctx' = Rest(data, 2) /\ 2 \in 1 .. Len(data) + 1
      /\ Close(data, "DICT", 2) # 0
  BY <1>1, DictIs
<1>3. /\ DOMAIN entry = Keys /\ pc = "idle" /\ type = "NONE" /\ query = "NONE"
      /\ \A c \in Keys : entry[c] = None
  BY <1>1 DEF Right
<1>4. PICK ent : ent = entry
  OBVIOUS
<1>5. Looked(ent, 2)'
  BY <1>1, <1>3, <1>4, LookStarts, DictStays, Zenon
<1>6. BetweenPairs(2)'
  <2>1. Looked(entry, 2)'
    BY <1>1, <1>4, <1>5
  <2>2. QED
    BY <1>1, <1>2, <2>1, Zenon DEF BetweenPairs
<1>7. \E p \in 1 .. Len(data') + 1 : BetweenPairs(p)'
  BY <1>1, <1>2, <1>6
<1>8. QED
  BY <1>1, <1>2, <1>3, <1>7 DEF Right

\* the next pair is read, or what opens its value, or the end marker
LEMMA EntryRight ==
  ASSUME DictReceived, Right, NextEntry
  PROVE  Right'
<1>1. /\ data' = data /\ over' = over /\ from' = ctx.pos /\ at = "loop" /\ at' = "call"
      /\ entry' = entry /\ type' = type /\ query' = query
  BY DEF NextEntry, DictNext, Call
<1>2. /\ DOMAIN entry = Keys /\ over = "DICT" /\ pc = "idle" /\ ret = "ok"
      /\ type = "NONE" /\ query = "NONE"
  BY <1>1 DEF Right
<1>3. PICK p \in 1 .. Len(data) + 1 :
        ctx = Rest(data, p) /\ Close(data, "DICT", p) # 0 /\ Looked(entry, p)
  BY <1>1 DEF Right, BetweenPairs
<1>4. PICK ent : ent = entry
  OBVIOUS
<1>5. data \in Seq(Nat)
  BY DEF DictReceived
<1>6. from' = p
  BY <1>1, <1>3, <1>5, RestIs
<1>7. PICK x : x = BenrNext(data, ctx)
  OBVIOUS
<1>8. PICK y : y = BenrNext(data, x.ctx)
  OBVIOUS
<1>9. \/ x.b.kind = "X_END" /\ ReturnEnd(x.ctx)
      \/ x.b.kind # "X_END" /\ y.b.kind = "X_END" /\ ReturnEnd(y.ctx)
      \/ x.b.kind # "X_END" /\ y.b.kind # "X_END" /\ Element(x.b, y)
  BY <1>7, <1>8 DEF NextEntry, DictNext
<1>10. \/ x.b.kind = "X_END" /\ StringEnd(data, p) = 0
       \/ /\ x.b.kind = "STRING" /\ Found(p, x.b, y.b)
          /\ TakenAs(y, data, data, StringEnd(data, p))
  BY <1>3, <1>7, <1>8, PairRead, Zenon
<1>11. ASSUME (pc = "idle" /\ ret = "end" /\ AllLooked(entry))'
              \/ \E q \in 1 .. Len(data) : AtPair(q)'
       PROVE  Right'
  BY <1>1, <1>2, <1>11 DEF Right
<1>12. CASE x.b.kind = "X_END" /\ StringEnd(data, p) = 0
  <2>1. pc' = "idle" /\ ret' = "end"
    BY <1>9, <1>12, Zenon DEF ReturnEnd
  <2>2. AllLooked(ent)'
    BY <1>1, <1>3, <1>4, <1>12, LookEnds, DictStays, Zenon
  <2>3. AllLooked(entry)'
    BY <1>1, <1>4, <2>2
  <2>4. QED
    BY <1>11, <2>1, <2>3
<1>13. CASE /\ x.b.kind = "STRING" /\ Found(p, x.b, y.b)
            /\ TakenAs(y, data, data, StringEnd(data, p))
  <2>1. y.b.kind \in {"STRING", "INT", "LIST", "DICT"}
    BY <1>13 DEF Found
  <2>2. Element(x.b, y)
    BY <1>9, <1>13, <2>1
  <2>3. p \in 1 .. Len(data) /\ PairEnd(data, p) = ValueEnd(data, StringEnd(data, p))
    BY <1>13, Zenon DEF Found
  <2>4. Looked(entry, p)'
    <3>1. Looked(ent, p)'
      BY <1>1, <1>3, <1>4, DictStays, Zenon
    <3>2. QED
      BY <1>1, <1>4, <3>1
  <2>5. Found(p, x.b, y.b)'
    BY <1>1, <1>13, DictStays, Zenon
  <2>6. CASE IsContainer(y.b)
    <3>1. pc' = "skip" /\ k' = x.b /\ v' = y.b /\ ret' = "ok"
      BY <1>2, <2>2, <2>6, Zenon DEF Element
    <3>2. Found(p, k, v)'
      BY <2>5, <3>1, Zenon DEF Found
    <3>3. AtPair(p)'
      BY <1>6, <2>4, <3>1, <3>2, Zenon DEF AtPair
    <3>4. QED
      BY <1>11, <2>3, <3>3
  <2>7. CASE ~IsContainer(y.b)
    <3>1. pc' = "idle" /\ ret' = "ok" /\ key' = x.b /\ val' = y.b /\ ctx' = y.ctx
      BY <2>2, <2>7, Zenon DEF Element, Return
    <3>2. y.ctx = Rest(data, PairEnd(data, p))
      <4>1. y.b.kind \notin Kinds
        BY <2>7, KindsAre DEF IsContainer
      <4>2. QED
        BY <1>13, <2>3, <4>1, Zenon DEF TakenAs
    <3>3. Found(p, key, val)'
      BY <2>5, <3>1, Zenon DEF Found
    <3>4. ctx' = Rest(data, PairEnd(data, p))'
      BY <1>1, <3>1, <3>2
    <3>5. AtPair(p)'
      BY <2>4, <3>1, <3>3, <3>4, Zenon DEF AtPair
    <3>6. QED
      BY <1>11, <2>3, <3>5
  <2>8. QED
    BY <2>6, <2>7
<1>14. QED
  BY <1>10, <1>12, <1>13

\* a token of a value that is passed over
LEMMA ReaderRight ==
  ASSUME DictReceived, Right, InReader, Reading(data)'
  PROVE  Right'
<1>1. /\ at = "call" /\ at' = at /\ pc = "skip" /\ UNCHANGED <<entry, type, query>>
  BY DEF InReader, krpcVars, Skip
<1>2. PICK t : ScanDeeper(t) \/ ScanOn(t) \/ ScanUp(t) \/ Skipped(t) \/ SkipFails(t)
  BY DEF InReader, Skip
<1>3. data' = data /\ over' = over /\ from' = from
  BY <1>2 DEF ScanDeeper, ScanOn, ScanUp, Skipped, SkipFails, Scan
<1>4. DOMAIN entry = Keys /\ over = "DICT" /\ type = "NONE" /\ query = "NONE"
  BY <1>1 DEF Right
<1>5. PICK p \in 1 .. Len(data) : /\ Looked(entry, p) /\ ret = "ok"
                                  /\ from = p /\ Found(p, k, v)
  BY <1>1 DEF Right, AtPair
<1>6. PICK ent, kk, vv : ent = entry /\ kk = k /\ vv = v
  OBVIOUS
<1>7. Looked(entry, p)' /\ Found(p, kk, vv)'
  <2>1. Looked(ent, p)' /\ Found(p, kk, vv)'
    BY <1>3, <1>5, <1>6, DictStays, Zenon
  <2>2. QED
    BY <1>1, <1>6, <2>1
<1>8. ASSUME AtPair(p)' PROVE Right'
  BY <1>1, <1>3, <1>4, <1>8 DEF Right
<1>9. CASE ScanDeeper(t) \/ ScanOn(t) \/ ScanUp(t)
  <2>1. pc' = "skip" /\ k' = kk /\ v' = vv /\ ret' = "ok"
    BY <1>1, <1>5, <1>6, <1>9 DEF ScanDeeper, ScanOn, ScanUp
  <2>2. Found(p, k, v)'
    BY <1>7, <2>1, Zenon DEF Found
  <2>3. QED
    BY <1>3, <1>5, <1>7, <1>8, <2>1, <2>2 DEF AtPair
<1>10. ~(Len(data') < Len(data'))
  BY <1>3 DEF DictReceived
<1>11. CASE Skipped(t)
  <2>1. pc' = "idle" /\ ret' = "ok" /\ key' = kk /\ val' = vv
    BY <1>6, <1>11, Zenon DEF Skipped, Return
  <2>2. Found(p, key, val)'
    BY <1>7, <2>1, Zenon DEF Found
  <2>3. val' # None'
    BY <1>5, <1>6, <2>1 DEF Found, None, Benr
  <2>4. AtRest(data)'
    BY <1>3, <1>4, <1>10, <2>1, <2>3 DEF Reading, Unopened, Iterating, Spent, AtEnd, Skipping
  <2>5. ctx' = Rest(data', ValueEnd(data', At(data)'))
    BY <2>3, <2>4, Zenon DEF AtRest
  <2>6. At(data)' = StringEnd(data, p)
    <3>1. At(data)' = ValueEnd(data, p)
      BY <1>3, <1>4, <1>5 DEF At
    <3>2. QED
      BY <1>5, <3>1 DEF Found
  <2>7. ctx' = Rest(data, PairEnd(data, p))'
    <3>1. PairEnd(data, p) = ValueEnd(data, StringEnd(data, p))
      BY <1>5 DEF Found
    <3>2. QED
      BY <1>3, <2>5, <2>6, <3>1
  <2>8. QED
    BY <1>7, <1>8, <2>1, <2>2, <2>7, Zenon DEF AtPair
<1>12. CASE SkipFails(t)
  <2>1. ret' = "bad" /\ ~clean'
    BY <1>12 DEF SkipFails
  <2>2. QED
    BY <1>10, <2>1 DEF Reading, Spent
<1>13. QED
  BY <1>2, <1>9, <1>11, <1>12

\* the pair is noted, or passed over
LEMMA NoteRight ==
  ASSUME DictReceived, Right, NoteEntry
  PROVE  Right'
<1>1. /\ at = "call" /\ at' = "loop" /\ pc = "idle" /\ ret = "ok" /\ data' = data
      /\ UNCHANGED <<pc, ret, ctx, over, type, query>>
  BY DEF NoteEntry, CallReturns, iterVars
<1>2. DOMAIN entry = Keys /\ over = "DICT" /\ type = "NONE" /\ query = "NONE"
  BY <1>1 DEF Right
<1>3. PICK p \in 1 .. Len(data) :
        Looked(entry, p) /\ ctx = Rest(data, PairEnd(data, p)) /\ Found(p, key, val)
  BY <1>1 DEF Right, AtPair
<1>4. PICK new : new = entry'
  OBVIOUS
<1>5. new = IF key.kind = "STRING" /\ key.at.len = 1 /\ Text(key)[1] \in Keys
            THEN [entry EXCEPT ![Text(key)[1]] = val] ELSE entry
  BY <1>4, Zenon DEF NoteEntry
<1>6. DOMAIN new = Keys /\ Looked(new, PairEnd(data, p))
  BY <1>2, <1>3, <1>5, LookOn, Zenon
<1>7. PICK r : r = PairEnd(data, p)
  OBVIOUS
<1>8. r \in 1 .. Len(data) + 1 /\ Close(data, "DICT", r) # 0
  BY <1>3, <1>7, Zenon DEF Found
<1>9. Looked(entry, r)'
  <2>1. Looked(new, r)'
    BY <1>1, <1>6, <1>7, DictStays, Zenon
  <2>2. QED
    BY <1>4, <2>1
<1>10. BetweenPairs(r)'
  BY <1>1, <1>3, <1>7, <1>8, <1>9 DEF BetweenPairs
<1>11. DOMAIN entry' = Keys
  BY <1>4, <1>6
<1>12. QED
  BY <1>1, <1>2, <1>8, <1>10, <1>11 DEF Right

\* Every step of krpc_msg_parse keeps what it has of a whole dictionary right.
LEMMA StepRight ==
  ASSUME DictReceived, Right, [KrpcNext]_allVars, Reading(data)'
  PROVE  Right'
<1>1. PICK ent, b, q : ent = entry /\ b = entry[Y] /\ q = entry[Q]
  OBVIOUS
<1>2. ASSUME data' = data, entry' = entry, at' \notin {"open", "loop", "call"}, AllLooked(entry)
      PROVE  /\ DOMAIN entry' = DOMAIN entry /\ AllLooked(entry)'
             /\ ParseY(entry[Y])' = ParseY(entry[Y]) /\ Named(entry[Q])' = Named(entry[Q])
  <2>1. AllLooked(ent)' /\ ParseY(b)' = ParseY(b) /\ Named(q)' = Named(q)
    BY <1>1, <1>2, DictStays, Zenon
  <2>2. QED
    BY <1>1, <1>2, <2>1
<1>3. CASE NotADict
  BY <1>3, DictIs DEF NotADict
<1>4. CASE RanOut
  <2>1. /\ at = "call" /\ at' = "parse" /\ pc = "idle" /\ ret # "ok" /\ data' = data
        /\ UNCHANGED <<entry, type, query>>
    BY <1>4 DEF RanOut, CallReturns, iterVars
  <2>2. DOMAIN entry = Keys /\ type = "NONE" /\ query = "NONE" /\ AllLooked(entry)
    BY <2>1 DEF Right, AtPair
  <2>3. QED
    BY <1>2, <2>1, <2>2 DEF Right
<1>5. CASE ParseType
  <2>1. /\ at = "parse" /\ type' = ParseY(entry[Y]) /\ data' = data
        /\ UNCHANGED <<entry, query>>
    BY <1>5 DEF ParseType, iterVars
  <2>2. \/ type' = "NONE" /\ at' = "refused"
        \/ type' \in {"QUERY", "RESPONSE"} /\ at' = "query"
        \/ type' = "ERROR" /\ at' = "elements"
    BY <1>5 DEF ParseType, Refuse
  <2>3. DOMAIN entry = Keys /\ query = "NONE" /\ AllLooked(entry)
    BY <2>1 DEF Right
  <2>4. at' \notin {"open", "loop", "call", "parse", "understood"}
    BY <2>2
  <2>5. DOMAIN entry' = Keys /\ AllLooked(entry)' /\ type' = ParseY(entry[Y])'
    BY <1>2, <2>1, <2>3, <2>4
  <2>6. CASE type' = "NONE" /\ at' = "refused"
    BY <2>1, <2>3, <2>5, <2>6 DEF Right
  <2>7. CASE type' \in {"QUERY", "RESPONSE"} /\ at' = "query"
    BY <2>1, <2>3, <2>5, <2>7 DEF Right, Asked
  <2>8. CASE type' = "ERROR" /\ at' = "elements"
    BY <2>1, <2>3, <2>5, <2>8 DEF Right
  <2>9. QED
    BY <2>2, <2>6, <2>7, <2>8
<1>6. CASE ParseQuery
  <2>1. /\ at = "query" /\ data' = data
        /\ \/ query' \in Named(entry[Q]) /\ at' = "elements"
           \/ Named(entry[Q]) = {} /\ at' = "refused" /\ query' = query
        /\ UNCHANGED <<entry, type>>
    BY <1>6 DEF ParseQuery, Refuse, iterVars
  <2>2. DOMAIN entry = Keys /\ query = "NONE" /\ AllLooked(entry) /\ Asked
        /\ type = ParseY(entry[Y])
    BY <2>1 DEF Right
  <2>3. QED
    BY <1>2, <2>1, <2>2 DEF Right, Asked
<1>7. CASE ParseElements
  <2>1. /\ at = "elements" /\ at' = "understood" /\ data' = data
        /\ UNCHANGED <<entry, type, query>>
    BY <1>7 DEF ParseElements, iterVars
  <2>2. DOMAIN entry = Keys /\ AllLooked(entry) /\ type = ParseY(entry[Y])
    BY <2>1 DEF Right
  <2>3. \/ type = "ERROR" /\ query = "NONE"
        \/ Asked /\ query \in Named(entry[Q])
    BY <2>1 DEF Right
  <2>4. DOMAIN entry' = Keys /\ AllLooked(entry)' /\ type' = ParseY(entry[Y])'
    BY <1>2, <2>1, <2>2
  <2>5. \/ type' = "ERROR" /\ query' = "NONE"
        \/ Asked' /\ query' \in Named(entry[Q])'
    BY <1>2, <2>1, <2>2, <2>3 DEF Asked
  <2>6. QED
    BY <2>1, <2>4, <2>5 DEF Right
<1>8. CASE UNCHANGED allVars
  <2>1. UNCHANGED <<data, pc, over, ctx, from, ret, key, val, k, v, at, entry, type, query>>
    BY <1>8 DEF allVars, iterVars, krpcVars
  <2>2. ASSUME NEW p, Looked(entry, p) PROVE Looked(entry, p)'
    <3>1. Looked(ent, p)'
      BY <1>1, <2>1, <2>2, DictStays, Zenon
    <3>2. QED
      BY <1>1, <2>1, <3>1
  <2>3. ASSUME NEW p, BetweenPairs(p) PROVE BetweenPairs(p)'
    BY <2>1, <2>2, <2>3, DictStays DEF BetweenPairs
  <2>4. ASSUME NEW kk, NEW vv, NEW p, Found(p, kk, vv) PROVE Found(p, kk, vv)'
    BY <2>1, <2>4, DictStays, Zenon
  <2>5. ASSUME NEW p, AtPair(p) PROVE AtPair(p)'
    <3>1. PICK kk, vv : kk = key /\ vv = val
      OBVIOUS
    <3>2. PICK kl, vl : kl = k /\ vl = v
      OBVIOUS
    <3>3. Found(p, key, val) => Found(p, key, val)'
      BY <2>1, <2>4, <3>1
    <3>4. Found(p, k, v) => Found(p, k, v)'
      BY <2>1, <2>4, <3>2
    <3>5. Rest(data, PairEnd(data, p))' = Rest(data, PairEnd(data, p))
      BY <2>1
    <3>6. QED
      BY <2>1, <2>2, <2>5, <3>3, <3>4, <3>5 DEF AtPair
  <2>6. AllLooked(entry) => AllLooked(entry)'
    <3>1. AllLooked(ent) => AllLooked(ent)'
      BY <2>1, DictStays, Zenon
    <3>2. QED
      BY <1>1, <2>1, <3>1
  <2>7. ParseY(entry[Y])' = ParseY(entry[Y]) /\ Named(entry[Q])' = Named(entry[Q])
    <3>1. ParseY(b)' = ParseY(b) /\ Named(q)' = Named(q)
      BY <2>1, DictStays, Zenon
    <3>2. QED
      BY <1>1, <2>1, <3>1
  <2>8. (Len(data) + 1)' = Len(data) + 1 /\ (1 .. Len(data))' = 1 .. Len(data)
    BY <2>1
  <2>9. QED
    BY <2>1, <2>3, <2>5, <2>6, <2>7, <2>8 DEF Right, Asked
<1>9. QED
  BY <1>3, <1>4, <1>5, <1>6, <1>7, <1>8, OpenRight, EntryRight, ReaderRight, NoteRight
     DEF KrpcNext

-----------------------------------------------------------------------------
\* a step of krpc_msg_parse is a step of the iterators, or leaves them
LEMMA StepIterates == [KrpcNext]_allVars => [Next]_iterVars
BY DEF KrpcNext, NotADict, OpenDict, NextEntry, InReader, NoteEntry, RanOut, CallReturns,
       ParseType, ParseQuery, ParseElements, Next, allVars

\* The iterators are where they should be, and krpc_msg_parse as well: the
\* inductive invariant.
ParseInv == BenrInv /\ EndInv /\ ReadsInv /\ (DictReceived => Right)

\* it holds at the start ...
LEMMA ParseStarts == KrpcInit => ParseInv
<1>1. KrpcInit => Init
  BY DEF KrpcInit
<1>2. Init => EndInv
  BY DEF Init, EndInv
<1>3. QED
  BY <1>1, <1>2, InitInside, InitReads, RightStarts DEF ParseInv

\* ... and is kept
LEMMA ParseSteps == ParseInv /\ [KrpcNext]_allVars => ParseInv'
<1> SUFFICES ASSUME ParseInv, [KrpcNext]_allVars PROVE ParseInv'
  OBVIOUS
<1>1. BenrInv /\ EndInv /\ ReadsInv /\ [Next]_iterVars
  BY StepIterates DEF ParseInv
<1>2. BenrInv' /\ EndInv' /\ ReadsInv'
  BY <1>1, BenrInvNext, StepKeepsEnd, NextReads
<1>3. ASSUME DictReceived' PROVE Right'
  <2>1. data' = data
    BY <1>1, DataStays
  <2>2. DictReceived
    BY <1>3, <2>1, DictStays, Zenon
  <2>3. Source(data)
    BY <2>2, DictIs
  <2>4. Reading(data)
    BY <1>1, <2>3, Zenon DEF ReadsInv
  <2>5. Reading(data)'
    <3>1. PICK s : s = data
      OBVIOUS
    <3>2. Source(s) /\ Reading(s)
      BY <2>3, <2>4, <3>1
    <3>3. Reading(s)'
      BY <1>1, <3>2, StepReads
    <3>4. s = data'
      BY <2>1, <3>1
    <3>5. QED
      BY <3>3, <3>4
  <2>6. QED
    BY <2>2, <2>5, StepRight DEF ParseInv
<1>4. QED
  BY <1>2, <1>3 DEF ParseInv

\* what krpc_msg_parse takes a well-formed message for: ParsedAsWritten, with a
\* `q' wanted in a response as in a query
TakenAsWritten ==
  Returned /\ WellFormed(data) /\ Len(data) < UINTMAX /\ data[1] = D =>
    LET y == LastValue(data, Y)
        q == LastValue(data, Q)
    IN /\ type = (IF StringAt(data, y, <<E>>) THEN "ERROR"
                  ELSE IF StringAt(data, y, <<Q>>) THEN "QUERY"
                  ELSE IF StringAt(data, y, <<R>>) THEN "RESPONSE" ELSE "NONE")
       /\ \A x \in Queries :
            query = x <=> /\ type \in {"QUERY", "RESPONSE"}
                          /\ StringAt(data, q, QueryName[x])
       /\ at = "understood" <=>
            type = "ERROR" \/ (type # "NONE" /\ query # "NONE")

\* of a message that was read to its end it says what was understood
LEMMA ParseUnderstands == ParseInv => TakenAsWritten
<1> SUFFICES ASSUME ParseInv, Returned, WellFormed(data), Len(data) < UINTMAX, data[1] = D
             PROVE  TakenAsWritten
  BY DEF TakenAsWritten
<1>1. DictReceived
  BY BytesAre, Zenon DEF ParseInv, BenrInv, DictReceived
<1>2. PICK y, q : y = LastValue(data, Y) /\ q = LastValue(data, Q)
  OBVIOUS
<1>3. EntryIs(entry[Y], y) /\ EntryIs(entry[Q], q)
  <2>1. AllLooked(entry)
    BY <1>1 DEF ParseInv, Right, Returned
  <2>2. Y \in Keys /\ Q \in Keys
    BY DEF Keys
  <2>3. QED
    BY <1>2, <2>1, <2>2 DEF AllLooked
<1>4. type = IF StringAt(data, y, <<E>>) THEN "ERROR"
             ELSE IF StringAt(data, y, <<Q>>) THEN "QUERY"
             ELSE IF StringAt(data, y, <<R>>) THEN "RESPONSE" ELSE "NONE"
  <2>1. type = ParseY(entry[Y])
    BY <1>1 DEF ParseInv, Right, Returned
  <2>2. QED
    BY <1>1, <1>3, <2>1, TypeIs, Zenon
<1>5. /\ at = "understood" => \/ type = "ERROR" /\ query = "NONE"
                              \/ Asked /\ query \in Named(entry[Q])
      /\ at = "refused" => query = "NONE" /\ (type = "NONE" \/ (Asked /\ Named(entry[Q]) = {}))
      /\ at \in {"refused", "understood"}
  BY <1>1 DEF ParseInv, Right, Returned
<1>6. "NONE" \notin Queries /\ Named(entry[Q]) \subseteq Queries
  BY DEF Queries, Named
<1>7. ASSUME NEW x \in Queries
      PROVE  query = x <=> Asked /\ StringAt(data, q, QueryName[x])
  <2>1. x \in Named(entry[Q]) <=> StringAt(data, q, QueryName[x])
    BY <1>1, <1>3, NamedIs, Zenon
  <2>2. ASSUME NEW w \in Named(entry[Q]), x \in Named(entry[Q]) PROVE w = x
    <3>1. Text(entry[Q]) = QueryName[w] /\ Text(entry[Q]) = QueryName[x]
      BY <2>2 DEF Named
    <3>2. w \in Queries
      BY <1>6
    <3>3. QED
      BY <3>1, <3>2, NamesAssumption
  <2>3. x # "NONE"
    BY <1>6
  <2>4. ~("ERROR" \in {"QUERY", "RESPONSE"}) /\ ~("NONE" \in {"QUERY", "RESPONSE"})
    OBVIOUS
  <2>5. QED
    BY <1>5, <2>1, <2>2, <2>3, <2>4 DEF Asked
<1>8. at = "understood" <=> type = "ERROR" \/ (type # "NONE" /\ query # "NONE")
  BY <1>5, <1>6 DEF Asked
<1>9. QED
  BY <1>2, <1>4, <1>7, <1>8, Zenon DEF TakenAsWritten, Asked

\* what the code takes it for is what is written in it
LEMMA TakenIsParsed == TakenAsWritten => ParsedAsWritten
<1> SUFFICES ASSUME TakenAsWritten, Returned, WellFormed(data), Len(data) < UINTMAX,
                    data[1] = D
             PROVE  ParsedAsWritten
  BY DEF ParsedAsWritten
<1>1. PICK y, q : y = LastValue(data, Y) /\ q = LastValue(data, Q)
  OBVIOUS
<1>2. /\ type = (IF StringAt(data, y, <<E>>) THEN "ERROR"
                 ELSE IF StringAt(data, y, <<Q>>) THEN "QUERY"
                 ELSE IF StringAt(data, y, <<R>>) THEN "RESPONSE" ELSE "NONE")
      /\ \A x \in Queries :
           query = x <=> /\ type \in {"QUERY", "RESPONSE"}
                         /\ StringAt(data, q, QueryName[x])
      /\ at = "understood" <=>
           type = "ERROR" \/ (type # "NONE" /\ query # "NONE")
  BY <1>1, Zenon DEF TakenAsWritten
<1>3. type \in {"ERROR", "QUERY", "RESPONSE", "NONE"}
  BY <1>2
<1>4. ASSUME type # "RESPONSE"
      PROVE  /\ \A x \in Queries :
                  query = x <=> type = "QUERY" /\ StringAt(data, q, QueryName[x])
             /\ at = "understood" <=>
                  type = "ERROR" \/ (type = "QUERY" /\ query # "NONE")
  <2>1. type \in {"QUERY", "RESPONSE"} <=> type = "QUERY"
    BY <1>4
  <2>2. type # "NONE" /\ query # "NONE" <=>
          query # "NONE" /\ (type = "ERROR" \/ type = "QUERY")
    BY <1>3, <1>4
  <2>3. QED
    BY <1>2, <2>1, <2>2
<1>5. ASSUME type = "RESPONSE", NEW x \in Queries, StringAt(data, q, QueryName[x])
      PROVE  at = "understood"
  <2>1. type \in {"QUERY", "RESPONSE"} /\ type # "NONE" /\ x # "NONE"
    BY <1>5 DEF Queries
  <2>2. query = x
    BY <1>2, <1>5, <2>1, Zenon
  <2>3. QED
    BY <1>2, <2>1, <2>2
<1>6. QED
  BY <1>1, <1>2, <1>4, <1>5, Zenon DEF ParsedAsWritten

(* A well-formed message, of any length a uintmax_t holds, is understood by
   krpc_msg_parse (bt_dht.c) as what it says. *)
THEOREM ParsedRight == KrpcSpec => []ParsedAsWritten
BY ParseStarts, ParseSteps, ParseUnderstands, TakenIsParsed, PTL DEF KrpcSpec

-----------------------------------------------------------------------------
(* What the generators write *)

\* bytes that ben_string writes all of, with a length of at most two digits
Plain(text) == text \in Seq(1 .. 255) /\ Len(text) \in 0 .. 99

\* the bytes of part are those of s from p on
Stands(s, p, part) ==
  /\ p \in 1 .. Len(s) /\ Len(part) <= Len(s) + 1 - p
  /\ \A i \in 1 .. Len(part) : s[p + i - 1] = part[i]

\* what is written is as long as its parts
LEMMA BothLong ==
  ASSUME NEW a \in Seq(Nat), NEW b \in Seq(Nat)
  PROVE  a \o b \in Seq(Nat) /\ Len(a \o b) = Len(a) + Len(b)
OBVIOUS

\* nor is it empty when one of them is not
LEMMA LongerStill ==
  ASSUME NEW a \in Seq(Nat), NEW b \in Seq(Nat), a # <<>> \/ b # <<>>
  PROVE  a \o b \in Seq(Nat) /\ a \o b # <<>>
<1>1. Len(a) \in Nat /\ Len(b) \in Nat /\ (Len(a) # 0 \/ Len(b) # 0)
  OBVIOUS
<1>2. Len(a \o b) # 0
  BY <1>1, BothLong
<1>3. QED
  BY <1>2, BothLong

\* each half of what is written stands where it should
LEMMA Halves ==
  ASSUME NEW s \in Seq(Nat), NEW a \in Seq(Nat), NEW b \in Seq(Nat), NEW p,
         Stands(s, p, a \o b), b # <<>>
  PROVE  /\ Stands(s, p, a) /\ Stands(s, p + Len(a), b)
<1>1. PICK n, l, m : /\ n \in Nat /\ l \in Nat /\ m \in Nat \ {0}
                     /\ n = Len(s) /\ l = Len(a) /\ m = Len(b)
  <2>1. Len(s) \in Nat /\ Len(a) \in Nat /\ Len(b) \in Nat /\ Len(b) # 0
    OBVIOUS
  <2>2. Len(b) \in Nat \ {0}
    BY <2>1
  <2>3. QED
    BY <2>1, <2>2, Zenon
<1>2. PICK c : c = a \o b
  OBVIOUS
<1>3. Len(c) = l + m
  BY <1>1, <1>2
<1>4. /\ \A i \in 1 .. l : c[i] = a[i]
      /\ \A i \in 1 .. m : c[l + i] = b[i]
  BY <1>1, <1>2
<1>5. /\ p \in 1 .. n /\ l + m <= n + 1 - p
      /\ \A i \in 1 .. l + m : s[p + i - 1] = c[i]
  BY <1>1, <1>2, <1>3 DEF Stands
<1>6. \A i \in 1 .. l : s[p + i - 1] = a[i]
  <2>1. \A i \in 1 .. l : i \in 1 .. l + m
    BY <1>1
  <2>2. QED
    BY <1>4, <1>5, <2>1
<1>7. \A i \in 1 .. m : s[p + l + i - 1] = b[i]
  <2>1. ASSUME NEW i \in 1 .. m PROVE s[p + l + i - 1] = b[i]
    <3>1. l + i \in 1 .. l + m /\ p + (l + i) - 1 = p + l + i - 1
      BY <1>1, <1>5
    <3>2. s[p + (l + i) - 1] = c[l + i]
      BY <1>5, <3>1
    <3>3. QED
      BY <1>4, <3>1, <3>2
  <2>2. QED
    BY <2>1
<1>8. p + l \in 1 .. n /\ l <= n + 1 - p /\ m <= n + 1 - (p + l)
  BY <1>1, <1>5
<1>9. QED
  BY <1>1, <1>5, <1>6, <1>7, <1>8 DEF Stands

\* what stands somewhere is what is cut out there
LEMMA CutOut ==
  ASSUME NEW s \in Seq(Nat), NEW part \in Seq(Nat), NEW p, Stands(s, p, part)
  PROVE  SubSeq(s, p, p + Len(part) - 1) = part
<1>1. PICK n, l : n \in Nat /\ l \in Nat /\ n = Len(s) /\ l = Len(part)
  <2>1. Len(s) \in Nat /\ Len(part) \in Nat
    OBVIOUS
  <2>2. QED
    BY <2>1, Zenon
<1>2. /\ p \in 1 .. n /\ l <= n + 1 - p
      /\ \A i \in 1 .. l : s[p + i - 1] = part[i]
  BY <1>1 DEF Stands
<1>3. PICK c : c = SubSeq(s, p, p + l - 1)
  OBVIOUS
<1>4. c \in Seq(Nat) /\ Len(c) = l /\ \A i \in 1 .. l : c[i] = s[p + i - 1]
  BY <1>1, <1>2, <1>3, SMTT(30)
<1>5. c = part
  <2>1. Len(c) = Len(part) /\ \A i \in 1 .. Len(part) : c[i] = part[i]
    BY <1>1, <1>2, <1>4
  <2>2. c = [i \in 1 .. Len(c) |-> c[i]] /\ part = [i \in 1 .. Len(part) |-> part[i]]
    BY <1>4
  <2>3. [i \in 1 .. Len(c) |-> c[i]] = [i \in 1 .. Len(part) |-> part[i]]
    BY <2>1
  <2>4. QED
    BY <2>2, <2>3
<1>6. QED
  BY <1>1, <1>3, <1>5

\* these bytes are no zeros
LEMMA PlainIs ==
  ASSUME NEW text, Plain(text)
  PROVE  /\ text \in Seq(Nat) /\ Len(text) \in 0 .. 99
         /\ \A i \in 1 .. Len(text) : text[i] # 0
<1>1. PICK b : b = 1 .. 255
  OBVIOUS
<1>2. text \in Seq(b) /\ b \subseteq Nat /\ 0 \notin b
  BY <1>1 DEF Plain
<1>3. text \in Seq(Nat)
  BY <1>2, SeqMonotonic, Zenon
<1>4. Len(text) \in 0 .. 99
  BY DEF Plain
<1>5. \A i \in 1 .. Len(text) : text[i] # 0
  <2>1. \A i \in 1 .. Len(text) : text[i] \in b
    BY <1>2
  <2>2. QED
    BY <1>2, <2>1
<1>6. QED
  BY <1>3, <1>4, <1>5

\* ben_string stops at a zero byte, and there is none
LEMMA UpToNulIs ==
  ASSUME NEW text, Plain(text)
  PROVE  UpToNul(text) = text
<1>1. PICK n : n \in Nat /\ n = Len(text) /\ text \in Seq(Nat)
  BY PlainIs
<1>2. \A j \in 1 .. n : text[j] # 0
  BY <1>1, PlainIs
<1>3. ASSUME NEW i \in 0 .. n, i = n \/ text[i + 1] = 0 PROVE i = n
  BY <1>1, <1>2, <1>3
<1>4. PICK m : m = CHOOSE i \in 0 .. Len(text) :
                     /\ \A j \in 1 .. i : text[j] # 0
                     /\ i = Len(text) \/ text[i + 1] = 0
  OBVIOUS
<1>5. m \in 0 .. n /\ (m = n \/ text[m + 1] = 0)
  <2>1. \E i \in 0 .. Len(text) : /\ \A j \in 1 .. i : text[j] # 0
                                  /\ i = Len(text) \/ text[i + 1] = 0
    BY <1>1, <1>2
  <2>2. QED
    BY <1>1, <1>4, <2>1
<1>6. m = n
  BY <1>3, <1>5
<1>7. UpToNul(text) = SubSeq(text, 1, n)
  BY <1>4, <1>6 DEF UpToNul
<1>8. QED
  BY <1>1, <1>7

\* the length is written in one digit or in two
LEMMA PrintedIs ==
  ASSUME NEW n \in 0 .. 99
  PROVE  /\ Printed(n) \in Seq(Digits) /\ Printed(n) \in Seq(Nat)
         /\ \/ Len(Printed(n)) = 1 /\ Printed(n)[1] - 48 = n
            \/ /\ Len(Printed(n)) = 2
               /\ 10 * (Printed(n)[1] - 48) + Printed(n)[2] - 48 = n
<1>1. CASE n < 10
  <2>1. Printed(n) = <<48 + n>> /\ 48 + n \in Digits
    BY <1>1 DEF Printed, Digits
  <2>2. QED
    BY <2>1
<1>2. CASE ~(n < 10)
  <2>1. PICK a, b : a = n \div 10 /\ b = n % 10
    OBVIOUS
  <2>2. a \in 1 .. 9 /\ b \in 0 .. 9 /\ 10 * a + b = n
    BY <1>2, <2>1
  <2>3. Printed(n) = <<48 + a, 48 + b>>
    BY <1>2, <2>1 DEF Printed
  <2>4. 48 + a \in Digits /\ 48 + b \in Digits
    BY <2>2 DEF Digits
  <2>5. QED
    BY <2>2, <2>3, <2>4
<1>3. QED
  BY <1>1, <1>2

\* the number that is read from these digits
LEMMA DecimalRead ==
  ASSUME NEW s \in Seq(Nat), NEW n \in 0 .. 99, NEW p, NEW w, w = Printed(n), Stands(s, p, w)
  PROVE  \E l : l = p + Len(w) - 1 /\ AllDigits(s, p, l) /\ Decimal(s, p, l) = n
<1>1. PICK m : m \in Nat /\ m = Len(s)
  OBVIOUS
<1>2. /\ w \in Seq(Digits) /\ w \in Seq(Nat)
      /\ \/ Len(w) = 1 /\ w[1] - 48 = n
         \/ Len(w) = 2 /\ 10 * (w[1] - 48) + w[2] - 48 = n
  BY <1>1, PrintedIs
<1>3. \A i \in 1 .. Len(w) : w[i] \in Digits /\ w[i] \in Nat
  <2>1. w \in Seq(Digits) /\ w \in Seq(Nat)
    BY <1>2
  <2>2. QED
    BY <2>1
<1>4. p \in 1 .. m /\ Len(w) <= m + 1 - p /\ \A i \in 1 .. Len(w) : s[p + i - 1] = w[i]
  BY <1>1 DEF Stands
<1>5. CASE Len(w) = 1
  <2>1. s[p] = w[1] /\ w[1] \in Digits
    <3>1. s[p + 1 - 1] = w[1]
      BY <1>4, <1>5
    <3>2. p + 1 - 1 = p
      BY <1>1, <1>4
    <3>3. QED
      BY <1>5, <1>3, <3>1, <3>2
  <2>2. AllDigits(s, p, p)
    BY <1>1, <1>4, <2>1 DEF AllDigits
  <2>3. PICK d : Written(d, s, p, p) /\ Decimal(s, p, p) = d[p]
    BY <1>1, <1>4, DecimalWritten
  <2>4. d[p] = 10 * d[p - 1] + s[p] - 48 /\ d[p - 1] = 0
    BY <1>1, <1>4, <2>3 DEF Written
  <2>5. w[1] \in Nat
    BY <1>5, <1>3
  <2>6. Decimal(s, p, p) = n
    BY <1>2, <1>5, <2>1, <2>3, <2>4, <2>5
  <2>7. p = p + Len(w) - 1
    BY <1>1, <1>4, <1>5
  <2>8. QED
    BY <2>2, <2>6, <2>7, Zenon
<1>6. CASE Len(w) = 2
  <2>1. s[p] = w[1] /\ w[1] \in Digits /\ s[p + 1] = w[2] /\ w[2] \in Digits
    <3>1. s[p + 1 - 1] = w[1] /\ s[p + 2 - 1] = w[2]
      BY <1>4, <1>6
    <3>2. p + 1 - 1 = p /\ p + 2 - 1 = p + 1
      BY <1>1, <1>4
    <3>3. QED
      BY <1>6, <1>3, <3>1, <3>2
  <2>2. p + 1 \in 1 .. m
    BY <1>1, <1>4, <1>6
  <2>3. AllDigits(s, p, p + 1)
    <3>1. \A r \in p .. p + 1 : r = p \/ r = p + 1
      BY <1>1, <1>4
    <3>2. p <= p + 1
      BY <1>1, <1>4
    <3>3. \A r \in p .. p + 1 : s[r] \in Digits
      BY <2>1, <3>1, Zenon
    <3>4. QED
      BY <3>2, <3>3, Zenon DEF AllDigits
  <2>4. PICK d : Written(d, s, p, p + 1) /\ Decimal(s, p, p + 1) = d[p + 1]
    BY <1>1, <1>4, <2>2, DecimalWritten
  <2>5. d[p] = 10 * d[p - 1] + s[p] - 48 /\ d[p - 1] = 0
    BY <1>1, <1>4, <2>4 DEF Written
  <2>6. d[p + 1] = 10 * d[p] + s[p + 1] - 48
    <3>1. \A i \in p .. p + 1 : d[i] = 10 * d[i - 1] + s[i] - 48
      BY <2>4, Zenon DEF Written
    <3>2. PICK q : q = p + 1
      OBVIOUS
    <3>3. q \in p .. p + 1 /\ q - 1 = p
      BY <1>1, <1>4, <3>2
    <3>4. d[q] = 10 * d[q - 1] + s[q] - 48
      BY <3>1, <3>3
    <3>5. QED
      BY <3>2, <3>3, <3>4
  <2>7. w[1] \in Nat /\ w[2] \in Nat
    BY <1>6, <1>3
  <2>8. Decimal(s, p, p + 1) = n
    BY <1>2, <1>6, <2>1, <2>4, <2>5, <2>6, <2>7
  <2>9. p + 1 = p + Len(w) - 1
    BY <1>1, <1>4, <1>6
  <2>10. QED
    BY <2>3, <2>8, <2>9, Zenon
<1>7. QED
  BY <1>2, <1>5, <1>6

\* a string where ben_string wrote it: the grammar has it there
LEMMA StringStands ==
  ASSUME NEW s \in Seq(Nat), NEW text, Plain(text), NEW p, Stands(s, p, BenString(text))
  PROVE  /\ p \in 1 .. Len(s) /\ s[p] \in Digits
         /\ StringEnd(s, p) = p + Len(BenString(text)) /\ StringEnd(s, p) \in p + 2 .. Len(s) + 1
         /\ ValueEnd(s, p) = StringEnd(s, p)
         /\ StringAt(s, p, text)
<1>1. PICK n, m : n \in Nat /\ m \in 0 .. 99 /\ n = Len(s) /\ m = Len(text)
  <2>1. Len(s) \in Nat /\ Len(text) \in 0 .. 99
    BY PlainIs
  <2>2. QED
    BY <2>1, Zenon
<1>2. text \in Seq(Nat)
  BY PlainIs
<1>3. PICK w : w = Printed(m)
  OBVIOUS
<1>4. w \in Seq(Nat) /\ Len(w) \in {1, 2}
  BY <1>1, <1>3, PrintedIs
<1>5. BenString(text) = w \o (<<COLON>> \o text)
  <2>1. BenString(text) = w \o <<COLON>> \o text
    BY <1>1, <1>3, UpToNulIs DEF BenString
  <2>2. QED
    BY <1>2, <1>4, <2>1 DEF COLON
<1>6. PICK tail : tail = <<COLON>> \o text
  OBVIOUS
<1>7. tail \in Seq(Nat) /\ tail # <<>> /\ Len(tail) = m + 1 /\ tail[1] = COLON
  BY <1>1, <1>2, <1>6 DEF COLON
<1>8. PICK c : c = p + Len(w)
  OBVIOUS
<1>9. Stands(s, p, w) /\ Stands(s, c, tail)
  <2>1. Stands(s, p, w \o tail)
    BY <1>5, <1>6, Zenon
  <2>2. Stands(s, p, w) /\ Stands(s, p + Len(w), tail)
    BY <1>4, <1>7, <2>1, Halves
  <2>3. QED
    BY <1>8, <2>2, Zenon
<1>10. p \in 1 .. n /\ c \in 1 .. n /\ c \in {p + 1, p + 2} /\ m + 1 <= n + 1 - c
  BY <1>1, <1>4, <1>7, <1>8, <1>9 DEF Stands
<1>11. s[c] = COLON
  <2>1. \A i \in 1 .. Len(tail) : s[c + i - 1] = tail[i]
    BY <1>9, Zenon DEF Stands
  <2>2. 1 \in 1 .. Len(tail)
    BY <1>1, <1>7
  <2>3. s[c + 1 - 1] = tail[1]
    BY <2>1, <2>2, Zenon
  <2>4. c + 1 - 1 = c
    BY <1>10
  <2>5. QED
    BY <1>7, <2>3, <2>4, Zenon
<1>12. AllDigits(s, p, c - 1) /\ Decimal(s, p, c - 1) = m
  <2>1. c - 1 = p + Len(w) - 1
    BY <1>4, <1>8, <1>10
  <2>2. m \in 0 .. 99 /\ Stands(s, p, w)
    BY <1>1, <1>9
  <2>3. PICK l : l = p + Len(w) - 1 /\ AllDigits(s, p, l) /\ Decimal(s, p, l) = m
    BY <1>3, <2>2, DecimalRead
  <2>4. QED
    BY <2>1, <2>3, Zenon
<1>13. StringTo(s, p, c)
  BY <1>1, <1>10, <1>11, <1>12 DEF StringTo
<1>14. StringEnd(s, p) = c + 1 + m
  <2>1. c + 1 + Decimal(s, p, c - 1) <= Len(s) + 1
    BY <1>1, <1>10, <1>12
  <2>2. QED
    BY <1>1, <1>10, <1>12, <1>13, <2>1, StringEndIs
<1>15. Len(BenString(text)) = Len(w) + m + 1
  <2>1. BenString(text) = w \o tail
    BY <1>5, <1>6
  <2>2. Len(w \o tail) = Len(w) + Len(tail)
    <3>1. w \in Seq(Nat) /\ tail \in Seq(Nat)
      BY <1>4, <1>7
    <3>2. QED
      BY <3>1
  <2>3. Len(w) \in Nat
    BY <1>4
  <2>4. QED
    BY <1>1, <1>7, <2>1, <2>2, <2>3
<1>16. StringEnd(s, p) = p + Len(BenString(text)) /\ StringEnd(s, p) \in p + 2 .. n + 1
  BY <1>1, <1>4, <1>8, <1>10, <1>14, <1>15
<1>17. s[p] \in Digits
  BY <1>1, <1>10, <1>12 DEF AllDigits
<1>18. ValueEnd(s, p) = StringEnd(s, p)
  BY <1>1, <1>10, <1>17, ValueEndIs
<1>19. SubSeq(s, c + 1, StringEnd(s, p) - 1) = text
  <2>1. CASE m = 0
    <3>1. StringEnd(s, p) - 1 = c /\ text = <<>>
      <4>1. StringEnd(s, p) - 1 = c
        BY <1>1, <1>10, <1>14, <2>1
      <4>2. text = <<>>
        BY <1>1, <1>2, <2>1, EmptySeq
      <4>3. QED
        BY <4>1, <4>2
    <3>2. SubSeq(s, c + 1, c) = <<>>
      BY <1>1, <1>10
    <3>3. QED
      BY <3>1, <3>2
  <2>2. CASE m # 0
    <3>1. text # <<>> /\ <<COLON>> \in Seq(Nat) /\ Len(<<COLON>>) = 1
      BY <1>1, <2>2 DEF COLON
    <3>2. Stands(s, c + 1, text)
      BY <1>2, <1>6, <1>9, <3>1, Halves
    <3>3. SubSeq(s, c + 1, c + 1 + m - 1) = text
      BY <1>1, <1>2, <3>2, CutOut
    <3>4. c + 1 + m - 1 = StringEnd(s, p) - 1
      BY <1>1, <1>10, <1>14
    <3>5. QED
      BY <3>3, <3>4
  <2>3. QED
    BY <2>1, <2>2
<1>20. StringAt(s, p, text)
  <2>1. p # 0 /\ StringEnd(s, p) # 0 /\ c \in p + 1 .. Len(s)
    BY <1>1, <1>10, <1>14
  <2>2. QED
    BY <1>11, <1>12, <1>19, <2>1, Zenon DEF StringAt
<1>21. QED
  BY <1>1, <1>10, <1>16, <1>17, <1>18, <1>20

\* there is one string at a place
LEMMA OneString ==
  ASSUME NEW s \in Seq(Nat), NEW p \in 1 .. Len(s), NEW a, StringAt(s, p, a),
         NEW b, StringAt(s, p, b)
  PROVE  a = b
<1>1. PICK c \in p + 1 .. Len(s) : /\ s[c] = COLON /\ AllDigits(s, p, c - 1)
                                   /\ SubSeq(s, c + 1, StringEnd(s, p) - 1) = a
  BY DEF StringAt
<1>2. PICK d \in p + 1 .. Len(s) : /\ s[d] = COLON /\ AllDigits(s, p, d - 1)
                                   /\ SubSeq(s, d + 1, StringEnd(s, p) - 1) = b
  BY DEF StringAt
<1>3. c = d
  <2>1. c \in Nat /\ d \in Nat /\ p \in Nat
    OBVIOUS
  <2>2. s[c] \notin Digits /\ s[d] \notin Digits
    BY <1>1, <1>2, Signs
  <2>3. QED
    BY <1>1, <1>2, <2>1, <2>2, OneEnd, Zenon
<1>4. QED
  BY <1>1, <1>2, <1>3

\* a pair that stands somewhere is one of the dictionary there
LEMMA PairStands ==
  ASSUME NEW s \in Seq(Nat), NEW p \in 1 .. Len(s), NEW text, Plain(text),
         Stands(s, p, BenString(text)),
         NEW r \in 1 .. Len(s), ValueEnd(s, p + Len(BenString(text))) = r
  PROVE  PairEnd(s, p) = r /\ Close(s, "DICT", p) = Close(s, "DICT", r)
<1>1. PICK e : e = StringEnd(s, p)
  OBVIOUS
<1>2. e = p + Len(BenString(text)) /\ e # 0 /\ s[p] \in Digits
  BY <1>1, StringStands
<1>3. ValueEnd(s, e) = r /\ r # 0
  BY <1>2
<1>4. PairEnd(s, p) = r
  BY <1>1, <1>2, <1>3 DEF PairEnd
<1>5. s[p] # E
  BY <1>2, Signs
<1>6. Close(s, "DICT", p) = Close(s, "DICT", r)
  BY <1>1, <1>2, <1>3, <1>5, CloseIs
<1>7. QED
  BY <1>4, <1>6

\* A dictionary that is written with ben.h stands where its pairs do.
LEMMA DictStands ==
  ASSUME NEW s \in Seq(Nat), NEW pairs \in Seq(Nat), pairs # <<>>, NEW p,
         Stands(s, p, BenDict(pairs))
  PROVE  /\ p \in 1 .. Len(s) /\ s[p] = D
         /\ Stands(s, p + 1, pairs)
         /\ p + 1 + Len(pairs) \in 1 .. Len(s) /\ s[p + 1 + Len(pairs)] = E
         /\ Len(BenDict(pairs)) = Len(pairs) + 2
<1>1. PICK n, l : n \in Nat /\ l \in Nat /\ n = Len(s) /\ l = Len(pairs)
  <2>1. Len(s) \in Nat /\ Len(pairs) \in Nat
    OBVIOUS
  <2>2. QED
    BY <2>1, Zenon
<1>2. PICK x, y : x = <<D>> /\ y = <<E>>
  OBVIOUS
<1>3. /\ x \in Seq(Nat) /\ Len(x) = 1 /\ x[1] = D
      /\ y \in Seq(Nat) /\ Len(y) = 1 /\ y[1] = E /\ y # <<>>
  BY <1>2 DEF D, E
<1>4. PICK a : a = x \o pairs
  OBVIOUS
<1>5. a \in Seq(Nat) /\ Len(a) = 1 + l
  <2>1. a \in Seq(Nat) /\ Len(a) = Len(x) + Len(pairs)
    BY <1>3, <1>4, BothLong
  <2>2. QED
    BY <1>1, <1>3, <2>1
<1>6. BenDict(pairs) = a \o y
  BY <1>2, <1>4 DEF BenDict
<1>7. Stands(s, p, a) /\ Stands(s, p + (1 + l), y)
  BY <1>3, <1>5, <1>6, Halves
<1>8. Stands(s, p, x) /\ Stands(s, p + 1, pairs)
  BY <1>3, <1>4, <1>7, Halves
<1>9. p \in 1 .. n /\ s[p] = D
  <2>1. p \in 1 .. n /\ s[p + 1 - 1] = x[1]
    BY <1>1, <1>3, <1>8 DEF Stands
  <2>2. p + 1 - 1 = p
    BY <1>1, <2>1
  <2>3. QED
    BY <1>3, <2>1, <2>2
<1>10. p + 1 + l \in 1 .. n /\ s[p + 1 + l] = E
  <2>1. PICK r : r = p + (1 + l)
    OBVIOUS
  <2>2. r \in 1 .. n /\ s[r + 1 - 1] = y[1]
    BY <1>1, <1>3, <1>7, <2>1 DEF Stands
  <2>3. r + 1 - 1 = r /\ r = p + 1 + l
    BY <1>1, <1>9, <2>1, <2>2
  <2>4. QED
    BY <1>3, <2>2, <2>3
<1>11. Len(BenDict(pairs)) = l + 2
  <2>1. Len(a \o y) = Len(a) + Len(y)
    BY <1>3, <1>5, BothLong
  <2>2. QED
    BY <1>1, <1>3, <1>5, <1>6, <2>1
<1>12. QED
  BY <1>1, <1>8, <1>9, <1>10, <1>11

\* what ben_string writes is bytes
LEMMA BenStringIs ==
  ASSUME NEW text, Plain(text)
  PROVE  BenString(text) \in Seq(Nat) /\ BenString(text) # <<>>
<1>1. text \in Seq(Nat) /\ Len(text) \in 0 .. 99 /\ UpToNul(text) = text
  BY PlainIs, UpToNulIs
<1>2. PICK w : w = Printed(Len(text))
  OBVIOUS
<1>3. w \in Seq(Nat) /\ Len(w) \in {1, 2}
  BY <1>1, <1>2, PrintedIs
<1>4. BenString(text) = w \o <<COLON>> \o text
  BY <1>1, <1>2 DEF BenString
<1>5. <<COLON>> \in Seq(Nat) /\ Len(<<COLON>>) = 1
  BY DEF COLON
<1>6. PICK x : x = w \o <<COLON>>
  OBVIOUS
<1>7. x \in Seq(Nat) /\ Len(x) = Len(w) + 1
  BY <1>3, <1>5, <1>6
<1>8. x \o text \in Seq(Nat) /\ Len(x \o text) = Len(x) + Len(text)
  BY <1>1, <1>7, BothLong, Zenon
<1>9. x \o text # <<>>
  <2>1. Len(x \o text) # 0
    BY <1>1, <1>3, <1>7, <1>8
  <2>2. QED
    BY <2>1
<1>10. QED
  BY <1>4, <1>6, <1>8, <1>9

\* the keys of a ping
LEMMA KeyWritten ==
  ASSUME NEW c \in 1 .. 255
  PROVE  /\ Plain(<<c>>) /\ BenKey(c) = BenString(<<c>>)
         /\ BenKey(c) \in Seq(Nat) /\ BenKey(c) # <<>> /\ Len(BenKey(c)) = 3
<1>1. Plain(<<c>>)
  BY DEF Plain
<1>2. UpToNul(<<c>>) = <<c>>
  BY <1>1, UpToNulIs
<1>3. BenKey(c) = <<49>> \o <<COLON>> \o <<c>>
  <2>1. Len(<<c>>) = 1 /\ Printed(1) = <<49>>
    BY DEF Printed
  <2>2. QED
    BY <1>2, <2>1 DEF BenKey, BenString
<1>4. Len(<<49>> \o <<COLON>> \o <<c>>) = 3
  OBVIOUS
<1>5. QED
  BY <1>1, <1>3, <1>4, BenStringIs DEF BenKey
\* two strings stand one behind the other, from p to r
TwoStrings(s, p, first, e, second, r) ==
  /\ Plain(first) /\ Stands(s, p, BenString(first)) /\ e = p + Len(BenString(first))
  /\ Plain(second) /\ Stands(s, e, BenString(second)) /\ r = e + Len(BenString(second))
  /\ r \in 1 .. Len(s)

\* they are a pair
LEMMA StringsStand ==
  ASSUME NEW s \in Seq(Nat), NEW first, NEW second, NEW p, NEW e, NEW r,
         TwoStrings(s, p, first, e, second, r)
  PROVE  /\ p \in 1 .. Len(s) /\ PairEnd(s, p) = r
         /\ Close(s, "DICT", p) = Close(s, "DICT", r)
         /\ StringEnd(s, p) = e /\ StringAt(s, p, first) /\ StringAt(s, e, second)
<1>1. p \in 1 .. Len(s) /\ StringEnd(s, p) = e /\ StringAt(s, p, first)
  BY StringStands DEF TwoStrings
<1>2. ValueEnd(s, e) = r /\ StringAt(s, e, second)
  BY StringStands DEF TwoStrings
<1>3. PairEnd(s, p) = r /\ Close(s, "DICT", p) = Close(s, "DICT", r)
  BY <1>1, <1>2, PairStands DEF TwoStrings
<1>4. QED
  BY <1>1, <1>2, <1>3

\* a ping was received
Sent(id, trans) == data = GenPing(id, trans)

\* what krpc_msg_parse meets in a ping: four pairs, between them the places r1 to r4
Ping(id, trans, r1, r2, r3, r4) ==
  /\ r1 \in 1 .. Len(data) /\ r2 \in 1 .. Len(data) /\ r3 \in 1 .. Len(data)
  /\ r4 = Len(data) /\ data[1] = D /\ data[r4] = E /\ Close(data, "DICT", 2) = r4
  /\ 2 \in 1 .. Len(data) /\ StringAt(data, 2, <<A>>) /\ PairEnd(data, 2) = r1
  /\ StringEnd(data, 2) = 5 /\ data[5] = D
  /\ Stands(data, 6, BenString(<<I, D>>) \o BenString(id))
  /\ StringAt(data, r1, <<Q>>) /\ PairEnd(data, r1) = r2
  /\ StringAt(data, StringEnd(data, r1), QueryName["ping"])
  /\ StringAt(data, r2, <<T>>) /\ PairEnd(data, r2) = r3
  /\ StringAt(data, StringEnd(data, r2), trans)
  /\ StringAt(data, r3, <<Y>>) /\ PairEnd(data, r3) = r4
  /\ StringAt(data, StringEnd(data, r3), <<Q>>)

\* Where what krpc_gen_ping wrote stands in a ping: the pairs of the dictionary,
\* the keys and the strings behind them, and the id in the dictionary inside.
LEMMA PingStands ==
  ASSUME data \in Seq(Nat), NEW id, Plain(id), NEW trans, Plain(trans),
         Plain(QueryName["ping"]), Sent(id, trans)
  PROVE  \E r1, r2, r3, r4 : Ping(id, trans, r1, r2, r3, r4)
<1>1. PICK inner, x1, x2, x3, x4, x5, x6, x7 :
           /\ inner = BenString(<<I, D>>) \o BenString(id)
           /\ x1 = BenKey(A) \o BenDict(inner)
           /\ x2 = x1 \o BenKey(Q) /\ x3 = x2 \o BenString(QueryName["ping"])
           /\ x4 = x3 \o BenKey(T) /\ x5 = x4 \o BenString(trans)
           /\ x6 = x5 \o BenKey(Y) /\ x7 = x6 \o BenKey(Q)
  BY ZenonT(30)
<1>2. /\ BenString(<<I, D>>) \in Seq(Nat) /\ BenString(<<I, D>>) # <<>>
      /\ BenString(id) \in Seq(Nat) /\ BenString(QueryName["ping"]) \in Seq(Nat)
      /\ BenString(trans) \in Seq(Nat)
  <2>1. Plain(<<I, D>>)
    BY DEF Plain, I, D
  <2>2. QED
    BY <2>1, BenStringIs, SMTT(30)
<1>3. /\ BenKey(A) \in Seq(Nat) /\ BenKey(Q) \in Seq(Nat) /\ BenKey(T) \in Seq(Nat)
      /\ BenKey(Y) \in Seq(Nat) /\ BenKey(Q) # <<>>
  <2>1. A \in 1 .. 255 /\ Q \in 1 .. 255 /\ T \in 1 .. 255 /\ Y \in 1 .. 255
    BY DEF A, Q, T, Y
  <2>2. QED
    BY <2>1, KeyWritten
<1>4. inner \in Seq(Nat) /\ inner # <<>>
  BY <1>1, <1>2, LongerStill
<1>5. BenDict(inner) \in Seq(Nat)
  BY <1>4 DEF BenDict, D, E
<1>6. x1 \in Seq(Nat)
  BY <1>1, <1>3, <1>5, BothLong
<1>7. x2 \in Seq(Nat)
  BY <1>1, <1>3, <1>6, BothLong
<1>8. x3 \in Seq(Nat)
  BY <1>1, <1>2, <1>7, BothLong
<1>9. x4 \in Seq(Nat)
  BY <1>1, <1>3, <1>8, BothLong
<1>10. x5 \in Seq(Nat)
  BY <1>1, <1>2, <1>9, BothLong
<1>11. x6 \in Seq(Nat)
  BY <1>1, <1>3, <1>10, BothLong
<1>12. x7 \in Seq(Nat) /\ x7 # <<>>
  BY <1>1, <1>3, <1>11, LongerStill
<1>13. GenPing(id, trans) = BenDict(x7)
  BY <1>1, Zenon DEF GenPing
<1>14. /\ 1 \in 1 .. Len(data) /\ data[1] = D /\ Stands(data, 2, x7)
       /\ 2 + Len(x7) \in 1 .. Len(data) /\ data[2 + Len(x7)] = E
       /\ Len(data) = 2 + Len(x7)
  <2>1. data = BenDict(x7) /\ Len(data) \in Nat /\ Len(data) # 0
    <3>1. data = BenDict(x7)
      BY <1>13 DEF Sent
    <3>2. <<D>> \o x7 \in Seq(Nat) /\ <<D>> \o x7 # <<>>
      BY <1>12, LongerStill DEF D
    <3>3. data # <<>>
      BY <3>1, <3>2, LongerStill DEF BenDict, E
    <3>4. QED
      BY <3>1, <3>3
  <2>2. Stands(data, 1, data)
    <3>1. \A i \in 1 .. Len(data) : 1 + i - 1 = i
      BY <2>1
    <3>2. QED
      BY <2>1, <3>1 DEF Stands
  <2>3. /\ data[1] = D /\ Stands(data, 1 + 1, x7)
        /\ 1 + 1 + Len(x7) \in 1 .. Len(data) /\ data[1 + 1 + Len(x7)] = E
        /\ Len(data) = Len(x7) + 2
    BY <1>12, <2>1, <2>2, DictStands
  <2>4. 1 + 1 = 2 /\ Len(x7) + 2 = 2 + Len(x7)
    BY <1>12
  <2>5. QED
    BY <2>1, <2>3, <2>4
<1>15. PICK n, r1, v1, r2, v2, r3, v3, r4 :
         /\ n = Len(data) /\ r1 = 2 + Len(x1) /\ v1 = 2 + Len(x2) /\ r2 = 2 + Len(x3)
         /\ v2 = 2 + Len(x4) /\ r3 = 2 + Len(x5) /\ v3 = 2 + Len(x6) /\ r4 = 2 + Len(x7)
  BY Zenon
<1>16. PICK kq, kt, ky, pb, tb :
         /\ kq = BenKey(Q) /\ kt = BenKey(T) /\ ky = BenKey(Y)
         /\ pb = BenString(QueryName["ping"]) /\ tb = BenString(trans)
  BY Zenon
<1>17. /\ pb # <<>> /\ tb # <<>> /\ Len(kq) = 3 /\ Len(kt) = 3 /\ Len(ky) = 3
       /\ kq # <<>> /\ kt # <<>> /\ ky # <<>>
       /\ pb \in Seq(Nat) /\ tb \in Seq(Nat)
       /\ kq \in Seq(Nat) /\ kt \in Seq(Nat) /\ ky \in Seq(Nat)
  <2>1. Q \in 1 .. 255 /\ T \in 1 .. 255 /\ Y \in 1 .. 255
    BY DEF Q, T, Y
  <2>2. /\ Len(kq) = 3 /\ Len(kt) = 3 /\ Len(ky) = 3
        /\ kq # <<>> /\ kt # <<>> /\ ky # <<>>
        /\ kq \in Seq(Nat) /\ kt \in Seq(Nat) /\ ky \in Seq(Nat)
    BY <1>16, <2>1, KeyWritten
  <2>3. pb # <<>> /\ tb # <<>> /\ pb \in Seq(Nat) /\ tb \in Seq(Nat)
    BY <1>16, BenStringIs
  <2>4. QED
    BY <2>2, <2>3
<1>18. Stands(data, 2, x6) /\ Stands(data, v3, kq)
  BY <1>1, <1>11, <1>14, <1>15, <1>16, <1>17, Halves
<1>19. Stands(data, 2, x5) /\ Stands(data, r3, ky)
  BY <1>1, <1>10, <1>15, <1>16, <1>17, <1>18, Halves
<1>20. Stands(data, 2, x4) /\ Stands(data, v2, tb)
  BY <1>1, <1>9, <1>15, <1>16, <1>17, <1>19, Halves
<1>21. Stands(data, 2, x3) /\ Stands(data, r2, kt)
  BY <1>1, <1>8, <1>15, <1>16, <1>17, <1>20, Halves
<1>22. Stands(data, 2, x2) /\ Stands(data, v1, pb)
  BY <1>1, <1>7, <1>15, <1>16, <1>17, <1>21, Halves
<1>23. Stands(data, 2, x1) /\ Stands(data, r1, kq)
  BY <1>1, <1>6, <1>15, <1>16, <1>17, <1>22, Halves
<1>24. /\ n \in Nat /\ r1 \in 1 .. n /\ r2 \in 1 .. n /\ r3 \in 1 .. n /\ r4 \in 1 .. n
       /\ r4 = n /\ data[r4] = E
  <2>1. n \in Nat
    BY <1>15
  <2>2. r1 \in 1 .. n /\ r2 \in 1 .. n /\ r3 \in 1 .. n
    BY <1>15, <1>19, <1>21, <1>23, Zenon DEF Stands
  <2>3. QED
    BY <1>14, <1>15, <2>1, <2>2
<1>25. /\ v1 = r1 + Len(kq) /\ r2 = v1 + Len(pb) /\ v2 = r2 + Len(kt)
       /\ r3 = v2 + Len(tb) /\ v3 = r3 + Len(ky) /\ r4 = v3 + Len(kq)
  <2>1. /\ Len(x2) = Len(x1) + Len(kq) /\ Len(x3) = Len(x2) + Len(pb)
        /\ Len(x4) = Len(x3) + Len(kt) /\ Len(x5) = Len(x4) + Len(tb)
        /\ Len(x6) = Len(x5) + Len(ky) /\ Len(x7) = Len(x6) + Len(kq)
    <3>1. /\ x2 = x1 \o kq /\ x3 = x2 \o pb /\ x4 = x3 \o kt /\ x5 = x4 \o tb
          /\ x6 = x5 \o ky /\ x7 = x6 \o kq
      BY <1>1, <1>16
    <3>2. Len(x2) = Len(x1) + Len(kq)
      BY <1>6, <1>17, <3>1, BothLong
    <3>3. Len(x3) = Len(x2) + Len(pb)
      BY <1>7, <1>17, <3>1, BothLong
    <3>4. Len(x4) = Len(x3) + Len(kt)
      BY <1>8, <1>17, <3>1, BothLong
    <3>5. Len(x5) = Len(x4) + Len(tb)
      BY <1>9, <1>17, <3>1, BothLong
    <3>6. Len(x6) = Len(x5) + Len(ky)
      BY <1>10, <1>17, <3>1, BothLong
    <3>7. Len(x7) = Len(x6) + Len(kq)
      BY <1>11, <1>17, <3>1, BothLong
    <3>8. QED
      BY <3>2, <3>3, <3>4, <3>5, <3>6, <3>7
  <2>2. /\ Len(x1) \in Nat /\ Len(kq) \in Nat /\ Len(pb) \in Nat /\ Len(kt) \in Nat
        /\ Len(tb) \in Nat /\ Len(ky) \in Nat
    BY <1>6, <1>17, SMTT(30)
  <2>3. QED
    BY <1>15, <2>1, <2>2
<1>26. /\ Plain(<<A>>) /\ Plain(<<Q>>) /\ Plain(<<T>>) /\ Plain(<<Y>>)
       /\ kq = BenString(<<Q>>) /\ kt = BenString(<<T>>) /\ ky = BenString(<<Y>>)
       /\ BenKey(A) = BenString(<<A>>) /\ BenKey(A) \in Seq(Nat) /\ Len(BenKey(A)) = 3
  BY <1>16, KeyWritten DEF A, Q, T, Y
<1>27. /\ PairEnd(data, r1) = r2 /\ Close(data, "DICT", r1) = Close(data, "DICT", r2)
       /\ StringAt(data, r1, <<Q>>) /\ StringAt(data, StringEnd(data, r1), QueryName["ping"])
  <2>1. TwoStrings(data, r1, <<Q>>, v1, QueryName["ping"], r2)
    BY <1>15, <1>16, <1>22, <1>23, <1>24, <1>25, <1>26 DEF TwoStrings
  <2>2. /\ PairEnd(data, r1) = r2 /\ Close(data, "DICT", r1) = Close(data, "DICT", r2)
        /\ StringEnd(data, r1) = v1 /\ StringAt(data, r1, <<Q>>)
        /\ StringAt(data, v1, QueryName["ping"])
    BY <2>1, StringsStand
  <2>3. QED
    BY <2>2, Zenon
<1>28. /\ PairEnd(data, r2) = r3 /\ Close(data, "DICT", r2) = Close(data, "DICT", r3)
       /\ StringAt(data, r2, <<T>>) /\ StringAt(data, StringEnd(data, r2), trans)
  <2>1. TwoStrings(data, r2, <<T>>, v2, trans, r3)
    BY <1>15, <1>16, <1>20, <1>21, <1>24, <1>25, <1>26 DEF TwoStrings
  <2>2. /\ PairEnd(data, r2) = r3 /\ Close(data, "DICT", r2) = Close(data, "DICT", r3)
        /\ StringEnd(data, r2) = v2 /\ StringAt(data, r2, <<T>>)
        /\ StringAt(data, v2, trans)
    BY <2>1, StringsStand
  <2>3. QED
    BY <2>2, Zenon
<1>29. /\ PairEnd(data, r3) = r4 /\ Close(data, "DICT", r3) = Close(data, "DICT", r4)
       /\ StringAt(data, r3, <<Y>>) /\ StringAt(data, StringEnd(data, r3), <<Q>>)
  <2>1. TwoStrings(data, r3, <<Y>>, v3, <<Q>>, r4)
    BY <1>15, <1>16, <1>18, <1>19, <1>24, <1>25, <1>26 DEF TwoStrings
  <2>2. /\ PairEnd(data, r3) = r4 /\ Close(data, "DICT", r3) = Close(data, "DICT", r4)
        /\ StringEnd(data, r3) = v3 /\ StringAt(data, r3, <<Y>>)
        /\ StringAt(data, v3, <<Q>>)
    BY <2>1, StringsStand
  <2>3. QED
    BY <2>2, Zenon
<1>30. Stands(data, 2, BenKey(A)) /\ Stands(data, 5, BenDict(inner))
  <2>1. BenDict(inner) # <<>>
    <3>1. <<D>> \o inner \in Seq(Nat) /\ <<D>> \o inner # <<>>
      BY <1>4, LongerStill DEF D
    <3>2. QED
      BY <3>1, LongerStill DEF BenDict, E
  <2>2. Stands(data, 2, BenKey(A)) /\ Stands(data, 2 + Len(BenKey(A)), BenDict(inner))
    BY <1>1, <1>5, <1>23, <1>26, <2>1, Halves
  <2>3. Len(BenKey(A)) = 3 /\ 2 + 3 = 5
    BY <1>26
  <2>4. QED
    BY <2>2, <2>3
<1>31. PICK l, q : l = Len(inner) /\ q = 6 + l
  OBVIOUS
<1>32. /\ 5 \in 1 .. n /\ data[5] = D /\ Stands(data, 6, inner)
       /\ q \in 1 .. n /\ data[q] = E /\ Len(BenDict(inner)) = l + 2 /\ l \in Nat
  <2>1. /\ 5 \in 1 .. n /\ data[5] = D /\ Stands(data, 5 + 1, inner)
        /\ 5 + 1 + Len(inner) \in 1 .. Len(data) /\ data[5 + 1 + Len(inner)] = E
        /\ Len(BenDict(inner)) = Len(inner) + 2
    <3>1. inner \in Seq(Nat) /\ inner # <<>> /\ data \in Seq(Nat)
      BY <1>4, <1>1
    <3>2. Stands(data, 5, BenDict(inner))
      BY <1>30, Zenon
    <3>3. /\ 5 \in 1 .. Len(data) /\ data[5] = D /\ Stands(data, 5 + 1, inner)
          /\ 5 + 1 + Len(inner) \in 1 .. Len(data) /\ data[5 + 1 + Len(inner)] = E
          /\ Len(BenDict(inner)) = Len(inner) + 2
      BY <3>1, <3>2, DictStands, SMTT(30)
    <3>4. QED
      BY <1>15, <3>3, Zenon
  <2>2. 5 + 1 = 6 /\ 5 + 1 + Len(inner) = q /\ l \in Nat
    BY <1>4, <1>31
  <2>3. QED
    BY <1>15, <1>31, <2>1, <2>2
<1>33. Close(data, "DICT", 6) = q
  <2>1. PICK w, b : w = BenString(<<I, D>>) /\ b = BenString(id)
    OBVIOUS
  <2>2. Plain(<<I, D>>) /\ w \in Seq(Nat) /\ b \in Seq(Nat) /\ w # <<>> /\ b # <<>>
    <3>1. Plain(<<I, D>>)
      BY DEF Plain, I, D
    <3>2. QED
      BY <2>1, <3>1, BenStringIs
  <2>3. PICK e : e = 6 + Len(w)
    OBVIOUS
  <2>4. Stands(data, 6, w) /\ Stands(data, e, b)
    BY <1>1, <1>32, <2>1, <2>2, <2>3, Halves
  <2>5. q = e + Len(b)
    <3>1. l = Len(w) + Len(b) /\ Len(w) \in Nat /\ Len(b) \in Nat
      <4>1. l = Len(w \o b)
        BY <1>1, <1>31, <2>1, Zenon
      <4>2. Len(w \o b) = Len(w) + Len(b)
        BY <2>2, BothLong, Zenon
      <4>3. QED
        BY <2>2, <4>1, <4>2
    <3>2. QED
      BY <1>31, <2>3, <3>1
  <2>6. Close(data, "DICT", 6) = Close(data, "DICT", q)
    <3>1. TwoStrings(data, 6, <<I, D>>, e, id, q)
      BY <1>15, <1>32, <2>1, <2>2, <2>3, <2>4, <2>5 DEF TwoStrings
    <3>2. QED
      BY <3>1, StringsStand
  <2>7. Close(data, "DICT", q) = q
    BY <1>15, <1>32, CloseIs
  <2>8. QED
    BY <2>6, <2>7
<1>34. ValueEnd(data, 5) = r1
  <2>1. ValueEnd(data, 5) = PastEnd(Close(data, "DICT", 5 + 1))
    BY <1>15, <1>32, ValueEndIs
  <2>2. 5 + 1 = 6 /\ PastEnd(q) = q + 1
    BY <1>24, <1>32 DEF PastEnd
  <2>3. r1 = 2 + (3 + (l + 2))
    <3>1. Len(x1) = Len(BenKey(A)) + Len(BenDict(inner))
      BY <1>1, <1>5, <1>26, BothLong
    <3>2. Len(x1) = 3 + (l + 2)
      BY <1>26, <1>32, <3>1
    <3>3. QED
      BY <1>15, <3>2
  <2>4. q + 1 = r1
    BY <1>31, <1>32, <2>3
  <2>5. QED
    BY <1>33, <2>1, <2>2, <2>4
<1>35. /\ 2 \in 1 .. n /\ StringAt(data, 2, <<A>>) /\ StringEnd(data, 2) = 5
       /\ PairEnd(data, 2) = r1 /\ Close(data, "DICT", 2) = Close(data, "DICT", r1)
  <2>1. /\ 2 \in 1 .. Len(data) /\ StringAt(data, 2, <<A>>)
        /\ StringEnd(data, 2) = 2 + Len(BenKey(A)) /\ Len(BenKey(A)) = 3 /\ 2 + 3 = 5
    BY <1>26, <1>30, StringStands
  <2>2. PairEnd(data, 2) = r1 /\ Close(data, "DICT", 2) = Close(data, "DICT", r1)
    <3>1. 2 + Len(BenString(<<A>>)) = 5
      BY <1>26, <2>1
    <3>2. ValueEnd(data, 2 + Len(BenString(<<A>>))) = r1
      BY <1>34, <3>1
    <3>3. Plain(<<A>>) /\ Stands(data, 2, BenString(<<A>>)) /\ r1 \in 1 .. Len(data)
      BY <1>15, <1>24, <1>26, <1>30
    <3>4. QED
      BY <2>1, <3>2, <3>3, PairStands
  <2>3. QED
    BY <1>15, <2>1, <2>2
<1>36. Close(data, "DICT", r4) = r4
  BY <1>15, <1>24, CloseIs
<1>37. Ping(id, trans, r1, r2, r3, r4)
  BY <1>1, <1>14, <1>15, <1>24, <1>27, <1>28, <1>29, <1>32, <1>35, <1>36, Zenon DEF Ping
<1>38. QED
  BY <1>37, Zenon

\* one pair further: it has the key, or the last one with the key comes later
LEMMA LastOn ==
  ASSUME NEW s \in Seq(Nat), NEW p \in 1 .. Len(s), NEW r, PairEnd(s, p) = r, r # 0,
         NEW key1, StringAt(s, p, <<key1>>), NEW c
  PROVE  LastFrom(s, c)[p] = IF LastFrom(s, c)[r] = 0 /\ c = key1 THEN StringEnd(s, p)
                             ELSE LastFrom(s, c)[r]
<1>1. p \in 1 .. Len(s) + 1
  OBVIOUS
<1>2. PICK later : later = LastFrom(s, c)[r]
  OBVIOUS
<1>3. (IF PairEnd(s, p) = 0 THEN 0 ELSE LastFrom(s, c)[PairEnd(s, p)]) = later
  BY <1>2
<1>4. LastFrom(s, c)[p] = LastHere(s, c, p, later)
  BY <1>1, <1>3, LastFromIs, Zenon
<1>5. StringAt(s, p, <<c>>) <=> c = key1
  <2>1. ASSUME StringAt(s, p, <<c>>) PROVE c = key1
    <3>1. <<c>> = <<key1>>
      BY <2>1, OneString, Zenon
    <3>2. <<c>>[1] = c /\ <<key1>>[1] = key1
      OBVIOUS
    <3>3. QED
      BY <3>1, <3>2
  <2>2. QED
    BY <2>1
<1>6. QED
  BY <1>2, <1>4, <1>5 DEF LastHere

\* the values of a ping are those that were written
LEMMA PingValues ==
  ASSUME data \in Seq(Nat), NEW id, NEW trans, NEW r1, NEW r2, NEW r3, NEW r4,
         Ping(id, trans, r1, r2, r3, r4)
  PROVE  /\ WellFormed(data) /\ data[1] = D /\ data[5] = D
         /\ LastValue(data, A) = 5
         /\ LastValue(data, Q) = StringEnd(data, r1)
         /\ LastValue(data, T) = StringEnd(data, r2)
         /\ LastValue(data, Y) = StringEnd(data, r3)
<1>1. PICK n : n \in Nat /\ n = Len(data)
  OBVIOUS
<1>2. /\ r1 \in 1 .. n /\ r2 \in 1 .. n /\ r3 \in 1 .. n /\ r4 = n /\ 2 \in 1 .. n
      /\ data[1] = D /\ data[r4] = E /\ Close(data, "DICT", 2) = r4
      /\ data[5] = D /\ StringEnd(data, 2) = 5
  BY <1>1 DEF Ping
<1>3. WellFormed(data)
  <2>1. 1 \in 1 .. Len(data) /\ data # <<>> /\ 1 + 1 = 2
    BY <1>1, <1>2
  <2>2. ValueEnd(data, 1) = PastEnd(Close(data, "DICT", 2))
    BY <1>2, <2>1, ValueEndIs
  <2>3. PastEnd(r4) = n + 1
    BY <1>1, <1>2 DEF PastEnd
  <2>4. QED
    BY <1>1, <1>2, <2>1, <2>2, <2>3 DEF WellFormed
<1>4. StringEnd(data, r4) = 0
  <2>1. r4 \in 1 .. Len(data) + 1
    BY <1>1, <1>2
  <2>2. data[r4] \notin Digits
    BY <1>2, Signs
  <2>3. QED
    BY <2>1, <2>2, StringBegins
<1>5. ASSUME NEW c PROVE LastFrom(data, c)[r4] = 0
  <2>1. r4 \in 1 .. Len(data) + 1
    BY <1>1, <1>2
  <2>2. PairEnd(data, r4) = 0
    BY <1>4 DEF PairEnd
  <2>3. LastFrom(data, c)[r4] =
          LastHere(data, c, r4, IF PairEnd(data, r4) = 0 THEN 0 ELSE LastFrom(data, c)[PairEnd(data, r4)])
    BY <2>1, LastFromIs, Zenon
  <2>4. ~StringAt(data, r4, <<c>>)
    BY <1>4 DEF StringAt
  <2>5. QED
    BY <2>2, <2>3, <2>4 DEF LastHere
<1>6. r1 # 0 /\ r2 # 0 /\ r3 # 0 /\ r4 # 0
  BY <1>1, <1>2
<1>7. ASSUME NEW c
      PROVE  /\ LastFrom(data, c)[r3] = IF c = Y THEN StringEnd(data, r3) ELSE 0
             /\ LastFrom(data, c)[r2] = IF LastFrom(data, c)[r3] = 0 /\ c = T
                                        THEN StringEnd(data, r2) ELSE LastFrom(data, c)[r3]
             /\ LastFrom(data, c)[r1] = IF LastFrom(data, c)[r2] = 0 /\ c = Q
                                        THEN StringEnd(data, r1) ELSE LastFrom(data, c)[r2]
             /\ LastFrom(data, c)[2] = IF LastFrom(data, c)[r1] = 0 /\ c = A
                                       THEN StringEnd(data, 2) ELSE LastFrom(data, c)[r1]
  <2>1. /\ StringAt(data, 2, <<A>>) /\ PairEnd(data, 2) = r1
        /\ StringAt(data, r1, <<Q>>) /\ PairEnd(data, r1) = r2
        /\ StringAt(data, r2, <<T>>) /\ PairEnd(data, r2) = r3
        /\ StringAt(data, r3, <<Y>>) /\ PairEnd(data, r3) = r4
    BY Zenon DEF Ping
  <2>2. LastFrom(data, c)[r3] = IF LastFrom(data, c)[r4] = 0 /\ c = Y
                                THEN StringEnd(data, r3) ELSE LastFrom(data, c)[r4]
    BY <1>1, <1>2, <1>6, <2>1, LastOn, SMTT(30)
  <2>3. LastFrom(data, c)[r2] = IF LastFrom(data, c)[r3] = 0 /\ c = T
                                THEN StringEnd(data, r2) ELSE LastFrom(data, c)[r3]
    BY <1>1, <1>2, <1>6, <2>1, LastOn
  <2>4. LastFrom(data, c)[r1] = IF LastFrom(data, c)[r2] = 0 /\ c = Q
                                THEN StringEnd(data, r1) ELSE LastFrom(data, c)[r2]
    BY <1>1, <1>2, <1>6, <2>1, LastOn, SMTT(30)
  <2>5. LastFrom(data, c)[2] = IF LastFrom(data, c)[r1] = 0 /\ c = A
                               THEN StringEnd(data, 2) ELSE LastFrom(data, c)[r1]
    BY <1>1, <1>2, <1>6, <2>1, LastOn
  <2>6. QED
    BY <1>5, <2>2, <2>3, <2>4, <2>5
<1>8. StringEnd(data, r1) # 0 /\ StringEnd(data, r2) # 0 /\ StringEnd(data, r3) # 0
  BY Zenon DEF Ping, StringAt
<1>9. A # Q /\ A # T /\ A # Y /\ Q # T /\ Q # Y /\ T # Y
  BY DEF A, Q, T, Y
<1>10. /\ LastFrom(data, A)[2] = 5 /\ LastFrom(data, Q)[2] = StringEnd(data, r1)
       /\ LastFrom(data, T)[2] = StringEnd(data, r2) /\ LastFrom(data, Y)[2] = StringEnd(data, r3)
  BY <1>2, <1>7, <1>8, <1>9
<1>11. QED
  BY <1>2, <1>3, <1>10 DEF LastValue

\* the pairs of the inner dictionary are written as PingsAreUnderstood has them
LEMMA IdWritten ==
  ASSUME NEW id, Plain(id)
  PROVE  /\ BenString(<<I, D>>) \o BenString(id)
              = <<50, COLON, I, D>> \o Printed(Len(id)) \o <<COLON>> \o id
         /\ BenString(<<I, D>>) \o BenString(id) \in Seq(Nat)
<1>1. PICK w, x : w = Printed(Len(id)) /\ x = <<50, COLON, I, D>>
  OBVIOUS
<1>2. w \in Seq(Nat) /\ id \in Seq(Nat) /\ x \in Seq(Nat) /\ <<COLON>> \in Seq(Nat)
  <2>1. id \in Seq(Nat) /\ Len(id) \in 0 .. 99
    BY PlainIs
  <2>2. w \in Seq(Nat)
    BY <1>1, <2>1, PrintedIs
  <2>3. x \in Seq(Nat) /\ <<COLON>> \in Seq(Nat)
    BY <1>1 DEF COLON, I, D
  <2>4. QED
    BY <2>1, <2>2, <2>3
<1>3. BenString(id) = w \o <<COLON>> \o id
  BY <1>1, UpToNulIs DEF BenString
<1>4. BenString(<<I, D>>) = x
  <2>1. Plain(<<I, D>>)
    BY DEF Plain, I, D
  <2>2. UpToNul(<<I, D>>) = <<I, D>>
    BY <2>1, UpToNulIs
  <2>3. Len(<<I, D>>) = 2 /\ Printed(2) = <<50>>
    BY DEF Printed
  <2>4. BenString(<<I, D>>) = <<50>> \o <<COLON>> \o <<I, D>>
    BY <2>2, <2>3 DEF BenString
  <2>5. <<50>> \o <<COLON>> \o <<I, D>> = <<50, COLON, I, D>>
    <3>1. <<50>> \o <<COLON>> = <<50, COLON>>
      <4>1. PICK c : c = <<50>> \o <<COLON>>
        OBVIOUS
      <4>2. c \in Seq(Nat) /\ Len(c) = 2 /\ c[1] = 50 /\ c[2] = COLON
        BY <4>1 DEF COLON
      <4>3. \A i \in 1 .. 2 : i = 1 \/ i = 2
        OBVIOUS
      <4>4. <<50, COLON>> \in Seq(Nat) /\ Len(<<50, COLON>>) = 2
        BY DEF COLON
      <4>5. \A i \in 1 .. 2 : c[i] = <<50, COLON>>[i]
        BY <4>2, <4>3
      <4>6. QED
        BY <4>1, <4>2, <4>4, <4>5, SeqEqual
    <3>2. <<50, COLON>> \o <<I, D>> = <<50, COLON, I, D>>
      <4>1. PICK c : c = <<50, COLON>> \o <<I, D>>
        OBVIOUS
      <4>2. /\ c \in Seq(Nat) /\ Len(c) = 4
            /\ c[1] = 50 /\ c[2] = COLON /\ c[3] = I /\ c[4] = D
        BY <4>1 DEF COLON, I, D
      <4>3. \A i \in 1 .. 4 : i = 1 \/ i = 2 \/ i = 3 \/ i = 4
        OBVIOUS
      <4>4. <<50, COLON, I, D>> \in Seq(Nat) /\ Len(<<50, COLON, I, D>>) = 4
        BY DEF COLON, I, D
      <4>5. \A i \in 1 .. 4 : c[i] = <<50, COLON, I, D>>[i]
        BY <4>2, <4>3
      <4>6. QED
        BY <4>1, <4>2, <4>4, <4>5, SeqEqual
    <3>3. QED
      BY <3>1, <3>2
  <2>6. QED
    BY <1>1, <2>4, <2>5
<1>5. x \o ((w \o <<COLON>>) \o id) = ((x \o w) \o <<COLON>>) \o id
  <2>1. x \o ((w \o <<COLON>>) \o id) = (x \o (w \o <<COLON>>)) \o id
    <3>1. PICK y : y = w \o <<COLON>>
      OBVIOUS
    <3>2. y \in Seq(Nat)
      BY <1>2, <3>1, BothLong
    <3>3. x \in Seq(Nat) /\ id \in Seq(Nat)
      BY <1>2
    <3>4. (x \o y) \o id = x \o (y \o id)
      BY <3>2, <3>3, ConcatAssociative, SMTT(30)
    <3>5. QED
      BY <3>1, <3>4
  <2>2. x \o (w \o <<COLON>>) = (x \o w) \o <<COLON>>
    BY <1>2, ConcatAssociative
  <2>3. QED
    BY <2>1, <2>2
<1>6. x \o ((w \o <<COLON>>) \o id) \in Seq(Nat)
  BY <1>2, BothLong
<1>7. QED
  BY <1>1, <1>3, <1>4, <1>5, <1>6

\* a ping that was received, and parsed, is understood as it was written
LEMMA PingUnderstood ==
  ASSUME ParseInv, Returned, NEW id, Plain(id), Plain(Trans), Plain(QueryName["ping"]),
         Sent(id, Trans), Len(data) < UINTMAX
  PROVE  /\ at = "understood" /\ type = "QUERY" /\ query = "ping"
         /\ Text(entry[T]) = Trans
         /\ entry[A].at.pos = 6
         /\ Stands(data, 6, BenString(<<I, D>>) \o BenString(id))
<1>1. data \in Seq(Nat)
  BY BytesAre, Zenon DEF ParseInv, BenrInv
<1>2. PICK r1, r2, r3, r4 : Ping(id, Trans, r1, r2, r3, r4)
  BY <1>1, PingStands, Zenon
<1>3. /\ WellFormed(data) /\ data[1] = D /\ data[5] = D
      /\ LastValue(data, A) = 5
      /\ LastValue(data, Q) = StringEnd(data, r1)
      /\ LastValue(data, T) = StringEnd(data, r2)
      /\ LastValue(data, Y) = StringEnd(data, r3)
  BY <1>1, <1>2, PingValues, Zenon
<1>4. DictReceived
  BY <1>1, <1>3 DEF DictReceived
<1>5. PICK a, q, t, y : /\ a = LastValue(data, A) /\ q = LastValue(data, Q)
                        /\ t = LastValue(data, T) /\ y = LastValue(data, Y)
  BY Zenon
<1>6. /\ StringAt(data, q, QueryName["ping"]) /\ StringAt(data, t, Trans)
      /\ StringAt(data, y, <<Q>>)
  BY <1>2, <1>3, <1>5, Zenon DEF Ping
<1>7. /\ EntryIs(entry[A], a) /\ EntryIs(entry[T], t) /\ EntryIs(entry[Y], y)
  <2>1. AllLooked(entry)
    BY <1>4 DEF ParseInv, Right, Returned
  <2>2. A \in Keys /\ T \in Keys /\ Y \in Keys
    BY DEF Keys
  <2>3. QED
    BY <1>5, <2>1, <2>2 DEF AllLooked
<1>8. ~StringAt(data, y, <<E>>)
  <2>1. PICK b : b = entry[Y]
    OBVIOUS
  <2>2. EntryIs(b, y)
    BY <1>7, <2>1
  <2>3. Text(b)[1] = Q
    BY <1>4, <1>6, <2>2, EntryByte, Zenon
  <2>4. ASSUME StringAt(data, y, <<E>>) PROVE Text(b)[1] = E
    BY <1>4, <2>2, <2>4, EntryByte, Zenon
  <2>5. E # Q
    BY DEF E, Q
  <2>6. QED
    BY <2>3, <2>4, <2>5
<1>9. /\ type = (IF StringAt(data, y, <<E>>) THEN "ERROR"
                 ELSE IF StringAt(data, y, <<Q>>) THEN "QUERY"
                 ELSE IF StringAt(data, y, <<R>>) THEN "RESPONSE" ELSE "NONE")
      /\ \A x \in Queries :
           query = x <=> /\ type \in {"QUERY", "RESPONSE"}
                         /\ StringAt(data, q, QueryName[x])
      /\ at = "understood" <=>
           type = "ERROR" \/ (type # "NONE" /\ query # "NONE")
  BY <1>3, <1>5, ParseUnderstands, Zenon DEF TakenAsWritten
<1>10. type = "QUERY"
  BY <1>6, <1>8, <1>9
<1>11. query = "ping"
  <2>1. "ping" \in Queries
    BY DEF Queries
  <2>2. QED
    BY <1>6, <1>9, <1>10, <2>1
<1>12. at = "understood"
  BY <1>9, <1>10, <1>11
<1>13. Text(entry[T]) = Trans
  BY <1>4, <1>6, <1>7, EntryText, Zenon
<1>14. entry[A].at.pos = 6
  <2>1. 5 \in 1 .. Len(data) /\ entry[A] = TokenAt(data, 5).b
    BY <1>3, <1>5, <1>7 DEF EntryIs
  <2>2. Begins(data, data)
    BY <1>4, DictIs
  <2>3. Opens(BenrNext(data, Rest(data, 5)), data, 5, "DICT")
    BY <1>3, <2>1, <2>2, TokenIs
  <2>4. TokenAt(data, 5) = BenrNext(data, Rest(data, 5))
    BY DEF TokenAt, Rest
  <2>5. entry[A].at = Rest(data, 6)
    BY <2>1, <2>3, <2>4 DEF Opens
  <2>6. Rest(data, 6).pos = 6
    BY DEF Rest, Ctx
  <2>7. QED
    BY <2>5, <2>6
<1>15. Stands(data, 6, BenString(<<I, D>>) \o BenString(id))
  BY <1>2, Zenon DEF Ping
<1>16. QED
  BY <1>10, <1>11, <1>12, <1>13, <1>14, <1>15

\* The pings that can be written as they are: a zero byte would end the id, and
\* more than 99 bytes would take a third digit.
PingsWritable ==
  /\ Plain(Trans) /\ Plain(QueryName["ping"])
  /\ \A id \in Ids : Plain(id) /\ Len(GenPing(id, Trans)) < UINTMAX

\* so the invariant ParseInv gives the property in every state
LEMMA UnderstoodThen ==
  ASSUME PingsWritable
  PROVE  ParseInv => PingsAreUnderstood
<1> SUFFICES ASSUME ParseInv, Returned, NEW id \in Ids, data = GenPing(id, Trans),
                    NEW a, a = <<50, COLON, I, D>> \o Printed(Len(id)) \o <<COLON>> \o id
             PROVE  /\ at = "understood" /\ type = "QUERY" /\ query = "ping"
                    /\ Text(entry[T]) = Trans
                    /\ SubSeq(data, entry[A].at.pos, entry[A].at.pos + Len(a) - 1) = a
  BY Zenon DEF PingsAreUnderstood
<1>1. /\ Plain(id) /\ Plain(Trans) /\ Plain(QueryName["ping"]) /\ Sent(id, Trans)
      /\ Len(data) < UINTMAX /\ data \in Seq(Nat)
  BY BytesAre, Zenon DEF PingsWritable, Sent, ParseInv, BenrInv
<1>2. /\ at = "understood" /\ type = "QUERY" /\ query = "ping"
      /\ Text(entry[T]) = Trans
      /\ entry[A].at.pos = 6
      /\ Stands(data, 6, BenString(<<I, D>>) \o BenString(id))
  BY <1>1, PingUnderstood, Zenon
<1>3. a \in Seq(Nat) /\ Stands(data, 6, a)
  BY <1>1, <1>2, IdWritten
<1>4. SubSeq(data, 6, 6 + Len(a) - 1) = a
  BY <1>1, <1>3, CutOut
<1>5. QED
  BY <1>2, <1>4

(* What krpc_gen_ping writes is understood by krpc_msg_parse as a ping with that
   id and that transaction, for every id without a zero byte (bt_dht.c, ben.h). *)
THEOREM PingsUnderstood ==
  ASSUME PingsWritable
  PROVE  KrpcSpec => []PingsAreUnderstood
<1>1. KrpcInit => ParseInv
  BY ParseStarts
<1>2. ParseInv /\ [KrpcNext]_allVars => ParseInv'
  BY ParseSteps
<1>3. ParseInv => PingsAreUnderstood
  BY UnderstoodThen
<1>4. QED
  BY <1>1, <1>2, <1>3, PTL DEF KrpcSpec
=============================================================================
