------------------------------ MODULE BenrProof ------------------------------
(* Proofs about the readers of bencoded data, for every message and every
   width of uintmax_t: they read and hand out nothing but bytes of the message,
   the two of them agree on every token, the iterators give the elements of
   every well-formed container, and a caller that reads to the bottom meets every
   value in its order and reads no more bytes than src/benr.h works out. *)
EXTENDS BenrWalk, BencodeProof, SequenceTheorems, TLAPS

(* A context that lies in the message still does when it is advanced. *)
LEMMA AdvanceInside ==
  ASSUME data \in Seq(0 .. 255), NEW c, Inside(c), NEW n \in 0 .. c.len
  PROVE  Inside(Advance(c, n))
  BY DEF Inside, Advance, Ctx

\* the context of nothing lies in the message
LEMMA NowhereInside ==
  ASSUME data \in Seq(0 .. 255)
  PROVE  Inside(Nowhere) /\ Inside(None.at) /\ None.at = Nowhere
  BY DEF Inside, Nowhere, None, Benr, Ctx

(* The byte that ends a number is one of the unread bytes. *)
LEMMA StopUnread ==
  ASSUME NEW c, Stops(data, c)
  PROVE  Stop(data, c) \in Unread(c)
  BY DEF Stops, Stop

(* What a token and the context after it have to satisfy. *)
Taken(t) == Inside(t.b.at) /\ Inside(t.ctx)

\* an error taken leaves the context inside
LEMMA FailTaken ==
  ASSUME data \in Seq(0 .. 255), NEW c, Inside(c),
         NEW kind, NEW num, NEW pos \in Nat, pos <= Len(data) + 1
  PROVE  Taken(Fail(kind, num, pos, c))
  <1>1. Inside(Ctx(pos, 0))
      BY DEF Inside, Ctx
  <1>2. /\ Fail(kind, num, pos, c).b.at = Ctx(pos, 0)
        /\ Fail(kind, num, pos, c).ctx = c
      BY DEF Fail, Take, Benr
  <1> QED BY <1>1, <1>2 DEF Taken

\* a number, or the error in it, is taken from inside
LEMMA InitUintTaken ==
  ASSUME data \in Seq(0 .. 255), NEW c, Inside(c), NEW end
  PROVE  Taken(InitUint(data, c, end))
  <1> DEFINE q == Stop(data, c)
             n == UintValue(data, c.pos, q - 1)
             d == Advance(c, q + 1 - c.pos)
  <1>1. CASE ~Stops(data, c)
      BY <1>1, FailTaken DEF InitUint
  <1>2. CASE Stops(data, c)
    <2>1. q \in Unread(c)
        BY <1>2, StopUnread
    <2>2. /\ q \in Nat /\ q <= Len(data) + 1
          /\ q + 1 - c.pos \in 0 .. c.len
        BY <2>1 DEF Unread, Inside
    <2>3. CASE data[q] = end
      <3>1. Inside(d)
          BY <2>2, AdvanceInside
      <3>2. InitUint(data, c, end) = Take(Benr("UINT", n, Nowhere), d)
          BY <1>2, <2>3 DEF InitUint
      <3>3. /\ Take(Benr("UINT", n, Nowhere), d).b.at = Nowhere
            /\ Take(Benr("UINT", n, Nowhere), d).ctx = d
          BY DEF Take, Benr
      <3> QED BY <3>1, <3>2, <3>3, NowhereInside DEF Taken
    <2>4. CASE data[q] # end
      <3>1. InitUint(data, c, end) = Fail("UNEXPECTED_BYTE_IN_INT", 0, q, c)
          BY <1>2, <2>4 DEF InitUint
      <3> QED BY <3>1, <2>2, FailTaken
    <2> QED BY <2>3, <2>4
  <1> QED BY <1>1, <1>2

\* so is an integer
LEMMA NextIntTaken ==
  ASSUME data \in Seq(0 .. 255), NEW c, Inside(c), c.len # 0
  PROVE  Taken(NextInt(data, c))
  <1> DEFINE d == Advance(c, 1)
             minus == Peek(data, d) = MINUS
             g == IF minus THEN Advance(d, 1) ELSE d
             u == InitUint(data, g, E)
             n == Signed(u.b.num, IF minus THEN -1 ELSE 1)
  <1>1. Inside(d)
    <2>1. 1 \in 0 .. c.len
        BY DEF Inside
    <2> QED BY <2>1, AdvanceInside
  <1>2. CASE d.len = 0
    <2>1. NextInt(data, c) = Fail("UNEXPECTED_EOF", 0, 0, c)
        BY <1>2 DEF NextInt
    <2> QED BY <2>1, FailTaken
  <1>3. CASE d.len # 0
    <2>1. Inside(Advance(d, 1))
      <3>1. 1 \in 0 .. d.len
          BY <1>1, <1>3 DEF Inside
      <3> QED BY <1>1, <3>1, AdvanceInside
    <2>2. Inside(g)
        BY <1>1, <2>1
    <2>3. Taken(u)
        BY <2>2, InitUintTaken
    <2>4. CASE u.b.kind # "UINT"
      <3>1. NextInt(data, c) = Take(u.b, c)
          BY <1>3, <2>4 DEF NextInt
      <3>2. Take(u.b, c).b = u.b /\ Take(u.b, c).ctx = c
          BY DEF Take
      <3> QED BY <2>3, <3>1, <3>2 DEF Taken
    <2>5. CASE u.b.kind = "UINT"
      <3>1. NextInt(data, c) = Take(Benr("INT", n, Nowhere), u.ctx)
          BY <1>3, <2>5 DEF NextInt
      <3>2. /\ Take(Benr("INT", n, Nowhere), u.ctx).b.at = Nowhere
            /\ Take(Benr("INT", n, Nowhere), u.ctx).ctx = u.ctx
          BY DEF Take, Benr
      <3> QED BY <2>3, <3>1, <3>2, NowhereInside DEF Taken
    <2> QED BY <2>4, <2>5
  <1> QED BY <1>2, <1>3

\* so is a string, whose bytes are all there
LEMMA NextStringTaken ==
  ASSUME data \in Seq(0 .. 255), NEW c, Inside(c)
  PROVE  Taken(NextString(data, c))
  <1> DEFINE u == InitUint(data, c, COLON)
             s == Ctx(u.ctx.pos, u.b.num)
             d == Advance(u.ctx, u.b.num)
  <1>1. Taken(u)
      BY InitUintTaken
  <1>2. CASE u.b.kind # "UINT"
    <2>1. NextString(data, c) = Take(u.b, c)
        BY <1>2 DEF NextString
    <2>2. Take(u.b, c).b = u.b /\ Take(u.b, c).ctx = c
        BY DEF Take
    <2> QED BY <1>1, <2>1, <2>2 DEF Taken
  <1>3. CASE u.b.kind = "UINT" /\ u.b.num \in 0 .. u.ctx.len
    <2>1. NextString(data, c) = Take(Benr("STRING", 0, s), d)
        BY <1>3 DEF NextString
    <2>2. Inside(s)
      <3>1. Inside(u.ctx) /\ u.b.num \in Nat /\ u.b.num <= u.ctx.len
          BY <1>1, <1>3 DEF Taken, Inside
      <3>2. /\ s = [pos |-> u.ctx.pos, len |-> u.b.num]
            /\ s.pos = u.ctx.pos /\ s.len = u.b.num
          BY DEF Ctx
      <3>3. /\ u.ctx.pos \in Nat /\ u.ctx.len \in Nat
            /\ u.ctx.pos + u.ctx.len <= Len(data) + 1
            /\ u.ctx.len > 0 => u.ctx.pos > 0
          BY <3>1 DEF Inside
      <3>4. s \in [pos : Nat, len : Nat]
          BY <3>1, <3>2, <3>3
      <3>5. s.pos + s.len <= Len(data) + 1 /\ (s.len > 0 => s.pos > 0)
          BY <3>1, <3>2, <3>3
      <3> QED BY <3>4, <3>5 DEF Inside
    <2>3. Inside(d)
        BY <1>1, <1>3, AdvanceInside DEF Taken
    <2>4. /\ Take(Benr("STRING", 0, s), d).b.at = s
          /\ Take(Benr("STRING", 0, s), d).ctx = d
        BY DEF Take, Benr
    <2> QED BY <2>1, <2>2, <2>3, <2>4 DEF Taken
  <1>4. CASE u.b.kind = "UINT" /\ u.b.num \notin 0 .. u.ctx.len
    <2>1. NextString(data, c) = Fail("STRING_TOO_LONG", u.b.num, 0, c)
        BY <1>4 DEF NextString
    <2> QED BY <2>1, FailTaken
  <1> QED BY <1>2, <1>3, <1>4

(* A token and the context after it lie in the message. *)
LEMMA NextTaken ==
  ASSUME data \in Seq(0 .. 255), NEW c, Inside(c)
  PROVE  Taken(BenrNext(data, c))
  <1> DEFINE d == Advance(c, 1)
             b == Peek(data, c)
             t == BenrNext(data, c)
  <1>1. CASE c.len = 0
    <2>1. t.b = None /\ t.ctx = c
        BY <1>1 DEF BenrNext, Take
    <2> QED BY <2>1, NowhereInside DEF Taken
  <1>2. CASE c.len # 0
    <2>1. Inside(d)
      <3>1. 1 \in 0 .. c.len
          BY <1>2 DEF Inside
      <3> QED BY <3>1, AdvanceInside
    <2>2. CASE b = I
        BY <1>2, <2>2, NextIntTaken DEF BenrNext, I, D, L, E, Digits
    <2>3. CASE b = D \/ b = L
      <3>1. t.b.at = d /\ t.ctx = d
          BY <1>2, <2>3 DEF BenrNext, Open, Take, Benr, I, D, L, E, Digits
      <3> QED BY <2>1, <3>1 DEF Taken
    <2>4. CASE b = E
      <3>1. t.b.at = Nowhere /\ t.ctx = d
          BY <1>2, <2>4 DEF BenrNext, Take, Benr, I, D, L, E, Digits
      <3> QED BY <2>1, <3>1, NowhereInside DEF Taken
    <2>5. CASE b \in Digits
        BY <1>2, <2>5, NextStringTaken DEF BenrNext, I, D, L, E, Digits
    <2>6. CASE b \notin {I, D, L, E} \cup Digits
      <3>1. t = Fail("UNEXPECTED_BYTE", 0, c.pos, c)
          BY <1>2, <2>6 DEF BenrNext
      <3>2. c.pos \in Nat /\ c.pos <= Len(data) + 1
          BY DEF Inside
      <3> QED BY <3>1, <3>2, FailTaken
    <2> QED BY <2>2, <2>3, <2>4, <2>5, <2>6
  <1> QED BY <1>1, <1>2

\* benr_init hands out a context inside the message
LEMMA InitTaken ==
  ASSUME data \in Seq(0 .. 255)
  PROVE  Inside(BenrInit(data).at)
  <1>1. Inside(Whole(data))
      BY DEF Inside, Whole, Ctx
  <1>2. Inside(BenrNext(data, Whole(data)).b.at)
      BY <1>1, NextTaken DEF Taken
  <1>3. Inside(Ctx(1, 0)) /\ Benr("UNEXPECTED_BYTE", 0, Ctx(1, 0)).at = Ctx(1, 0)
      BY DEF Inside, Ctx, Benr
  <1> QED BY <1>2, <1>3 DEF BenrInit

-----------------------------------------------------------------------------
(* The iterators keep every context inside: the inductive invariant. *)
BenrInv == data \in Seq(0 .. 255) /\ InBounds

(* Where the data stays the same, what was inside still is. *)
LEMMA SameInside ==
  ASSUME BenrInv, data' = data
  PROVE  /\ data' \in Seq(0 .. 255)
         /\ ctx' = ctx => Inside(ctx)'
         /\ skip' = skip => Inside(skip)'
         /\ key' = key => Inside(key.at)'
         /\ val' = val => Inside(val.at)'
         /\ k' = k => Inside(k.at)'
         /\ v' = v => Inside(v.at)'
  BY DEF BenrInv, InBounds, Inside

\* a variable set to a context that is inside is inside
LEMMA NewInside ==
  ASSUME data' = data, NEW c, Inside(c)
  PROVE  /\ ctx' = c => Inside(ctx)'
         /\ skip' = c => Inside(skip)'
         /\ key'.at = c => Inside(key.at)'
         /\ val'.at = c => Inside(val.at)'
         /\ k'.at = c => Inside(k.at)'
         /\ v'.at = c => Inside(v.at)'
  BY DEF Inside

\* what is forgotten is inside
LEMMA ForgetInside ==
  ASSUME BenrInv, data' = data, Forget
  PROVE  Inside(skip)' /\ Inside(k.at)' /\ Inside(v.at)'
  <1>1. Inside(Nowhere) /\ None.at = Nowhere
      BY NowhereInside DEF BenrInv
  <1>2. skip' = Nowhere /\ k'.at = Nowhere /\ v'.at = Nowhere
      BY <1>1 DEF Forget
  <1> QED BY <1>1, <1>2, NewInside

\* the bounds hold at the start, ...
LEMMA InitInside == Init => BenrInv
  <1> SUFFICES ASSUME Init PROVE BenrInv
      OBVIOUS
  <1>1. ASSUME NEW s \in Values PROVE Cut(s) \subseteq Seq(0 .. 255)
    <2>1. s \in Seq(0 .. 255)
        BY MessagesAssumption
    <2>2. ASSUME NEW n \in 0 .. Len(s) - 1
          PROVE  SubSeq(s, 1, n) \in Seq(0 .. 255)
      <3>1. Len(s) \in Nat /\ DOMAIN s = 1 .. Len(s) /\ s \in [1 .. Len(s) -> 0 .. 255]
        <4> DEFINE Byte == 0 .. 255
        <4>1. s \in Seq(Byte)
            BY <2>1
        <4> HIDE DEF Byte
        <4>2. Len(s) \in Nat /\ DOMAIN s = 1 .. Len(s) /\ s \in [1 .. Len(s) -> Byte]
            BY <4>1, LenProperties, Zenon
        <4> QED BY <4>2 DEF Byte
      <3>2. n \in Int /\ n <= Len(s) - 1
          BY <3>1
      <3>3. \A i \in 1 .. n : i \in 1 .. Len(s)
          BY <3>1, <3>2
      <3>4. \A i \in 1 .. n : s[i] \in 0 .. 255
          BY <3>1, <3>3
      <3>5. 1 \in Int
          OBVIOUS
      <3> QED BY <3>2, <3>4, <3>5, SubSeqProperties, Zenon
    <2> QED BY <2>2, Zenon DEF Cut
  <1>2. data \in Seq(0 .. 255)
      BY <1>1, MessagesAssumption DEF Init, Messages, Truncated
  <1> QED BY <1>2, NowhereInside DEF Init, BenrInv, InBounds

\* ... after an iterator is set up, ...
LEMMA IterateInside ==
  ASSUME BenrInv, NEW b, Inside(b.at), Iterate(b)
  PROVE  BenrInv'
  <1>1. data' = data /\ ctx' = b.at /\ key' = None /\ val' = None
        /\ UNCHANGED <<skip, k, v>>
      BY DEF Iterate, locals
  <1>2. Inside(Nowhere) /\ None.at = Nowhere
      BY NowhereInside DEF BenrInv
  <1>3. Inside(ctx)' /\ Inside(key.at)' /\ Inside(val.at)'
      BY <1>1, <1>2, NewInside
  <1> QED BY <1>1, <1>3, SameInside DEF BenrInv, InBounds

\* ... when an iteration ends, ...
LEMMA ReturnEndInside ==
  ASSUME BenrInv, data' = data, NEW c, Inside(c), ReturnEnd(c)
  PROVE  BenrInv'
  <1>1. ctx' = [c EXCEPT !.len = 0] /\ Forget /\ UNCHANGED <<key, val>>
      BY DEF ReturnEnd
  <1>2. Inside([c EXCEPT !.len = 0])
      BY DEF Inside
  <1>3. Inside(ctx)'
      BY <1>1, <1>2, NewInside
  <1> QED BY <1>1, <1>3, SameInside, ForgetInside DEF BenrInv, InBounds

\* ... when an element is handed out, ...
LEMMA ElementInside ==
  ASSUME BenrInv, data' = data, NEW kk, Inside(kk.at), NEW t, Taken(t),
         Element(kk, t)
  PROVE  BenrInv'
  <1>1. Inside(ctx)'
      BY NewInside DEF Element, Taken
  <1>2. CASE Return(kk, t.b)
    <2>1. key'.at = kk.at /\ val'.at = t.b.at /\ Forget
        BY <1>2 DEF Return
    <2>2. Inside(key.at)' /\ Inside(val.at)'
        BY <2>1, NewInside DEF Taken
    <2> QED BY <1>1, <2>1, <2>2, SameInside, ForgetInside DEF BenrInv, InBounds
  <1>3. CASE k' = kk /\ v' = t.b /\ skip' = t.ctx /\ UNCHANGED <<key, val>>
    <2>1. Inside(k.at)' /\ Inside(v.at)' /\ Inside(skip)'
        BY <1>3, NewInside DEF Taken
    <2> QED BY <1>1, <1>3, <2>1, SameInside DEF BenrInv, InBounds
  <1> QED BY <1>2, <1>3 DEF Element

\* ... in the whole of benr_list_iter_next ...
LEMMA ListNextInside == BenrInv /\ ListNext => BenrInv'
  <1> SUFFICES ASSUME BenrInv, ListNext PROVE BenrInv'
      OBVIOUS
  <1>1. data' = data
      BY DEF ListNext, Call
  <1> DEFINE x == BenrNext(data, ctx)
  <1>2. Taken(x)
      BY NextTaken DEF BenrInv, InBounds
  <1>3. CASE ReturnEnd(x.ctx)
      BY <1>1, <1>2, <1>3, ReturnEndInside DEF Taken
  <1>4. CASE Element(None, x)
      BY <1>1, <1>2, <1>4, ElementInside, NowhereInside DEF BenrInv
  <1> QED BY <1>3, <1>4 DEF ListNext

\* ... and benr_dict_iter_next, ...
LEMMA DictNextInside == BenrInv /\ DictNext => BenrInv'
  <1> SUFFICES ASSUME BenrInv, DictNext PROVE BenrInv'
      OBVIOUS
  <1>1. data' = data
      BY DEF DictNext, Call
  <1> DEFINE x == BenrNext(data, ctx)
             y == BenrNext(data, x.ctx)
  <1>2. Taken(x)
      BY NextTaken DEF BenrInv, InBounds
  <1>3. Taken(y)
      BY <1>2, NextTaken DEF BenrInv, Taken
  <1>4. CASE ReturnEnd(x.ctx)
      BY <1>1, <1>2, <1>4, ReturnEndInside DEF Taken
  <1>5. CASE ReturnEnd(y.ctx)
      BY <1>1, <1>3, <1>5, ReturnEndInside DEF Taken
  <1>6. CASE Element(x.b, y)
      BY <1>1, <1>2, <1>3, <1>6, ElementInside DEF Taken
  <1> QED BY <1>4, <1>5, <1>6 DEF DictNext

\* ... while a container is skipped, ...
LEMMA SkipInside == BenrInv /\ Skip => BenrInv'
  <1> SUFFICES ASSUME BenrInv, Skip PROVE BenrInv'
      OBVIOUS
  <1> DEFINE t == BenrNext(data, skip)
  <1>1. Taken(t)
      BY NextTaken DEF BenrInv, InBounds
  <1>2. CASE ScanDeeper(t) \/ ScanOn(t) \/ ScanUp(t)
    <2>1. data' = data /\ skip' = t.ctx /\ UNCHANGED <<ctx, key, val, k, v>>
        BY <1>2 DEF ScanDeeper, ScanOn, ScanUp, Scan
    <2>2. Inside(skip)'
        BY <1>1, <2>1, NewInside DEF Taken
    <2> QED BY <2>1, <2>2, SameInside DEF BenrInv, InBounds
  <1>3. CASE Skipped(t)
    <2>1. data' = data /\ ctx' = t.ctx /\ key' = k /\ val' = v /\ Forget
        BY <1>3 DEF Skipped, Scan, Return
    <2>2. Inside(ctx)' /\ Inside(key.at)' /\ Inside(val.at)'
        BY <1>1, <2>1, NewInside DEF Taken, BenrInv, InBounds
    <2> QED BY <2>1, <2>2, SameInside, ForgetInside DEF BenrInv, InBounds
  <1>4. CASE SkipFails(t)
    <2>1. data' = data /\ Forget /\ UNCHANGED <<ctx, key, val>>
        BY <1>4 DEF SkipFails, Scan
    <2> QED BY <2>1, SameInside, ForgetInside DEF BenrInv, InBounds
  <1> QED BY <1>2, <1>3, <1>4 DEF Skip

\* ... and so in every step.
LEMMA BenrInvNext == BenrInv /\ [Next]_iterVars => BenrInv'
  <1> SUFFICES ASSUME BenrInv, [Next]_iterVars PROVE BenrInv'
      OBVIOUS
  <1>1. CASE OpenMessage
      BY <1>1, IterateInside, InitTaken DEF OpenMessage, BenrInv
  <1>2. CASE Descend
      BY <1>2, IterateInside DEF Descend, BenrInv, InBounds
  <1>3. CASE ListNext BY <1>3, ListNextInside
  <1>4. CASE DictNext BY <1>4, DictNextInside
  <1>5. CASE Skip BY <1>5, SkipInside
  <1>6. CASE UNCHANGED iterVars
      BY <1>6, SameInside DEF iterVars, BenrInv, InBounds
  <1> QED BY <1>1, <1>2, <1>3, <1>4, <1>5, <1>6 DEF Next

(* The iterators of benr.c (lines 218-297), asked anything in any order about
   any message, well-formed or not, only ever read and hand out bytes of it. *)
THEOREM StaysInBounds == Spec => []InBounds
  <1>1. BenrInv => InBounds
      BY DEF BenrInv
  <1> QED BY <1>1, InitInside, BenrInvNext, PTL DEF Spec

-----------------------------------------------------------------------------
(* Once an iterator has returned -1 it is empty: the inductive invariant. *)
EndInv == ret = "end" => pc = "idle" /\ over # "none" /\ ctx.len = 0

\* benr_next of no bytes is NONE, and no container
LEMMA NothingLeftToRead ==
  ASSUME NEW c, c.len = 0
  PROVE  /\ BenrNext(data, c).b = None /\ BenrNext(data, c).ctx = c
         /\ None.kind = "NONE" /\ ~IsContainer(None)
  BY DEF BenrNext, Take, None, Benr, IsContainer, ContainerKinds

\* a call on an iterator that is empty finds nothing, and leaves it empty
LEMMA AskedEmpty ==
  ASSUME ctx.len = 0, ListNext \/ DictNext
  PROVE  Return(None, None) /\ UNCHANGED <<ctx, over>>
  <1> DEFINE x == BenrNext(data, ctx)
             y == BenrNext(data, x.ctx)
  <1>1. x.b = None /\ x.ctx = ctx /\ None.kind = "NONE" /\ ~IsContainer(None)
      BY NothingLeftToRead
  <1>2. y.b = None /\ y.ctx = ctx
      BY <1>1, NothingLeftToRead
  <1>3. over' = over
      BY DEF ListNext, DictNext, Call
  <1>4. Element(None, x) \/ Element(x.b, y)
      BY <1>1, <1>2 DEF ListNext, DictNext
  <1> HIDE DEF x, y
  <1> QED BY <1>1, <1>2, <1>3, <1>4 DEF Element

\* a return of -1 leaves no bytes in the context
LEMMA ReturnEndEmpties ==
  ASSUME NEW c, Inside(c), ReturnEnd(c)
  PROVE  ret' = "end" /\ pc' = "idle" /\ ctx'.len = 0
  BY DEF ReturnEnd, Inside

\* a call after the end leaves the end as it is, ...
LEMMA NextKeepsEnd ==
  ASSUME BenrInv, EndInv, ListNext \/ DictNext
  PROVE  EndInv'
  <1> DEFINE x == BenrNext(data, ctx)
             y == BenrNext(data, x.ctx)
  <1>1. over' = over /\ over # "none"
      BY DEF ListNext, DictNext, Call
  <1>2. Inside(x.ctx)
      BY NextTaken DEF BenrInv, InBounds, Taken
  <1>3. Inside(y.ctx)
      BY <1>2, NextTaken DEF BenrInv, Taken
  <1>4. CASE ReturnEnd(x.ctx) \/ ReturnEnd(y.ctx)
      BY <1>1, <1>2, <1>3, <1>4, ReturnEndEmpties DEF EndInv
  <1>5. CASE ret = "end"
      BY <1>5, AskedEmpty DEF EndInv, Return
  <1>6. CASE ret # "end" /\ (Element(None, x) \/ Element(x.b, y))
    <2>1. ret' # "end"
        BY <1>6 DEF Element, Return
    <2> QED BY <2>1 DEF EndInv
  <1> QED BY <1>4, <1>5, <1>6 DEF ListNext, DictNext

\* ... and so does every step
LEMMA StepKeepsEnd == BenrInv /\ EndInv /\ [Next]_iterVars => EndInv'
  <1> SUFFICES ASSUME BenrInv, EndInv, [Next]_iterVars PROVE EndInv'
      OBVIOUS
  <1>1. CASE OpenMessage \/ Descend
    <2>1. ret' = "ok"
        BY <1>1 DEF OpenMessage, Descend, Iterate
    <2> QED BY <2>1 DEF EndInv
  <1>2. CASE ListNext \/ DictNext
      BY <1>2, NextKeepsEnd
  <1>3. CASE Skip
    <2>1. ret # "end"
        BY <1>3 DEF Skip, EndInv
    <2>2. ret' = ret \/ ret' \in {"ok", "bad"}
        BY <1>3 DEF Skip, ScanDeeper, ScanOn, ScanUp, Skipped, SkipFails, Return
    <2> QED BY <2>1, <2>2 DEF EndInv
  <1>4. CASE UNCHANGED iterVars
      BY <1>4 DEF iterVars, EndInv
  <1> QED BY <1>1, <1>2, <1>3, <1>4 DEF Next

\* The iterator is empty, and the last call found nothing: as an end told once
\* leaves it, for good.  A dictionary that ended at a key without a value is empty
\* as well, whatever bytes stand behind that key.
SettledEnd ==
  /\ pc = "idle" /\ over # "none" /\ ctx.len = 0
  /\ NothingThere

\* the call after the end finds nothing ...
LEMMA EndThenNothing ==
  ASSUME EndInv, ret = "end", [Next]_iterVars
  PROVE  UNCHANGED iterVars \/ SettledEnd'
  <1>1. pc = "idle" /\ over # "none" /\ ctx.len = 0
      BY DEF EndInv
  <1>2. ListNext \/ DictNext \/ UNCHANGED iterVars
      BY <1>1 DEF Next, OpenMessage, Descend, Skip
  <1>3. CASE ListNext \/ DictNext
    <2>1. Return(None, None) /\ UNCHANGED <<ctx, over>>
        BY <1>1, <1>3, AskedEmpty
    <2> QED BY <1>1, <2>1, NothingLeftToRead
            DEF SettledEnd, NothingThere, Return
  <1> QED BY <1>2, <1>3

\* ... and so does every call after one that found nothing: there is no container
\* to descend into and no byte to read
LEMMA NothingForGood ==
  ASSUME SettledEnd, [Next]_iterVars
  PROVE  SettledEnd'
  <1>1. pc = "idle" /\ over # "none" /\ ctx.len = 0 /\ ~IsContainer(val)
      BY DEF SettledEnd, NothingThere, IsContainer, ContainerKinds
  <1>2. ListNext \/ DictNext \/ UNCHANGED iterVars
      BY <1>1 DEF Next, OpenMessage, Descend, Iterate, Skip
  <1>3. CASE ListNext \/ DictNext
    <2>1. Return(None, None) /\ UNCHANGED <<ctx, over>>
        BY <1>1, <1>3, AskedEmpty
    <2> QED BY <1>1, <2>1, NothingLeftToRead
            DEF SettledEnd, NothingThere, Return
  <1>4. CASE UNCHANGED iterVars
      BY <1>4 DEF SettledEnd, NothingThere, iterVars
  <1> QED BY <1>2, <1>3, <1>4

(* The end is told once (benr.c:243-254, 265-279): an iterator
   that returned -1 returns 0 with nothing in it on every later call, never -1
   again and never an element behind the end. *)
THEOREM EndToldOnce == Spec => EndIsFinal
  <1>1. Init => EndInv
      BY DEF Init, EndInv
  <1>2. Init => BenrInv
      BY InitInside
  <1>3. EndInv /\ [Next]_iterVars => [ret = "end" => NothingThere']_iterVars
      BY EndThenNothing DEF SettledEnd
  <1>4. EndInv /\ [Next]_iterVars /\ (ret = "end" \/ SettledEnd) =>
          (ret = "end" \/ SettledEnd)'
      BY EndThenNothing, NothingForGood DEF iterVars
  <1>5. SettledEnd /\ [Next]_iterVars => SettledEnd'
      BY NothingForGood
  <1>6. (ret = "end" \/ SettledEnd) /\ NothingThere => SettledEnd
      BY DEF NothingThere
  <1>7. SettledEnd => NothingThere
      BY DEF SettledEnd
  <1>8. BenrInv /\ [Next]_iterVars => BenrInv'
      BY BenrInvNext
  <1> QED BY <1>1, <1>2, <1>3, <1>4, <1>5, <1>6, <1>7, <1>8, StepKeepsEnd, PTL
          DEF Spec, EndIsFinal

-----------------------------------------------------------------------------
(* benr_next (benr.c:71) and benp_next (benp.c:65), two tokenizers written
   apart, take the same token off the same bytes wherever an iterator stands. *)
THEOREM OneTokenizer == Spec => []TokenizersAgree
  <1>1. TokenizersAgree
      BY NextsAgree, Zenon DEF TokenizersAgree, Agree, SameResult
  <1> QED BY <1>1, PTL

-----------------------------------------------------------------------------
(* What the iterators hand out of a well-formed message s, of which the data is
   all or the beginning *)

\* where the value begins of the element that the last call began at
At(s) == IF over = "LIST" THEN from ELSE ValueEnd(s, from)

\* kk and vv are the element at from, behind which the container goes on
Taking(s, kk, vv) ==
  /\ from \in 1 .. Len(data)
  /\ ReadAs(vv, s, data, At(s))
  /\ ~IsError(kk)
  /\ over = "DICT" => StringFrom(kk, s, from, At(s))
  /\ Close(s, over, ValueEnd(s, At(s))) = Close(s, over, base)

\* between two calls
AtRest(s) ==
  /\ pc = "idle" /\ ret = "ok"
  /\ \E p \in 1 .. Len(data) + 1 :
       /\ ctx = Rest(data, p)
       /\ Close(s, over, p) = Close(s, over, base)
       /\ val # None => Taking(s, key, val) /\ p = ValueEnd(s, At(s))

AtEnd(s) ==
  /\ pc = "idle" /\ ret = "end"
  /\ from \in 1 .. Len(data) /\ from = Close(s, over, base)

Skipping(s) ==
  /\ pc = "skip" /\ ret = "ok"
  /\ Taking(s, k, v) /\ IsContainer(v)
  /\ \E q \in 1 .. Len(data) + 1 :
       skip = Rest(data, q) /\ Within(s, q, depth, ValueEnd(s, At(s)))

Unopened == over = "none" /\ pc = "idle" /\ ret = "ok" /\ val = None

Iterating(s) ==
  /\ over \in Kinds /\ base \in 1 .. Len(data) + 1 /\ Close(s, over, base) # 0
  /\ AtRest(s) \/ AtEnd(s) \/ Skipping(s)

\* asked again after the end
Spent == over # "none" /\ pc = "idle" /\ ret = "ok" /\ val = None /\ ctx.len = 0

\* Calls fail only where the message is cut short.
Reading(s) ==
  /\ clean => Unopened \/ Iterating(s)
  /\ ~clean => Len(data) < Len(s) \/ Spent

\* the whole message; it may well be longer than what was received
Source(s) == WellFormed(s) /\ Len(s) < UINTMAX /\ Begins(data, s)

\* what is known of the whole message and of the part that was received
LEMMA SourceIs ==
  ASSUME NEW s, Source(s)
  PROVE  /\ Begins(data, s) /\ Len(s) < UINTMAX /\ WellFormed(s)
         /\ s \in Seq(Nat) /\ data \in Seq(Nat)
         /\ Len(s) \in Nat /\ Len(data) \in Nat /\ Len(data) <= Len(s)
  BY BeginsLen, Zenon DEF Source

\* the messages of the model are such messages
LEMMA ValueIsSource ==
  ASSUME NEW s \in Values, Begins(data, s)
  PROVE  Source(s)
  BY ValuesAssumption, Zenon DEF Source

\* containers are of two kinds, and none of the other tokens is of either
LEMMA KindsAre ==
  /\ Kinds = ContainerKinds /\ "none" \notin Kinds
  /\ "STRING" \notin Kinds /\ "INT" \notin Kinds /\ "NONE" \notin Kinds
  /\ Kinds \cap ErrorKinds = {} /\ "X_END" \notin Kinds
  BY DEF Kinds, ContainerKinds, ErrorKinds

\* Opening a container that closes starts an iteration.
LEMMA IterateReads ==
  ASSUME NEW s, Source(s), NEW b, NEW p \in 1 .. Len(data), b.kind \in Kinds,
         b.at = Rest(data, p + 1), Close(s, b.kind, p + 1) # 0,
         pc = "idle", Iterate(b)
  PROVE  Iterating(s)'
<1>1. PICK n \in Nat : n = Len(data)
  BY SourceIs
<1>2. p + 1 \in 1 .. n + 1
  BY <1>1
<1>3. /\ over' = b.kind /\ base' = b.at.pos /\ ctx' = b.at /\ ret' = "ok" /\ val' = None
      /\ data' = data /\ pc' = "idle"
  BY Zenon DEF Iterate
<1>4. b.at.pos = p + 1
  <2>1. data \in Seq(Nat) /\ p + 1 \in 1 .. Len(data) + 1
    BY <1>1, <1>2, SourceIs, Zenon
  <2>2. Rest(data, p + 1).pos = p + 1
    BY <2>1, RestIs, Zenon
  <2>3. QED
    BY <2>2
<1>5. AtRest(s)'
  BY <1>1, <1>2, <1>3, <1>4, Zenon DEF AtRest
<1>6. QED
  BY <1>1, <1>2, <1>3, <1>4, <1>5, Zenon DEF Iterating

\* benr_init opens a whole message
LEMMA OpenReads ==
  ASSUME NEW s, Source(s), Reading(s), OpenMessage
  PROVE  Reading(s)'
<1>1. PICK n \in Nat, m \in Nat : n = Len(data) /\ m = Len(s) /\ n <= m
  BY SourceIs
<1> DEFINE x == BenrNext(data, Whole(data))
           b == BenrInit(data)
<1>2. /\ IsContainer(b) /\ Iterate(b) /\ over = "none" /\ data' = data /\ clean' = clean
  BY Zenon DEF OpenMessage, Iterate
<1>3. b = IF x.b.kind = "X_END" THEN Benr("UNEXPECTED_BYTE", 0, Ctx(1, 0)) ELSE x.b
  BY Zenon DEF BenrInit
<1> HIDE DEF x, b
<1>4. b.kind \in Kinds
  BY <1>2, KindsAre DEF IsContainer
<1>5. b = x.b
  <2>1. Benr("UNEXPECTED_BYTE", 0, Ctx(1, 0)).kind = "UNEXPECTED_BYTE" /\ "UNEXPECTED_BYTE" \notin Kinds
    BY DEF Benr, Kinds
  <2>2. QED
    BY <1>3, <1>4, <2>1
<1>6. Whole(data) = Rest(data, 1)
  BY <1>1 DEF Whole, Rest
<1>7. n # 0
  <2>1. ASSUME n = 0 PROVE FALSE
    <3>1. Len(data) + 1 = 1
      BY <1>1, <2>1
    <3>2. IsNothing(BenrNext(data, Rest(data, 1)), data, 1)
      BY <3>1, SourceIs, NothingLeft
    <3>3. x.b.kind = "NONE"
      BY <1>6, <3>2, Zenon DEF IsNothing, x
    <3>4. QED
      BY <1>4, <1>5, <3>3, KindsAre
  <2>2. QED
    BY <2>1
<1>8. 1 \in 1 .. Len(data) /\ 1 \in 1 .. n
  BY <1>1, <1>7
<1>9. ValueEnd(s, 1) # 0
  <2>1. ValueEnd(s, 1) = m + 1
    BY <1>1, SourceIs DEF WellFormed
  <2>2. QED
    BY <1>1, <2>1
<1>10. CutShort(x, s, data, 1) \/ TakenAs(x, s, data, 1)
  <2>1. \/ CutShort(BenrNext(data, Rest(data, 1)), s, data, 1)
        \/ TakenAs(BenrNext(data, Rest(data, 1)), s, data, 1)
    BY <1>8, <1>9, SourceIs, ValueToken
  <2>2. QED
    BY <1>6, <2>1, Zenon DEF x
<1>11. TakenAs(x, s, data, 1)
  <2>1. x.b.kind \notin ErrorKinds
    BY <1>4, <1>5, KindsAre
  <2>2. QED
    BY <1>10, <2>1, Zenon DEF CutShort
<1>12. b.at = Rest(data, 1 + 1) /\ Close(s, b.kind, 1 + 1) # 0
  BY <1>4, <1>5, <1>11, Zenon DEF TakenAs, ReadAs
<1>13. CASE clean
  <2>1. pc = "idle"
    BY <1>2, <1>13, KindsAre DEF Reading, Unopened, Iterating
  <2>2. Iterating(s)'
    BY <1>2, <1>4, <1>8, <1>12, <2>1, IterateReads
  <2>3. QED
    BY <1>2, <1>13, <2>2, Zenon DEF Reading
<1>14. CASE ~clean
  <2>1. Len(data) < Len(s)
    BY <1>2, <1>14, Zenon DEF Reading, Spent
  <2>2. QED
    BY <1>2, <1>14, <2>1, Zenon DEF Reading
<1>15. QED
  BY <1>13, <1>14

\* an element that is a container is one that closes
LEMMA DescendReads ==
  ASSUME NEW s, Source(s), Reading(s), Descend
  PROVE  Reading(s)'
<1>1. /\ IsContainer(val) /\ Iterate(val) /\ over # "none" /\ pc = "idle" /\ ret = "ok"
      /\ data' = data /\ clean' = clean
  BY Zenon DEF Descend, Iterate
<1>2. val.kind \in Kinds /\ val # None
  <2>1. None.kind = "NONE"
    BY DEF None, Benr
  <2>2. QED
    BY <1>1, <2>1, KindsAre DEF IsContainer
<1>3. CASE clean
  <2>1. AtRest(s)
    BY <1>1, <1>3, Zenon DEF Reading, Unopened, Iterating, AtEnd, Skipping
  <2>2. ReadAs(val, s, data, At(s))
    BY <1>2, <2>1, Zenon DEF AtRest, Taking
  <2>3. /\ At(s) \in 1 .. Len(data) /\ val.at = Rest(data, At(s) + 1)
        /\ Close(s, val.kind, At(s) + 1) # 0
    BY <1>2, <2>2, Zenon DEF ReadAs
  <2>4. Iterating(s)'
    BY <1>1, <1>2, <2>3, IterateReads
  <2>5. QED
    BY <1>1, <1>3, <2>4, Zenon DEF Reading
<1>4. CASE ~clean
  <2>1. Len(data) < Len(s)
    BY <1>2, <1>4, Zenon DEF Reading, Spent
  <2>2. QED
    BY <1>1, <1>4, <2>1, Zenon DEF Reading
<1>5. QED
  BY <1>3, <1>4

\* A call on an iterator that is empty finds nothing.
LEMMA SpentReads ==
  ASSUME NEW s, Source(s), ctx.len = 0, EndInv, pc = "idle", over # "none",
         ListNext \/ DictNext
  PROVE  Spent' /\ ~clean'
<1>1. Return(None, None) /\ UNCHANGED <<ctx, over>>
  BY AskedEmpty
<1>2. pc' = "idle" /\ ret' = "ok" /\ val' = None /\ ~clean'
  BY <1>1, Zenon DEF Return
<1>3. QED
  BY <1>1, <1>2 DEF Spent

\* An element that could not be read: only of a message that is cut short.
LEMMA FailedReads ==
  ASSUME NEW s, data' = data, Len(data) < Len(s), NEW kk, NEW t,
         t.b = None \/ IsError(t.b), Element(kk, t)
  PROVE  Reading(s)'
<1>1. ~IsContainer(t.b)
  BY KindsAre DEF IsError, IsContainer, None, Benr
<1>2. Return(kk, t.b)
  BY <1>1 DEF Element
<1>3. ~clean'
  BY <1>2, Zenon DEF Return
<1>4. QED
  BY <1>3, Zenon DEF Reading

\* An element that was read where the elements go on.
LEMMA ElementReads ==
  ASSUME NEW s, Source(s), clean, ret = "ok",
         over \in Kinds, base \in 1 .. Len(data) + 1, Close(s, over, base) # 0,
         data' = data, over' = over, base' = base, from' \in 1 .. Len(data),
         NEW at, at = (IF over = "LIST" THEN from' ELSE ValueEnd(s, from')),
         NEW t, TakenAs(t, s, data, at),
         NEW kk, ~IsError(kk), over = "DICT" => StringFrom(kk, s, from', at),
         Close(s, over, ValueEnd(s, at)) = Close(s, over, base),
         Element(kk, t)
  PROVE  Reading(s)'
<1>1. At(s)' = at
  BY Zenon DEF At
<1>2. ReadAs(t.b, s, data, at)
  BY DEF TakenAs
<1>3. CASE ~IsContainer(t.b)
  <2>1. ctx' = t.ctx /\ Return(kk, t.b)
    BY <1>3, Zenon DEF Element
  <2>2. /\ pc' = "idle" /\ ret' = "ok" /\ key' = kk /\ val' = t.b
        /\ clean' = (clean /\ ret # "end" /\ t.b # None /\ ~IsError(t.b) /\ ~IsError(kk))
    BY <2>1, Zenon DEF Return
  <2>3. t.b.kind \notin Kinds
    BY <1>3, KindsAre DEF IsContainer
  <2>4. /\ t.ctx = Rest(data, ValueEnd(s, at))
        /\ ValueEnd(s, at) \in 1 .. Len(data) + 1
    BY <2>3, Zenon DEF TakenAs
  <2>5. t.b.kind \in {"STRING", "INT", "LIST", "DICT"}
    BY <1>2, Zenon DEF ReadAs
  <2>6. t.b # None /\ ~IsError(t.b)
    BY <2>5 DEF None, Benr, IsError, ErrorKinds
  <2>7. clean'
    BY <2>2, <2>6
  <2>8. Taking(s, kk, t.b)'
    BY <1>1, <1>2, <2>2, Zenon DEF Taking, IsError
  <2>9. AtRest(s)'
    BY <1>1, <2>1, <2>2, <2>4, <2>8, Zenon DEF AtRest
  <2>10. QED
    BY <2>7, <2>9, Zenon DEF Reading, Iterating
<1>4. CASE IsContainer(t.b)
  <2>1. /\ pc' = "skip" /\ k' = kk /\ v' = t.b /\ skip' = t.ctx /\ depth' = 1
        /\ ret' = ret /\ clean' = clean
    BY <1>4, Zenon DEF Element
  <2>2. t.b.kind \in Kinds
    BY <1>4, KindsAre DEF IsContainer
  <2>3. /\ t.ctx = Rest(data, at + 1) /\ at + 1 \in 1 .. Len(data) + 1
        /\ Within(s, at + 1, 1, ValueEnd(s, at))
    BY <2>2, Zenon DEF TakenAs
  <2>4. Taking(s, kk, t.b)'
    BY <1>1, <1>2, Zenon DEF Taking
  <2>5. Taking(s, k, v)'
    BY <2>1, <2>4, Zenon DEF Taking
  <2>6. Skipping(s)'
    BY <1>1, <1>4, <2>1, <2>3, <2>5, Zenon DEF Skipping, IsContainer
  <2>7. QED
    BY <2>1, <2>6, Zenon DEF Reading, Iterating
<1>5. QED
  BY <1>3, <1>4

\* The end marker ends the iteration.
LEMMA EndReads ==
  ASSUME NEW s, Source(s), clean, ret = "ok",
         over \in Kinds, base \in 1 .. Len(data) + 1, Close(s, over, base) # 0,
         data' = data, over' = over, base' = base, from' \in 1 .. Len(data),
         from' = Close(s, over, base), NEW c, ReturnEnd(c)
  PROVE  Reading(s)'
<1>1. pc' = "idle" /\ ret' = "end" /\ clean'
  BY Zenon DEF ReturnEnd
<1>2. AtEnd(s)'
  BY <1>1, Zenon DEF AtEnd
<1>3. QED
  BY <1>1, <1>2, Zenon DEF Reading, Iterating

\* A call where the elements go on begins with one, with the end marker, or at
\* the end of a message that is cut short.
LEMMA CallBegins ==
  ASSUME NEW s, Source(s), NEW p \in 1 .. Len(data) + 1, NEW kind \in Kinds,
         Close(s, kind, p) # 0
  PROVE  \/ /\ p \in 1 .. Len(data) /\ Close(s, kind, p) = p
            /\ IsEnd(BenrNext(data, Rest(data, p)), data, p)
         \/ /\ p \in 1 .. Len(data) /\ s[p] # E
            /\ p \in 1 .. Len(s)
         \/ Len(data) < Len(s) /\ IsNothing(BenrNext(data, Rest(data, p)), data, p)
<1>1. PICK n \in Nat, m \in Nat : n = Len(data) /\ m = Len(s) /\ n <= m
  BY SourceIs
<1>2. p \in 1 .. m + 1
  BY <1>1
<1>3. CASE p = n + 1
  <2>1. Close(s, kind, p) \in p .. m
    BY <1>1, <1>2, SourceIs, CloseBounds
  <2>2. n < m
    BY <1>1, <1>3, <2>1
  <2>3. IsNothing(BenrNext(data, Rest(data, p)), data, p)
    BY <1>1, <1>3, SourceIs, NothingLeft
  <2>4. QED
    BY <1>1, <2>2, <2>3
<1>4. CASE p # n + 1
  <2>1. p \in 1 .. n /\ p \in 1 .. m
    BY <1>1, <1>4
  <2>2. CASE s[p] = E
    <3>1. IsEnd(BenrNext(data, Rest(data, p)), data, p)
      BY <1>1, <2>1, <2>2, SourceIs, TokenIs, Zenon
    <3>2. Close(s, kind, p) = p
      <4>1. s \in Seq(Nat) /\ p \in 1 .. Len(s)
        BY <1>1, <2>1, SourceIs, Zenon
      <4>2. Close(s, "LIST", p) = p /\ Close(s, "DICT", p) = p
        BY <2>2, <4>1, CloseIs, Zenon
      <4>3. QED
        BY <1>1, <4>2 DEF Kinds
    <3>3. QED
      BY <1>1, <2>1, <3>1, <3>2, Zenon
  <2>3. QED
    BY <1>1, <2>1, <2>2, Zenon
<1>5. QED
  BY <1>3, <1>4

\* a call of benr_list_iter_next
LEMMA ListReads ==
  ASSUME NEW s, Source(s), clean, Iterating(s), AtRest(s), ListNext
  PROVE  Reading(s)'
<1>1. PICK p \in 1 .. Len(data) + 1 : /\ ctx = Rest(data, p)
                                      /\ Close(s, over, p) = Close(s, over, base)
  BY Zenon DEF AtRest
<1>2. /\ over = "LIST" /\ from' = ctx.pos /\ data' = data /\ over' = over /\ base' = base
      /\ ret = "ok"
  BY Zenon DEF ListNext, Call, AtRest
<1>3. from' = p
  BY <1>1, <1>2, SourceIs, RestIs
<1>4. over \in Kinds /\ base \in 1 .. Len(data) + 1 /\ Close(s, over, base) # 0
  BY DEF Iterating
<1> DEFINE x == BenrNext(data, ctx)
<1>5. \/ x.b.kind = "X_END" /\ ReturnEnd(x.ctx)
      \/ x.b.kind # "X_END" /\ Element(None, x)
  BY Zenon DEF ListNext
<1>6. x = BenrNext(data, Rest(data, p))
  BY <1>1
<1>7. ASSUME p \in 1 .. Len(data), s[p] # E, p \in 1 .. Len(s)
      PROVE  /\ Close(s, over, ValueEnd(s, p)) = Close(s, over, base)
             /\ CutShort(x, s, data, p) \/ TakenAs(x, s, data, p)
  <2>1. ValueEnd(s, p) # 0 /\ Close(s, over, ValueEnd(s, p)) = Close(s, over, base)
    BY <1>1, <1>2, <1>4, <1>7, SourceIs, CloseIs, Zenon
  <2>2. CutShort(x, s, data, p) \/ TakenAs(x, s, data, p)
    BY <1>6, <1>7, <2>1, SourceIs, ValueToken, Zenon
  <2>3. QED
    BY <2>1, <2>2
<1>8. \/ p \in 1 .. Len(data) /\ Close(s, over, p) = p /\ IsEnd(x, data, p)
      \/ p \in 1 .. Len(data) /\ s[p] # E /\ p \in 1 .. Len(s)
      \/ Len(data) < Len(s) /\ IsNothing(x, data, p)
  BY <1>1, <1>4, <1>6, CallBegins, Zenon
<1> HIDE DEF x
<1>9. CASE p \in 1 .. Len(data) /\ Close(s, over, p) = p /\ IsEnd(x, data, p)
  <2>1. ReturnEnd(x.ctx)
    BY <1>5, <1>9, Zenon DEF IsEnd
  <2>2. from' \in 1 .. Len(data) /\ from' = Close(s, over, base)
    BY <1>1, <1>3, <1>9, Zenon
  <2>3. QED
    BY <1>2, <1>4, <2>1, <2>2, EndReads, Zenon
<1>10. CASE Len(data) < Len(s) /\ IsNothing(x, data, p)
  <2>1. Element(None, x) /\ x.b = None
    <3>1. "NONE" # "X_END"
      OBVIOUS
    <3>2. QED
      BY <1>5, <1>10, <3>1, Zenon DEF IsNothing
  <2>2. QED
    BY <1>2, <1>10, <2>1, FailedReads, Zenon
<1>11. CASE p \in 1 .. Len(data) /\ s[p] # E /\ p \in 1 .. Len(s)
  <2>1. Close(s, over, ValueEnd(s, p)) = Close(s, over, base)
    BY <1>7, <1>11, Zenon
  <2>2. CASE CutShort(x, s, data, p)
    <3>1. IsError(x.b) /\ Len(data) < Len(s) /\ x.b.kind # "X_END"
      BY <2>2, KindsDiffer, Zenon DEF CutShort, IsError
    <3>2. QED
      BY <1>2, <1>5, <3>1, FailedReads, Zenon
  <2>3. CASE TakenAs(x, s, data, p)
    <3>1. x.b.kind # "X_END"
      BY <2>3 DEF TakenAs, ReadAs
    <3>2. Element(None, x)
      BY <1>5, <3>1, Zenon
    <3>3. ~IsError(None) /\ over # "DICT"
      BY <1>2 DEF None, Benr, IsError, ErrorKinds
    <3>4. p = IF over = "LIST" THEN from' ELSE ValueEnd(s, from')
      BY <1>2, <1>3, Zenon
    <3>5. from' \in 1 .. Len(data)
      BY <1>3, <1>11, Zenon
    <3>6. QED
      BY <1>2, <1>4, <2>1, <2>3, <3>2, <3>3, <3>4, <3>5, ElementReads, Zenon
  <2>4. QED
    BY <1>7, <1>11, <2>2, <2>3, Zenon
<1>12. QED
  BY <1>8, <1>9, <1>10, <1>11, Zenon

\* A call on a dictionary begins with the end marker, with a key and a value, or
\* at the end of a message that is cut short.
NoPair(s, p, x) ==
  p \in 1 .. Len(data) /\ Close(s, "DICT", p) = p /\ x.b.kind = "X_END"

PairFails(s, x, y) ==
  /\ Len(data) < Len(s)
  /\ x.b.kind # "X_END" /\ y.b.kind # "X_END"
  /\ y.b = None \/ IsError(y.b)

Pair(s, p, x, y, at) ==
  /\ p \in 1 .. Len(data)
  /\ x.b.kind # "X_END" /\ y.b.kind # "X_END"
  /\ ~IsError(x.b) /\ StringFrom(x.b, s, p, at)
  /\ at = ValueEnd(s, p) /\ TakenAs(y, s, data, at)
  /\ Close(s, "DICT", ValueEnd(s, at)) = Close(s, "DICT", p)

\* what a call of benr_dict_iter_next finds at a key: a key and a value, the
\* end marker, or a message too short
LEMMA DictBegins ==
  ASSUME NEW s, Source(s), NEW p \in 1 .. Len(data) + 1, Close(s, "DICT", p) # 0,
         NEW x, x = BenrNext(data, Rest(data, p)), NEW y, y = BenrNext(data, x.ctx)
  PROVE  NoPair(s, p, x) \/ PairFails(s, x, y) \/ \E at : Pair(s, p, x, y, at)
<1>1. PICK n \in Nat, m \in Nat : n = Len(data) /\ m = Len(s) /\ n <= m
  BY SourceIs
<1>2. "DICT" \in Kinds /\ "NONE" # "X_END"
  BY DEF Kinds
<1>3. \/ p \in 1 .. n /\ Close(s, "DICT", p) = p /\ IsEnd(x, data, p)
      \/ p \in 1 .. n /\ s[p] # E /\ p \in 1 .. m
      \/ n < m /\ IsNothing(x, data, p)
  BY <1>1, <1>2, CallBegins, Zenon
<1>4. CASE p \in 1 .. n /\ Close(s, "DICT", p) = p /\ IsEnd(x, data, p)
  BY <1>1, <1>4, Zenon DEF IsEnd, NoPair
<1>5. CASE n < m /\ IsNothing(x, data, p)
  <2>1. y = x
    BY <1>5, Zenon DEF IsNothing
  <2>2. QED
    BY <1>1, <1>2, <1>5, <2>1, Zenon DEF IsNothing, PairFails
<1>6. CASE p \in 1 .. n /\ s[p] # E /\ p \in 1 .. m
  <2>1. PICK e : e = StringEnd(s, p)
    OBVIOUS
  <2>2. /\ s[p] \in Digits /\ e # 0 /\ ValueEnd(s, e) # 0
        /\ Close(s, "DICT", ValueEnd(s, e)) = Close(s, "DICT", p)
    BY <1>1, <1>6, <2>1, SourceIs, CloseIs, Zenon
  <2>3. e = ValueEnd(s, p)
    BY <1>1, <1>6, <2>1, <2>2, SourceIs, ValueEndIs, Zenon
  <2>4. CutShort(x, s, data, p) \/ IsString(x, s, data, p, e)
    BY <1>1, <1>6, <2>1, <2>2, SourceIs, TokenIs, Zenon
  <2>5. CASE CutShort(x, s, data, p)
    <3>1. y = x
      BY <2>5, Zenon DEF CutShort
    <3>2. IsError(y.b) /\ Len(data) < Len(s) /\ y.b.kind # "X_END"
      BY <2>5, <3>1, KindsDiffer, Zenon DEF CutShort, IsError
    <3>3. QED
      BY <2>5, <3>1, <3>2, KindsDiffer, Zenon DEF PairFails, CutShort
  <2>6. CASE IsString(x, s, data, p, e)
    <3>1. /\ e \in p + 1 .. n + 1 /\ x.b.kind = "STRING" /\ StringFrom(x.b, s, p, e)
          /\ x.ctx = Rest(data, e)
      BY <1>1, <2>6, Zenon DEF IsString, StringFrom
    <3>2. x.b.kind # "X_END" /\ ~IsError(x.b)
      BY <3>1, KindsDiffer DEF IsError
    <3>3. y = BenrNext(data, Rest(data, e))
      BY <3>1, Zenon
    <3>4. CASE e = n + 1
      <4>1. n < m
        <5>1. ASSUME n = m PROVE FALSE
          <6>1. ValueEnd(s, Len(s) + 1) # 0
            BY <1>1, <2>2, <3>4, <5>1, Zenon
          <6>2. QED
            BY <6>1, SourceIs, ValueEndAtEnd, Zenon
        <5>2. QED
          BY <1>1, <5>1
      <4>2. IsNothing(y, data, e)
        BY <1>1, <3>3, <3>4, SourceIs, NothingLeft, Zenon
      <4>3. QED
        BY <1>1, <1>2, <3>2, <4>1, <4>2, Zenon DEF IsNothing, PairFails
    <3>5. CASE e # n + 1
      <4>1. e \in 1 .. n
        BY <1>6, <3>1, <3>5
      <4>2. CutShort(y, s, data, e) \/ TakenAs(y, s, data, e)
        BY <1>1, <2>2, <3>3, <4>1, SourceIs, ValueToken, Zenon
      <4>3. CASE CutShort(y, s, data, e)
        <5>1. IsError(y.b) /\ Len(data) < Len(s) /\ y.b.kind # "X_END"
          BY <4>3, KindsDiffer, Zenon DEF CutShort, IsError
        <5>2. QED
          BY <3>2, <5>1, Zenon DEF PairFails
      <4>4. CASE TakenAs(y, s, data, e)
        <5>1. y.b.kind # "X_END"
          BY <4>4 DEF TakenAs, ReadAs
        <5>2. QED
          BY <1>1, <1>6, <2>2, <2>3, <3>1, <3>2, <4>4, <5>1, Zenon DEF Pair
      <4>5. QED
        BY <4>2, <4>3, <4>4, Zenon
    <3>6. QED
      BY <3>4, <3>5
  <2>7. QED
    BY <2>4, <2>5, <2>6, Zenon
<1>7. QED
  BY <1>3, <1>4, <1>5, <1>6, Zenon

\* a call of benr_dict_iter_next
LEMMA DictReads ==
  ASSUME NEW s, Source(s), clean, Iterating(s), AtRest(s), DictNext
  PROVE  Reading(s)'
<1>1. PICK p \in 1 .. Len(data) + 1 : /\ ctx = Rest(data, p)
                                      /\ Close(s, over, p) = Close(s, over, base)
  BY Zenon DEF AtRest
<1>2. /\ over = "DICT" /\ from' = ctx.pos /\ data' = data /\ over' = over /\ base' = base
      /\ ret = "ok"
  BY Zenon DEF DictNext, Call, AtRest
<1>3. from' = p
  BY <1>1, <1>2, SourceIs, RestIs
<1>4. over \in Kinds /\ base \in 1 .. Len(data) + 1 /\ Close(s, over, base) # 0
  BY DEF Iterating
<1> DEFINE x == BenrNext(data, ctx)
           y == BenrNext(data, x.ctx)
<1>5. \/ x.b.kind = "X_END" /\ ReturnEnd(x.ctx)
      \/ x.b.kind # "X_END" /\ y.b.kind = "X_END" /\ ReturnEnd(y.ctx)
      \/ x.b.kind # "X_END" /\ y.b.kind # "X_END" /\ Element(x.b, y)
  BY Zenon DEF DictNext
<1>6. x = BenrNext(data, Rest(data, p)) /\ y = BenrNext(data, x.ctx)
  BY <1>1
<1> HIDE DEF x, y
<1>7. NoPair(s, p, x) \/ PairFails(s, x, y) \/ \E at : Pair(s, p, x, y, at)
  <2>1. Close(s, "DICT", p) # 0
    BY <1>1, <1>2, <1>4
  <2>2. QED
    BY <1>6, <2>1, DictBegins, Zenon
<1>8. CASE NoPair(s, p, x)
  <2>1. ReturnEnd(x.ctx)
    BY <1>5, <1>8, Zenon DEF NoPair
  <2>2. from' \in 1 .. Len(data) /\ from' = Close(s, over, base)
    BY <1>1, <1>2, <1>3, <1>8, Zenon DEF NoPair
  <2>3. QED
    BY <1>2, <1>4, <2>1, <2>2, EndReads, Zenon
<1>9. CASE PairFails(s, x, y)
  <2>1. Element(x.b, y)
    BY <1>5, <1>9, Zenon DEF PairFails
  <2>2. QED
    BY <1>2, <1>9, <2>1, FailedReads, Zenon DEF PairFails
<1>10. ASSUME NEW at, Pair(s, p, x, y, at) PROVE Reading(s)'
  <2>1. Element(x.b, y)
    BY <1>5, <1>10, Zenon DEF Pair
  <2>2. at = IF over = "LIST" THEN from' ELSE ValueEnd(s, from')
    BY <1>2, <1>3, <1>10, Zenon DEF Pair
  <2>3. from' \in 1 .. Len(data) /\ StringFrom(x.b, s, from', at)
    BY <1>3, <1>10, Zenon DEF Pair
  <2>4. Close(s, over, ValueEnd(s, at)) = Close(s, over, base)
    BY <1>1, <1>2, <1>10, Zenon DEF Pair
  <2>5. QED
    BY <1>2, <1>4, <1>10, <2>1, <2>2, <2>3, <2>4, ElementReads, Zenon DEF Pair
<1>11. QED
  BY <1>7, <1>8, <1>9, <1>10, Zenon

\* a round of ctx_adv_container
LEMMA SkipReads ==
  ASSUME NEW s, Source(s), clean, Iterating(s), Skipping(s), Skip
  PROVE  Reading(s)'
<1>1. PICK q \in 1 .. Len(data) + 1 :
        skip = Rest(data, q) /\ Within(s, q, depth, ValueEnd(s, At(s)))
  BY Zenon DEF Skipping
<1> DEFINE t == BenrNext(data, skip)
<1>2. t = BenrNext(data, Rest(data, q))
  BY <1>1
<1>3. PICK n \in Nat, m \in Nat : n = Len(data) /\ m = Len(s) /\ n <= m
  BY SourceIs
<1>4. ScanDeeper(t) \/ ScanOn(t) \/ ScanUp(t) \/ Skipped(t) \/ SkipFails(t)
  BY Zenon DEF Skip
<1>5. \/ n < m /\ IsNothing(t, data, q)
      \/ CutShort(t, s, data, q)
      \/ Scanned(t, s, data, q, depth, ValueEnd(s, At(s))) /\ q + 1 \in 1 .. n + 1
  <2>1. CASE q = n + 1
    <3>1. q \in 1 .. m
      BY <1>1, <1>3, SourceIs, PendingIs, Zenon DEF Within, Stack
    <3>2. n < m
      BY <1>3, <2>1, <3>1
    <3>3. IsNothing(t, data, q)
      BY <1>2, <1>3, <2>1, SourceIs, NothingLeft, Zenon
    <3>4. QED
      BY <3>2, <3>3
  <2>2. CASE q # n + 1
    <3>1. q \in 1 .. n
      BY <1>3, <2>2
    <3>2. QED
      BY <1>1, <1>2, <1>3, <3>1, SourceIs, ScanToken, Zenon
  <2>3. QED
    BY <2>1, <2>2
<1> HIDE DEF t
<1>6. /\ data' = data /\ over' = over /\ base' = base /\ from' = from
      /\ over \in Kinds /\ base \in 1 .. Len(data) + 1 /\ Close(s, over, base) # 0
  BY <1>4, Zenon DEF ScanDeeper, ScanOn, ScanUp, Skipped, SkipFails, Scan, Iterating
<1>7. At(s)' = At(s)
  BY <1>6, Zenon DEF At
<1>8. pc = "skip" /\ ret = "ok" /\ Taking(s, k, v) /\ IsContainer(v)
  BY DEF Skipping
<1>9. CASE (n < m /\ IsNothing(t, data, q)) \/ CutShort(t, s, data, q)
  <2>1. (t.b = None \/ t.b.kind \in ErrorKinds) /\ n < m /\ None.kind = "NONE"
    BY <1>3, <1>9, Zenon DEF IsNothing, CutShort, None, Benr
  <2>2. t.b.kind \notin {"X_END", "STRING", "INT", "LIST", "DICT"}
    BY <2>1, KindsDiffer
  <2>3. SkipFails(t)
    BY <1>4, <2>2 DEF ScanDeeper, ScanOn, ScanUp, Skipped, IsContainer, ContainerKinds
  <2>4. ~clean'
    BY <2>3, Zenon DEF SkipFails
  <2>5. QED
    BY <1>3, <1>6, <2>1, <2>4, Zenon DEF Reading
<1>10. CASE Scanned(t, s, data, q, depth, ValueEnd(s, At(s))) /\ q + 1 \in 1 .. n + 1
  <2>1. ASSUME pc' = pc, ret' = ret, k' = k, v' = v, clean' = clean,
               NEW r \in 1 .. Len(data) + 1, skip' = Rest(data, r),
               Within(s, r, depth', ValueEnd(s, At(s)))
        PROVE  Reading(s)'
    <3>1. Taking(s, k, v)'
      BY <1>6, <1>7, <1>8, <2>1, Zenon DEF Taking
    <3>2. Skipping(s)'
      BY <1>6, <1>7, <1>8, <2>1, <3>1, Zenon DEF Skipping, IsContainer
    <3>3. QED
      BY <1>6, <2>1, <3>2, Zenon DEF Reading, Iterating
  <2>2. /\ "X_END" \notin {"STRING", "INT"} /\ "X_END" \notin Kinds
        /\ Kinds \cap {"STRING", "INT"} = {} /\ Kinds = ContainerKinds
        /\ None.kind = "NONE" /\ "NONE" \notin {"X_END", "STRING", "INT"} \cup Kinds
        /\ ErrorKinds \cap ({"X_END", "STRING", "INT"} \cup Kinds) = {}
    BY DEF Kinds, ContainerKinds, None, Benr, ErrorKinds
  <2>3. depth = 1 => ~(depth > 1)
    OBVIOUS
  <2>4. CASE ScanDeeper(t)
    <3>1. /\ t.b.kind \in Kinds /\ depth' = depth + 1 /\ skip' = t.ctx
          /\ pc' = pc /\ ret' = ret /\ k' = k /\ v' = v /\ clean' = clean
      BY <2>2, <2>4, Zenon DEF ScanDeeper, IsContainer
    <3>2. PICK r \in 1 .. Len(data) + 1 :
            t.ctx = Rest(data, r) /\ Within(s, r, depth + 1, ValueEnd(s, At(s)))
      BY <1>10, <2>2, <3>1 DEF Scanned
    <3>3. Within(s, r, depth', ValueEnd(s, At(s))) /\ skip' = Rest(data, r)
      BY <3>1, <3>2, Zenon
    <3>4. QED
      BY <2>1, <3>1, <3>3, Zenon
  <2>5. CASE ScanOn(t)
    <3>1. /\ t.b.kind \in {"STRING", "INT"} /\ depth' = depth /\ skip' = t.ctx
          /\ pc' = pc /\ ret' = ret /\ k' = k /\ v' = v /\ clean' = clean
      BY <2>5, Zenon DEF ScanOn
    <3>2. PICK r \in 1 .. Len(data) + 1 :
            t.ctx = Rest(data, r) /\ Within(s, r, depth, ValueEnd(s, At(s)))
      BY <1>10, <2>2, <3>1 DEF Scanned
    <3>3. Within(s, r, depth', ValueEnd(s, At(s))) /\ skip' = Rest(data, r)
      BY <3>1, <3>2, Zenon
    <3>4. QED
      BY <2>1, <3>1, <3>3, Zenon
  <2>6. CASE ScanUp(t)
    <3>1. /\ t.b.kind = "X_END" /\ depth > 1 /\ depth' = depth - 1 /\ skip' = t.ctx
          /\ pc' = pc /\ ret' = ret /\ k' = k /\ v' = v /\ clean' = clean
      BY <2>6, Zenon DEF ScanUp
    <3>2. PICK r \in 1 .. Len(data) + 1 :
            t.ctx = Rest(data, r) /\ Within(s, r, depth - 1, ValueEnd(s, At(s)))
      BY <1>10, <2>2, <2>3, <3>1 DEF Scanned
    <3>3. Within(s, r, depth', ValueEnd(s, At(s))) /\ skip' = Rest(data, r)
      BY <3>1, <3>2, Zenon
    <3>4. QED
      BY <2>1, <3>1, <3>3, Zenon
  <2>7. CASE Skipped(t)
    <3>1. /\ t.b.kind = "X_END" /\ depth = 1 /\ ctx' = t.ctx /\ Return(k, v)
      BY <2>7, Zenon DEF Skipped
    <3>2. /\ pc' = "idle" /\ ret' = "ok" /\ key' = k /\ val' = v
          /\ clean' = (clean /\ ret # "end" /\ v # None /\ ~IsError(v) /\ ~IsError(k))
      BY <3>1, Zenon DEF Return
    <3>3. t.ctx = Rest(data, q + 1) /\ q + 1 = ValueEnd(s, At(s))
      BY <1>10, <2>2, <2>3, <3>1 DEF Scanned
    <3>4. v # None /\ ~IsError(v)
      BY <1>8, KindsAre DEF IsContainer, IsError, None, Benr
    <3>5. ~IsError(k)
      BY <1>8, Zenon DEF Taking
    <3>6. clean'
      BY <1>8, <3>2, <3>4, <3>5
    <3>7. Taking(s, key, val)'
      BY <1>6, <1>7, <1>8, <3>2, Zenon DEF Taking
    <3>8. AtRest(s)'
      <4>1. ctx' = Rest(data, q + 1) /\ q + 1 \in 1 .. Len(data) + 1
        BY <1>3, <1>10, <3>1, <3>3, Zenon
      <4>2. Close(s, over, q + 1) = Close(s, over, base)
        BY <1>8, <3>3, Zenon DEF Taking
      <4>3. QED
        BY <1>6, <1>7, <3>2, <3>3, <3>7, <4>1, <4>2, Zenon DEF AtRest
    <3>9. QED
      BY <1>6, <3>6, <3>8, Zenon DEF Reading, Iterating
  <2>8. CASE SkipFails(t)
    <3>1. t.b.kind \in ErrorKinds \/ t.b.kind = "NONE"
      BY <2>2, <2>8 DEF SkipFails, IsError
    <3>2. QED
      BY <1>10, <2>2, <3>1 DEF Scanned
  <2>9. QED
    BY <1>4, <2>4, <2>5, <2>6, <2>7, <2>8, Zenon
<1>11. QED
  BY <1>3, <1>5, <1>9, <1>10, Zenon

\* Once a call was not clean, none is.
LEMMA NotCleanAgain ==
  ASSUME [Next]_iterVars, ~clean
  PROVE  ~clean'
<1>1. CASE OpenMessage \/ Descend
  BY <1>1, Zenon DEF OpenMessage, Descend, Iterate
<1>2. CASE ListNext \/ DictNext
  <2>1. (\E c : ReturnEnd(c)) \/ (\E kk, t : Element(kk, t))
    BY <1>2, Zenon DEF ListNext, DictNext
  <2>2. QED
    BY <2>1, Zenon DEF ReturnEnd, Element, Return
<1>3. CASE Skip
  BY <1>3, Zenon DEF Skip, ScanDeeper, ScanOn, ScanUp, Skipped, SkipFails, Return
<1>4. CASE UNCHANGED iterVars
  BY <1>4, Zenon DEF iterVars
<1>5. QED
  BY <1>1, <1>2, <1>3, <1>4, Zenon DEF Next

\* no step changes the message
LEMMA DataStays ==
  ASSUME [Next]_iterVars
  PROVE  data' = data
BY Zenon DEF Next, OpenMessage, Descend, Iterate, ListNext, DictNext, Call, Skip,
   ScanDeeper, ScanOn, ScanUp, Skipped, SkipFails, Scan, iterVars

\* every step keeps the invariant, for one whole message ...
LEMMA StepReads ==
  ASSUME EndInv, [Next]_iterVars, NEW s, Source(s), Reading(s)
  PROVE  Reading(s)'
<1>1. data' = data
  BY DataStays
<1>2. ASSUME ~clean, ~Spent PROVE Reading(s)'
  <2>1. Len(data) < Len(s) /\ ~clean'
    BY <1>2, NotCleanAgain, Zenon DEF Reading
  <2>2. QED
    BY <1>1, <2>1, Zenon DEF Reading
<1>3. CASE OpenMessage
  BY <1>3, OpenReads
<1>4. CASE Descend
  BY <1>4, DescendReads
<1>5. CASE ListNext \/ DictNext
  <2>1. pc = "idle" /\ over # "none"
    BY <1>5 DEF ListNext, DictNext, Call
  <2>2. CASE ctx.len = 0 /\ (Spent \/ AtEnd(s))
    <3>1. Spent' /\ ~clean'
      BY <1>5, <2>1, <2>2, SpentReads
    <3>2. QED
      BY <3>1, Zenon DEF Reading
  <2>3. CASE clean
    <3>1. Iterating(s) /\ (AtRest(s) \/ AtEnd(s))
      <4>1. pc # "skip"
        BY <2>1
      <4>2. QED
        BY <2>1, <2>3, <4>1, Zenon DEF Reading, Unopened, Iterating, Skipping
    <3>2. AtEnd(s) => ctx.len = 0
      BY Zenon DEF AtEnd, EndInv
    <3>3. QED
      BY <1>5, <2>2, <2>3, <3>1, <3>2, ListReads, DictReads, Zenon
  <2>4. Spent => ctx.len = 0
    BY DEF Spent
  <2>5. QED
    BY <1>2, <2>2, <2>3, <2>4, Zenon
<1>6. CASE Skip
  <2>1. pc = "skip" /\ pc # "idle"
    BY <1>6 DEF Skip
  <2>2. CASE clean
    <3>1. Iterating(s) /\ Skipping(s)
      BY <2>1, <2>2, Zenon DEF Reading, Unopened, Iterating, AtRest, AtEnd
    <3>2. QED
      BY <1>6, <2>2, <3>1, SkipReads, Zenon
  <2>3. ~Spent
    BY <2>1, Zenon DEF Spent
  <2>4. QED
    BY <1>2, <2>2, <2>3, Zenon
<1>7. CASE UNCHANGED iterVars
  BY <1>7 DEF iterVars, Reading, Unopened, Iterating, AtRest, AtEnd, Skipping, Taking, At,
              Spent, IsError, IsContainer
<1>8. QED
  BY <1>3, <1>4, <1>5, <1>6, <1>7, Zenon DEF Next

\* Of every message that the data may have been, the iterators read the elements.
ReadsInv == \A s : Source(s) => Reading(s)

\* ... it holds at the start ...
LEMMA InitReads == Init => ReadsInv
<1> SUFFICES ASSUME Init, NEW s PROVE Reading(s)
  BY DEF ReadsInv
<1>1. over = "none" /\ pc = "idle" /\ ret = "ok" /\ val = None /\ clean
  BY Zenon DEF Init
<1>2. QED
  BY <1>1, Zenon DEF Reading, Unopened

\* ... and is kept for all of them
LEMMA NextReads == ReadsInv /\ EndInv /\ [Next]_iterVars => ReadsInv'
<1> SUFFICES ASSUME ReadsInv, EndInv, [Next]_iterVars, NEW s, Source(s)'
             PROVE  Reading(s)'
  BY Zenon DEF ReadsInv
<1>1. Source(s)
  BY DataStays, Zenon DEF Source
<1>2. Reading(s)
  BY <1>1, Zenon DEF ReadsInv
<1>3. QED
  BY <1>1, <1>2, StepReads

\* of a whole message it says that every element is read
LEMMA ReadsAll == ReadsInv => ReadsEveryElement
<1> SUFFICES ASSUME ReadsInv, data \in Values, Called PROVE
    /\ ret # "bad"
    /\ ~clean => ctx.len = 0 /\ val = None
    /\ clean /\ ret = "end" => from = Close(data, over, base)
    /\ clean /\ ret = "ok" /\ val # None =>
         LET at == IF over = "LIST" THEN from ELSE ValueEnd(data, from) IN
         /\ ctx.pos = ValueEnd(data, at)
         /\ over = "DICT" => IsStringAt(key, from, at)
         /\ val.kind \in {"STRING", "INT", "LIST", "DICT"}
         /\ val.kind = "STRING" => IsStringAt(val, at, ctx.pos)
         /\ val.kind = "INT" /\ Fits(Integer(data, at)) =>
              val.num = Integer(data, at)
         /\ IsContainer(val) => val.at.pos = at + 1
  BY DEF ReadsEveryElement
<1>1. Begins(data, data)
  <2>1. data \in Seq(Nat)
    BY BytesAre, MessagesAssumption, Zenon
  <2>2. QED
    BY <2>1 DEF Begins, Same
<1>2. Reading(data) /\ Source(data)
  BY <1>1, ValueIsSource, Zenon DEF ReadsInv
<1>3. PICK n \in Nat : n = Len(data) /\ data \in Seq(Nat)
  BY <1>2, SourceIs
<1>4. ASSUME clean PROVE Iterating(data) /\ (AtRest(data) \/ AtEnd(data))
  <2>1. pc # "skip" /\ over # "none"
    BY DEF Called
  <2>2. QED
    BY <1>2, <1>4, <2>1, Zenon DEF Reading, Unopened, Iterating, Skipping
<1>5. ASSUME ~clean PROVE Spent
  <2>1. ~(n < n)
    OBVIOUS
  <2>2. QED
    BY <1>2, <1>3, <1>5, <2>1, Zenon DEF Reading
<1>6. "ok" # "bad" /\ "end" # "bad" /\ "end" # "ok"
  OBVIOUS
<1>7. ret # "bad"
  BY <1>4, <1>5, <1>6, Zenon DEF AtRest, AtEnd, Spent
<1>8. ~clean => ctx.len = 0 /\ val = None
  BY <1>5, Zenon DEF Spent
<1>9. clean /\ ret = "end" => from = Close(data, over, base)
  BY <1>4, <1>6, Zenon DEF AtRest, AtEnd
<1>10. ASSUME clean, ret = "ok", val # None
       PROVE
         LET at == IF over = "LIST" THEN from ELSE ValueEnd(data, from) IN
         /\ ctx.pos = ValueEnd(data, at)
         /\ over = "DICT" => IsStringAt(key, from, at)
         /\ val.kind \in {"STRING", "INT", "LIST", "DICT"}
         /\ val.kind = "STRING" => IsStringAt(val, at, ctx.pos)
         /\ val.kind = "INT" /\ Fits(Integer(data, at)) =>
              val.num = Integer(data, at)
         /\ IsContainer(val) => val.at.pos = at + 1
  <2>1. AtRest(data)
    BY <1>4, <1>6, <1>10, Zenon DEF AtEnd
  <2>2. PICK p \in 1 .. n + 1 : ctx = Rest(data, p) /\ Taking(data, key, val) /\ p = ValueEnd(data, At(data))
    BY <1>3, <1>10, <2>1, Zenon DEF AtRest
  <2>3. ctx.pos = ValueEnd(data, At(data))
    BY <1>3, <2>2, RestIs
  <2>4. /\ ReadAs(val, data, data, At(data))
        /\ over = "DICT" => StringFrom(key, data, from, At(data))
    BY <2>2, Zenon DEF Taking
  <2>5. \A b, p1, e : StringFrom(b, data, p1, e) => IsStringAt(b, p1, e)
    BY Zenon DEF StringFrom, IsStringAt, Span
  <2>6. IsContainer(val) => val.at.pos = At(data) + 1
    <3>1. ASSUME IsContainer(val) PROVE val.at.pos = At(data) + 1
      <4>1. val.at = Rest(data, At(data) + 1)
        BY <2>4, <3>1, KindsAre, Zenon DEF ReadAs, IsContainer
      <4>2. QED
        BY <4>1 DEF Rest, Ctx
    <3>2. QED
      BY <3>1
  <2>7. /\ val.kind \in {"STRING", "INT", "LIST", "DICT"}
        /\ val.kind = "STRING" => StringFrom(val, data, At(data), ValueEnd(data, At(data)))
        /\ val.kind = "INT" /\ Fits(Integer(data, At(data))) => val.num = Integer(data, At(data))
    BY <2>4, Zenon DEF ReadAs
  <2>8. /\ ctx.pos = ValueEnd(data, At(data))
        /\ over = "DICT" => IsStringAt(key, from, At(data))
        /\ val.kind \in {"STRING", "INT", "LIST", "DICT"}
        /\ val.kind = "STRING" => IsStringAt(val, At(data), ctx.pos)
        /\ val.kind = "INT" /\ Fits(Integer(data, At(data))) => val.num = Integer(data, At(data))
        /\ IsContainer(val) => val.at.pos = At(data) + 1
    BY <2>3, <2>4, <2>5, <2>6, <2>7, Zenon
  <2>9. QED
    BY <2>8, Zenon DEF At
<1>11. QED
  BY <1>7, <1>8, <1>9, <1>10, Zenon

\* A message cut short is the beginning of a whole one.
LEMMA CutBegins ==
  ASSUME NEW s \in Values, NEW t \in Cut(s)
  PROVE  Begins(t, s)
<1>1. s \in Seq(Nat) /\ Len(s) \in Nat
  BY BytesAre, MessagesAssumption, Zenon
<1>2. PICK n \in 0 .. Len(s) - 1 : t = SubSeq(s, 1, n)
  BY Zenon DEF Cut
<1>3. n \in Nat /\ n <= Len(s)
  BY <1>1, <1>2
<1>4. t \in Seq(Nat) /\ Len(t) = n /\ \A i \in 1 .. n : t[i] = s[i]
  BY <1>1, <1>2, <1>3
<1>5. QED
  BY <1>1, <1>3, <1>4 DEF Begins, Same

\* and of one cut short that its end is not taken for one
LEMMA ReadsNoMore == ReadsInv => TruncationIsNoticed
<1> SUFFICES ASSUME ReadsInv, data \in Truncated, Called, clean, ret = "end"
             PROVE  from = Close(data, over, base)
  BY DEF TruncationIsNoticed
<1>1. PICK s \in Values : data \in Cut(s)
  BY Zenon DEF Truncated
<1>2. Begins(data, s) /\ Reading(s) /\ Source(s)
  BY <1>1, CutBegins, ValueIsSource, Zenon DEF ReadsInv
<1>3. Iterating(s) /\ AtEnd(s)
  <2>1. pc # "skip" /\ over # "none" /\ ret # "ok"
    BY DEF Called
  <2>2. QED
    BY <1>2, <2>1, Zenon DEF Reading, Unopened, Iterating, Skipping, AtRest
<1>4. /\ over \in Kinds /\ base \in 1 .. Len(data) + 1 /\ Close(s, over, base) # 0
      /\ from \in 1 .. Len(data) /\ from = Close(s, over, base)
  BY <1>3, Zenon DEF Iterating, AtEnd
<1>5. KeepsClose(s, data, over, base)
  BY <1>2, <1>4, GrammarKept, Zenon
<1>6. PICK n \in Nat : n = Len(data)
  BY <1>2, SourceIs
<1>7. from <= n
  BY <1>4, <1>6
<1>8. QED
  BY <1>4, <1>5, <1>6, <1>7 DEF KeepsClose

\* the end of an iteration is final, as an invariant
LEMMA EndInvHolds == Spec => []EndInv
<1>1. Init => EndInv
  BY DEF Init, EndInv
<1>2. QED
  BY <1>1, InitInside, BenrInvNext, StepKeepsEnd, PTL DEF Spec

(* The iterators of benr.c give the elements of every well-formed container. *)
THEOREM EveryElementRead == Spec => []ReadsEveryElement
BY InitReads, NextReads, ReadsAll, EndInvHolds, PTL DEF Spec

(* -1 is never returned before the end marker that closes the container. *)
THEOREM NoFalseEnd == Spec => []TruncationIsNoticed
BY InitReads, NextReads, ReadsNoMore, EndInvHolds, PTL DEF Spec

-----------------------------------------------------------------------------
(* The cost of reading to the bottom *)

\* "R(N) = N + (N - 2) + (N - 2 - 2) + (N - 6) ...", as far as R(last)
MostReads(last) ==
  LET R[n \in 0 .. last] == IF n < 2 THEN n ELSE n + R[n - 2]
  IN R

\* there is such a function
LEMMA MostReadsIs ==
  ASSUME NEW last \in Nat
  PROVE  /\ MostReads(last) \in [0 .. last -> Nat]
         /\ \A n \in 0 .. last :
              MostReads(last)[n] = IF n < 2 THEN n ELSE n + MostReads(last)[n - 2]
<1> DEFINE S == 0 .. last
           rank == [n \in S |-> n]
           F == [n \in S |-> [f \in [S -> Nat] |-> IF n < 2 THEN n ELSE n + f[n - 2]]]
<1>1. rank \in [S -> Nat] /\ \A n \in S : rank[n] = n
  OBVIOUS
<1>2. \A n \in S : n \in Nat /\ (~(n < 2) => n - 2 \in S /\ n - 2 < n)
  OBVIOUS
<1> HIDE DEF S, rank
<1>3. ASSUME NEW n \in S, NEW f \in [S -> Nat]
      PROVE  (IF n < 2 THEN n ELSE n + f[n - 2]) \in Nat
  <2>1. CASE n < 2
    BY <1>2, <2>1
  <2>2. CASE ~(n < 2)
    <3>1. n \in Nat /\ f[n - 2] \in Nat
      BY <1>2, <2>2
    <3>2. QED
      BY <2>2, <3>1
  <2>3. QED
    BY <2>1, <2>2
<1>4. F \in [S -> [[S -> Nat] -> Nat]]
  BY <1>3
<1>5. \A n \in S, f \in [S -> Nat] : F[n][f] = IF n < 2 THEN n ELSE n + f[n - 2]
  OBVIOUS
<1> HIDE DEF F
<1>6. ASSUME NEW n \in S, NEW g \in [S -> Nat], NEW h \in [S -> Nat],
             \A m \in S : rank[m] < rank[n] => g[m] = h[m]
      PROVE  F[n][g] = F[n][h]
  <2>1. ~(n < 2) => g[n - 2] = h[n - 2]
    BY <1>1, <1>2, <1>6
  <2>2. QED
    BY <1>5, <2>1, Zenon
<1>7. Recursion(F, rank, S, Nat)
  BY <1>1, <1>4, <1>6, Zenon DEF Recursion
<1>8. PICK f \in [S -> Nat] : \A n \in S : f[n] = F[n][f]
  BY <1>7, RecursionHasFunction
<1>9. f = [n \in S |-> IF n < 2 THEN n ELSE n + f[n - 2]]
  <2>1. \A n \in S : f[n] = IF n < 2 THEN n ELSE n + f[n - 2]
    BY <1>5, <1>8, Zenon
  <2>2. f = [n \in S |-> f[n]]
    OBVIOUS
  <2>3. QED
    BY <2>1, <2>2, Zenon
<1> DEFINE r == CHOOSE r : r = [n \in S |-> IF n < 2 THEN n ELSE n + r[n - 2]]
<1>10. r = [n \in S |-> IF n < 2 THEN n ELSE n + r[n - 2]]
  BY <1>9, Zenon
<1>11. MostReads(last) = r
  BY Zenon DEF MostReads, S
<1> HIDE DEF r
<1>12. \A n \in S : r[n] = IF n < 2 THEN n ELSE n + r[n - 2]
  BY <1>10, Zenon
<1>13. \A n \in S : r[n] \in Nat
  <2> DEFINE Bad == {n \in S : r[n] \notin Nat}
  <2>1. ASSUME NEW n \in Bad PROVE \E m \in Bad : rank[m] < rank[n]
    <3>1. n \in S /\ r[n] \notin Nat
      OBVIOUS
    <3>2. ~(n < 2)
      BY <1>2, <1>12, <3>1
    <3>3. n - 2 \in S /\ r[n] = n + r[n - 2] /\ n \in Nat
      BY <1>2, <1>12, <3>1, <3>2
    <3>4. r[n - 2] \notin Nat
      BY <3>1, <3>3
    <3>5. n - 2 \in Bad /\ rank[n - 2] < rank[n]
      BY <1>1, <1>2, <3>1, <3>2, <3>3, <3>4
    <3>6. QED
      BY <3>5
  <2>2. Bad \subseteq S
    OBVIOUS
  <2>3. Bad = {}
    <3> HIDE DEF Bad
    <3>1. QED
      BY <1>1, <2>1, <2>2, NoDescent, Zenon
  <2>4. QED
    BY <2>3
<1>14. r \in [S -> Nat]
  BY <1>10, <1>13
<1>15. QED
  BY <1>11, <1>12, <1>14 DEF S

\* one byte more costs one byte more at least
LEMMA MostReadsGrows ==
  ASSUME NEW last \in Nat, NEW R, R = MostReads(last), NEW n \in 0 .. last - 1
  PROVE  1 + R[n] <= R[n + 1]
<1> DEFINE Bad == {i \in 0 .. last : i < last /\ ~(1 + R[i] <= R[i + 1])}
           rank == [i \in 0 .. last |-> i]
<1>1. R \in [0 .. last -> Nat]
      /\ \A i \in 0 .. last : R[i] = IF i < 2 THEN i ELSE i + R[i - 2]
  BY MostReadsIs
<1>2. ASSUME NEW i \in Bad PROVE \E j \in Bad : rank[j] < rank[i]
  <2>1. i \in 0 .. last /\ i + 1 \in 0 .. last /\ ~(1 + R[i] <= R[i + 1])
    OBVIOUS
  <2>2. R[i] = (IF i < 2 THEN i ELSE i + R[i - 2])
        /\ R[i + 1] = (IF i + 1 < 2 THEN i + 1 ELSE i + 1 + R[i + 1 - 2])
    BY <1>1, <2>1
  <2>3. ~(i < 2)
    <3>1. i # 0
      BY <2>1, <2>2
    <3>2. ASSUME i = 1 PROVE FALSE
      <4>1. R[2] = 2 + R[0] /\ R[1] = 1
        BY <2>2, <3>2
      <4>2. R[0] = 0
        BY <1>1
      <4>3. QED
        BY <2>1, <3>2, <4>1, <4>2
    <3>3. QED
      BY <2>1, <3>1, <3>2
  <2>4. i - 2 \in 0 .. last /\ i - 2 < last /\ i - 1 \in 0 .. last
        /\ R[i] = i + R[i - 2] /\ R[i + 1] = i + 1 + R[i - 1]
    BY <2>1, <2>2, <2>3
  <2>5. R[i] \in Nat /\ R[i - 2] \in Nat /\ R[i - 1] \in Nat
    BY <1>1, <2>1, <2>4
  <2>6. ~(1 + R[i - 2] <= R[i - 1])
    BY <2>1, <2>4, <2>5
  <2>7. i - 2 + 1 = i - 1
    BY <2>1
  <2>8. i - 2 \in Bad /\ rank[i - 2] < rank[i]
    BY <2>1, <2>4, <2>6, <2>7
  <2>9. QED
    BY <2>8
<1>3. Bad \subseteq 0 .. last /\ rank \in [0 .. last -> Nat]
  OBVIOUS
<1>4. Bad = {}
  <2> HIDE DEF Bad, rank
  <2>1. QED
    BY <1>2, <1>3, NoDescent, Zenon
<1>5. QED
  BY <1>4

\* two messages cost no more than one as long as both
LEMMA MostReadsAdds ==
  ASSUME NEW last \in Nat, NEW R, R = MostReads(last),
         NEW a \in Nat, NEW b \in Nat, a + b <= last
  PROVE  R[a] + R[b] <= R[a + b]
<1> DEFINE Bad == {i \in 0 .. last : i + b <= last /\ ~(R[i] + R[b] <= R[i + b])}
           rank == [i \in 0 .. last |-> i]
<1>1. R \in [0 .. last -> Nat]
      /\ \A i \in 0 .. last : R[i] = IF i < 2 THEN i ELSE i + R[i - 2]
  BY MostReadsIs
<1>2. ASSUME NEW i \in Bad PROVE \E j \in Bad : rank[j] < rank[i]
  <2>1. /\ i \in 0 .. last /\ i + b \in 0 .. last /\ b \in 0 .. last
        /\ ~(R[i] + R[b] <= R[i + b])
    OBVIOUS
  <2>2. R[i] = (IF i < 2 THEN i ELSE i + R[i - 2])
        /\ R[i + b] = (IF i + b < 2 THEN i + b ELSE i + b + R[i + b - 2])
    BY <1>1, <2>1
  <2>3. R[b] \in Nat /\ R[i + b] \in Nat
    BY <1>1, <2>1
  <2>4. ~(i < 2)
    <3>1. ASSUME i = 0 PROVE FALSE
      <4>1. R[i] = 0 /\ i + b = b
        BY <2>2, <3>1
      <4>2. QED
        BY <2>1, <2>3, <4>1
    <3>2. ASSUME i = 1 PROVE FALSE
      <4>1. R[i] = 1 /\ i + b = b + 1 /\ b \in 0 .. last - 1
        BY <2>1, <2>2, <3>2
      <4>2. 1 + R[b] <= R[b + 1]
        BY <4>1, MostReadsGrows
      <4>3. QED
        BY <2>1, <2>3, <4>1, <4>2
    <3>3. QED
      BY <2>1, <3>1, <3>2
  <2>5. /\ i - 2 \in 0 .. last /\ i - 2 + b \in 0 .. last
        /\ i + b - 2 = i - 2 + b /\ ~(i + b < 2)
    BY <2>1, <2>4
  <2>6. R[i] = i + R[i - 2] /\ R[i + b] = i + b + R[i - 2 + b]
    BY <2>2, <2>4, <2>5
  <2>7. R[i - 2] \in Nat /\ R[i - 2 + b] \in Nat
    BY <1>1, <2>5
  <2>8. ~(R[i - 2] + R[b] <= R[i - 2 + b])
    BY <2>1, <2>3, <2>6, <2>7
  <2>9. i - 2 \in Bad /\ rank[i - 2] < rank[i]
    BY <2>1, <2>5, <2>8
  <2>10. QED
    BY <2>9
<1>3. Bad \subseteq 0 .. last /\ rank \in [0 .. last -> Nat]
  OBVIOUS
<1>4. Bad = {}
  <2> HIDE DEF Bad, rank
  <2>1. QED
    BY <1>2, <1>3, NoDescent, Zenon
<1>5. a \in 0 .. last
  OBVIOUS
<1>6. QED
  BY <1>4, <1>5

\* reading a message once is the least of it
LEMMA MostReadsOnce ==
  ASSUME NEW last \in Nat, NEW n \in 0 .. last
  PROVE  n <= MostReads(last)[n]
<1>1. MostReads(last)[n] = IF n < 2 THEN n ELSE n + MostReads(last)[n - 2]
  BY MostReadsIs
<1>2. CASE n < 2
  BY <1>1, <1>2
<1>3. CASE ~(n < 2)
  <2>1. n - 2 \in 0 .. last
    BY <1>3
  <2>2. MostReads(last)[n - 2] \in Nat
    BY <2>1, MostReadsIs
  <2>3. QED
    BY <1>1, <1>3, <2>2
<1>4. QED
  BY <1>2, <1>3

-----------------------------------------------------------------------------
(* The walk through a well-formed message *)

\* the message is s, which is well-formed
IsMessage(s) == data = s /\ Source(s) /\ data \in Seq(0 .. 255)

\* what reading from p to an end marker at c may cost, of a message of n bytes: the
\* bytes, the end marker too, and what is in the elements
ReadsTo(n, p, c) == c + 1 - p + MostReads(n)[c - p]

\* what reading the elements of a container from p on may cost
Cost(s, kind, p) == ReadsTo(Len(s), p, Close(s, kind, p))

\* what is known of the message
LEMMA MessageIs ==
  ASSUME NEW s, IsMessage(s)
  PROVE  /\ data = s /\ Source(s) /\ s \in Seq(Nat) /\ Len(s) \in Nat /\ data \in Seq(0 .. 255)
         /\ Begins(data, s) /\ Len(s) < UINTMAX /\ ValueEnd(s, 1) = Len(s) + 1
         /\ Len(s) # 0 /\ ~(Len(data) < Len(s))
<1>1. data = s /\ Source(s) /\ data \in Seq(0 .. 255)
  BY Zenon DEF IsMessage
<1>2. s \in Seq(Nat) /\ Len(s) \in Nat /\ Begins(data, s) /\ Len(s) < UINTMAX /\ WellFormed(s)
  BY <1>1, SourceIs
<1>3. ValueEnd(s, 1) = Len(s) + 1 /\ s # <<>>
  BY <1>2, Zenon DEF WellFormed
<1>4. Len(s) # 0
  BY <1>2, <1>3
<1>5. ~(Len(data) < Len(s))
  BY <1>1, <1>2
<1>6. QED
  BY <1>1, <1>2, <1>3, <1>4, <1>5

\* what is between p and c costs no more in parts: up to at, up to e, and the rest
LEMMA PartsCost ==
  ASSUME NEW n \in Nat, NEW p \in Nat, NEW at \in Nat, NEW e \in Nat, NEW c \in Nat,
         p <= at, at < e, e <= c, c <= n, NEW R, R = MostReads(n)
  PROVE  /\ R[c - p] \in Nat /\ R[c - e] \in Nat /\ R[e - at] \in Nat
         /\ R[e - at] + R[c - e] <= R[c - p]
<1>1. R \in [0 .. n -> Nat]
  BY MostReadsIs
<1>2. e - at \in Nat /\ c - e \in Nat /\ at - p \in Nat
  OBVIOUS
<1>3. PICK x \in Nat : x = e - at
  BY <1>2
<1>4. PICK y \in Nat : y = c - e
  BY <1>2
<1>5. PICK z \in Nat : z = at - p
  BY <1>2
<1>6. c - p = x + y + z /\ x + y + z <= n /\ x + y <= n /\ x + y \in Nat
  BY <1>3, <1>4, <1>5
<1>7. x \in 0 .. n /\ y \in 0 .. n /\ z \in 0 .. n /\ x + y \in 0 .. n /\ x + y + z \in 0 .. n
  BY <1>6
<1>8. R[x] \in Nat /\ R[y] \in Nat /\ R[z] \in Nat /\ R[x + y] \in Nat /\ R[x + y + z] \in Nat
  BY <1>1, <1>7
<1>9. R[x] + R[y] <= R[x + y]
  BY <1>6, MostReadsAdds
<1>10. R[x + y] + R[z] <= R[x + y + z]
  BY <1>6, MostReadsAdds
<1>11. QED
  BY <1>3, <1>4, <1>6, <1>8, <1>9, <1>10

\* what the two ends of a container add to what is inside it
LEMMA InnerCosts ==
  ASSUME NEW n \in Nat, NEW w \in Nat, w + 2 <= n
  PROVE  MostReads(n)[w] \in Nat /\ MostReads(n)[w + 2] = w + 2 + MostReads(n)[w]
<1>1. PICK u \in Nat : u = w + 2
  OBVIOUS
<1>2. w \in 0 .. n /\ u \in 0 .. n /\ u - 2 = w /\ ~(u < 2)
  BY <1>1
<1>3. MostReads(n)[w] \in Nat
  BY <1>2, MostReadsIs
<1>4. MostReads(n)[u] = IF u < 2 THEN u ELSE u + MostReads(n)[u - 2]
  BY <1>2, MostReadsIs
<1>5. MostReads(n)[u] = u + MostReads(n)[w]
  BY <1>2, <1>4
<1>6. QED
  BY <1>1, <1>3, <1>5

\* an element that ends at e, and what follows it
LEMMA PartsRead ==
  ASSUME NEW n \in Nat, NEW p \in Nat, NEW at \in Nat, NEW e \in Nat, NEW c \in Nat,
         p <= at, at < e, e <= c, c <= n
  PROVE  /\ ReadsTo(n, p, c) \in Nat /\ ReadsTo(n, e, c) \in Nat
         /\ e - p + ReadsTo(n, e, c) <= ReadsTo(n, p, c)
<1>1. PICK R : R = MostReads(n)
  OBVIOUS
<1>2. /\ R[c - p] \in Nat /\ R[c - e] \in Nat /\ R[e - at] \in Nat
      /\ R[e - at] + R[c - e] <= R[c - p]
  BY <1>1, PartsCost
<1>3. PICK x \in Nat, y \in Nat, z \in Nat :
        x = R[c - p] /\ y = R[c - e] /\ z = R[e - at] /\ z + y <= x
  BY <1>2
<1>4. ReadsTo(n, p, c) = c + 1 - p + x /\ ReadsTo(n, e, c) = c + 1 - e + y
  <2>1. /\ ReadsTo(n, p, c) = c + 1 - p + MostReads(n)[c - p]
        /\ ReadsTo(n, e, c) = c + 1 - e + MostReads(n)[c - e]
    BY DEF ReadsTo
  <2>2. QED
    BY <1>1, <1>3, <2>1
<1>5. y <= x
  BY <1>3
<1>6. c + 1 - p + x \in Nat /\ c + 1 - e + y \in Nat
      /\ e - p + (c + 1 - e + y) <= c + 1 - p + x
  BY <1>5
<1>7. QED
  BY <1>4, <1>6, Zenon

\* a container at at that closes at d, its elements, and what follows it
LEMMA InnerRead ==
  ASSUME NEW n \in Nat, NEW p \in Nat, NEW at \in Nat, NEW d \in Nat, NEW c \in Nat,
         NEW e \in Nat, d < e, e <= d + 1,
         1 <= p, p <= at, at + 1 <= d, e <= c, c <= n
  PROVE  /\ ReadsTo(n, at + 1, d) \in Nat
         /\ e - p + ReadsTo(n, at + 1, d) + ReadsTo(n, e, c) <= ReadsTo(n, p, c)
<1> DEFINE R == MostReads(n)
<1>1. PICK w \in Nat : w = d - (at + 1) /\ w + 2 = e - at /\ w + 2 <= n
  <2>1. d - (at + 1) \in Nat
    OBVIOUS
  <2>2. QED
    BY <2>1
<1>2. at < e
  OBVIOUS
<1>3. /\ R[c - p] \in Nat /\ R[c - e] \in Nat /\ R[e - at] \in Nat
      /\ R[e - at] + R[c - e] <= R[c - p]
  BY <1>2, PartsCost, Zenon
<1>4. R[w] \in Nat /\ R[w + 2] = w + 2 + R[w]
  BY <1>1, InnerCosts
<1>5. PICK x \in Nat, y \in Nat, z \in Nat, i \in Nat :
        /\ x = R[c - p] /\ y = R[c - e] /\ z = R[e - at] /\ i = R[w]
        /\ z + y <= x
  BY <1>3, <1>4
<1>6. R[e - at] = R[w + 2]
  BY <1>1, Zenon
<1>7. z = w + 2 + i
  BY <1>4, <1>5, <1>6, Zenon
<1>8. /\ ReadsTo(n, p, c) = c + 1 - p + x /\ ReadsTo(n, e, c) = c + 1 - e + y
      /\ ReadsTo(n, at + 1, d) = d + 1 - (at + 1) + i
  <2>1. /\ ReadsTo(n, p, c) = c + 1 - p + R[c - p]
        /\ ReadsTo(n, e, c) = c + 1 - e + R[c - e]
        /\ ReadsTo(n, at + 1, d) = d + 1 - (at + 1) + R[d - (at + 1)]
    BY DEF ReadsTo
  <2>2. R[d - (at + 1)] = R[w]
    BY <1>1, Zenon
  <2> HIDE DEF R
  <2>3. QED
    BY <1>5, <2>1, <2>2, Zenon
<1>9. d + 1 - (at + 1) = w + 1
  BY <1>1
<1>10. /\ d + 1 - (at + 1) + i \in Nat
       /\ e - p + (d + 1 - (at + 1) + i) + (c + 1 - e + y) <= c + 1 - p + x
  BY <1>1, <1>5, <1>7, <1>9
<1>11. QED
  BY <1>8, <1>10, Zenon

\* a container, in which an element is at at and ends at e, costs no more than the
\* bytes up to e, the element, and what follows
LEMMA ElementCosts ==
  ASSUME NEW s \in Seq(Nat), NEW kind \in Kinds, NEW p \in Nat, NEW at \in Nat, NEW e \in Nat,
         1 <= p, p <= at, at < e, e <= Len(s) + 1,
         Close(s, kind, p) # 0, Close(s, kind, e) = Close(s, kind, p)
  PROVE  /\ Cost(s, kind, p) \in Nat /\ Cost(s, kind, e) \in Nat
         /\ e - p + Cost(s, kind, e) <= Cost(s, kind, p)
         /\ \A inner \in Kinds :
              Close(s, inner, at + 1) # 0 /\ e = Close(s, inner, at + 1) + 1 =>
                /\ Cost(s, inner, at + 1) \in Nat
                /\ e - p + Cost(s, inner, at + 1) + Cost(s, kind, e) <= Cost(s, kind, p)
<1>1. PICK n \in Nat : n = Len(s)
  OBVIOUS
<1>2. e \in 1 .. Len(s) + 1 /\ at + 1 \in 1 .. Len(s) + 1
  BY <1>1
<1>3. Close(s, kind, p) \in Nat /\ e <= Close(s, kind, p) /\ Close(s, kind, p) <= n
  <2>1. Close(s, kind, e) = 0 \/ Close(s, kind, e) \in e .. Len(s)
    BY <1>2, CloseBounds
  <2>2. QED
    BY <1>1, <2>1
<1>4. PICK c \in Nat : c = Close(s, kind, p)
  BY <1>3
<1>5. e <= c /\ c <= n
  BY <1>3, <1>4, Zenon
<1>6. Cost(s, kind, p) = ReadsTo(n, p, c) /\ Cost(s, kind, e) = ReadsTo(n, e, c)
  BY <1>1, <1>4, Zenon DEF Cost
<1>7. /\ ReadsTo(n, p, c) \in Nat /\ ReadsTo(n, e, c) \in Nat
      /\ e - p + ReadsTo(n, e, c) <= ReadsTo(n, p, c)
  BY <1>5, PartsRead, Zenon
<1>8. ASSUME NEW inner \in Kinds, Close(s, inner, at + 1) # 0,
              e = Close(s, inner, at + 1) + 1
       PROVE  /\ Cost(s, inner, at + 1) \in Nat
              /\ e - p + Cost(s, inner, at + 1) + Cost(s, kind, e) <= Cost(s, kind, p)
  <2>1. Close(s, inner, at + 1) \in at + 1 .. Len(s)
    BY <1>2, <1>8, CloseBounds
  <2>2. Close(s, inner, at + 1) \in Nat /\ at + 1 <= Close(s, inner, at + 1)
    BY <1>1, <2>1
  <2>3. PICK d \in Nat : d = Close(s, inner, at + 1)
    BY <2>2
  <2>4. at + 1 <= d
    BY <2>2, <2>3, Zenon
  <2>5. d < e /\ e <= d + 1
    <3>1. e = d + 1
      BY <1>8, <2>3
    <3>2. QED
      BY <3>1
  <2>6. /\ ReadsTo(n, at + 1, d) \in Nat
        /\ e - p + ReadsTo(n, at + 1, d) + ReadsTo(n, e, c) <= ReadsTo(n, p, c)
    BY <1>5, <2>4, <2>5, InnerRead, Zenon
  <2>7. Cost(s, inner, at + 1) = ReadsTo(n, at + 1, d)
    BY <1>1, <2>3, Zenon DEF Cost
  <2>8. QED
    BY <1>6, <2>6, <2>7, Zenon
<1>9. QED
  BY <1>6, <1>7, <1>8, Zenon

\* a container that closes costs a byte at least, its end marker
LEMMA ContainerCosts ==
  ASSUME NEW s \in Seq(Nat), NEW kind \in Kinds, NEW p \in 1 .. Len(s) + 1,
         Close(s, kind, p) # 0
  PROVE  /\ Cost(s, kind, p) \in Nat /\ 1 <= Cost(s, kind, p)
         /\ Close(s, kind, p) \in p .. Len(s)
<1>1. PICK n \in Nat : n = Len(s)
  OBVIOUS
<1>2. PICK c : c = Close(s, kind, p)
  OBVIOUS
<1>3. c \in p .. n
  BY <1>1, <1>2, CloseBounds
<1>4. c - p \in 0 .. n
  BY <1>1, <1>3
<1>5. MostReads(n)[c - p] \in Nat
  BY <1>4, MostReadsIs
<1>6. Cost(s, kind, p) = c + 1 - p + MostReads(n)[c - p]
  BY <1>1, <1>2, Zenon DEF Cost, ReadsTo
<1>7. PICK m \in Nat : m = MostReads(n)[c - p]
  BY <1>5
<1>8. c + 1 - p + m \in Nat /\ 1 <= c + 1 - p + m
  BY <1>3, <1>7
<1>9. QED
  BY <1>1, <1>2, <1>3, <1>6, <1>7, <1>8, Zenon

\* the bytes read to take a token
LEMMA ExaminedIs ==
  ASSUME NEW s, IsMessage(s), NEW q \in 1 .. Len(s) + 1, NEW r \in 1 .. Len(s) + 1,
         NEW t, t = BenrNext(data, Rest(s, q)), t.ctx = Rest(s, r)
  PROVE  Examined(t, Rest(s, q)) \in Int /\ Examined(t, Rest(s, q)) <= r - q
<1>1. s \in Seq(Nat) /\ data = s /\ data \in Seq(0 .. 255) /\ Len(s) \in Nat
  BY MessageIs
<1>2. Rest(s, q).pos = q /\ Rest(s, r).pos = r
  BY <1>1, RestIs
<1>3. Inside(Rest(s, q))
  BY <1>1 DEF Rest, Ctx, Inside
<1>4. t.b.at.len \in Nat
  BY <1>1, <1>3, NextTaken DEF Taken, Inside
<1>5. Examined(t, Rest(s, q)) = r - q - (IF t.b.kind = "STRING" THEN t.b.at.len ELSE 0)
  BY <1>2, Zenon DEF Examined
<1>6. QED
  BY <1>4, <1>5

\* inside a container there is a byte before its end
LEMMA WithinEnds ==
  ASSUME NEW s \in Seq(Nat), NEW q, NEW deep, NEW end, Within(s, q, deep, end)
  PROVE  q \in 1 .. Len(s) /\ end \in Nat /\ q < end /\ end <= Len(s) + 1
<1>1. PICK close : Stack(s, q, close, deep, end)
  BY DEF Within
<1>2. PICK d \in Nat \ {0} : d = deep
  BY <1>1 DEF Stack
<1>3. /\ close \in [1 .. d -> Nat] /\ Pending(s, q, close[d]) /\ close[1] + 1 = end
      /\ \A j \in 2 .. d : Pending(s, close[j] + 1, close[j - 1])
  BY <1>1, <1>2 DEF Stack
<1>4. PICK n \in Nat : n = Len(s)
  OBVIOUS
<1>5. ASSUME NEW r, NEW c, Pending(s, r, c)
      PROVE  r \in 1 .. n /\ c \in 1 .. n /\ r <= c
  <2>1. r \in 1 .. n /\ c \in 1 .. n
    BY <1>4, <1>5, PendingIs
  <2>2. ASSUME NEW x \in 1 .. n + 1, Close(s, "LIST", x) = c \/ Close(s, "DICT", x) = c
        PROVE  x <= c
    <3>1. /\ Close(s, "LIST", x) = 0 \/ Close(s, "LIST", x) \in x .. n
          /\ Close(s, "DICT", x) = 0 \/ Close(s, "DICT", x) \in x .. n
      BY <1>4, CloseBounds DEF Kinds
    <3>2. QED
      BY <2>1, <2>2, <3>1
  <2>3. CASE Close(s, "LIST", r) = c \/ Close(s, "DICT", r) = c
    <3>1. r \in 1 .. n + 1
      BY <2>1
    <3>2. QED
      BY <2>1, <2>2, <2>3, <3>1
  <2>4. CASE ValueEnd(s, r) # 0 /\ Close(s, "DICT", ValueEnd(s, r)) = c
    <3>1. ValueEnd(s, r) \in r + 1 .. n + 1
      BY <1>4, <2>1, <2>4, ValueEndIs
    <3>2. ValueEnd(s, r) \in 1 .. n + 1 /\ r < ValueEnd(s, r)
      BY <2>1, <3>1
    <3>3. ValueEnd(s, r) <= c
      BY <2>2, <2>4, <3>2
    <3>4. QED
      BY <2>1, <3>2, <3>3
  <2>5. QED
    BY <1>5, <2>1, <2>3, <2>4 DEF Pending
<1>6. \A j \in 1 .. d : j # 1 => j - 1 \in 1 .. d /\ close[j] < close[j - 1]
  <2>1. SUFFICES ASSUME NEW j \in 1 .. d, j # 1
                 PROVE  j - 1 \in 1 .. d /\ close[j] < close[j - 1]
    OBVIOUS
  <2>2. j \in 2 .. d /\ j - 1 \in 1 .. d
    BY <2>1
  <2>3. close[j] + 1 <= close[j - 1]
    BY <1>3, <1>5, <2>2
  <2>4. close[j] \in Nat /\ close[j - 1] \in Nat
    BY <1>3, <2>2
  <2>5. QED
    BY <2>2, <2>3, <2>4
<1> DEFINE Bad == {j \in 1 .. d : ~(close[j] <= close[1])}
           rank == [j \in 1 .. d |-> j]
<1>7. ASSUME NEW j \in Bad PROVE \E i \in Bad : rank[i] < rank[j]
  <2>1. j \in 1 .. d /\ 1 \in 1 .. d /\ ~(close[j] <= close[1])
    OBVIOUS
  <2>2. close[j] \in Nat /\ close[1] \in Nat
    BY <1>3, <2>1
  <2>3. j # 1
    BY <2>1, <2>2
  <2>4. j - 1 \in 1 .. d /\ close[j] < close[j - 1]
    BY <1>6, <2>1, <2>3
  <2>5. close[j - 1] \in Nat
    BY <1>3, <2>4
  <2>6. j - 1 \in Bad /\ rank[j - 1] < rank[j]
    BY <2>1, <2>2, <2>4, <2>5
  <2>7. QED
    BY <2>6
<1>8. Bad \subseteq 1 .. d /\ rank \in [1 .. d -> Nat]
  OBVIOUS
<1>9. Bad = {}
  <2> HIDE DEF Bad, rank
  <2>1. QED
    BY <1>7, <1>8, NoDescent, Zenon
<1>10. d \in 1 .. d /\ 1 \in 1 .. d
  OBVIOUS
<1>11. close[d] <= close[1]
  BY <1>9, <1>10
<1>12. close[d] \in Nat /\ close[1] \in Nat
  BY <1>3, <1>10
<1>13. q \in 1 .. n /\ q <= close[d]
  BY <1>3, <1>5
<1>14. close[1] <= n
  <2>1. CASE d = 1
    BY <1>3, <1>5, <2>1
  <2>2. CASE d # 1
    <3>1. 2 \in 2 .. d /\ 2 - 1 = 1
      BY <2>2
    <3>2. Pending(s, close[2] + 1, close[1])
      BY <1>3, <3>1
    <3>3. QED
      BY <1>5, <3>2
  <2>3. QED
    BY <2>1, <2>2
<1>15. QED
  BY <1>3, <1>4, <1>11, <1>12, <1>13, <1>14

-----------------------------------------------------------------------------
(* What a call finds in a message that is whole *)

\* a value is taken, or opened
LEMMA TakenWhole ==
  ASSUME NEW s, IsMessage(s), NEW at \in 1 .. Len(s), ValueEnd(s, at) # 0
  PROVE  TakenAs(BenrNext(data, Rest(s, at)), s, data, at)
<1>1. data = s /\ Begins(data, s) /\ Len(s) < UINTMAX /\ ~(Len(data) < Len(s))
  BY MessageIs
<1>2. at \in 1 .. Len(data)
  BY <1>1
<1>3. \/ CutShort(BenrNext(data, Rest(data, at)), s, data, at)
      \/ TakenAs(BenrNext(data, Rest(data, at)), s, data, at)
  BY <1>1, <1>2, ValueToken, Zenon
<1>4. QED
  BY <1>1, <1>3, Zenon DEF CutShort

\* the end marker, or an element
ListFinds(s, p, x) ==
  \/ x.b.kind = "X_END" /\ Close(s, "LIST", p) = p /\ x.ctx = Rest(s, p + 1)
  \/ /\ TakenAs(x, s, data, p) /\ x.b.kind # "X_END"
     /\ Close(s, "LIST", ValueEnd(s, p)) = Close(s, "LIST", p)

\* benr_list_iter_next in a list
LEMMA ListFound ==
  ASSUME NEW s, IsMessage(s), NEW p \in 1 .. Len(s) + 1, Close(s, "LIST", p) # 0
  PROVE  p \in 1 .. Len(s) /\ ListFinds(s, p, BenrNext(data, Rest(s, p)))
<1>1. data = s /\ Source(s) /\ s \in Seq(Nat) /\ ~(Len(data) < Len(s)) /\ "LIST" \in Kinds
  BY MessageIs DEF Kinds
<1>2. p \in 1 .. Len(data) + 1
  BY <1>1
<1>3. PICK x : x = BenrNext(data, Rest(s, p))
  OBVIOUS
<1>4. \/ p \in 1 .. Len(data) /\ Close(s, "LIST", p) = p /\ IsEnd(x, data, p)
      \/ p \in 1 .. Len(data) /\ s[p] # E
  BY <1>1, <1>2, <1>3, CallBegins, Zenon
<1>5. p \in 1 .. Len(s)
  BY <1>1, <1>4, Zenon
<1>6. CASE Close(s, "LIST", p) = p /\ IsEnd(x, data, p)
  BY <1>1, <1>3, <1>5, <1>6, Zenon DEF IsEnd, ListFinds
<1>7. CASE s[p] # E
  <2>1. ValueEnd(s, p) # 0 /\ Close(s, "LIST", ValueEnd(s, p)) = Close(s, "LIST", p)
    BY <1>1, <1>5, <1>7, CloseIs, Zenon
  <2>2. TakenAs(x, s, data, p)
    BY <1>3, <1>5, <2>1, TakenWhole, Zenon
  <2>3. x.b.kind # "X_END"
    BY <2>2 DEF TakenAs, ReadAs
  <2>4. QED
    BY <1>3, <1>5, <2>1, <2>2, <2>3, Zenon DEF ListFinds
<1>8. QED
  BY <1>4, <1>6, <1>7, Zenon

\* the end marker, or a key and a value
DictFinds(s, p, x, y) ==
  \/ x.b.kind = "X_END" /\ Close(s, "DICT", p) = p /\ x.ctx = Rest(s, p + 1)
  \/ \E at \in 1 .. Len(s) : Pair(s, p, x, y, at) /\ x.ctx = Rest(s, at) /\ p < at

\* benr_dict_iter_next in a dictionary
LEMMA DictFound ==
  ASSUME NEW s, IsMessage(s), NEW p \in 1 .. Len(s) + 1, Close(s, "DICT", p) # 0,
         NEW x, x = BenrNext(data, Rest(s, p)), NEW y, y = BenrNext(data, x.ctx)
  PROVE  p \in 1 .. Len(s) /\ DictFinds(s, p, x, y)
<1>1. data = s /\ Source(s) /\ s \in Seq(Nat) /\ ~(Len(data) < Len(s)) /\ "DICT" \in Kinds
      /\ Begins(data, s) /\ Len(s) < UINTMAX
  BY MessageIs DEF Kinds
<1>2. p \in 1 .. Len(data) + 1
  BY <1>1
<1>3. \/ p \in 1 .. Len(data) /\ Close(s, "DICT", p) = p /\ IsEnd(x, data, p)
      \/ p \in 1 .. Len(data) /\ s[p] # E
  BY <1>1, <1>2, CallBegins, Zenon
<1>4. p \in 1 .. Len(s)
  BY <1>1, <1>3, Zenon
<1>5. CASE Close(s, "DICT", p) = p /\ IsEnd(x, data, p)
  BY <1>1, <1>4, <1>5, Zenon DEF IsEnd, DictFinds
<1>6. CASE s[p] # E
  <2>1. PICK e : e = StringEnd(s, p)
    OBVIOUS
  <2>2. /\ s[p] \in Digits /\ e # 0 /\ ValueEnd(s, e) # 0
    BY <1>1, <1>4, <1>6, <2>1, CloseIs, Zenon
  <2>3. e = ValueEnd(s, p)
    BY <1>1, <1>4, <2>1, <2>2, ValueEndIs, Zenon
  <2>4. TakenAs(x, s, data, p)
    BY <1>4, <2>2, <2>3, TakenWhole, Zenon
  <2>5. x.b.kind # "X_END"
    BY <2>4 DEF TakenAs, ReadAs
  <2>6. NoPair(s, p, x) \/ PairFails(s, x, y) \/ \E at : Pair(s, p, x, y, at)
    BY <1>1, <1>2, DictBegins, Zenon
  <2>7. PICK at : Pair(s, p, x, y, at)
    BY <1>1, <2>5, <2>6, Zenon DEF NoPair, PairFails
  <2>8. at = e /\ TakenAs(y, s, data, at) /\ x.b.kind = "STRING"
    BY <2>3, <2>7, Zenon DEF Pair, StringFrom
  <2>9. at \in 1 .. Len(s)
    BY <1>1, <2>8, Zenon DEF TakenAs, ReadAs
  <2>10. x.ctx = Rest(s, at)
    BY <1>1, <2>3, <2>4, <2>8, KindsAre, Zenon DEF TakenAs
  <2>11. p < at
    <3>1. at \in p + 1 .. Len(s) + 1
      BY <1>1, <1>4, <2>2, <2>3, <2>8, ValueEndIs, Zenon
    <3>2. PICK n \in Nat : n = Len(s)
      BY MessageIs
    <3>3. p \in 1 .. n
      BY <1>4, <3>2, Zenon
    <3>4. PICK i \in Nat : i = p
      BY <3>3
    <3>5. at \in i + 1 .. n + 1
      BY <3>1, <3>2, <3>4, Zenon
    <3>6. i < at
      BY <3>5
    <3>7. QED
      BY <3>4, <3>6, Zenon
  <2>12. QED
    BY <1>4, <2>7, <2>9, <2>10, <2>11, Zenon DEF DictFinds
<1>7. QED
  BY <1>3, <1>5, <1>6, Zenon

-----------------------------------------------------------------------------
(* The inductive invariant: what is read, and what is to be read yet *)

Frames == [over : Kinds, base : Nat, ctx : [pos : Nat, len : Nat]]

\* what the rest of a container around this one may cost
Left(s, o) == Cost(s, o.over, o.ctx.pos)

\* an iterator the caller comes back to: its container goes on there
Resting(s, o) ==
  /\ o.over \in Kinds /\ o.base \in 1 .. Len(s) + 1 /\ Close(s, o.over, o.base) # 0
  /\ \E p \in 1 .. Len(s) + 1 :
       o.ctx = Rest(s, p) /\ Close(s, o.over, p) = Close(s, o.over, o.base)

\* what the rest of this container may cost: the value just read may be one to enter
Owed(s) ==
  IF pc = "skip"
  THEN (ValueEnd(s, At(s)) - skip.pos) + Cost(s, v.kind, v.at.pos)
         + Cost(s, over, ValueEnd(s, At(s)))
  ELSE IF ret = "end" THEN 0
  ELSE (IF IsContainer(val) THEN Cost(s, val.kind, val.at.pos) ELSE 0)
         + Cost(s, over, ctx.pos)

\* the bytes that may be read by the time the containers end, innermost first
Budget(s, b) ==
  /\ b \in [1 .. Len(outer) + 1 -> Int]
  /\ \A i \in 1 .. Len(outer) + 1 : b[i] <= MostReads(Len(s))[Len(s)]
  /\ \A i \in 1 .. Len(outer) : b[i] + Left(s, outer[i]) <= b[i + 1]
  /\ reads + Owed(s) <= b[1]

UnderWay(s) ==
  /\ clean /\ Iterating(s)
  /\ reads \in Int /\ outer \in Seq(Frames)
  /\ \A i \in 1 .. Len(outer) : Resting(s, outer[i])
  /\ \E b : Budget(s, b)

\* there is nothing to iterate over
Over(s) ==
  /\ over = "nothing" /\ pc = "idle" /\ ret = "ok" /\ val = None
  /\ reads \in Int /\ reads <= MostReads(Len(s))[Len(s)]

Walking(s) ==
  \/ Unopened /\ clean /\ outer = <<>> /\ reads = 0
  \/ Over(s)
  \/ UnderWay(s)

WalkInv == \A s : IsMessage(s) => Walking(s)

\* the budget is kept by a step that reads no more than was owed for it
LEMMA KeepsBudget ==
  ASSUME NEW s, NEW b, Budget(s, b), outer \in Seq(Frames), outer' = outer,
         reads \in Int, reads' \in Int, Owed(s) \in Int, Owed(s)' \in Int,
         reads' + Owed(s)' <= reads + Owed(s)
  PROVE  Budget(s, b)'
<1>1. /\ b \in [1 .. Len(outer) + 1 -> Int]
      /\ \A i \in 1 .. Len(outer) + 1 : b[i] <= MostReads(Len(s))[Len(s)]
      /\ \A i \in 1 .. Len(outer) : b[i] + Left(s, outer[i]) <= b[i + 1]
      /\ reads + Owed(s) <= b[1]
  BY Zenon DEF Budget
<1>2. b[1] \in Int
  <2>1. Len(outer) \in Nat
    OBVIOUS
  <2>2. 1 \in 1 .. Len(outer) + 1
    BY <2>1
  <2>3. QED
    BY <1>1, <2>2
<1>3. PICK w \in Int : w = Owed(s)
  OBVIOUS
<1>4. PICK u \in Int : u = Owed(s)'
  OBVIOUS
<1>5. PICK x \in Int, y \in Int, z \in Int : x = b[1] /\ y = reads /\ z = reads'
  BY <1>2
<1>6. z + u <= y + w /\ y + w <= x
  BY <1>1, <1>3, <1>4, <1>5, Zenon
<1>7. z + u <= x
  BY <1>6
<1>8. QED
  BY <1>1, <1>4, <1>5, <1>7, Zenon DEF Budget

\* An element read off the container at p, where it is at at, costs what is owed
\* for it: the bytes up to where the call goes on, and the element.
LEMMA ElementSpends ==
  ASSUME NEW s, IsMessage(s), over \in Kinds,
         NEW p \in Nat, NEW at \in Nat, 1 <= p, p <= at,
         ctx.pos = p, Close(s, over, p) # 0, pc = "idle", ret = "ok", ~IsContainer(val),
         over' = over, At(s)' = at,
         NEW t, TakenAs(t, s, data, at), NEW kk, Element(kk, t),
         Close(s, over, ValueEnd(s, at)) = Close(s, over, p),
         NEW r \in Int, r <= t.ctx.pos - p, reads \in Int, reads' = reads + r
  PROVE  /\ reads' \in Int /\ Owed(s) \in Int /\ Owed(s)' \in Int
         /\ reads' + Owed(s)' <= reads + Owed(s)
<1>1. data = s /\ s \in Seq(Nat)
  BY MessageIs
<1>2. PICK n \in Nat : n = Len(s)
  BY MessageIs
<1>3. ReadAs(t.b, s, data, at) /\ at \in 1 .. n /\ ValueEnd(s, at) # 0
  BY <1>1, <1>2, Zenon DEF TakenAs, ReadAs
<1>4. ValueEnd(s, at) \in at + 1 .. n + 1
  BY <1>1, <1>2, <1>3, ValueEndIs, Zenon
<1>5. PICK e \in Nat : e = ValueEnd(s, at)
  BY <1>4
<1>6. at < e /\ e <= n + 1 /\ at <= n
  BY <1>3, <1>4, <1>5
<1>7. PICK cp, ce : cp = Cost(s, over, p) /\ ce = Cost(s, over, e)
  OBVIOUS
<1>8. e <= Len(s) + 1
  BY <1>2, <1>6, Zenon
<1>9. Close(s, over, e) = Close(s, over, p)
  BY <1>5, Zenon
<1>10. /\ Cost(s, over, p) \in Nat /\ Cost(s, over, e) \in Nat
       /\ e - p + Cost(s, over, e) <= Cost(s, over, p)
       /\ \A inner \in Kinds :
            Close(s, inner, at + 1) # 0 /\ e = Close(s, inner, at + 1) + 1 =>
              /\ Cost(s, inner, at + 1) \in Nat
              /\ e - p + Cost(s, inner, at + 1) + Cost(s, over, e) <= Cost(s, over, p)
  BY <1>1, <1>6, <1>8, <1>9, ElementCosts, Zenon
<1>11. cp \in Nat /\ ce \in Nat /\ e - p + ce <= cp
  BY <1>7, <1>10, Zenon
<1>12. pc # "skip" /\ ret # "end"
  OBVIOUS
<1>13. Owed(s) = 0 + cp
  BY <1>7, <1>12, Zenon DEF Owed
<1>14. /\ at + 1 \in 1 .. n + 1 /\ e \in 1 .. n + 1
       /\ Rest(data, e).pos = e /\ Rest(data, at + 1).pos = at + 1
  <2>1. at + 1 \in 1 .. n + 1 /\ e \in 1 .. n + 1
    BY <1>6
  <2>2. QED
    BY <1>1, <1>2, <2>1, RestIs, Zenon
<1>15. CASE ~IsContainer(t.b)
  <2>1. ctx' = t.ctx /\ pc' = "idle" /\ ret' = "ok" /\ val' = t.b
    BY <1>15, Zenon DEF Element, Return
  <2>2. t.ctx.pos = e
    BY <1>5, <1>14, <1>15, KindsAre, Zenon DEF TakenAs, IsContainer
  <2>3. pc' # "skip" /\ ret' # "end"
    BY <2>1
  <2>4. ~IsContainer(val)'
    BY <1>15, <2>1, Zenon DEF IsContainer
  <2>5. Owed(s)' = 0 + ce
    BY <1>7, <2>1, <2>2, <2>3, <2>4, Zenon DEF Owed
  <2>6. r <= e - p
    BY <2>2, Zenon
  <2>7. QED
    BY <1>11, <1>13, <2>5, <2>6
<1>16. CASE IsContainer(t.b)
  <2>1. pc' = "skip" /\ v' = t.b /\ skip' = t.ctx
    BY <1>16, Zenon DEF Element
  <2>2. t.b.kind \in Kinds
    BY <1>16, KindsAre, Zenon DEF IsContainer
  <2>3. t.ctx.pos = at + 1 /\ ValueEnd(s, at) = PastEnd(Close(s, t.b.kind, at + 1))
    BY <1>14, <2>2, Zenon DEF TakenAs
  <2>4. t.b.at.pos = at + 1 /\ Close(s, t.b.kind, at + 1) # 0
    BY <1>3, <1>14, <2>2, Zenon DEF ReadAs
  <2>5. e = Close(s, t.b.kind, at + 1) + 1
    <3>1. at + 1 \in 1 .. Len(s) + 1
      BY <1>2, <1>14, Zenon
    <3>2. Close(s, t.b.kind, at + 1) \in at + 1 .. Len(s)
      BY <1>1, <2>2, <2>4, <3>1, CloseBounds, Zenon
    <3>3. Close(s, t.b.kind, at + 1) \in Nat
      BY <1>2, <3>2
    <3>4. QED
      BY <1>5, <2>3, <2>4, <3>3, PastEndIs, Zenon
  <2>6. PICK ci : ci = Cost(s, t.b.kind, at + 1)
    OBVIOUS
  <2>7. ci \in Nat /\ e - p + ci + ce <= cp
    BY <1>7, <1>10, <2>2, <2>4, <2>5, <2>6, Zenon
  <2>8. Owed(s)' = (e - (at + 1)) + ci + ce
    BY <1>5, <1>7, <2>1, <2>3, <2>4, <2>6, Zenon DEF Owed
  <2>9. r <= at + 1 - p
    <3>1. t.ctx.pos = at + 1
      BY <2>3, Zenon
    <3>2. QED
      BY <3>1
  <2>10. QED
    BY <1>11, <1>13, <2>7, <2>8, <2>9
<1>17. QED
  BY <1>15, <1>16, Zenon

\* the call goes on somewhere in the message
LEMMA TakenTo ==
  ASSUME NEW s, IsMessage(s), NEW t, NEW at, TakenAs(t, s, data, at)
  PROVE  \E r \in 1 .. Len(s) + 1 : t.ctx = Rest(s, r) /\ t.ctx.pos = r
<1>1. data = s /\ s \in Seq(Nat)
  BY MessageIs
<1>2. PICK r \in 1 .. Len(s) + 1 : t.ctx = Rest(s, r)
  BY <1>1, Zenon DEF TakenAs
<1>3. Rest(s, r).pos = r
  BY <1>1, RestIs, Zenon
<1>4. QED
  BY <1>2, <1>3, Zenon

\* the iterator of a container in which elements follow, before a call
AskedAt(s, p) ==
  /\ pc = "idle" /\ ret = "ok" /\ ~IsContainer(val)
  /\ p \in 1 .. Len(s) /\ ctx = Rest(s, p) /\ ctx.pos = p
  /\ Close(s, over, p) = Close(s, over, base)
  /\ data' = data /\ over' = over /\ base' = base /\ from' = p /\ outer' = outer

\* a call that takes an element
LEMMA ElementWalks ==
  ASSUME NEW s, IsMessage(s), UnderWay(s), NEW p, AskedAt(s, p),
         NEW at \in 1 .. Len(s), p <= at, at = (IF over = "LIST" THEN p ELSE ValueEnd(s, p)),
         NEW t, TakenAs(t, s, data, at), NEW kk, ~IsError(kk), Element(kk, t),
         over = "DICT" => StringFrom(kk, s, p, at),
         Close(s, over, ValueEnd(s, at)) = Close(s, over, p),
         NEW r \in Int, r <= t.ctx.pos - p, reads' = reads + r
  PROVE  UnderWay(s)'
<1>1. data = s /\ Source(s) /\ s \in Seq(Nat)
  BY MessageIs
<1>2. PICK n \in Nat : n = Len(s)
  BY MessageIs
<1>3. /\ pc = "idle" /\ ret = "ok" /\ ~IsContainer(val)
      /\ p \in 1 .. n /\ ctx.pos = p
      /\ Close(s, over, p) = Close(s, over, base)
      /\ data' = data /\ over' = over /\ base' = base /\ from' = p /\ outer' = outer
  BY <1>2, Zenon DEF AskedAt
<1>4. /\ clean /\ over \in Kinds /\ base \in 1 .. Len(data) + 1 /\ Close(s, over, base) # 0
      /\ reads \in Int /\ outer \in Seq(Frames)
      /\ \A i \in 1 .. Len(outer) : Resting(s, outer[i])
  BY Zenon DEF UnderWay, Iterating
<1>5. PICK b : Budget(s, b)
  BY Zenon DEF UnderWay
<1>6. from' \in 1 .. Len(data) /\ at = (IF over = "LIST" THEN from' ELSE ValueEnd(s, from'))
  BY <1>1, <1>2, <1>3, Zenon
<1>7. Reading(s)'
  <2>1. over = "DICT" => StringFrom(kk, s, from', at)
    BY <1>3, Zenon
  <2>2. Close(s, over, ValueEnd(s, at)) = Close(s, over, base)
    BY <1>3, Zenon
  <2>3. QED
    BY <1>1, <1>3, <1>4, <1>6, <2>1, <2>2, ElementReads, Zenon
<1>8. clean' /\ over' \in Kinds
  <2>1. CASE IsContainer(t.b)
    BY <1>3, <1>4, <2>1, Zenon DEF Element
  <2>2. CASE ~IsContainer(t.b)
    <3>1. Return(kk, t.b)
      BY <2>2, Zenon DEF Element
    <3>2. t.b.kind \in {"STRING", "INT", "LIST", "DICT"}
      BY Zenon DEF TakenAs, ReadAs
    <3>3. t.b # None /\ ~IsError(t.b)
      BY <3>2 DEF None, Benr, IsError, ErrorKinds
    <3>4. clean' = (clean /\ ret # "end" /\ t.b # None /\ ~IsError(t.b) /\ ~IsError(kk))
      BY <3>1, Zenon DEF Return
    <3>5. ret # "end"
      BY <1>3
    <3>6. QED
      BY <1>3, <1>4, <3>3, <3>4, <3>5, Zenon
  <2>3. QED
    BY <2>1, <2>2
<1>9. Iterating(s)'
  <2>1. over' # "none"
    BY <1>8, KindsAre
  <2>2. QED
    BY <1>7, <1>8, <2>1, Zenon DEF Reading, Unopened
<1>10. At(s)' = at
  BY <1>3, <1>6, Zenon DEF At
<1>11. /\ reads' \in Int /\ Owed(s) \in Int /\ Owed(s)' \in Int
       /\ reads' + Owed(s)' <= reads + Owed(s)
  <2>1. p \in Nat /\ 1 <= p
    BY <1>3
  <2>2. at \in Nat
    BY <1>2
  <2>3. Close(s, over, p) # 0
    BY <1>3, <1>4, Zenon
  <2>4. QED
    BY <1>3, <1>4, <1>10, <2>1, <2>2, <2>3, ElementSpends, Zenon
<1>12. Budget(s, b)'
  BY <1>3, <1>4, <1>5, <1>11, KeepsBudget, Zenon
<1>13. QED
  BY <1>3, <1>4, <1>8, <1>9, <1>11, <1>12, Zenon DEF UnderWay, Resting

\* a call that comes to the end marker: one byte, and that is what was left
LEMMA EndWalks ==
  ASSUME NEW s, IsMessage(s), UnderWay(s), NEW p, AskedAt(s, p),
         Close(s, over, p) = p, NEW c, ReturnEnd(c),
         NEW r \in Int, r <= 1, reads' = reads + r
  PROVE  UnderWay(s)'
<1>1. data = s /\ Source(s) /\ s \in Seq(Nat)
  BY MessageIs
<1>2. PICK n \in Nat : n = Len(s)
  BY MessageIs
<1>3. /\ pc = "idle" /\ ret = "ok" /\ ~IsContainer(val)
      /\ p \in 1 .. n /\ ctx.pos = p
      /\ Close(s, over, p) = Close(s, over, base)
      /\ data' = data /\ over' = over /\ base' = base /\ from' = p /\ outer' = outer
  BY <1>2, Zenon DEF AskedAt
<1>4. /\ clean /\ over \in Kinds /\ base \in 1 .. Len(data) + 1 /\ Close(s, over, base) # 0
      /\ reads \in Int /\ outer \in Seq(Frames)
      /\ \A i \in 1 .. Len(outer) : Resting(s, outer[i])
  BY Zenon DEF UnderWay, Iterating
<1>5. PICK b : Budget(s, b)
  BY Zenon DEF UnderWay
<1>6. from' \in 1 .. Len(data) /\ from' = Close(s, over, base)
  BY <1>1, <1>2, <1>3, Zenon
<1>7. Reading(s)'
  BY <1>1, <1>3, <1>4, <1>6, EndReads, Zenon
<1>8. clean' /\ pc' = "idle" /\ ret' = "end"
  BY <1>3, <1>4 DEF ReturnEnd
<1>9. Iterating(s)'
  <2>1. over' # "none"
    BY <1>3, <1>4, KindsAre
  <2>2. QED
    BY <1>7, <1>8, <2>1, Zenon DEF Reading, Unopened
<1>10. PICK cp : cp = Cost(s, over, p)
  OBVIOUS
<1>11. cp \in Nat /\ 1 <= cp
  <2>1. p \in 1 .. n + 1 /\ p # 0
    BY <1>3
  <2>2. Close(s, over, p) # 0 /\ p \in 1 .. Len(s) + 1
    BY <1>2, <2>1, Zenon
  <2>3. QED
    BY <1>1, <1>4, <1>10, <2>2, ContainerCosts, Zenon
<1>12. Owed(s) = 0 + cp
  <2>1. pc # "skip" /\ ret # "end"
    BY <1>3
  <2>2. QED
    BY <1>3, <1>10, <2>1, Zenon DEF Owed
<1>13. Owed(s)' = 0
  <2>1. pc' # "skip"
    BY <1>8
  <2>2. QED
    BY <1>8, <2>1, Zenon DEF Owed
<1>14. /\ reads' \in Int /\ Owed(s) \in Int /\ Owed(s)' \in Int
       /\ reads' + Owed(s)' <= reads + Owed(s)
  BY <1>4, <1>11, <1>12, <1>13
<1>15. Budget(s, b)'
  BY <1>3, <1>4, <1>5, <1>14, KeepsBudget, Zenon
<1>16. QED
  BY <1>3, <1>4, <1>8, <1>9, <1>14, <1>15, Zenon DEF UnderWay, Resting

\* a call that asks for the next element
LEMMA AskWalks ==
  ASSUME NEW s, IsMessage(s), UnderWay(s), Ask
  PROVE  UnderWay(s)'
<1>1. data = s /\ Source(s) /\ s \in Seq(Nat)
  BY MessageIs
<1>2. /\ pc = "idle" /\ ret = "ok" /\ ~IsContainer(val) /\ outer' = outer
  BY Zenon DEF Ask
<1>3. AtRest(s) /\ over \in Kinds /\ base \in 1 .. Len(data) + 1 /\ Close(s, over, base) # 0
      /\ reads \in Int
  BY <1>2 DEF UnderWay, Iterating, AtEnd, Skipping
<1>4. PICK p \in 1 .. Len(data) + 1 :
        ctx = Rest(data, p) /\ Close(s, over, p) = Close(s, over, base)
  BY <1>3, Zenon DEF AtRest
<1>5. p \in 1 .. Len(s) + 1 /\ ctx = Rest(s, p) /\ Close(s, over, p) # 0
  BY <1>1, <1>3, <1>4, Zenon
<1>6. ctx.pos = p
  BY <1>1, <1>5, RestIs, Zenon
<1> DEFINE x == BenrNext(data, ctx)
           y == BenrNext(data, x.ctx)
<1>7. \/ ListNext /\ reads' = reads + Examined(x, ctx)
      \/ /\ DictNext
         /\ reads' = reads + Examined(x, ctx)
              + IF x.b.kind = "X_END" THEN 0 ELSE Examined(y, x.ctx)
  BY Zenon DEF Ask
<1>8. (ListNext \/ DictNext) => data' = data /\ over' = over /\ base' = base /\ from' = ctx.pos
  BY Zenon DEF ListNext, DictNext, Call
<1>9. p \in 1 .. Len(s) => AskedAt(s, p)
  BY <1>2, <1>4, <1>5, <1>6, <1>7, <1>8, Zenon DEF AskedAt
<1>10. ASSUME NEW r \in 1 .. Len(s) + 1, x.ctx = Rest(s, r)
       PROVE  Examined(x, ctx) \in Int /\ Examined(x, ctx) <= r - p
  <2>1. x = BenrNext(data, Rest(s, p))
    BY <1>5, Zenon
  <2> HIDE DEF x
  <2>2. Examined(x, Rest(s, p)) \in Int /\ Examined(x, Rest(s, p)) <= r - p
    BY <1>5, <1>10, <2>1, ExaminedIs, Zenon
  <2>3. QED
    BY <1>5, <2>2, Zenon
<1>11. PICK n \in Nat : n = Len(s)
  BY MessageIs
<1>12. CASE ListNext /\ reads' = reads + Examined(x, ctx)
  <2>1. over = "LIST" /\ over # "DICT"
    BY <1>12 DEF ListNext, Call
  <2>2. \/ x.b.kind = "X_END" /\ ReturnEnd(x.ctx)
        \/ x.b.kind # "X_END" /\ Element(None, x)
    BY <1>12, Zenon DEF ListNext
  <2>3. p \in 1 .. Len(s) /\ ListFinds(s, p, x)
    BY <1>5, <2>1, ListFound, Zenon
  <2> HIDE DEF x, y
  <2>4. CASE x.b.kind = "X_END" /\ Close(s, "LIST", p) = p /\ x.ctx = Rest(s, p + 1)
    <3>1. p \in 1 .. n
      BY <1>11, <2>3, Zenon
    <3>2. PICK m \in 1 .. n + 1 : m = p + 1
      BY <3>1
    <3>3. Examined(x, ctx) \in Int /\ Examined(x, ctx) <= m - p
      <4>1. m \in 1 .. Len(s) + 1 /\ x.ctx = Rest(s, m)
        BY <1>11, <2>4, <3>2, Zenon
      <4>2. QED
        BY <1>10, <4>1, Zenon
    <3>4. Examined(x, ctx) <= 1
      BY <3>1, <3>2, <3>3
    <3>5. ReturnEnd(x.ctx)
      BY <2>2, <2>4, Zenon
    <3>6. QED
      BY <1>9, <1>12, <2>1, <2>3, <2>4, <3>3, <3>4, <3>5, EndWalks, Zenon
  <2>5. CASE /\ TakenAs(x, s, data, p) /\ x.b.kind # "X_END"
             /\ Close(s, "LIST", ValueEnd(s, p)) = Close(s, "LIST", p)
    <3>1. Element(None, x)
      BY <2>2, <2>5, Zenon
    <3>2. PICK r \in 1 .. Len(s) + 1 : x.ctx = Rest(s, r) /\ x.ctx.pos = r
      BY <2>5, TakenTo, Zenon
    <3>3. Examined(x, ctx) \in Int /\ Examined(x, ctx) <= x.ctx.pos - p
      BY <1>10, <3>2, Zenon
    <3>4. ~IsError(None)
      BY DEF None, Benr, IsError, ErrorKinds
    <3>5. p <= p
      BY <1>11, <2>3
    <3>6. p = (IF over = "LIST" THEN p ELSE ValueEnd(s, p))
      BY <2>1, Zenon
    <3>7. QED
      BY <1>9, <1>12, <2>1, <2>3, <2>5, <3>1, <3>3, <3>4, <3>5, <3>6, ElementWalks, Zenon
  <2>6. QED
    BY <2>3, <2>4, <2>5, Zenon DEF ListFinds
<1>13. CASE /\ DictNext
            /\ reads' = reads + Examined(x, ctx)
                 + IF x.b.kind = "X_END" THEN 0 ELSE Examined(y, x.ctx)
  <2>1. over = "DICT" /\ over # "LIST"
    BY <1>13 DEF DictNext, Call
  <2>2. \/ x.b.kind = "X_END" /\ ReturnEnd(x.ctx)
        \/ x.b.kind # "X_END" /\ y.b.kind = "X_END" /\ ReturnEnd(y.ctx)
        \/ x.b.kind # "X_END" /\ y.b.kind # "X_END" /\ Element(x.b, y)
    BY <1>13, Zenon DEF DictNext
  <2>3. p \in 1 .. Len(s) /\ DictFinds(s, p, x, y)
    <3>1. Close(s, "DICT", p) # 0 /\ x = BenrNext(data, Rest(s, p))
      BY <1>5, <2>1, Zenon
    <3>2. y = BenrNext(data, x.ctx)
      OBVIOUS
    <3> HIDE DEF x, y
    <3>3. QED
      BY <1>5, <3>1, <3>2, DictFound, Zenon
  <2>4. y = BenrNext(data, x.ctx)
    OBVIOUS
  <2> HIDE DEF x, y
  <2>5. CASE x.b.kind = "X_END" /\ Close(s, "DICT", p) = p /\ x.ctx = Rest(s, p + 1)
    <3>1. p \in 1 .. n
      BY <1>11, <2>3, Zenon
    <3>2. PICK m \in 1 .. n + 1 : m = p + 1
      BY <3>1
    <3>3. Examined(x, ctx) \in Int /\ Examined(x, ctx) <= m - p
      <4>1. m \in 1 .. Len(s) + 1 /\ x.ctx = Rest(s, m)
        BY <1>11, <2>5, <3>2, Zenon
      <4>2. QED
        BY <1>10, <4>1, Zenon
    <3>4. Examined(x, ctx) <= 1
      BY <3>1, <3>2, <3>3
    <3>5. ReturnEnd(x.ctx)
      BY <2>2, <2>5, Zenon
    <3>6. reads' = reads + Examined(x, ctx)
      <4>1. reads' = reads + Examined(x, ctx) + 0
        BY <1>13, <2>5, Zenon
      <4>2. QED
        BY <1>3, <3>3, <4>1
    <3>7. QED
      BY <1>9, <2>1, <2>3, <2>5, <3>3, <3>4, <3>5, <3>6, EndWalks, Zenon
  <2>6. ASSUME NEW at \in 1 .. Len(s), Pair(s, p, x, y, at), x.ctx = Rest(s, at), p < at
        PROVE  UnderWay(s)'
    <3>1. /\ x.b.kind # "X_END" /\ y.b.kind # "X_END" /\ ~IsError(x.b)
          /\ StringFrom(x.b, s, p, at) /\ at = ValueEnd(s, p) /\ TakenAs(y, s, data, at)
          /\ Close(s, "DICT", ValueEnd(s, at)) = Close(s, "DICT", p)
      BY <2>6, Zenon DEF Pair
    <3>2. Element(x.b, y)
      BY <2>2, <3>1, Zenon
    <3>3. PICK r \in 1 .. Len(s) + 1 : y.ctx = Rest(s, r) /\ y.ctx.pos = r
      BY <3>1, TakenTo, Zenon
    <3>4. at \in 1 .. n + 1 /\ at \in 1 .. n /\ r \in 1 .. n + 1
      BY <1>11, <2>6, <3>3
    <3>5. Examined(x, ctx) \in Int /\ Examined(x, ctx) <= at - p
      BY <1>10, <1>11, <2>6, <3>4, Zenon
    <3>6. Examined(y, x.ctx) \in Int /\ Examined(y, x.ctx) <= r - at
      <4>1. y = BenrNext(data, Rest(s, at))
        BY <2>4, <2>6, Zenon
      <4>2. Examined(y, Rest(s, at)) \in Int /\ Examined(y, Rest(s, at)) <= r - at
        BY <1>11, <3>3, <3>4, <4>1, ExaminedIs, Zenon
      <4>3. QED
        BY <2>6, <4>2, Zenon
    <3>7. reads' = reads + Examined(x, ctx) + Examined(y, x.ctx)
      BY <1>13, <3>1, Zenon
    <3>8. PICK i \in Int, j \in Int : i = Examined(x, ctx) /\ j = Examined(y, x.ctx)
      BY <3>5, <3>6
    <3>9. reads' = reads + i + j /\ i <= at - p /\ j <= r - at
      BY <3>5, <3>6, <3>7, <3>8, Zenon
    <3>10. PICK u \in Int : u = i + j
      OBVIOUS
    <3>11. p \in 1 .. n
      BY <1>11, <2>3, Zenon
    <3>12. reads' = reads + u /\ u <= r - p
      BY <1>3, <3>4, <3>9, <3>10, <3>11
    <3>13. p <= at
      BY <2>6, <3>4, <3>11
    <3>14. at = (IF over = "LIST" THEN p ELSE ValueEnd(s, p))
      BY <2>1, <3>1, Zenon
    <3>15. QED
      BY <1>9, <2>1, <2>3, <3>1, <3>2, <3>3, <3>12, <3>13, <3>14, ElementWalks, Zenon
  <2>7. QED
    BY <2>3, <2>5, <2>6, Zenon DEF DictFinds
<1>14. QED
  BY <1>7, <1>12, <1>13, Zenon

\* inside an element that is a container: what is left of it, the element again, and
\* what follows it
SkipOwes(s, q, end, ci, ce) ==
  /\ end = ValueEnd(s, At(s)) /\ q \in 1 .. Len(s) /\ q < end /\ end \in 1 .. Len(s) + 1
  /\ skip = Rest(s, q) /\ Within(s, q, depth, end)
  /\ v.kind \in Kinds
  /\ ci = Cost(s, v.kind, v.at.pos) /\ ci \in Nat
  /\ ce = Cost(s, over, end) /\ ce \in Nat
  /\ Owed(s) = (end - q) + ci + ce

\* where a context is
LEMMA RestPos ==
  ASSUME NEW t, NEW p
  PROVE  Rest(t, p).pos = p
  BY DEF Rest, Ctx

\* what is owed in ctx_adv_container
LEMMA SkipOwed ==
  ASSUME NEW s, IsMessage(s), Iterating(s), Skipping(s)
  PROVE  \E q \in Nat, end \in Nat, ci \in Nat, ce \in Nat : SkipOwes(s, q, end, ci, ce)
<1>1. data = s /\ s \in Seq(Nat)
  BY MessageIs
<1>2. PICK n \in Nat : n = Len(s)
  BY MessageIs
<1>3. /\ pc = "skip" /\ Taking(s, k, v) /\ IsContainer(v)
      /\ over \in Kinds /\ Close(s, over, base) # 0
  BY Zenon DEF Skipping, Iterating
<1>4. PICK end : end = ValueEnd(s, At(s))
  OBVIOUS
<1>5. PICK q \in 1 .. Len(data) + 1 : skip = Rest(data, q) /\ Within(s, q, depth, end)
  BY <1>4, Zenon DEF Skipping
<1>6. q \in 1 .. n /\ end \in Nat /\ q < end /\ end <= n + 1
  BY <1>1, <1>2, <1>5, WithinEnds, Zenon
<1>7. end \in 1 .. n + 1
  BY <1>6
<1>8. PICK ci, ce : ci = Cost(s, v.kind, v.at.pos) /\ ce = Cost(s, over, end)
  OBVIOUS
<1>9. v.kind \in Kinds /\ ReadAs(v, s, data, At(s)) /\ Close(s, over, end) = Close(s, over, base)
  BY <1>3, <1>4, KindsAre, Zenon DEF IsContainer, Taking
<1>10. PICK at : at = At(s)
  OBVIOUS
<1>11. at \in 1 .. n /\ v.at = Rest(data, at + 1) /\ Close(s, v.kind, at + 1) # 0
  BY <1>1, <1>2, <1>9, <1>10, Zenon DEF ReadAs
<1>12. at + 1 \in 1 .. n + 1
  BY <1>11
<1>13. v.at.pos = at + 1
  BY <1>11, RestPos, Zenon
<1>14. ci \in Nat
  BY <1>1, <1>2, <1>8, <1>9, <1>11, <1>12, <1>13, ContainerCosts, Zenon
<1>15. ce \in Nat
  BY <1>1, <1>2, <1>3, <1>7, <1>8, <1>9, ContainerCosts, Zenon
<1>16. skip.pos = q
  <2>1. q \in 1 .. Len(s) + 1
    BY <1>1
  <2>2. QED
    BY <1>1, <1>5, <2>1, RestIs, Zenon
<1>17. Owed(s) = (end - q) + ci + ce
  BY <1>3, <1>4, <1>8, <1>16, Zenon DEF Owed
<1>18. SkipOwes(s, q, end, ci, ce)
  BY <1>1, <1>2, <1>4, <1>5, <1>6, <1>7, <1>8, <1>9, <1>14, <1>15, <1>17, Zenon DEF SkipOwes
<1>19. q \in Nat
  BY <1>6
<1>20. QED
  BY <1>6, <1>14, <1>15, <1>18, <1>19, Zenon

\* a round of ctx_adv_container
LEMMA SkipWalks ==
  ASSUME NEW s, IsMessage(s), UnderWay(s), SkipOn
  PROVE  UnderWay(s)'
<1>1. /\ data = s /\ Source(s) /\ s \in Seq(Nat) /\ Begins(data, s) /\ Len(s) < UINTMAX
      /\ ~(Len(data) < Len(s))
  BY MessageIs
<1>2. PICK n \in Nat : n = Len(s)
  BY MessageIs
<1> DEFINE t == BenrNext(data, skip)
<1>3. Skip /\ pc = "skip" /\ outer' = outer /\ reads' = reads + Examined(t, skip)
  BY Zenon DEF SkipOn, Skip
<1>4. ScanDeeper(t) \/ ScanOn(t) \/ ScanUp(t) \/ Skipped(t) \/ SkipFails(t)
  BY <1>3, Zenon DEF Skip
<1>5. /\ clean /\ Iterating(s) /\ over \in Kinds
      /\ reads \in Int /\ outer \in Seq(Frames)
      /\ \A i \in 1 .. Len(outer) : Resting(s, outer[i])
  BY Zenon DEF UnderWay, Iterating
<1>6. Skipping(s)
  BY <1>3, <1>5 DEF Iterating, AtRest, AtEnd
<1>7. PICK b : Budget(s, b)
  BY Zenon DEF UnderWay
<1>8. PICK q \in Nat, end \in Nat, ci \in Nat, ce \in Nat : SkipOwes(s, q, end, ci, ce)
  BY <1>5, <1>6, SkipOwed, Zenon
<1>9. /\ end = ValueEnd(s, At(s)) /\ q \in 1 .. n /\ q < end /\ end \in 1 .. n + 1
      /\ skip = Rest(s, q) /\ Within(s, q, depth, end) /\ v.kind \in Kinds
      /\ ci = Cost(s, v.kind, v.at.pos) /\ ci \in Nat
      /\ ce = Cost(s, over, end) /\ ce \in Nat
      /\ Owed(s) = (end - q) + ci + ce
  BY <1>2, <1>8, Zenon DEF SkipOwes
<1>10. t = BenrNext(data, Rest(s, q))
  BY <1>9, Zenon
<1>11. data' = data /\ over' = over /\ base' = base /\ from' = from
  BY <1>4, Zenon DEF ScanDeeper, ScanOn, ScanUp, Skipped, SkipFails, Scan
<1>12. At(s)' = At(s)
  BY <1>11, Zenon DEF At
<1> HIDE DEF t
<1>13. Scanned(t, s, data, q, depth, end)
  <2>1. q \in 1 .. Len(data)
    BY <1>1, <1>2, <1>9, Zenon
  <2>2. CutShort(t, s, data, q) \/ Scanned(t, s, data, q, depth, end)
    BY <1>1, <1>9, <1>10, <2>1, ScanToken, Zenon
  <2>3. QED
    BY <1>1, <2>2, Zenon DEF CutShort
<1>14. /\ "X_END" \notin {"STRING", "INT"} /\ "X_END" \notin Kinds
       /\ Kinds \cap {"STRING", "INT"} = {} /\ Kinds = ContainerKinds
       /\ None.kind = "NONE" /\ "NONE" \notin {"X_END", "STRING", "INT"} \cup Kinds
       /\ ErrorKinds \cap ({"X_END", "STRING", "INT"} \cup Kinds) = {}
  BY DEF Kinds, ContainerKinds, None, Benr, ErrorKinds
<1>15. Reading(s)'
  BY <1>1, <1>3, <1>5, <1>6, SkipReads, Zenon
<1>16. ASSUME NEW r \in 1 .. n + 1, t.ctx = Rest(s, r)
       PROVE  \E x \in Int : x = Examined(t, skip) /\ x <= r - q
  <2>1. q \in 1 .. n + 1
    BY <1>9
  <2>2. Examined(t, Rest(s, q)) \in Int /\ Examined(t, Rest(s, q)) <= r - q
    BY <1>2, <1>10, <1>16, <2>1, ExaminedIs, Zenon
  <2>3. QED
    BY <1>9, <2>2, Zenon
<1>17. ASSUME clean', reads' \in Int, Owed(s)' \in Int, Owed(s) \in Int,
              reads' + Owed(s)' <= reads + Owed(s)
       PROVE  UnderWay(s)'
  <2>1. Iterating(s)'
    <3>1. over' # "none"
      BY <1>5, <1>11, KindsAre
    <3>2. QED
      BY <1>15, <1>17, <3>1, Zenon DEF Reading, Unopened
  <2>2. Budget(s, b)'
    BY <1>3, <1>5, <1>7, <1>17, KeepsBudget, Zenon
  <2>3. QED
    BY <1>3, <1>5, <1>17, <2>1, <2>2, Zenon DEF UnderWay, Resting
<1>18. CASE Skipped(t)
  <2>1. t.b.kind = "X_END" /\ depth = 1 /\ ctx' = t.ctx /\ Return(k, v)
    BY <1>18, Zenon DEF Skipped
  <2>2. /\ pc' = "idle" /\ ret' = "ok" /\ val' = v
        /\ clean' = (clean /\ ret # "end" /\ v # None /\ ~IsError(v) /\ ~IsError(k))
    BY <2>1, Zenon DEF Return
  <2>3. t.ctx = Rest(s, q + 1) /\ q + 1 = end
    <3>1. ~(depth > 1)
      BY <2>1
    <3>2. t.ctx = Rest(data, q + 1) /\ q + 1 = end
      BY <1>13, <1>14, <2>1, <3>1, Zenon DEF Scanned
    <3>3. QED
      BY <1>1, <3>2, Zenon
  <2>4. t.ctx = Rest(s, end)
    BY <2>3, Zenon
  <2>5. PICK x \in Int : x = Examined(t, skip) /\ x <= end - q
    BY <1>9, <1>16, <2>4, Zenon
  <2>6. ctx'.pos = end
    BY <2>1, <2>4, RestPos, Zenon
  <2>7. clean'
    <3>1. v # None /\ ~IsError(v)
      BY <1>9, <1>14, Zenon DEF IsError
    <3>2. ~IsError(k) /\ ret # "end"
      BY <1>6 DEF Skipping, Taking
    <3>3. QED
      BY <1>5, <2>2, <3>1, <3>2
  <2>8. Owed(s)' = ci + ce
    <3>1. pc' # "skip" /\ ret' # "end"
      BY <2>2
    <3>2. IsContainer(val)'
      BY <1>9, <1>14, <2>2, Zenon DEF IsContainer
    <3>3. QED
      BY <1>9, <1>11, <2>2, <2>6, <3>1, <3>2, Zenon DEF Owed
  <2>9. reads' = reads + x
    BY <1>3, <2>5, Zenon
  <2>10. /\ reads' \in Int /\ Owed(s)' \in Int /\ Owed(s) \in Int
         /\ reads' + Owed(s)' <= reads + Owed(s)
    <3>1. /\ (reads + x) + ((end - end) + ci + ce) <= reads + ((end - q) + ci + ce)
          /\ reads + x \in Int /\ (end - end) + ci + ce \in Int /\ (end - q) + ci + ce \in Int
          /\ (end - end) + ci + ce = ci + ce
      <4>1. reads \in Int /\ x <= end - q
        BY <1>5, <2>5, Zenon
      <4>2. QED
        BY <4>1
    <3>2. QED
      BY <1>9, <2>8, <2>9, <3>1, Zenon
  <2>11. QED
    BY <1>17, <2>7, <2>10, Zenon
<1>19. CASE ScanDeeper(t) \/ ScanOn(t) \/ ScanUp(t)
  <2>1. /\ pc' = "skip" /\ v' = v /\ clean' = clean /\ skip' = t.ctx
    BY <1>3, <1>19, Zenon DEF ScanDeeper, ScanOn, ScanUp
  <2>2. ~(t.b.kind = "X_END" /\ depth = 1)
    <3>1. depth = 1 => ~(depth > 1)
      OBVIOUS
    <3>2. QED
      BY <1>14, <1>19, <3>1, Zenon DEF ScanDeeper, ScanOn, ScanUp, IsContainer
  <2>3. PICK r \in 1 .. n + 1 : t.ctx = Rest(s, r)
    BY <1>1, <1>2, <1>13, <2>2, Zenon DEF Scanned
  <2>4. PICK x \in Int : x = Examined(t, skip) /\ x <= r - q
    BY <1>16, <2>3, Zenon
  <2>5. skip'.pos = r
    BY <2>1, <2>3, RestPos, Zenon
  <2>6. Owed(s)' = (end - r) + ci + ce
    BY <1>9, <1>11, <1>12, <2>1, <2>5, Zenon DEF Owed
  <2>7. reads' = reads + x
    BY <1>3, <2>4, Zenon
  <2>8. /\ reads' \in Int /\ Owed(s)' \in Int /\ Owed(s) \in Int
        /\ reads' + Owed(s)' <= reads + Owed(s)
    <3>1. r \in Nat
      BY <2>3
    <3>2. /\ (reads + x) + ((end - r) + ci + ce) <= reads + ((end - q) + ci + ce)
          /\ reads + x \in Int /\ (end - r) + ci + ce \in Int /\ (end - q) + ci + ce \in Int
      <4>1. reads \in Int /\ x <= r - q
        BY <1>5, <2>4, Zenon
      <4>2. QED
        BY <3>1, <4>1
    <3>3. QED
      BY <1>9, <2>6, <2>7, <3>2, Zenon
  <2>9. QED
    BY <1>5, <1>17, <2>1, <2>8, Zenon
<1>20. CASE SkipFails(t)
  <2>1. t.b.kind \in ErrorKinds \/ t.b.kind = "NONE"
    BY <1>14, <1>20 DEF SkipFails, IsError
  <2>2. QED
    BY <1>13, <1>14, <2>1, Zenon DEF Scanned
<1>21. QED
  BY <1>4, <1>18, <1>19, <1>20, Zenon

\* one more in front
LEMMA Pushed ==
  ASSUME NEW S, NEW e \in S, NEW q \in Seq(S)
  PROVE  /\ <<e>> \o q \in Seq(S) /\ Len(<<e>> \o q) = Len(q) + 1
         /\ (<<e>> \o q)[1] = e
         /\ \A i \in 1 .. Len(q) : (<<e>> \o q)[i + 1] = q[i]
  OBVIOUS

\* the first one less
LEMMA Popped ==
  ASSUME NEW S, NEW q \in Seq(S), q # <<>>
  PROVE  /\ Tail(q) \in Seq(S) /\ Len(Tail(q)) = Len(q) - 1 /\ Len(q) \in Nat \ {0}
         /\ Head(q) = q[1] /\ Head(q) \in S
         /\ \A i \in 1 .. Len(q) - 1 : Tail(q)[i] = q[i + 1]
  OBVIOUS

\* the value just read is a container, and it is read before what follows it
LEMMA EnterWalks ==
  ASSUME NEW s, IsMessage(s), UnderWay(s), Enter
  PROVE  UnderWay(s)'
<1>1. data = s /\ Source(s) /\ s \in Seq(Nat)
  BY MessageIs
<1>2. PICK n \in Nat : n = Len(s)
  BY MessageIs
<1>3. /\ Descend /\ outer' = <<Here>> \o outer /\ reads' = reads
      /\ pc = "idle" /\ ret = "ok" /\ IsContainer(val)
      /\ over' = val.kind /\ ctx' = val.at /\ pc' = "idle" /\ ret' = "ok" /\ val' = None
      /\ clean' = clean
  BY Zenon DEF Enter, Descend, Iterate
<1>4. /\ clean /\ Iterating(s) /\ over \in Kinds /\ base \in 1 .. Len(data) + 1
      /\ Close(s, over, base) # 0 /\ reads \in Int /\ outer \in Seq(Frames)
      /\ \A i \in 1 .. Len(outer) : Resting(s, outer[i])
  BY Zenon DEF UnderWay, Iterating
<1>5. AtRest(s)
  BY <1>3, <1>4 DEF Iterating, AtEnd, Skipping
<1>6. PICK b : Budget(s, b)
  BY Zenon DEF UnderWay
<1>7. PICK p \in 1 .. Len(data) + 1 :
        ctx = Rest(data, p) /\ Close(s, over, p) = Close(s, over, base)
  BY <1>5, Zenon DEF AtRest
<1>8. p \in 1 .. n + 1 /\ ctx = Rest(s, p) /\ ctx.pos = p /\ Close(s, over, p) # 0
  BY <1>1, <1>2, <1>4, <1>7, RestPos, Zenon
<1>9. val.kind \in Kinds
  BY <1>3, KindsAre, Zenon DEF IsContainer
<1>10. ReadAs(val, s, data, At(s))
  <2>1. val # None
    BY <1>9, KindsAre DEF None, Benr
  <2>2. QED
    BY <1>5, <2>1, Zenon DEF AtRest, Taking
<1>11. PICK at : at = At(s)
  OBVIOUS
<1>12. at \in 1 .. n /\ val.at = Rest(data, at + 1) /\ Close(s, val.kind, at + 1) # 0
  BY <1>1, <1>2, <1>9, <1>10, <1>11, Zenon DEF ReadAs
<1>13. val.at.pos = at + 1 /\ at + 1 \in 1 .. n + 1
  BY <1>12, RestPos
<1>14. PICK ci, cp : ci = Cost(s, val.kind, val.at.pos) /\ cp = Cost(s, over, p)
  OBVIOUS
<1>15. ci \in Nat /\ cp \in Nat
  BY <1>1, <1>2, <1>4, <1>8, <1>9, <1>12, <1>13, <1>14, ContainerCosts, Zenon
<1>16. Iterating(s)'
  <2>1. Reading(s)
    <3>1. clean => Unopened \/ Iterating(s)
      BY <1>4
    <3>2. QED
      BY <1>4, <3>1, Zenon DEF Reading
  <2>2. Reading(s)'
    BY <1>1, <1>3, <2>1, DescendReads, Zenon
  <2>3. over' # "none"
    BY <1>3, <1>9, KindsAre
  <2>4. QED
    BY <1>3, <1>4, <2>2, <2>3, Zenon DEF Reading, Unopened
<1>17. Owed(s) = ci + cp
  <2>1. pc # "skip" /\ ret # "end"
    BY <1>3
  <2>2. QED
    BY <1>3, <1>8, <1>14, <2>1, Zenon DEF Owed
<1>18. Owed(s)' = 0 + ci
  <2>1. pc' # "skip" /\ ret' # "end"
    BY <1>3
  <2>2. ~IsContainer(val)'
    BY <1>3 DEF IsContainer, None, Benr, ContainerKinds
  <2>3. QED
    BY <1>3, <1>14, <2>1, <2>2, Zenon DEF Owed
<1>19. Here.over = over /\ Here.base = base /\ Here.ctx = ctx
  BY DEF Here
<1>20. Resting(s, Here) /\ Left(s, Here) = cp
  BY <1>1, <1>2, <1>4, <1>7, <1>8, <1>14, <1>19, Zenon DEF Resting, Left
<1>21. Here \in Frames
  <2>1. base \in Nat
    BY <1>1, <1>2, <1>4
  <2>2. ctx \in [pos : Nat, len : Nat]
    BY <1>2, <1>8 DEF Rest, Ctx
  <2>3. QED
    BY <1>4, <2>1, <2>2 DEF Frames, Here
<1>22. PICK m \in Nat : m = Len(outer)
  BY <1>4
<1>23. /\ outer' \in Seq(Frames) /\ Len(outer') = m + 1
       /\ outer'[1] = Here /\ \A i \in 1 .. m : outer'[i + 1] = outer[i]
  <2>1. outer \in Seq(Frames)
    BY <1>4
  <2>2. /\ <<Here>> \o outer \in Seq(Frames) /\ Len(<<Here>> \o outer) = Len(outer) + 1
        /\ (<<Here>> \o outer)[1] = Here
        /\ \A i \in 1 .. Len(outer) : (<<Here>> \o outer)[i + 1] = outer[i]
    BY <1>21, <2>1, Pushed
  <2>3. QED
    BY <1>3, <1>22, <2>2
<1>24. \A i \in 1 .. m + 1 : i = 1 \/ \E j \in 1 .. m : i = j + 1
  <2>1. SUFFICES ASSUME NEW i \in 1 .. m + 1, i # 1 PROVE \E j \in 1 .. m : i = j + 1
    OBVIOUS
  <2>2. i - 1 \in 1 .. m /\ i = i - 1 + 1
    BY <2>1
  <2>3. QED
    BY <2>2
<1>25. \A i \in 1 .. Len(outer') : Resting(s, outer'[i])
  <2>1. SUFFICES ASSUME NEW i \in 1 .. m + 1 PROVE Resting(s, outer'[i])
    BY <1>23, Zenon
  <2>2. CASE i = 1
    BY <1>20, <1>23, <2>2, Zenon
  <2>3. ASSUME NEW j \in 1 .. m, i = j + 1 PROVE Resting(s, outer'[i])
    <3>1. outer'[j + 1] = outer[j] /\ Resting(s, outer[j])
      BY <1>4, <1>22, <1>23, Zenon
    <3>2. QED
      BY <2>3, <3>1, Zenon
  <2>4. QED
    BY <1>24, <2>2, <2>3, Zenon
<1>26. /\ b \in [1 .. m + 1 -> Int]
       /\ \A i \in 1 .. m + 1 : b[i] <= MostReads(n)[n]
       /\ \A i \in 1 .. m : b[i] + Left(s, outer[i]) <= b[i + 1]
       /\ reads + Owed(s) <= b[1]
  BY <1>2, <1>6, <1>22, Zenon DEF Budget
<1> DEFINE g == [i \in 1 .. m + 2 |-> IF i = 1 THEN b[1] - cp ELSE b[i - 1]]
<1>27. PICK most \in Int : most = MostReads(n)[n]
  <2>1. n \in 0 .. n
    OBVIOUS
  <2>2. MostReads(n)[n] \in Nat
    BY <2>1, MostReadsIs
  <2>3. QED
    BY <2>2
<1>28. b[1] \in Int /\ b[1] <= most
  <2>1. 1 \in 1 .. m + 1
    OBVIOUS
  <2>2. QED
    BY <1>26, <1>27, <2>1
<1>29. g \in [1 .. m + 2 -> Int]
  <2>1. SUFFICES ASSUME NEW i \in 1 .. m + 2
                 PROVE  (IF i = 1 THEN b[1] - cp ELSE b[i - 1]) \in Int
    OBVIOUS
  <2>2. i # 1 => i - 1 \in 1 .. m + 1
    OBVIOUS
  <2>3. QED
    BY <1>15, <1>26, <1>28, <2>2
<1>30. /\ g[1] = b[1] - cp
       /\ \A i \in 1 .. m + 1 : g[i + 1] = b[i]
  <2>1. SUFFICES ASSUME NEW i \in 1 .. m + 1 PROVE g[1] = b[1] - cp /\ g[i + 1] = b[i]
    <3>1. 1 \in 1 .. m + 1
      OBVIOUS
    <3>2. QED
      BY <3>1
  <2>2. i + 1 \in 1 .. m + 2 /\ i + 1 # 1 /\ i + 1 - 1 = i /\ 1 \in 1 .. m + 2
    OBVIOUS
  <2>3. QED
    BY <2>2
<1> HIDE DEF g
<1>31. \A i \in 1 .. m + 2 : g[i] <= most
  <2>1. g[1] <= most
    BY <1>15, <1>28, <1>30
  <2>2. ASSUME NEW i \in 1 .. m + 2, i # 1 PROVE g[i] <= most
    <3>1. PICK j \in 1 .. m + 1 : i = j + 1
      <4>1. i - 1 \in 1 .. m + 1 /\ i = i - 1 + 1
        BY <2>2
      <4>2. QED
        BY <4>1
    <3>2. QED
      BY <1>26, <1>27, <1>30, <3>1, Zenon
  <2>3. QED
    BY <2>1, <2>2, Zenon
<1>32. \A i \in 1 .. m + 1 : g[i] + Left(s, outer'[i]) <= g[i + 1]
  <2>1. g[1] + Left(s, outer'[1]) <= g[1 + 1]
    <3>1. g[1] = b[1] - cp /\ g[1 + 1] = b[1] /\ Left(s, outer'[1]) = cp
      <4>1. 1 \in 1 .. m + 1
        OBVIOUS
      <4>2. QED
        BY <1>20, <1>23, <1>30, <4>1, Zenon
    <3>2. b[1] - cp + cp <= b[1]
      BY <1>15, <1>28
    <3>3. QED
      BY <3>1, <3>2, Zenon
  <2>2. ASSUME NEW j \in 1 .. m PROVE g[j + 1] + Left(s, outer'[j + 1]) <= g[j + 1 + 1]
    <3>1. j \in 1 .. m + 1 /\ j + 1 \in 1 .. m + 1
      OBVIOUS
    <3>2. g[j + 1] = b[j] /\ g[j + 1 + 1] = b[j + 1] /\ outer'[j + 1] = outer[j]
      BY <1>23, <1>30, <3>1, Zenon
    <3>3. QED
      BY <1>26, <3>2, Zenon
  <2>3. QED
    BY <1>24, <2>1, <2>2, Zenon
<1>33. reads' + Owed(s)' <= g[1]
  <2>1. reads + (ci + cp) <= b[1]
    BY <1>17, <1>26, Zenon
  <2>2. reads + (0 + ci) <= b[1] - cp
    BY <1>4, <1>15, <1>28, <2>1
  <2>3. QED
    BY <1>3, <1>18, <1>30, <2>2, Zenon
<1>34. Budget(s, g)'
  <2>1. Len(outer') + 1 = m + 2
    BY <1>23
  <2>2. QED
    BY <1>2, <1>23, <1>27, <1>29, <1>31, <1>32, <1>33, <2>1, Zenon DEF Budget
<1>35. QED
  BY <1>3, <1>4, <1>16, <1>23, <1>25, <1>34, Zenon DEF UnderWay, Resting

\* the container is at its end: on with the one around it
LEMMA LeaveWalks ==
  ASSUME NEW s, IsMessage(s), UnderWay(s), Leave
  PROVE  UnderWay(s)'
<1>1. data = s /\ s \in Seq(Nat)
  BY MessageIs
<1>2. PICK n \in Nat : n = Len(s)
  BY MessageIs
<1>3. /\ pc = "idle" /\ ret = "end" /\ outer # <<>>
      /\ over' = Head(outer).over /\ base' = Head(outer).base /\ ctx' = Head(outer).ctx
      /\ outer' = Tail(outer) /\ ret' = "ok" /\ val' = None /\ clean' = TRUE
      /\ data' = data /\ pc' = "idle" /\ reads' = reads
  BY Zenon DEF Leave
<1>4. /\ reads \in Int /\ outer \in Seq(Frames)
      /\ \A i \in 1 .. Len(outer) : Resting(s, outer[i])
  BY Zenon DEF UnderWay
<1>5. PICK b : Budget(s, b)
  BY Zenon DEF UnderWay
<1>6. /\ Tail(outer) \in Seq(Frames) /\ Len(Tail(outer)) = Len(outer) - 1
      /\ Len(outer) \in Nat \ {0} /\ Head(outer) = outer[1]
      /\ \A i \in 1 .. Len(outer) - 1 : Tail(outer)[i] = outer[i + 1]
  BY <1>3, <1>4, Popped
<1>7. PICK m \in Nat : m = Len(outer) - 1
  <2>1. Len(outer) \in Nat \ {0}
    BY <1>6, Zenon
  <2>2. Len(outer) - 1 \in Nat
    BY <2>1
  <2>3. QED
    BY <2>2
<1>8. Len(outer) = m + 1
  BY <1>6, <1>7
<1>9. /\ outer' \in Seq(Frames) /\ Len(outer') = m
      /\ \A i \in 1 .. m : outer'[i] = outer[i + 1]
  BY <1>3, <1>6, <1>7
<1>10. 1 \in 1 .. m + 1 /\ \A i \in 1 .. m : i + 1 \in 1 .. m + 1
  OBVIOUS
<1>11. \A i \in 1 .. Len(outer') : Resting(s, outer'[i])
  BY <1>4, <1>8, <1>9, <1>10, Zenon
<1>12. PICK o : o = outer[1]
  OBVIOUS
<1>13. Resting(s, o) /\ over' = o.over /\ base' = o.base /\ ctx' = o.ctx
  BY <1>3, <1>4, <1>6, <1>8, <1>10, <1>12, Zenon
<1>14. /\ over' \in Kinds /\ base' \in 1 .. Len(data') + 1 /\ Close(s, over', base') # 0
       /\ \E p \in 1 .. Len(data') + 1 :
            ctx' = Rest(data', p) /\ Close(s, over', p) = Close(s, over', base')
  BY <1>1, <1>3, <1>13, Zenon DEF Resting
<1>15. Iterating(s)'
  <2>1. AtRest(s)'
    BY <1>3, <1>14, Zenon DEF AtRest
  <2>2. QED
    BY <1>14, <2>1, Zenon DEF Iterating
<1>16. PICK c : c = Left(s, o)
  OBVIOUS
<1>17. c \in Nat
  <2>1. PICK p \in 1 .. Len(s) + 1 :
          o.ctx = Rest(s, p) /\ Close(s, o.over, p) # 0 /\ o.over \in Kinds
    BY <1>13, Zenon DEF Resting
  <2>2. o.ctx.pos = p
    BY <2>1, RestPos, Zenon
  <2>3. QED
    BY <1>1, <1>16, <2>1, <2>2, ContainerCosts, Zenon DEF Left
<1>18. Owed(s) = 0
  <2>1. pc # "skip"
    BY <1>3
  <2>2. QED
    BY <1>3, <2>1, Zenon DEF Owed
<1>19. Owed(s)' = 0 + c
  <2>1. pc' # "skip" /\ ret' # "end"
    BY <1>3
  <2>2. ~IsContainer(val)'
    BY <1>3 DEF IsContainer, None, Benr, ContainerKinds
  <2>3. c = Cost(s, over', ctx'.pos)
    BY <1>13, <1>16, Zenon DEF Left
  <2>4. QED
    BY <2>1, <2>2, <2>3, Zenon DEF Owed
<1>20. /\ b \in [1 .. m + 1 + 1 -> Int]
       /\ \A i \in 1 .. m + 1 + 1 : b[i] <= MostReads(n)[n]
       /\ \A i \in 1 .. m + 1 : b[i] + Left(s, outer[i]) <= b[i + 1]
       /\ reads + 0 <= b[1]
  BY <1>2, <1>5, <1>8, <1>18, Zenon DEF Budget
<1> DEFINE g == [i \in 1 .. m + 1 |-> b[i + 1]]
<1>21. \A i \in 1 .. m + 1 : i + 1 \in 1 .. m + 1 + 1
  OBVIOUS
<1>22. g \in [1 .. m + 1 -> Int] /\ \A i \in 1 .. m + 1 : g[i] = b[i + 1]
  BY <1>20, <1>21
<1> HIDE DEF g
<1>23. \A i \in 1 .. m + 1 : g[i] <= MostReads(n)[n]
  BY <1>20, <1>21, <1>22, Zenon
<1>24. ASSUME NEW i \in 1 .. m PROVE g[i] + Left(s, outer'[i]) <= g[i + 1]
  <2>1. PICK j \in 1 .. m + 1 : j = i + 1
    OBVIOUS
  <2>2. i \in 1 .. m + 1
    OBVIOUS
  <2>3. g[i] = b[j] /\ g[j] = b[j + 1] /\ outer'[i] = outer[j]
    BY <1>9, <1>22, <2>1, <2>2, Zenon
  <2>4. b[j] + Left(s, outer[j]) <= b[j + 1]
    BY <1>20, Zenon
  <2>5. QED
    BY <2>1, <2>3, <2>4, Zenon
<1>25. reads' + Owed(s)' <= g[1]
  <2>1. b[1] \in Int /\ g[1] \in Int
    BY <1>20, <1>22
  <2>2. PICK x \in Int, y \in Int : x = b[1] /\ y = g[1]
    BY <2>1
  <2>3. x + c <= y /\ reads + 0 <= x
    BY <1>10, <1>12, <1>16, <1>20, <1>22, <2>2, Zenon
  <2>4. reads + (0 + c) <= y
    BY <1>4, <1>17, <2>3
  <2>5. QED
    BY <1>3, <1>19, <2>2, <2>4, Zenon
<1>26. Budget(s, g)'
  BY <1>2, <1>9, <1>22, <1>23, <1>24, <1>25, Zenon DEF Budget
<1>27. QED
  BY <1>3, <1>4, <1>9, <1>11, <1>15, <1>26, Zenon DEF UnderWay, Resting

\* the message is a container and is opened
LEMMA OpenWalks ==
  ASSUME NEW s, IsMessage(s), Unopened, clean, outer = <<>>, reads = 0, OpenContainer
  PROVE  UnderWay(s)'
<1>1. data = s /\ Source(s) /\ s \in Seq(Nat) /\ ValueEnd(s, 1) = Len(s) + 1
  BY MessageIs
<1>2. PICK n \in Nat : n = Len(s) /\ n # 0
  BY MessageIs
<1>3. /\ OpenMessage /\ reads' = 1 /\ outer' = outer
      /\ Iterate(BenrInit(data)) /\ IsContainer(BenrInit(data))
  BY Zenon DEF OpenContainer, OpenMessage, Iterate
<1>4. PICK x : x = BenrNext(data, Whole(data))
  OBVIOUS
<1>5. PICK b : b = BenrInit(data)
  OBVIOUS
<1>6. /\ over' = b.kind /\ ctx' = b.at /\ ret' = "ok" /\ val' = None /\ pc' = pc
      /\ clean' = clean /\ data' = data
  BY <1>3, <1>5, Zenon DEF Iterate
<1>7. b.kind \in Kinds /\ b = x.b
  <2>1. b = IF x.b.kind = "X_END" THEN Benr("UNEXPECTED_BYTE", 0, Ctx(1, 0)) ELSE x.b
    BY <1>4, <1>5, Zenon DEF BenrInit
  <2>2. b.kind \in Kinds
    BY <1>3, <1>5, KindsAre DEF IsContainer
  <2>3. Benr("UNEXPECTED_BYTE", 0, Ctx(1, 0)).kind = "UNEXPECTED_BYTE" /\ "UNEXPECTED_BYTE" \notin Kinds
    BY DEF Benr, Kinds
  <2>4. QED
    BY <2>1, <2>2, <2>3
<1>8. TakenAs(x, s, data, 1)
  <2>1. Whole(data) = Rest(s, 1)
    BY <1>1, <1>2 DEF Whole, Rest
  <2>2. 1 \in 1 .. Len(s) /\ ValueEnd(s, 1) # 0
    BY <1>1, <1>2
  <2>3. QED
    BY <1>4, <2>1, <2>2, TakenWhole, Zenon
<1>9. b.at = Rest(s, 1 + 1) /\ Close(s, b.kind, 1 + 1) # 0
  BY <1>1, <1>7, <1>8, Zenon DEF TakenAs, ReadAs
<1>10. ValueEnd(s, 1) = PastEnd(Close(s, b.kind, 1 + 1))
  BY <1>7, <1>8, Zenon DEF TakenAs
<1>11. b.at.pos = 1 + 1 /\ 1 + 1 = 2
  BY <1>9 DEF Rest, Ctx
<1>12. Close(s, b.kind, 2) = n /\ n \in 2 .. n
  <2>1. Close(s, b.kind, 2) # 0 /\ n + 1 = PastEnd(Close(s, b.kind, 2))
    BY <1>1, <1>2, <1>9, <1>10, <1>11, Zenon
  <2>2. Close(s, b.kind, 2) \in 2 .. n
    <3>1. 2 \in 1 .. Len(s) + 1
      BY <1>2
    <3>2. QED
      BY <1>1, <1>2, <1>7, <2>1, <3>1, CloseBounds, Zenon
  <2>3. QED
    BY <2>1, <2>2 DEF PastEnd
<1>13. PICK most \in Nat, less \in Nat :
         /\ most = MostReads(n)[n] /\ less = MostReads(n)[n - 2]
         /\ most = n + less
  <2>1. n \in 0 .. n /\ n - 2 \in 0 .. n /\ ~(n < 2)
    BY <1>12
  <2>2. MostReads(n)[n] \in Nat /\ MostReads(n)[n - 2] \in Nat
    BY <2>1, MostReadsIs
  <2>3. MostReads(n)[n] = n + MostReads(n)[n - 2]
    BY <2>1, MostReadsIs
  <2>4. QED
    BY <2>2, <2>3
<1>14. Owed(s)' = 0 + (n + 1 - 2 + less)
  <2>1. pc' # "skip" /\ ret' # "end"
    BY <1>6 DEF Unopened
  <2>2. ~IsContainer(val)'
    BY <1>6 DEF IsContainer, None, Benr, ContainerKinds
  <2>3. Cost(s, over', ctx'.pos) = n + 1 - 2 + less
    BY <1>2, <1>6, <1>11, <1>12, <1>13, Zenon DEF Cost, ReadsTo
  <2>4. QED
    BY <2>1, <2>2, <2>3, Zenon DEF Owed
<1>15. reads' + Owed(s)' <= most
  <2>1. 1 + (0 + (n + 1 - 2 + less)) <= most
    BY <1>13
  <2>2. QED
    BY <1>3, <1>14, <2>1, Zenon
<1>16. Iterating(s)'
  <2>1. Reading(s)
    BY DEF Reading
  <2>2. Reading(s)'
    BY <1>1, <1>3, <2>1, OpenReads, Zenon
  <2>3. over' # "none"
    BY <1>6, <1>7, KindsAre
  <2>4. QED
    BY <1>6, <2>2, <2>3, Zenon DEF Reading, Unopened
<1>17. outer' = <<>> /\ outer' \in Seq(Frames) /\ Len(outer') = 0
  BY <1>3
<1>18. Budget(s, [i \in 1 .. 1 |-> most])'
  <2> DEFINE g == [i \in 1 .. 1 |-> most]
  <2>1. 1 .. 0 + 1 = 1 .. 1 /\ 1 \in 1 .. 1 /\ ~\E i : i \in 1 .. 0
    OBVIOUS
  <2>2. g \in [1 .. 1 -> Int] /\ g[1] = most /\ \A i \in 1 .. 1 : g[i] <= most
    OBVIOUS
  <2> HIDE DEF g
  <2>3. Budget(s, g)'
    BY <1>2, <1>13, <1>15, <1>17, <2>1, <2>2, Zenon DEF Budget
  <2>4. QED
    BY <2>3, Zenon DEF g
<1>19. /\ clean' /\ reads' \in Int /\ \A i \in 1 .. Len(outer') : Resting(s, outer'[i])
  <2>1. 1 .. 0 = {}
    OBVIOUS
  <2>2. QED
    BY <1>3, <1>6, <1>17, <2>1
<1>20. QED
  BY <1>16, <1>17, <1>18, <1>19, Zenon DEF UnderWay, Resting

\* it is a number or a string
LEMMA OpenOtherWalks ==
  ASSUME NEW s, IsMessage(s), Unopened, clean, outer = <<>>, reads = 0, OpenOther
  PROVE  Over(s)'
<1>1. data = s /\ s \in Seq(Nat) /\ ValueEnd(s, 1) = Len(s) + 1
  BY MessageIs
<1>2. PICK n \in Nat : n = Len(s) /\ n # 0
  BY MessageIs
<1>3. PICK x : x = BenrNext(data, Whole(data))
  OBVIOUS
<1>4. /\ over' = "nothing" /\ pc' = pc /\ ret' = ret /\ val' = val
      /\ reads' = Examined(x, Whole(data))
  BY <1>3, Zenon DEF OpenOther
<1>5. Whole(data) = Rest(s, 1)
  BY <1>1, <1>2 DEF Whole, Rest
<1>6. TakenAs(x, s, data, 1)
  <2>1. 1 \in 1 .. Len(s) /\ ValueEnd(s, 1) # 0
    BY <1>1, <1>2
  <2>2. QED
    BY <1>3, <1>5, <2>1, TakenWhole, Zenon
<1>7. PICK r \in 1 .. n + 1 : x.ctx = Rest(s, r)
  BY <1>2, <1>6, TakenTo, Zenon
<1>8. PICK e \in Int : e = Examined(x, Whole(data)) /\ e <= r - 1
  <2>1. 1 \in 1 .. n + 1
    OBVIOUS
  <2>2. QED
    BY <1>2, <1>3, <1>5, <1>7, <2>1, ExaminedIs, Zenon
<1>9. PICK most \in Int : most = MostReads(n)[n] /\ n <= most
  <2>1. n \in 0 .. n
    OBVIOUS
  <2>2. MostReads(n)[n] \in Nat
    BY <2>1, MostReadsIs
  <2>3. n <= MostReads(n)[n]
    BY <2>1, MostReadsOnce
  <2>4. QED
    BY <2>2, <2>3
<1>10. e <= most
  BY <1>7, <1>8, <1>9
<1>11. QED
  BY <1>2, <1>4, <1>8, <1>9, <1>10, Zenon DEF Over, Unopened

\* A step of the caller leaves the message alone.
LEMMA WalkKeepsMessage ==
  ASSUME [WalkNext]_walkVars
  PROVE  data' = data
<1>1. CASE OpenContainer
  BY <1>1 DEF OpenContainer, OpenMessage, Iterate
<1>2. CASE OpenOther
  BY <1>2 DEF OpenOther
<1>3. CASE Enter
  BY <1>3 DEF Enter, Descend, Iterate
<1>4. CASE Leave
  BY <1>4 DEF Leave
<1>5. CASE Ask
  BY <1>5, Zenon DEF Ask, ListNext, DictNext, Call
<1>6. CASE SkipOn
  <2>1. \E t : Scan(t)
    BY <1>6, Zenon DEF SkipOn, Skip, ScanDeeper, ScanOn, ScanUp, Skipped, SkipFails
  <2>2. QED
    BY <2>1, Zenon DEF Scan
<1>7. CASE UNCHANGED walkVars
  BY <1>7, Zenon DEF walkVars, iterVars
<1>8. QED
  BY <1>1, <1>2, <1>3, <1>4, <1>5, <1>6, <1>7, Zenon DEF WalkNext

\* every step of the caller, on any message
LEMMA StepWalks ==
  ASSUME NEW s, IsMessage(s), Walking(s), [WalkNext]_walkVars
  PROVE  Walking(s)'
<1>1. CASE Unopened /\ clean /\ outer = <<>> /\ reads = 0
  <2>1. CASE OpenContainer
    BY <1>1, <2>1, OpenWalks, Zenon DEF Walking
  <2>2. CASE OpenOther
    BY <1>1, <2>2, OpenOtherWalks, Zenon DEF Walking
  <2>3. ~Enter /\ ~Leave /\ ~Ask /\ ~SkipOn
    <3>1. over \notin ContainerKinds /\ pc # "skip" /\ ret # "end" /\ ~IsContainer(val)
      BY <1>1, KindsAre DEF Unopened, IsContainer, None, Benr
    <3>2. ~Enter
      BY <3>1, Zenon DEF Enter, Descend, Iterate
    <3>3. ~Leave /\ ~Ask
      BY <3>1, Zenon DEF Leave, Ask
    <3>4. ~SkipOn
      BY <3>1, Zenon DEF SkipOn, Skip
    <3>5. QED
      BY <3>2, <3>3, <3>4
  <2>4. CASE UNCHANGED walkVars
    BY <1>1, <2>4, Zenon DEF walkVars, iterVars, Walking, Unopened
  <2>5. QED
    BY <2>1, <2>2, <2>3, <2>4, Zenon DEF WalkNext
<1>2. CASE Over(s)
  <2>1. ~WalkNext
    <3>1. /\ over \notin ContainerKinds /\ over # "none" /\ pc # "skip" /\ ret # "end"
          /\ ~IsContainer(val)
      BY <1>2 DEF Over, IsContainer, ContainerKinds, None, Benr
    <3>2. ~Enter
      BY <3>1, Zenon DEF Enter, Descend, Iterate
    <3>3. ~Leave /\ ~Ask
      BY <3>1, Zenon DEF Leave, Ask
    <3>4. ~SkipOn
      BY <3>1, Zenon DEF SkipOn, Skip
    <3>5. ~OpenContainer /\ ~OpenOther
      BY <3>1, Zenon DEF OpenContainer, OpenMessage, OpenOther
    <3>6. QED
      BY <3>2, <3>3, <3>4, <3>5, Zenon DEF WalkNext
  <2>2. CASE UNCHANGED walkVars
    BY <1>2, <2>2, Zenon DEF walkVars, iterVars, Walking, Over
  <2>3. QED
    BY <2>1, <2>2
<1>3. CASE UnderWay(s)
  <2>1. CASE Enter
    BY <1>3, <2>1, EnterWalks, Zenon DEF Walking
  <2>2. CASE Leave
    BY <1>3, <2>2, LeaveWalks, Zenon DEF Walking
  <2>3. CASE Ask
    BY <1>3, <2>3, AskWalks, Zenon DEF Walking
  <2>4. CASE SkipOn
    BY <1>3, <2>4, SkipWalks, Zenon DEF Walking
  <2>5. ~OpenContainer /\ ~OpenOther
    <3>1. over # "none"
      BY <1>3, KindsAre DEF UnderWay, Iterating
    <3>2. QED
      BY <3>1, Zenon DEF OpenContainer, OpenMessage, OpenOther
  <2>6. CASE UNCHANGED walkVars
    <3>1. UNCHANGED <<data, pc, over, base, ctx, from, ret, key, val, k, v, skip,
                      depth, clean, outer, reads>>
      BY <2>6, Zenon DEF walkVars, iterVars
    <3>2. UnderWay(s)'
      BY <1>3, <3>1 DEF UnderWay, Iterating, AtRest, AtEnd, Skipping, Taking, At, IsError,
                        IsContainer, Resting, Budget, Owed, Left
    <3>3. QED
      BY <3>2 DEF Walking
  <2>7. QED
    BY <2>1, <2>2, <2>3, <2>4, <2>5, <2>6, Zenon DEF WalkNext
<1>4. QED
  BY <1>1, <1>2, <1>3, Zenon DEF Walking

\* before anything is opened
LEMMA WalkBegins == WalkInit => WalkInv
  BY Zenon DEF WalkInit, Init, WalkInv, Walking, Unopened

\* and from then on
LEMMA WalkGoesOn == WalkInv /\ [WalkNext]_walkVars => WalkInv'
<1>1. SUFFICES ASSUME WalkInv, [WalkNext]_walkVars, NEW s, IsMessage(s)'
               PROVE  Walking(s)'
  BY Zenon DEF WalkInv
<1>2. IsMessage(s)
  <2>1. data' = data
    BY <1>1, WalkKeepsMessage, Zenon
  <2>2. QED
    BY <1>1, <2>1 DEF IsMessage, Source
<1>3. QED
  BY <1>1, <1>2, StepWalks, Zenon DEF WalkInv

\* what is owed is not less than nothing
LEMMA OwedIs ==
  ASSUME NEW s, IsMessage(s), UnderWay(s)
  PROVE  Owed(s) \in Nat
<1>1. data = s /\ s \in Seq(Nat) /\ Len(s) \in Nat
  BY MessageIs
<1>2. over \in Kinds /\ base \in 1 .. Len(data) + 1 /\ Close(s, over, base) # 0
  BY Zenon DEF UnderWay, Iterating
<1>3. CASE AtRest(s)
  <2>1. PICK p \in 1 .. Len(s) + 1 : ctx = Rest(s, p) /\ Close(s, over, p) # 0
    BY <1>1, <1>2, <1>3, Zenon DEF AtRest
  <2>2. Cost(s, over, ctx.pos) \in Nat
    BY <1>1, <1>2, <2>1, RestPos, ContainerCosts, Zenon
  <2>3. IsContainer(val) => Cost(s, val.kind, val.at.pos) \in Nat
    <3>1. SUFFICES ASSUME IsContainer(val) PROVE Cost(s, val.kind, val.at.pos) \in Nat
      OBVIOUS
    <3>2. val.kind \in Kinds /\ val # None
      <4>1. None.kind = "NONE"
        BY DEF None, Benr
      <4>2. QED
        BY <3>1, <4>1, KindsAre DEF IsContainer
    <3>3. PICK at \in 1 .. Len(s) : val.at = Rest(s, at + 1) /\ Close(s, val.kind, at + 1) # 0
      BY <1>1, <1>3, <3>2, Zenon DEF AtRest, Taking, ReadAs
    <3>4. PICK p1 \in 1 .. Len(s) + 1 : p1 = at + 1
      BY <1>1
    <3>5. val.at.pos = p1 /\ Close(s, val.kind, p1) # 0
      BY <3>3, <3>4, RestPos, Zenon
    <3>6. QED
      BY <1>1, <3>2, <3>5, ContainerCosts, Zenon
  <2>4. PICK c \in Nat : c = Cost(s, over, ctx.pos)
    BY <2>2
  <2>5. PICK d \in Nat : d = IF IsContainer(val) THEN Cost(s, val.kind, val.at.pos) ELSE 0
    BY <2>3
  <2>6. pc # "skip" /\ ret # "end"
    BY <1>3 DEF AtRest
  <2>7. Owed(s) = d + c
    BY <2>4, <2>5, <2>6, Zenon DEF Owed
  <2>8. QED
    BY <2>7
<1>4. CASE AtEnd(s)
  <2>1. pc # "skip" /\ ret = "end"
    BY <1>4 DEF AtEnd
  <2>2. QED
    BY <2>1 DEF Owed
<1>5. CASE Skipping(s)
  <2>1. Iterating(s)
    BY Zenon DEF UnderWay
  <2>2. PICK q \in Nat, end \in Nat, ci \in Nat, ce \in Nat : SkipOwes(s, q, end, ci, ce)
    BY <1>5, <2>1, SkipOwed, Zenon
  <2>3. q < end /\ Owed(s) = (end - q) + ci + ce
    BY <2>2, Zenon DEF SkipOwes
  <2>4. QED
    BY <2>3
<1>6. QED
  BY <1>3, <1>4, <1>5, Zenon DEF UnderWay, Iterating

\* what was read is within the budget, and that within the most there is to read
LEMMA WalkWithin == WalkInv => ReadsAreBounded
<1>1. SUFFICES ASSUME WalkInv, data \in Values PROVE reads <= WorstCase
  BY Zenon DEF ReadsAreBounded
<1>2. data \in Seq(0 .. 255) /\ Source(data)
  <2>1. data \in Seq(0 .. 255)
    BY <1>1, MessagesAssumption
  <2>2. Begins(data, data)
    <3>1. data \in Seq(Nat)
      BY <2>1, BytesAre, Zenon
    <3>2. Len(data) <= Len(data)
      BY <2>1
    <3>3. QED
      BY <3>1, <3>2, Zenon DEF Begins, Same
  <2>3. QED
    BY <1>1, <2>1, <2>2, ValueIsSource
<1>3. IsMessage(data)
  BY <1>2, Zenon DEF IsMessage
<1>4. Walking(data)
  BY <1>1, <1>3, Zenon DEF WalkInv
<1>5. PICK n \in Nat : n = Len(data)
  BY <1>2
<1>6. WorstCase = MostReads(n)[n]
  BY <1>5, Zenon DEF WorstCase, MostReads
<1>7. PICK most \in Nat : most = MostReads(n)[n]
  <2>1. n \in 0 .. n
    OBVIOUS
  <2>2. MostReads(n)[n] \in Nat
    BY <2>1, MostReadsIs
  <2>3. QED
    BY <2>2
<1>8. CASE reads = 0
  BY <1>6, <1>7, <1>8
<1>9. CASE Over(data)
  BY <1>5, <1>6, <1>9, Zenon DEF Over
<1>10. CASE UnderWay(data)
  <2>1. PICK b : Budget(data, b)
    BY <1>10, Zenon DEF UnderWay
  <2>2. PICK owed \in Nat : owed = Owed(data)
    BY <1>3, <1>10, OwedIs
  <2>3. PICK x \in Int : x = b[1]
    <3>1. b \in [1 .. Len(outer) + 1 -> Int] /\ outer \in Seq(Frames)
      BY <1>10, <2>1, Zenon DEF Budget, UnderWay
    <3>2. 1 \in 1 .. Len(outer) + 1
      BY <3>1
    <3>3. b[1] \in Int
      BY <3>1, <3>2
    <3>4. QED
      BY <3>3
  <2>4. reads + owed <= x /\ x <= most
    <3>1. 1 \in 1 .. Len(outer) + 1
      BY <1>10 DEF UnderWay
    <3>2. QED
      BY <1>5, <1>7, <2>1, <2>2, <2>3, <3>1, Zenon DEF Budget
  <2>5. reads \in Int
    BY <1>10, Zenon DEF UnderWay
  <2>6. reads <= most
    BY <2>4, <2>5
  <2>7. QED
    BY <1>6, <1>7, <2>6, Zenon
<1>11. QED
  BY <1>4, <1>8, <1>9, <1>10, Zenon DEF Walking

\* A caller that reads a well-formed message of N bytes to the bottom, each container
\* once from outside and once from inside, examines no more bytes than the sum
\* N + (N - 2) + (N - 4) ... that src/benr.h works out, however it is nested.
THEOREM ReadsBounded == WalkSpec => []ReadsAreBounded
<1>1. WalkInit => WalkInv
  BY WalkBegins
<1>2. WalkInv /\ [WalkNext]_walkVars => WalkInv'
  BY WalkGoesOn
<1>3. WalkInv => ReadsAreBounded
  BY WalkWithin
<1>4. QED
  BY <1>1, <1>2, <1>3, PTL DEF WalkSpec

-----------------------------------------------------------------------------
(* Every value is met, in its order: what is to be met yet *)

\* what is to be met in the container iterated over; the value just read may be one to
\* enter
Now(s) ==
  IF pc = "skip"
  THEN ValuesIn(s, At(s)) \cup Remaining(s, over, ValueEnd(s, At(s)))
  ELSE IF ret = "end" THEN {}
  ELSE (IF IsContainer(val) THEN Remaining(s, val.kind, val.at.pos) ELSE {})
         \cup Remaining(s, over, ctx.pos)

\* ... and in those around it, where the caller comes back to them
Beyond(s) ==
  UNION {Remaining(s, outer[i].over, outer[i].ctx.pos) : i \in 1 .. Len(outer)}

\* each container ends before those around it go on
Nested(s) ==
  /\ \A i \in 1 .. Len(outer) : Close(s, over, base) < outer[i].ctx.pos
  /\ \A i, j \in 1 .. Len(outer) :
       i < j => Close(s, outer[i].over, outer[i].base) < outer[j].ctx.pos

\* what ValueWalk has ahead
Still == {p \in places : \A i \in 1 .. Len(met) : met[i] < p}

\* ... is what the iterators will come to, in the order they will
InOrder(s) ==
  /\ met \in Seq(Nat)
  /\ Nested(s)
  /\ Still = Now(s) \cup Beyond(s)

\* once the message is open, and nothing is met before
Ordered(s) ==
  /\ places = ValuePositions(s)
  /\ over = "none" => met = <<>>
  /\ UnderWay(s) => InOrder(s)

\* nothing is claimed of a message that is not well-formed: it has no places
OrderInv ==
  /\ data \in Messages
  /\ places = ValuePositions(data)
  /\ \A s : IsMessage(s) => Ordered(s)

\* a step of ValueWalk, or none
Steps == Walk!Meet \/ UNCHANGED <<places, met>>

\* what is met next is the first of what is ahead
LEMMA MeetsNext ==
  ASSUME met \in Seq(Nat), NEW p \in Nat, NEW X, Still = {p} \cup X,
         \A q \in X : p < q,
         places' = places, met' = Append(met, p)
  PROVE  met' \in Seq(Nat) /\ Still' = X /\ Walk!Meet
<1>1. met' \in Seq(Nat)
  OBVIOUS
<1>2. p \in Still /\ places # {} /\ places' # {}
  BY DEF Still
<1>3. \A q \in places : q \in Still' <=> q \in Still /\ p < q
  <2>1. Len(met') = Len(met) + 1 /\ Len(met) \in Nat
    OBVIOUS
  <2>2. met'[Len(met) + 1] = p /\ \A i \in 1 .. Len(met) : met'[i] = met[i]
    OBVIOUS
  <2>3. 1 .. Len(met) + 1 = (1 .. Len(met)) \cup {Len(met) + 1}
    BY <2>1
  <2>4. \A q : (\A i \in 1 .. Len(met') : met'[i] < q)
                 <=> (\A i \in 1 .. Len(met) : met[i] < q) /\ p < q
    BY <2>1, <2>2, <2>3
  <2>5. QED
    BY <2>4, Zenon DEF Still
<1>4. \A q \in X : q \in Still /\ q \in places
  BY DEF Still
<1>5. ~(p < p)
  OBVIOUS
<1>6. \A q \in Still' : q \in places
  BY Zenon DEF Still
<1>7. \A q \in Still' : q \in X
  BY <1>3, <1>5, <1>6, Zenon
<1>8. Still' = X
  BY <1>3, <1>4, <1>7
<1>9. Still = Walk!Ahead
  BY <1>2, Zenon DEF Still, Walk!Ahead
<1>10. \A q \in Still : p <= q
  <2>1. \A q \in X : q \in Int => p <= q
    OBVIOUS
  <2>2. QED
    BY <2>1
<1>11. Walk!Meet
  BY <1>2, <1>9, <1>10, Zenon DEF Walk!Meet
<1>12. QED
  BY <1>1, <1>8, <1>11

\* what is ahead stays so when nothing is met
LEMMA MeetsNone ==
  ASSUME places' = places, met' = met, met \in Seq(Nat)
  PROVE  met' \in Seq(Nat) /\ Still' = Still
BY DEF Still

\* what is to come around a container comes behind its end
LEMMA BeyondLater ==
  ASSUME NEW s, IsMessage(s), UnderWay(s), Nested(s)
  PROVE  \A q \in Beyond(s) : q \in Nat /\ Close(s, over, base) < q
<1>1. SUFFICES ASSUME NEW q \in Beyond(s) PROVE q \in Nat /\ Close(s, over, base) < q
  OBVIOUS
<1>2. PICK i \in 1 .. Len(outer) : q \in Remaining(s, outer[i].over, outer[i].ctx.pos)
  BY <1>1 DEF Beyond
<1>3. Resting(s, outer[i]) /\ Close(s, over, base) < outer[i].ctx.pos
  BY Zenon DEF UnderWay, Nested
<1>4. PICK p \in 1 .. Len(s) + 1 : outer[i].ctx = Rest(s, p)
  BY <1>3, Zenon DEF Resting
<1>5. outer[i].ctx.pos = p /\ outer[i].over \in Kinds
  BY <1>3, <1>4, RestPos, Zenon DEF Resting
<1>6. Remaining(s, outer[i].over, p) \subseteq p .. Close(s, outer[i].over, p) - 1
  BY <1>5, MessageIs, ValuesBounds, Zenon
<1>7. Close(s, over, base) \in Nat
  <2>1. /\ base \in 1 .. Len(s) + 1 /\ over \in Kinds
    BY MessageIs, Zenon DEF UnderWay, Iterating
  <2>2. Close(s, over, base) = 0 \/ Close(s, over, base) \in base .. Len(s)
    BY <2>1, MessageIs, CloseBounds, Zenon
  <2>3. QED
    BY <2>1, <2>2, MessageIs
<1>8. PICK c \in Nat, m \in Nat : c = Close(s, over, base) /\ m = Len(s)
  BY <1>7, MessageIs
<1>9. PICK d : d = Close(s, outer[i].over, p) /\ (d = 0 \/ d \in p .. m)
  BY <1>5, <1>8, MessageIs, CloseBounds, Zenon
<1>10. q \in p .. d - 1 /\ c < p
  BY <1>2, <1>3, <1>5, <1>6, <1>8, <1>9, Zenon
<1>11. q \in Nat /\ c < q
  BY <1>8, <1>9, <1>10
<1>12. QED
  BY <1>8, <1>11, Zenon

\* what remains of a container from an element on
LEMMA RemainingOn ==
  ASSUME NEW s \in Seq(Nat), NEW p \in 1 .. Len(s), NEW kind \in Kinds, Close(s, kind, p) # 0,
         NEW at \in 1 .. Len(s), ValueEnd(s, at) # 0,
         at = IF kind = "LIST" THEN p ELSE ValueEnd(s, p)
  PROVE  Remaining(s, kind, p) = ValuesIn(s, at) \cup Remaining(s, kind, ValueEnd(s, at))
<1>1. ValueEnd(s, p) # 0
  <2>1. CASE kind = "LIST"
    BY <2>1, Zenon
  <2>2. CASE kind # "LIST"
    <3>1. at = ValueEnd(s, p) /\ at # 0
      BY <2>2
    <3>2. QED
      BY <3>1, Zenon
  <2>3. QED
    BY <2>1, <2>2
<1>2. s[p] # E
  <2>1. s[p] = E => s[p] \notin {I, L, D} \cup Digits
    BY FiveSigns
  <2>2. QED
    BY <1>1, <2>1, ValueEndIs, Zenon
<1>3. at = IF kind = "LIST" THEN p ELSE StringEnd(s, p)
  <2>1. CASE kind = "LIST"
    BY <2>1, Zenon
  <2>2. CASE kind # "LIST"
    <3>1. kind = "DICT"
      BY <2>2, Zenon DEF Kinds
    <3>2. Close(s, "DICT", p)
            = IF s[p] \notin Digits \/ StringEnd(s, p) = 0 THEN 0
              ELSE IF ValueEnd(s, StringEnd(s, p)) = 0 THEN 0
              ELSE Close(s, "DICT", ValueEnd(s, StringEnd(s, p)))
      BY <1>2, CloseIs, Zenon
    <3>3. s[p] \in Digits
      BY <3>1, <3>2
    <3>4. ValueEnd(s, p) = StringEnd(s, p)
      BY <3>3, ValueEndIs, Zenon
    <3>5. QED
      BY <2>2, <3>4, Zenon
  <2>3. QED
    BY <2>1, <2>2
<1>4. PICK e : e = IF kind = "LIST" THEN p ELSE StringEnd(s, p)
  OBVIOUS
<1>5. Remaining(s, kind, p) = ValuesIn(s, e) \cup Remaining(s, kind, ValueEnd(s, e))
  BY <1>2, <1>4, RemainingIs
<1>6. QED
  BY <1>3, <1>4, <1>5, Zenon

\* the values of a value that was read, by its kind
LEMMA ValuesRead ==
  ASSUME NEW s, IsMessage(s), NEW at, NEW b, ReadAs(b, s, data, at)
  PROVE  /\ at \in 1 .. Len(s) /\ ValueEnd(s, at) # 0
         /\ b.kind \in Kinds =>
              /\ ValuesIn(s, at) = {at} \cup Remaining(s, b.kind, at + 1)
              /\ ValueEnd(s, at) = Close(s, b.kind, at + 1) + 1
              /\ Close(s, b.kind, at + 1) \in at + 1 .. Len(s)
         /\ b.kind \notin Kinds => ValuesIn(s, at) = {at}
<1>1. data = s /\ s \in Seq(Nat)
  BY MessageIs
<1>2. PICK n \in Nat : n = Len(s)
  BY MessageIs
<1>3. /\ at \in 1 .. n /\ ValueEnd(s, at) # 0
      /\ (b.kind = "LIST" <=> s[at] = L) /\ (b.kind = "DICT" <=> s[at] = D)
      /\ b.kind \in Kinds => Close(s, b.kind, at + 1) # 0
  BY <1>1, <1>2, Zenon DEF ReadAs
<1>4. /\ s[at] = L => ValuesIn(s, at) = {at} \cup Remaining(s, "LIST", at + 1)
      /\ s[at] = D => ValuesIn(s, at) = {at} \cup Remaining(s, "DICT", at + 1)
      /\ s[at] # L /\ s[at] # D => ValuesIn(s, at) = {at}
  BY <1>1, <1>2, <1>3, ValuesInIs, Zenon
<1>5. /\ s[at] = L => ValueEnd(s, at) = PastEnd(Close(s, "LIST", at + 1))
      /\ s[at] = D => ValueEnd(s, at) = PastEnd(Close(s, "DICT", at + 1))
  BY <1>1, <1>2, <1>3, ValueEndIs, Zenon
<1>6. CASE b.kind \in Kinds
  <2>1. b.kind = "LIST" \/ b.kind = "DICT"
    BY <1>6, Zenon DEF Kinds
  <2>2. ValuesIn(s, at) = {at} \cup Remaining(s, b.kind, at + 1)
    BY <1>3, <1>4, <2>1, Zenon
  <2>3. ValueEnd(s, at) = PastEnd(Close(s, b.kind, at + 1))
    BY <1>3, <1>5, <2>1, Zenon
  <2>4. at + 1 \in 1 .. n + 1
    BY <1>3
  <2>5. Close(s, b.kind, at + 1) \in at + 1 .. n
    BY <1>1, <1>2, <1>3, <1>6, <2>4, CloseBounds, Zenon
  <2>6. Close(s, b.kind, at + 1) \in Nat
    BY <1>3, <2>5
  <2>7. ValueEnd(s, at) = Close(s, b.kind, at + 1) + 1
    BY <1>3, <1>6, <2>3, <2>6, PastEndIs, Zenon
  <2>8. QED
    BY <1>2, <1>3, <1>6, <2>2, <2>5, <2>7, Zenon
<1>7. CASE b.kind \notin Kinds
  <2>1. b.kind # "LIST" /\ b.kind # "DICT"
    BY <1>7 DEF Kinds
  <2>2. QED
    BY <1>2, <1>3, <1>4, <1>7, <2>1, Zenon
<1>8. QED
  BY <1>6, <1>7, Zenon

\* a container's are its own place and those of its elements
LEMMA ContainerRead ==
  ASSUME NEW s, IsMessage(s), NEW at, NEW b, ReadAs(b, s, data, at), b.kind \in Kinds
  PROVE  /\ ValuesIn(s, at) = {at} \cup Remaining(s, b.kind, at + 1)
         /\ ValueEnd(s, at) = Close(s, b.kind, at + 1) + 1
         /\ Close(s, b.kind, at + 1) \in at + 1 .. Len(s)
  BY ValuesRead

\* any other value has no more than its own place
LEMMA OtherRead ==
  ASSUME NEW s, IsMessage(s), NEW at, NEW b, ReadAs(b, s, data, at), b.kind \notin Kinds
  PROVE  ValuesIn(s, at) = {at}
  BY ValuesRead

\* nothing changes around an iterator that is called
LEMMA AroundStays ==
  ASSUME NEW s, Nested(s), outer' = outer, over' = over, base' = base
  PROVE  Nested(s)' /\ Beyond(s)' = Beyond(s)
BY DEF Nested, Beyond

\* an element behind at, and all that comes later, comes after at
LEMMA LaterThan ==
  ASSUME NEW s, IsMessage(s), UnderWay(s), Nested(s), NEW at \in 1 .. Len(s),
         ValueEnd(s, at) # 0, Close(s, over, ValueEnd(s, at)) = Close(s, over, base)
  PROVE  /\ \A q \in Remaining(s, over, ValueEnd(s, at)) \cup Beyond(s) : at < q
         /\ at < Close(s, over, base)
<1>1. /\ s \in Seq(Nat) /\ over \in Kinds /\ base \in 1 .. Len(s) + 1
      /\ Close(s, over, base) # 0
  BY MessageIs, Zenon DEF UnderWay, Iterating
<1>2. PICK n \in Nat : n = Len(s)
  BY MessageIs
<1>3. PICK e : e = ValueEnd(s, at)
  OBVIOUS
<1>4. at \in 1 .. n /\ e \in at + 1 .. n + 1
  BY <1>1, <1>2, <1>3, ValueEndIs, Zenon
<1>5. e \in 1 .. n + 1
  BY <1>4
<1>6. PICK c : c = Close(s, over, base)
  OBVIOUS
<1>7. c = Close(s, over, e) /\ c # 0
  BY <1>1, <1>3, <1>6, Zenon
<1>8. c \in e .. n /\ Remaining(s, over, e) \subseteq e .. c - 1
  BY <1>1, <1>2, <1>5, <1>7, CloseBounds, ValuesBounds, Zenon
<1>9. \A q \in Remaining(s, over, e) : at < q
  BY <1>4, <1>8
<1>10. at < c
  BY <1>4, <1>8
<1>11. \A q \in Beyond(s) : at < q
  <2>1. \A q \in Beyond(s) : q \in Nat /\ c < q
    BY <1>6, BeyondLater, Zenon
  <2>2. QED
    BY <1>4, <1>8, <1>10, <2>1
<1>12. QED
  BY <1>3, <1>6, <1>9, <1>10, <1>11

\* a call that takes an element
LEMMA ElementInOrder ==
  ASSUME NEW s, IsMessage(s), UnderWay(s), InOrder(s), NEW p, AskedAt(s, p),
         NEW at \in 1 .. Len(s), at = (IF over = "LIST" THEN p ELSE ValueEnd(s, p)),
         NEW t, TakenAs(t, s, data, at), NEW kk, Element(kk, t),
         Close(s, over, ValueEnd(s, at)) = Close(s, over, p),
         Hands(at), places' = places
  PROVE  InOrder(s)' /\ Steps
<1>1. data = s /\ s \in Seq(Nat)
  BY MessageIs
<1>2. PICK n \in Nat : n = Len(s)
  BY MessageIs
<1>3. /\ pc = "idle" /\ ret = "ok" /\ ~IsContainer(val)
      /\ p \in 1 .. Len(s) /\ ctx.pos = p
      /\ Close(s, over, p) = Close(s, over, base)
      /\ over' = over /\ base' = base /\ from' = p /\ outer' = outer
  BY Zenon DEF AskedAt
<1>4. over \in Kinds /\ Close(s, over, p) # 0
  BY <1>3, Zenon DEF UnderWay, Iterating
<1>5. PICK e : e = ValueEnd(s, at)
  OBVIOUS
<1>6. /\ e # 0 /\ t.b.kind \in {"STRING", "INT", "LIST", "DICT"}
      /\ t.b.kind \notin Kinds => ValuesIn(s, at) = {at}
  <2>1. ReadAs(t.b, s, data, at)
    BY Zenon DEF TakenAs
  <2>2. ValueEnd(s, at) # 0 /\ t.b.kind \in {"STRING", "INT", "LIST", "DICT"}
    BY <2>1, Zenon DEF ReadAs
  <2>3. t.b.kind \notin Kinds => ValuesIn(s, at) = {at}
    BY <2>1, OtherRead
  <2>4. QED
    BY <1>5, <2>2, <2>3, Zenon
<1>7. Remaining(s, over, p) = ValuesIn(s, at) \cup Remaining(s, over, e)
  BY <1>1, <1>3, <1>4, <1>5, <1>6, RemainingOn
<1>8. Now(s) = ValuesIn(s, at) \cup Remaining(s, over, e)
  <2>1. Now(s) = {} \cup Remaining(s, over, p)
    <3>1. pc # "skip" /\ ret # "end"
      BY <1>3
    <3>2. QED
      BY <1>3, <3>1, Zenon DEF Now
  <2>2. QED
    BY <1>7, <2>1
<1>9. Nested(s)' /\ Beyond(s)' = Beyond(s) /\ met \in Seq(Nat) /\ Nested(s)
      /\ Still = Now(s) \cup Beyond(s)
  BY <1>3, AroundStays, Zenon DEF InOrder
<1>10. CASE IsContainer(t.b)
  <2>1. pc' = "skip"
    BY <1>10, Zenon DEF Element
  <2>2. At(s)' = at
    BY <1>3, Zenon DEF At
  <2>3. Now(s)' = Now(s)
    BY <1>3, <1>5, <1>8, <2>1, <2>2, Zenon DEF Now
  <2>4. met' = met
    BY <2>1 DEF Hands
  <2>5. met' \in Seq(Nat) /\ Still' = Still
    BY <1>9, <2>4, MeetsNone, Zenon
  <2>6. QED
    BY <1>9, <2>3, <2>4, <2>5, Zenon DEF InOrder, Steps
<1>11. CASE ~IsContainer(t.b)
  <2>1. ctx' = t.ctx /\ pc' = "idle" /\ ret' = "ok" /\ val' = t.b
    BY <1>11, Zenon DEF Element, Return
  <2>2. t.b.kind \notin Kinds
    BY <1>11, KindsAre, Zenon DEF IsContainer
  <2>3. ctx'.pos = e
    BY <1>5, <2>1, <2>2, RestPos, Zenon DEF TakenAs
  <2>4. Now(s)' = Remaining(s, over, e)
    <3>1. pc' # "skip" /\ ret' # "end"
      BY <2>1
    <3>2. ~IsContainer(val)'
      BY <1>11, <2>1, Zenon DEF IsContainer
    <3>3. Now(s)' = {} \cup Remaining(s, over, e)
      BY <1>3, <2>3, <3>1, <3>2, Zenon DEF Now
    <3>4. QED
      BY <3>3
  <2>5. met' = Append(met, at)
    <3>1. val' # None /\ ~IsError(val')
      BY <1>6, <2>1 DEF None, Benr, IsError, ErrorKinds
    <3>2. pc' # "skip"
      BY <2>1
    <3>3. QED
      BY <2>1, <3>1, <3>2, Zenon DEF Hands
  <2>6. Still = {at} \cup (Now(s)' \cup Beyond(s)')
    BY <1>6, <1>8, <1>9, <2>2, <2>4
  <2>7. \A q \in Now(s)' \cup Beyond(s)' : at < q
    BY <1>3, <1>5, <1>6, <1>9, <2>4, LaterThan, Zenon
  <2>8. PICK X : X = Now(s)' \cup Beyond(s)'
    OBVIOUS
  <2>9. met' \in Seq(Nat) /\ Still' = X /\ Walk!Meet
    <3>1. at \in Nat
      BY <1>2
    <3>2. QED
      BY <1>9, <2>5, <2>6, <2>7, <2>8, <3>1, MeetsNext, Zenon
  <2>10. QED
    BY <1>9, <2>8, <2>9, Zenon DEF InOrder, Steps
<1>12. QED
  BY <1>10, <1>11, Zenon

\* a call that comes to the end marker: nothing was left to be met
LEMMA EndInOrder ==
  ASSUME NEW s, IsMessage(s), UnderWay(s), InOrder(s), NEW p, AskedAt(s, p),
         Close(s, over, p) = p, NEW c, ReturnEnd(c), NEW start, Hands(start), places' = places
  PROVE  InOrder(s)' /\ Steps
<1>1. PICK n \in Nat : n = Len(s) /\ s \in Seq(Nat)
  BY MessageIs
<1>2. /\ pc = "idle" /\ ret = "ok" /\ ~IsContainer(val)
      /\ p \in 1 .. n /\ ctx.pos = p
      /\ over' = over /\ base' = base /\ outer' = outer
  BY <1>1, Zenon DEF AskedAt
<1>3. over \in Kinds
  BY Zenon DEF UnderWay, Iterating
<1>4. Remaining(s, over, p) = {}
  <2>1. p \in 1 .. n + 1
    BY <1>2
  <2>2. Remaining(s, over, p) \subseteq p .. p - 1
    BY <1>1, <1>3, <2>1, ValuesBounds, Zenon
  <2>3. QED
    BY <1>2, <2>2
<1>5. Now(s) = {}
  <2>1. pc # "skip" /\ ret # "end"
    BY <1>2
  <2>2. Now(s) = {} \cup {}
    BY <1>2, <1>4, <2>1, Zenon DEF Now
  <2>3. QED
    BY <2>2
<1>6. pc' = "idle" /\ ret' = "end"
  BY Zenon DEF ReturnEnd
<1>7. Now(s)' = {}
  <2>1. pc' # "skip"
    BY <1>6
  <2>2. QED
    BY <1>6, <2>1, Zenon DEF Now
<1>8. met' = met
  BY <1>6 DEF Hands
<1>9. Nested(s)' /\ Beyond(s)' = Beyond(s) /\ met \in Seq(Nat) /\ Still = Now(s) \cup Beyond(s)
  BY <1>2, AroundStays, Zenon DEF InOrder
<1>10. met' \in Seq(Nat) /\ Still' = Still
  BY <1>8, <1>9, MeetsNone, Zenon
<1>11. QED
  BY <1>5, <1>7, <1>8, <1>9, <1>10, Zenon DEF InOrder, Steps

\* a call that asks for the next element
LEMMA AskInOrder ==
  ASSUME NEW s, IsMessage(s), UnderWay(s), InOrder(s), Ask
  PROVE  InOrder(s)' /\ Steps
<1>1. data = s /\ s \in Seq(Nat)
  BY MessageIs
<1>2. /\ pc = "idle" /\ ret = "ok" /\ ~IsContainer(val) /\ outer' = outer /\ places' = places
  BY Zenon DEF Ask
<1>3. AtRest(s) /\ over \in Kinds /\ Close(s, over, base) # 0
  BY <1>2 DEF UnderWay, Iterating, AtEnd, Skipping
<1>4. PICK p \in 1 .. Len(data) + 1 :
        ctx = Rest(data, p) /\ Close(s, over, p) = Close(s, over, base)
  BY <1>3, Zenon DEF AtRest
<1>5. /\ p \in 1 .. Len(s) + 1 /\ ctx = Rest(s, p) /\ Close(s, over, p) # 0
      /\ ctx.pos = p
  BY <1>1, <1>3, <1>4, RestPos, Zenon
<1> DEFINE x == BenrNext(data, ctx)
           y == BenrNext(data, x.ctx)
<1>6. (ListNext /\ Hands(ctx.pos)) \/ (DictNext /\ Hands(x.ctx.pos))
  BY Zenon DEF Ask
<1>7. (ListNext \/ DictNext) => data' = data /\ over' = over /\ base' = base /\ from' = ctx.pos
  BY Zenon DEF ListNext, DictNext, Call
<1>8. p \in 1 .. Len(s) => AskedAt(s, p)
  BY <1>2, <1>4, <1>5, <1>6, <1>7, Zenon DEF AskedAt
<1>9. CASE ListNext /\ Hands(ctx.pos)
  <2>1. over = "LIST"
    BY <1>9 DEF ListNext, Call
  <2>2. \/ x.b.kind = "X_END" /\ ReturnEnd(x.ctx)
        \/ x.b.kind # "X_END" /\ Element(None, x)
    BY <1>9, Zenon DEF ListNext
  <2>3. p \in 1 .. Len(s) /\ ListFinds(s, p, x) /\ Hands(p)
    BY <1>5, <1>9, <2>1, ListFound, Zenon
  <2> HIDE DEF x, y
  <2>4. CASE x.b.kind = "X_END" /\ Close(s, "LIST", p) = p
    <3>1. ReturnEnd(x.ctx)
      BY <2>2, <2>4, Zenon
    <3>2. QED
      BY <1>2, <1>8, <2>1, <2>3, <2>4, <3>1, EndInOrder, Zenon
  <2>5. CASE /\ TakenAs(x, s, data, p) /\ x.b.kind # "X_END"
             /\ Close(s, "LIST", ValueEnd(s, p)) = Close(s, "LIST", p)
    <3>1. Element(None, x)
      BY <2>2, <2>5, Zenon
    <3>2. p = (IF over = "LIST" THEN p ELSE ValueEnd(s, p))
      BY <2>1, Zenon
    <3>3. QED
      BY <1>2, <1>8, <2>1, <2>3, <2>5, <3>1, <3>2, ElementInOrder, Zenon
  <2>6. QED
    BY <2>3, <2>4, <2>5, Zenon DEF ListFinds
<1>10. CASE DictNext /\ Hands(x.ctx.pos)
  <2>1. over = "DICT" /\ over # "LIST"
    BY <1>10 DEF DictNext, Call
  <2>2. \/ x.b.kind = "X_END" /\ ReturnEnd(x.ctx)
        \/ x.b.kind # "X_END" /\ y.b.kind = "X_END" /\ ReturnEnd(y.ctx)
        \/ x.b.kind # "X_END" /\ y.b.kind # "X_END" /\ Element(x.b, y)
    BY <1>10, Zenon DEF DictNext
  <2>3. p \in 1 .. Len(s) /\ DictFinds(s, p, x, y)
    <3>1. Close(s, "DICT", p) # 0 /\ x = BenrNext(data, Rest(s, p))
      BY <1>5, <2>1, Zenon
    <3>2. y = BenrNext(data, x.ctx)
      OBVIOUS
    <3> HIDE DEF x, y
    <3>3. QED
      BY <1>5, <3>1, <3>2, DictFound, Zenon
  <2>4. PICK start : start = x.ctx.pos /\ Hands(start)
    BY <1>10, Zenon
  <2> HIDE DEF x, y
  <2>5. CASE x.b.kind = "X_END" /\ Close(s, "DICT", p) = p
    <3>1. ReturnEnd(x.ctx)
      BY <2>2, <2>5, Zenon
    <3>2. QED
      BY <1>2, <1>8, <2>1, <2>3, <2>4, <2>5, <3>1, EndInOrder, Zenon
  <2>6. ASSUME NEW at \in 1 .. Len(s), Pair(s, p, x, y, at), x.ctx = Rest(s, at)
        PROVE  InOrder(s)' /\ Steps
    <3>1. /\ x.b.kind # "X_END" /\ y.b.kind # "X_END"
          /\ at = ValueEnd(s, p) /\ TakenAs(y, s, data, at)
          /\ Close(s, "DICT", ValueEnd(s, at)) = Close(s, "DICT", p)
      BY <2>6, Zenon DEF Pair
    <3>2. Element(x.b, y)
      BY <2>2, <3>1, Zenon
    <3>3. start = at
      BY <2>4, <2>6, RestPos, Zenon
    <3>4. at = (IF over = "LIST" THEN p ELSE ValueEnd(s, p))
      BY <2>1, <3>1, Zenon
    <3>5. QED
      BY <1>2, <1>8, <2>1, <2>3, <2>4, <3>1, <3>2, <3>3, <3>4, ElementInOrder, Zenon
  <2>7. QED
    BY <2>3, <2>5, <2>6, Zenon DEF DictFinds
<1>11. QED
  BY <1>6, <1>9, <1>10, Zenon

\* a round of ctx_adv_container
LEMMA SkipInOrder ==
  ASSUME NEW s, IsMessage(s), UnderWay(s), InOrder(s), SkipOn, UnderWay(s)'
  PROVE  InOrder(s)' /\ Steps
<1>1. data = s /\ s \in Seq(Nat)
  BY MessageIs
<1>2. PICK n \in Nat : n = Len(s)
  BY MessageIs
<1> DEFINE t == BenrNext(data, skip)
<1>3. Skip /\ pc = "skip" /\ Hands(v.at.pos - 1) /\ outer' = outer /\ places' = places
  BY Zenon DEF SkipOn, Skip
<1>4. ScanDeeper(t) \/ ScanOn(t) \/ ScanUp(t) \/ Skipped(t) \/ SkipFails(t)
  BY <1>3, Zenon DEF Skip
<1>5. Skipping(s) /\ over \in Kinds /\ Iterating(s)
  BY <1>3 DEF UnderWay, Iterating, AtRest, AtEnd
<1>6. over' = over /\ base' = base /\ from' = from
  BY <1>4, Zenon DEF ScanDeeper, ScanOn, ScanUp, Skipped, SkipFails, Scan
<1> HIDE DEF t
<1>7. PICK at : at = At(s)
  OBVIOUS
<1>8. PICK e : e = ValueEnd(s, at)
  OBVIOUS
<1>9. Now(s) = ValuesIn(s, at) \cup Remaining(s, over, e)
  BY <1>3, <1>7, <1>8, Zenon DEF Now
<1>10. At(s)' = at
  BY <1>6, <1>7, Zenon DEF At
<1>11. Nested(s)' /\ Beyond(s)' = Beyond(s) /\ met \in Seq(Nat) /\ Nested(s)
       /\ Still = Now(s) \cup Beyond(s)
  BY <1>3, <1>6, AroundStays, Zenon DEF InOrder
<1>12. CASE Skipped(t)
  <2>1. ctx' = t.ctx /\ pc' = "idle" /\ ret' = "ok" /\ val' = v
    BY <1>12, Zenon DEF Skipped, Return
  <2>2. ReadAs(v, s, data, at) /\ IsContainer(v) /\ v.kind \in Kinds /\ v # None /\ ~IsError(v)
        /\ Close(s, over, e) = Close(s, over, base)
    <3>1. ReadAs(v, s, data, at) /\ IsContainer(v) /\ Close(s, over, e) = Close(s, over, base)
      BY <1>5, <1>7, <1>8, Zenon DEF Skipping, Taking
    <3>2. v.kind \in Kinds
      BY <3>1, KindsAre, Zenon DEF IsContainer
    <3>3. v # None /\ ~IsError(v)
      BY <3>2, KindsAre DEF None, Benr, IsError
    <3>4. QED
      BY <3>1, <3>2, <3>3
  <2>3. /\ at \in 1 .. n /\ e # 0
        /\ ValuesIn(s, at) = {at} \cup Remaining(s, v.kind, at + 1)
    <3>1. at \in 1 .. Len(s) /\ ValueEnd(s, at) # 0
      BY <1>1, <2>2, Zenon DEF ReadAs
    <3>2. ValuesIn(s, at) = {at} \cup Remaining(s, v.kind, at + 1)
      <4>1. ReadAs(v, s, data, at) /\ v.kind \in Kinds
        BY <2>2, Zenon
      <4>2. QED
        BY <4>1, ContainerRead
    <3>3. QED
      BY <1>2, <1>8, <3>1, <3>2
  <2>4. v.at.pos = at + 1
    <3>1. v.at = Rest(data, at + 1)
      BY <2>2, Zenon DEF ReadAs
    <3>2. QED
      BY <3>1, RestPos
  <2>5. ctx'.pos = e
    <3>1. AtRest(s)'
      BY <2>1 DEF UnderWay, Iterating, AtEnd, Skipping
    <3>2. val' # None
      BY <2>1, <2>2
    <3>3. \E p : ctx' = Rest(data', p) /\ p = ValueEnd(s, at)
      BY <1>10, <3>1, <3>2, Zenon DEF AtRest
    <3>4. QED
      BY <1>8, <3>3, RestPos, Zenon
  <2>6. Now(s)' = Remaining(s, v.kind, at + 1) \cup Remaining(s, over, e)
    <3>1. pc' # "skip" /\ ret' # "end"
      BY <2>1
    <3>2. IsContainer(val)'
      BY <2>1, <2>2, Zenon DEF IsContainer
    <3>3. QED
      BY <1>6, <2>1, <2>4, <2>5, <3>1, <3>2, Zenon DEF Now
  <2>7. met' = Append(met, at)
    <3>1. pc' # "skip"
      BY <2>1
    <3>2. v.at.pos - 1 = at
      BY <2>3, <2>4
    <3>3. QED
      BY <1>3, <2>1, <2>2, <3>1, <3>2, Zenon DEF Hands
  <2>8. PICK X : X = Now(s)' \cup Beyond(s)'
    OBVIOUS
  <2>9. Still = {at} \cup X
    BY <1>9, <1>11, <2>3, <2>6, <2>8
  <2>10. \A q \in X : at < q
    <3>1. \A q \in Remaining(s, over, e) \cup Beyond(s) : at < q
      BY <1>2, <1>8, <1>11, <2>2, <2>3, LaterThan, Zenon
    <3>2. \A q \in Remaining(s, v.kind, at + 1) : at < q
      <4>1. at + 1 \in 1 .. n + 1
        BY <2>3
      <4>2. \A q \in Remaining(s, v.kind, at + 1) : q \in at + 1 .. Close(s, v.kind, at + 1) - 1
        BY <1>1, <1>2, <2>2, <4>1, ValuesBounds
      <4>3. QED
        BY <2>3, <4>2
    <3>3. QED
      BY <1>11, <2>6, <2>8, <3>1, <3>2
  <2>11. met' \in Seq(Nat) /\ Still' = X /\ Walk!Meet
    <3>1. at \in Nat
      BY <2>3
    <3>2. QED
      BY <1>3, <1>11, <2>7, <2>9, <2>10, <3>1, MeetsNext, Zenon
  <2>12. QED
    BY <1>11, <2>8, <2>11, Zenon DEF InOrder, Steps
<1>13. CASE ScanDeeper(t) \/ ScanOn(t) \/ ScanUp(t)
  <2>1. pc' = "skip"
    BY <1>3, <1>13, Zenon DEF ScanDeeper, ScanOn, ScanUp
  <2>2. Now(s)' = Now(s)
    BY <1>6, <1>8, <1>9, <1>10, <2>1, Zenon DEF Now
  <2>3. met' = met
    BY <1>3, <2>1 DEF Hands
  <2>4. met' \in Seq(Nat) /\ Still' = Still
    BY <1>3, <1>11, <2>3, MeetsNone, Zenon
  <2>5. QED
    BY <1>3, <1>11, <2>2, <2>3, <2>4, Zenon DEF InOrder, Steps
<1>14. CASE SkipFails(t)
  <2>1. ~clean'
    BY <1>14, Zenon DEF SkipFails
  <2>2. QED
    BY <2>1, Zenon DEF UnderWay
<1>15. QED
  BY <1>4, <1>12, <1>13, <1>14, Zenon

\* the value just read is a container, and it is read before what follows it
LEMMA EnterInOrder ==
  ASSUME NEW s, IsMessage(s), UnderWay(s), InOrder(s), Enter
  PROVE  InOrder(s)' /\ Steps
<1>1. data = s /\ s \in Seq(Nat)
  BY MessageIs
<1>2. PICK n \in Nat : n = Len(s)
  BY MessageIs
<1>3. /\ outer' = <<Here>> \o outer /\ places' = places /\ met' = met
      /\ pc = "idle" /\ ret = "ok" /\ IsContainer(val)
      /\ over' = val.kind /\ base' = val.at.pos /\ ctx' = val.at
      /\ pc' = "idle" /\ ret' = "ok" /\ val' = None
  BY Zenon DEF Enter, Descend, Iterate
<1>4. /\ over \in Kinds /\ base \in 1 .. n + 1 /\ Close(s, over, base) # 0
      /\ outer \in Seq(Frames) /\ AtRest(s)
  <2>1. /\ Iterating(s) /\ over \in Kinds /\ base \in 1 .. n + 1 /\ Close(s, over, base) # 0
        /\ outer \in Seq(Frames)
    BY <1>1, <1>2, Zenon DEF UnderWay, Iterating
  <2>2. AtRest(s)
    BY <1>3, <2>1 DEF Iterating, AtEnd, Skipping
  <2>3. QED
    BY <2>1, <2>2
<1>5. PICK p \in 1 .. n + 1 :
        /\ ctx = Rest(data, p) /\ Close(s, over, p) = Close(s, over, base)
        /\ val # None => Taking(s, key, val) /\ p = ValueEnd(s, At(s))
  BY <1>1, <1>2, <1>4, Zenon DEF AtRest
<1>6. val.kind \in Kinds
  BY <1>3, KindsAre, Zenon DEF IsContainer
<1>7. val # None
  BY <1>6, KindsAre DEF None, Benr
<1>8. PICK at : at = At(s)
  OBVIOUS
<1>9. ReadAs(val, s, data, at) /\ p = ValueEnd(s, at)
  BY <1>5, <1>7, <1>8, Zenon DEF Taking
<1>10. /\ at \in 1 .. n /\ p = Close(s, val.kind, at + 1) + 1
       /\ Close(s, val.kind, at + 1) \in at + 1 .. n
  <2>1. at \in 1 .. Len(s)
    BY <1>1, <1>9, Zenon DEF ReadAs
  <2>2. /\ ValueEnd(s, at) = Close(s, val.kind, at + 1) + 1
        /\ Close(s, val.kind, at + 1) \in at + 1 .. Len(s)
    BY <1>6, <1>9, ContainerRead
  <2>3. QED
    BY <1>2, <1>9, <2>1, <2>2
<1>11. val.at.pos = at + 1 /\ ctx.pos = p
  <2>1. val.at = Rest(data, at + 1) /\ ctx = Rest(data, p)
    BY <1>5, <1>6, <1>9, Zenon DEF ReadAs
  <2>2. QED
    BY <2>1, RestPos
<1>12. PICK inside : inside = Remaining(s, val.kind, val.at.pos)
  OBVIOUS
<1>13. PICK behind : behind = Remaining(s, over, ctx.pos)
  OBVIOUS
<1>14. Now(s) = inside \cup behind
  <2>1. pc # "skip" /\ ret # "end"
    BY <1>3
  <2>2. QED
    BY <1>3, <1>12, <1>13, <2>1, Zenon DEF Now
<1>15. Now(s)' = inside
  <2>1. pc' # "skip" /\ ret' # "end"
    BY <1>3
  <2>2. ~IsContainer(val)'
    BY <1>3 DEF IsContainer, None, Benr, ContainerKinds
  <2>3. Now(s)' = {} \cup inside
    BY <1>3, <1>12, <2>1, <2>2, Zenon DEF Now
  <2>4. QED
    BY <2>3
<1>16. PICK m \in Nat : m = Len(outer)
  BY <1>4
<1>17. /\ Len(outer') = m + 1 /\ outer'[1] = Here
       /\ \A i \in 1 .. m : outer'[i + 1] = outer[i]
  <2>1. Here \in Frames
    <3>1. base \in Nat
      BY <1>4
    <3>2. ctx \in [pos : Nat, len : Nat]
      <4>1. p \in Nat /\ Len(s) + 1 - p \in Nat
        BY <1>2
      <4>2. QED
        BY <1>1, <1>5, <4>1 DEF Rest, Ctx
    <3>3. QED
      BY <1>4, <3>1, <3>2 DEF Here, Frames
  <2>2. QED
    BY <1>3, <1>4, <1>16, <2>1, Pushed
<1>18. Here.over = over /\ Here.base = base /\ Here.ctx = ctx
  BY DEF Here
<1>19. \A i \in 1 .. m + 1 : i = 1 \/ \E j \in 1 .. m : i = j + 1
  <2>1. ASSUME NEW i \in 1 .. m + 1, i # 1 PROVE \E j \in 1 .. m : i = j + 1
    <3>1. i - 1 \in 1 .. m /\ i = (i - 1) + 1
      BY <2>1
    <3>2. QED
      BY <3>1, Zenon
  <2>2. QED
    BY <2>1, Zenon
<1>20. 1 \in 1 .. m + 1 /\ \A j \in 1 .. m : j + 1 \in 1 .. m + 1
  OBVIOUS
<1>21. Beyond(s)' = behind \cup Beyond(s)
  <2>1. \A q \in Beyond(s)' : q \in behind \cup Beyond(s)
    <3>1. SUFFICES ASSUME NEW i \in 1 .. m + 1,
                          NEW q \in Remaining(s, outer'[i].over, outer'[i].ctx.pos)
                   PROVE  q \in behind \cup Beyond(s)
      BY <1>17 DEF Beyond
    <3>2. CASE i = 1
      BY <1>13, <1>17, <1>18, <3>1, <3>2
    <3>3. CASE i # 1
      <4>1. PICK j \in 1 .. m : i = j + 1
        BY <1>19, <3>3
      <4>2. q \in Remaining(s, outer[j].over, outer[j].ctx.pos)
        BY <1>17, <3>1, <4>1, Zenon
      <4>3. q \in Beyond(s)
        BY <1>16, <4>2 DEF Beyond
      <4>4. QED
        BY <4>3
    <3>4. QED
      BY <3>2, <3>3
  <2>2. \A q \in behind : q \in Beyond(s)'
    BY <1>13, <1>17, <1>18, <1>20 DEF Beyond
  <2>3. \A q \in Beyond(s) : q \in Beyond(s)'
    <3>1. SUFFICES ASSUME NEW j \in 1 .. m,
                          NEW q \in Remaining(s, outer[j].over, outer[j].ctx.pos)
                   PROVE  q \in Beyond(s)'
      BY <1>16 DEF Beyond
    <3>2. PICK i \in 1 .. m + 1 : i = j + 1
      BY <1>20
    <3>3. q \in Remaining(s, outer'[i].over, outer'[i].ctx.pos)
      BY <1>17, <3>1, <3>2, Zenon
    <3>4. QED
      BY <1>17, <3>3 DEF Beyond
  <2>4. QED
    BY <2>1, <2>2, <2>3
<1>22. /\ met \in Seq(Nat) /\ Still = Now(s) \cup Beyond(s)
       /\ \A i \in 1 .. m : Close(s, over, base) < outer[i].ctx.pos
       /\ \A i, j \in 1 .. m :
            i < j => Close(s, outer[i].over, outer[i].base) < outer[j].ctx.pos
  BY <1>16, Zenon DEF InOrder, Nested
<1>23. met' \in Seq(Nat) /\ Still' = Still
  BY <1>3, <1>22, MeetsNone, Zenon
<1>24. Still' = Now(s)' \cup Beyond(s)'
  BY <1>14, <1>15, <1>21, <1>22, <1>23
<1>25. PICK c \in Nat : c = Close(s, over, base) /\ p <= c
  <2>1. Close(s, over, p) \in p .. n
    BY <1>1, <1>2, <1>4, <1>5, CloseBounds, Zenon
  <2>2. QED
    BY <1>5, <2>1
<1>26. PICK d \in Nat : d = Close(s, val.kind, val.at.pos) /\ d < p /\ d < c
  <2>1. PICK e \in at + 1 .. n : e = Close(s, val.kind, at + 1) /\ p = e + 1
    BY <1>10, Zenon
  <2>2. Close(s, val.kind, val.at.pos) = e
    BY <1>11, <2>1, Zenon
  <2>3. e \in Nat /\ e < p /\ e < c
    BY <1>25, <2>1
  <2>4. QED
    BY <2>2, <2>3
<1>27. \A i \in 1 .. m : outer[i].ctx.pos \in Nat
  <2>1. \A i \in 1 .. m : outer[i] \in Frames
    BY <1>4, <1>16
  <2>2. \A o \in Frames : o.ctx.pos \in Nat
    BY DEF Frames
  <2>3. QED
    BY <2>1, <2>2, Zenon
<1>28. \A i \in 1 .. m + 1 : Close(s, over', base') < outer'[i].ctx.pos
  <2>1. Close(s, over', base') = d
    BY <1>3, <1>26, Zenon
  <2>2. d < outer'[1].ctx.pos
    BY <1>11, <1>17, <1>18, <1>26, Zenon
  <2>3. \A j \in 1 .. m : d < outer[j].ctx.pos
    <3>1. SUFFICES ASSUME NEW j \in 1 .. m PROVE d < outer[j].ctx.pos
      OBVIOUS
    <3>2. PICK o \in Nat : o = outer[j].ctx.pos
      BY <1>27
    <3>3. c < o
      BY <1>22, <1>25, <3>2, Zenon
    <3>4. d < o
      BY <1>26, <3>3
    <3>5. QED
      BY <3>2, <3>4, Zenon
  <2>4. QED
    BY <1>17, <1>19, <2>1, <2>2, <2>3, Zenon
<1>29. ASSUME NEW i \in 1 .. m + 1, NEW j \in 1 .. m + 1, i < j
       PROVE  Close(s, outer'[i].over, outer'[i].base) < outer'[j].ctx.pos
  <2>1. PICK u \in 1 .. m : j = u + 1
    <3>1. j # 1
      BY <1>29
    <3>2. QED
      BY <1>19, <3>1
  <2>2. CASE i = 1
    <3>1. Close(s, outer'[i].over, outer'[i].base) = c
      BY <1>17, <1>18, <1>25, <2>2, Zenon
    <3>2. outer'[j].ctx.pos = outer[u].ctx.pos
      BY <1>17, <2>1, Zenon
    <3>3. QED
      BY <1>22, <1>25, <3>1, <3>2, Zenon
  <2>3. CASE i # 1
    <3>1. PICK w \in 1 .. m : i = w + 1
      BY <1>19, <2>3
    <3>2. w < u
      BY <1>29, <2>1, <3>1
    <3>3. Close(s, outer[w].over, outer[w].base) < outer[u].ctx.pos
      BY <1>22, <3>2, Zenon
    <3>4. QED
      BY <1>17, <2>1, <3>1, <3>3, Zenon
  <2>4. QED
    BY <2>2, <2>3
<1>30. Nested(s)'
  BY <1>17, <1>28, <1>29, Zenon DEF Nested
<1>31. QED
  BY <1>3, <1>23, <1>24, <1>30, Zenon DEF InOrder, Steps

\* the container is at its end: on with the one around it
LEMMA LeaveInOrder ==
  ASSUME NEW s, IsMessage(s), UnderWay(s), InOrder(s), Leave
  PROVE  InOrder(s)' /\ Steps
<1>1. /\ pc = "idle" /\ ret = "end" /\ outer # <<>>
      /\ over' = Head(outer).over /\ base' = Head(outer).base /\ ctx' = Head(outer).ctx
      /\ outer' = Tail(outer) /\ ret' = "ok" /\ val' = None /\ pc' = "idle"
      /\ places' = places /\ met' = met
  BY Zenon DEF Leave
<1>2. outer \in Seq(Frames)
  BY Zenon DEF UnderWay
<1>3. /\ Len(Tail(outer)) = Len(outer) - 1 /\ Len(outer) \in Nat \ {0}
      /\ Head(outer) = outer[1]
      /\ \A i \in 1 .. Len(outer) - 1 : Tail(outer)[i] = outer[i + 1]
  BY <1>1, <1>2, Popped
<1>4. PICK m \in Nat : m = Len(outer) - 1
  <2>1. Len(outer) \in Nat \ {0}
    BY <1>3, Zenon
  <2>2. Len(outer) - 1 \in Nat
    BY <2>1
  <2>3. QED
    BY <2>2
<1>5. Len(outer) = m + 1 /\ Len(outer') = m /\ \A i \in 1 .. m : outer'[i] = outer[i + 1]
  BY <1>1, <1>3, <1>4
<1>6. PICK o : o = outer[1]
  OBVIOUS
<1>7. over' = o.over /\ base' = o.base /\ ctx' = o.ctx
  BY <1>1, <1>3, <1>6, Zenon
<1>8. PICK here : here = Remaining(s, o.over, o.ctx.pos)
  OBVIOUS
<1>9. Now(s) = {}
  <2>1. pc # "skip"
    BY <1>1
  <2>2. QED
    BY <1>1, <2>1, Zenon DEF Now
<1>10. Now(s)' = here
  <2>1. pc' # "skip" /\ ret' # "end"
    BY <1>1
  <2>2. ~IsContainer(val)'
    BY <1>1 DEF IsContainer, None, Benr, ContainerKinds
  <2>3. Now(s)' = {} \cup here
    BY <1>7, <1>8, <2>1, <2>2, Zenon DEF Now
  <2>4. QED
    BY <2>3
<1>11. \A i \in 1 .. m + 1 : i = 1 \/ \E j \in 1 .. m : i = j + 1
  <2>1. ASSUME NEW i \in 1 .. m + 1, i # 1 PROVE \E j \in 1 .. m : i = j + 1
    <3>1. i - 1 \in 1 .. m /\ i = (i - 1) + 1
      BY <2>1
    <3>2. QED
      BY <3>1, Zenon
  <2>2. QED
    BY <2>1, Zenon
<1>12. 1 \in 1 .. m + 1 /\ \A j \in 1 .. m : j + 1 \in 1 .. m + 1
  OBVIOUS
<1>13. Beyond(s) = here \cup Beyond(s)'
  <2>1. \A q \in Beyond(s) : q \in here \cup Beyond(s)'
    <3>1. SUFFICES ASSUME NEW i \in 1 .. m + 1,
                          NEW q \in Remaining(s, outer[i].over, outer[i].ctx.pos)
                   PROVE  q \in here \cup Beyond(s)'
      BY <1>5 DEF Beyond
    <3>2. CASE i = 1
      BY <1>6, <1>8, <3>1, <3>2
    <3>3. CASE i # 1
      <4>1. PICK j \in 1 .. m : i = j + 1
        BY <1>11, <3>3
      <4>2. q \in Remaining(s, outer'[j].over, outer'[j].ctx.pos)
        BY <1>5, <3>1, <4>1, Zenon
      <4>3. q \in Beyond(s)'
        BY <1>5, <4>2 DEF Beyond
      <4>4. QED
        BY <4>3
    <3>4. QED
      BY <3>2, <3>3
  <2>2. \A q \in here : q \in Beyond(s)
    BY <1>5, <1>6, <1>8, <1>12 DEF Beyond
  <2>3. \A q \in Beyond(s)' : q \in Beyond(s)
    <3>1. SUFFICES ASSUME NEW j \in 1 .. m,
                          NEW q \in Remaining(s, outer'[j].over, outer'[j].ctx.pos)
                   PROVE  q \in Beyond(s)
      BY <1>5 DEF Beyond
    <3>2. PICK i \in 1 .. m + 1 : i = j + 1
      BY <1>12
    <3>3. q \in Remaining(s, outer[i].over, outer[i].ctx.pos)
      BY <1>5, <3>1, <3>2, Zenon
    <3>4. QED
      BY <1>5, <3>3 DEF Beyond
  <2>4. QED
    BY <2>1, <2>2, <2>3
<1>14. /\ met \in Seq(Nat) /\ Still = Now(s) \cup Beyond(s)
       /\ \A i, j \in 1 .. m + 1 :
            i < j => Close(s, outer[i].over, outer[i].base) < outer[j].ctx.pos
  BY <1>5, Zenon DEF InOrder, Nested
<1>15. met' \in Seq(Nat) /\ Still' = Still
  BY <1>1, <1>14, MeetsNone, Zenon
<1>16. Still' = Now(s)' \cup Beyond(s)'
  BY <1>9, <1>10, <1>13, <1>14, <1>15
<1>17. ASSUME NEW j \in 1 .. m
       PROVE  Close(s, over', base') < outer'[j].ctx.pos
  <2>1. PICK u \in 1 .. m + 1 : u = j + 1 /\ 1 < u
    BY <1>12
  <2>2. Close(s, outer[1].over, outer[1].base) < outer[u].ctx.pos
    BY <1>12, <1>14, <2>1, Zenon
  <2>3. outer'[j] = outer[u]
    BY <1>5, <2>1, Zenon
  <2>4. QED
    BY <1>6, <1>7, <2>2, <2>3, Zenon
<1>18. ASSUME NEW i \in 1 .. m, NEW j \in 1 .. m, i < j
       PROVE  Close(s, outer'[i].over, outer'[i].base) < outer'[j].ctx.pos
  <2>1. PICK w \in 1 .. m + 1 : w = i + 1
    BY <1>12
  <2>2. PICK u \in 1 .. m + 1 : u = j + 1
    BY <1>12
  <2>3. w < u
    BY <1>18, <2>1, <2>2
  <2>4. outer'[i] = outer[w] /\ outer'[j] = outer[u]
    BY <1>5, <2>1, <2>2, Zenon
  <2>5. QED
    BY <1>14, <2>3, <2>4, Zenon
<1>19. Nested(s)'
  BY <1>5, <1>17, <1>18, Zenon DEF Nested
<1>20. QED
  BY <1>1, <1>15, <1>16, <1>19, Zenon DEF InOrder, Steps

\* benr_init reads the value the message is
LEMMA MessageReads ==
  ASSUME NEW s, IsMessage(s)
  PROVE  ReadAs(BenrInit(data), s, data, 1)
<1>1. data = s /\ ValueEnd(s, 1) = Len(s) + 1
  BY MessageIs
<1>2. PICK n \in Nat : n = Len(s) /\ n # 0
  BY MessageIs
<1>3. PICK x : x = BenrNext(data, Whole(data))
  OBVIOUS
<1>4. Whole(data) = Rest(s, 1)
  BY <1>1, <1>2 DEF Whole, Rest
<1>5. 1 \in 1 .. Len(s) /\ ValueEnd(s, 1) # 0
  BY <1>1, <1>2
<1>6. ReadAs(x.b, s, data, 1)
  BY <1>3, <1>4, <1>5, TakenWhole, Zenon DEF TakenAs
<1>7. x.b.kind # "X_END"
  BY <1>6 DEF ReadAs
<1>8. BenrInit(data) = x.b
  BY <1>3, <1>7, Zenon DEF BenrInit
<1>9. QED
  BY <1>6, <1>8, Zenon

\* what there is to meet in a message, before anything of it is read
LEMMA AllAhead ==
  ASSUME NEW s, IsMessage(s), places = ValuePositions(s), met = <<>>
  PROVE  met \in Seq(Nat) /\ Still = ValuesIn(s, 1)
<1>1. WellFormed(s)
  BY MessageIs, SourceIs, Zenon
<1>2. places = ValuesIn(s, 1)
  BY <1>1, Zenon DEF ValuePositions, ValuesIn
<1>3. met \in Seq(Nat) /\ Len(met) = 0
  OBVIOUS
<1>4. ~\E i : i \in 1 .. 0
  OBVIOUS
<1>5. \A i \in 1 .. Len(met) : FALSE
  BY <1>3, <1>4, Zenon
<1>6. Still = places
  BY <1>5 DEF Still
<1>7. QED
  BY <1>2, <1>3, <1>6, Zenon

\* the message is a container: it is met, and what is in it is to come
LEMMA OpenInOrder ==
  ASSUME NEW s, IsMessage(s), Unopened, outer = <<>>, met = <<>>,
         places = ValuePositions(s), OpenContainer
  PROVE  InOrder(s)' /\ Steps
<1>1. PICK b : b = BenrInit(data)
  OBVIOUS
<1>2. /\ over' = b.kind /\ base' = b.at.pos /\ ctx' = b.at /\ ret' = "ok" /\ val' = None
      /\ pc' = pc /\ pc = "idle" /\ IsContainer(b)
      /\ met' = <<1>> /\ outer' = <<>> /\ places' = places
  BY <1>1, Zenon DEF OpenContainer, OpenMessage, Iterate, Unopened
<1>3. b.kind \in Kinds
  BY <1>2, KindsAre, Zenon DEF IsContainer
<1>4. ReadAs(b, s, data, 1)
  BY <1>1, MessageReads, Zenon
<1>5. b.at.pos = 1 + 1
  <2>1. b.at = Rest(data, 1 + 1)
    BY <1>3, <1>4, Zenon DEF ReadAs
  <2>2. QED
    BY <2>1, RestPos
<1>6. PICK X : X = Remaining(s, b.kind, 1 + 1)
  OBVIOUS
<1>7. met \in Seq(Nat) /\ Still = {1} \cup X
  <2>1. met \in Seq(Nat) /\ Still = ValuesIn(s, 1)
    BY AllAhead
  <2>2. ValuesIn(s, 1) = {1} \cup Remaining(s, b.kind, 1 + 1)
    BY <1>3, <1>4, ContainerRead
  <2>3. QED
    BY <1>6, <2>1, <2>2
<1>8. \A q \in X : 1 < q
  <2>1. PICK n \in Nat : n = Len(s) /\ n # 0 /\ s \in Seq(Nat)
    BY MessageIs
  <2>2. 1 + 1 \in 1 .. Len(s) + 1
    BY <2>1
  <2>3. PICK c : c = Close(s, b.kind, 1 + 1)
    OBVIOUS
  <2>4. c \in 1 + 1 .. n
    <3>1. Close(s, b.kind, 1 + 1) \in 1 + 1 .. Len(s)
      BY <1>3, <1>4, ContainerRead
    <3>2. QED
      BY <2>1, <2>3, <3>1
  <2>5. X \subseteq 1 + 1 .. c - 1
    BY <1>3, <1>6, <2>1, <2>2, <2>3, ValuesBounds, Zenon
  <2>6. QED
    BY <2>4, <2>5
<1>9. met' = Append(met, 1)
  BY <1>2
<1>10. met' \in Seq(Nat) /\ Still' = X /\ Walk!Meet
  <2>1. 1 \in Nat
    OBVIOUS
  <2>2. QED
    BY <1>2, <1>7, <1>8, <1>9, <2>1, MeetsNext, Zenon
<1>11. ~\E i : i \in 1 .. Len(outer')
  BY <1>2
<1>12. Nested(s)'
  BY <1>11, Zenon DEF Nested
<1>13. Beyond(s)' = {}
  BY <1>11 DEF Beyond
<1>14. Now(s)' = X
  <2>1. pc' # "skip" /\ ret' # "end"
    BY <1>2
  <2>2. ~IsContainer(val)'
    BY <1>2 DEF IsContainer, None, Benr, ContainerKinds
  <2>3. Now(s)' = {} \cup X
    BY <1>2, <1>5, <1>6, <2>1, <2>2, Zenon DEF Now
  <2>4. QED
    BY <2>3
<1>15. Still' = Now(s)' \cup Beyond(s)'
  BY <1>10, <1>13, <1>14
<1>16. QED
  BY <1>10, <1>12, <1>15, Zenon DEF InOrder, Steps

\* it is a number or a string: it is met, and that is all
LEMMA OpenOtherInOrder ==
  ASSUME NEW s, IsMessage(s), met = <<>>, places = ValuePositions(s), OpenOther
  PROVE  Steps
<1>1. PICK b : b = BenrInit(data)
  OBVIOUS
<1>2. /\ ~IsContainer(b) /\ places' = places
      /\ met' = IF IsError(b) \/ b = None THEN <<>> ELSE <<1>>
  BY <1>1, Zenon DEF OpenOther
<1>3. ReadAs(b, s, data, 1)
  BY <1>1, MessageReads, Zenon
<1>4. b.kind \notin Kinds
  BY <1>2, KindsAre, Zenon DEF IsContainer
<1>5. ~IsError(b) /\ b # None
  BY <1>3 DEF ReadAs, IsError, ErrorKinds, None, Benr
<1>6. met \in Seq(Nat) /\ Still = {1}
  <2>1. met \in Seq(Nat) /\ Still = ValuesIn(s, 1)
    BY AllAhead
  <2>2. ValuesIn(s, 1) = {1}
    BY <1>3, <1>4, OtherRead
  <2>3. QED
    BY <2>1, <2>2
<1>7. met' = Append(met, 1)
  BY <1>2, <1>5
<1>8. Walk!Meet
  <2>1. PICK X : X = {}
    OBVIOUS
  <2>2. 1 \in Nat /\ Still = {1} \cup X /\ \A q \in X : 1 < q
    BY <1>6, <2>1
  <2>3. QED
    BY <1>2, <1>6, <1>7, <2>2, MeetsNext, Zenon
<1>9. QED
  BY <1>8 DEF Steps

\* what an iteration is over when it is under way
LEMMA OverKind ==
  ASSUME NEW s, UnderWay(s)
  PROVE  over # "none" /\ over # "nothing"
BY DEF UnderWay, Iterating, Kinds

\* every step of the caller, on any message: it keeps the order, and meets the first
\* of what is ahead or nothing
LEMMA StepInOrder ==
  ASSUME NEW s, IsMessage(s), Walking(s), Ordered(s), [WalkNext]_walkVars
  PROVE  Ordered(s)' /\ Steps
<1>1. /\ places = ValuePositions(s) /\ (over = "none" => met = <<>>)
      /\ (UnderWay(s) => InOrder(s))
  BY Zenon DEF Ordered
<1>2. ASSUME Steps, over' # "none", UnderWay(s)' => InOrder(s)'
      PROVE  Ordered(s)' /\ Steps
  <2>1. places' = places
    BY <1>2, Zenon DEF Steps, Walk!Meet
  <2>2. QED
    BY <1>1, <1>2, <2>1, Zenon DEF Ordered
<1>3. ASSUME UNCHANGED walkVars
      PROVE  Ordered(s)' /\ Steps
  <2>1. UNCHANGED <<data, pc, over, base, ctx, from, ret, key, val, k, v, skip, depth,
                    clean, outer, met, places>>
    BY <1>3, Zenon DEF walkVars, iterVars
  <2>2. Steps
    BY <2>1, Zenon DEF Steps
  <2>3. InOrder(s)' = InOrder(s)
    BY <2>1 DEF InOrder, Nested, Still, Now, Beyond, At, IsContainer
  <2>4. UnderWay(s)' = UnderWay(s)
    <3>1. reads' = reads
      BY <1>3, Zenon DEF walkVars
    <3>2. QED
      BY <2>1, <3>1 DEF UnderWay, Iterating, AtRest, AtEnd, Skipping, Taking, At, IsError,
                        IsContainer, Resting, Budget, Owed, Left
  <2>5. QED
    BY <1>1, <2>1, <2>2, <2>3, <2>4, Zenon DEF Ordered
<1>4. CASE Unopened /\ clean /\ outer = <<>> /\ reads = 0
  <2>1. met = <<>>
    BY <1>1, <1>4, Zenon DEF Unopened
  <2>2. CASE OpenContainer
    <3>1. InOrder(s)' /\ Steps
      BY <1>1, <1>4, <2>1, <2>2, OpenInOrder, Zenon
    <3>2. UnderWay(s)'
      BY <1>4, <2>2, OpenWalks, Zenon
    <3>3. over' # "none"
      BY <3>2, KindsAre DEF UnderWay, Iterating
    <3>4. QED
      BY <1>2, <3>1, <3>3, Zenon
  <2>3. CASE OpenOther
    <3>1. Steps
      BY <1>1, <2>1, <2>3, OpenOtherInOrder, Zenon
    <3>2. over' = "nothing"
      BY <2>3, Zenon DEF OpenOther
    <3>3. over' # "none" /\ ~UnderWay(s)'
      BY <3>2 DEF UnderWay, Iterating, Kinds
    <3>4. QED
      BY <1>2, <3>1, <3>3, Zenon
  <2>4. ~Enter /\ ~Leave /\ ~Ask /\ ~SkipOn
    <3>1. over \notin ContainerKinds /\ pc # "skip" /\ ret # "end" /\ ~IsContainer(val)
      BY <1>4, KindsAre DEF Unopened, IsContainer, None, Benr
    <3>2. ~Enter
      BY <3>1, Zenon DEF Enter, Descend, Iterate
    <3>3. ~Leave /\ ~Ask
      BY <3>1, Zenon DEF Leave, Ask
    <3>4. ~SkipOn
      BY <3>1, Zenon DEF SkipOn, Skip
    <3>5. QED
      BY <3>2, <3>3, <3>4
  <2>5. QED
    BY <1>3, <2>2, <2>3, <2>4, Zenon DEF WalkNext
<1>5. CASE Over(s)
  <2>1. /\ over \notin ContainerKinds /\ over # "none" /\ pc # "skip" /\ ret # "end"
        /\ ~IsContainer(val)
    BY <1>5 DEF Over, IsContainer, ContainerKinds, None, Benr
  <2>2. ~Enter
    BY <2>1, Zenon DEF Enter, Descend, Iterate
  <2>3. ~Leave /\ ~Ask
    BY <2>1, Zenon DEF Leave, Ask
  <2>4. ~SkipOn
    BY <2>1, Zenon DEF SkipOn, Skip
  <2>5. ~OpenContainer /\ ~OpenOther
    BY <2>1, Zenon DEF OpenContainer, OpenMessage, OpenOther
  <2>6. QED
    BY <1>3, <2>2, <2>3, <2>4, <2>5, Zenon DEF WalkNext
<1>6. CASE UnderWay(s)
  <2>1. InOrder(s)
    BY <1>1, <1>6
  <2>2. ASSUME InOrder(s)', Steps, UnderWay(s)'
        PROVE  Ordered(s)' /\ Steps
    <3>1. over' # "none"
      BY <2>2, KindsAre DEF UnderWay, Iterating
    <3>2. QED
      BY <1>2, <2>2, <3>1, Zenon
  <2>3. CASE Enter
    BY <1>6, <2>1, <2>2, <2>3, EnterInOrder, EnterWalks, Zenon
  <2>4. CASE Leave
    BY <1>6, <2>1, <2>2, <2>4, LeaveInOrder, LeaveWalks, Zenon
  <2>5. CASE Ask
    BY <1>6, <2>1, <2>2, <2>5, AskInOrder, AskWalks, Zenon
  <2>6. CASE SkipOn
    <3>1. UnderWay(s)'
      BY <1>6, <2>6, SkipWalks, Zenon
    <3>2. InOrder(s)' /\ Steps
      BY <1>6, <2>1, <2>6, <3>1, SkipInOrder, Zenon
    <3>3. QED
      BY <2>2, <3>1, <3>2, Zenon
  <2>7. ~OpenContainer /\ ~OpenOther
    <3>1. over # "none"
      BY <1>6, OverKind, Zenon
    <3>2. QED
      BY <3>1, Zenon DEF OpenContainer, OpenMessage, OpenOther
  <2>8. QED
    BY <1>3, <2>3, <2>4, <2>5, <2>6, <2>7, Zenon DEF WalkNext
<1>7. QED
  BY <1>4, <1>5, <1>6, Zenon DEF Walking

\* no message of the model is too long for a uintmax_t
LEMMA MessagesFit ==
  ASSUME NEW t \in Messages
  PROVE  t \in Seq(0 .. 255) /\ Len(t) < UINTMAX
<1>1. CASE t \in Values \cup Others
  BY <1>1, MessagesAssumption, ValuesAssumption
<1>2. CASE t \in Truncated
  <2>1. PICK s \in Values : t \in Cut(s)
    BY <1>2, Zenon DEF Truncated
  <2>2. s \in Seq(0 .. 255) /\ Len(s) < UINTMAX
    BY MessagesAssumption, ValuesAssumption
  <2>3. PICK n \in 0 .. Len(s) - 1 : t = SubSeq(s, 1, n)
    BY <2>1, Zenon DEF Cut
  <2>4. t \in Seq(0 .. 255) /\ Len(t) = n
    <3>1. Len(s) \in Nat
      BY <2>2
    <3>2. n \in Nat /\ n <= Len(s)
      BY <2>3, <3>1
    <3>3. t \in Seq(0 .. 255)
      <4>1. PICK S : S = 0 .. 255
        OBVIOUS
      <4>2. s \in Seq(S)
        BY <2>2, <4>1
      <4>3. SubSeq(s, 1, n) \in Seq(S)
        BY <3>1, <3>2, <4>2
      <4>4. QED
        BY <2>3, <4>1, <4>3
    <3>4. Len(t) = n
      BY <2>2, <2>3, <3>2
    <3>5. QED
      BY <3>3, <3>4
  <2>5. Len(t) < UINTMAX
    BY <2>2, <2>3, <2>4, UintAssumption
  <2>6. QED
    BY <2>4, <2>5
<1>3. QED
  BY <1>1, <1>2, Zenon DEF Messages

\* and one that is well-formed is a whole message
LEMMA WholeMessage ==
  ASSUME data \in Messages, WellFormed(data)
  PROVE  IsMessage(data)
<1>1. data \in Seq(0 .. 255) /\ Len(data) < UINTMAX
  BY MessagesFit
<1>2. Begins(data, data)
  <2>1. data \in Seq(Nat) /\ Len(data) <= Len(data)
    BY <1>1, BytesAre
  <2>2. QED
    BY <2>1, Zenon DEF Begins, Same
<1>3. QED
  BY <1>1, <1>2, Zenon DEF IsMessage, Source

\* before anything is read
LEMMA OrderBegins == WalkInit => OrderInv /\ Walk!Init
<1>1. SUFFICES ASSUME WalkInit PROVE OrderInv /\ Walk!Init
  OBVIOUS
<1>2. /\ data \in Messages /\ over = "none" /\ met = <<>>
      /\ places = ValuePositions(data)
  BY <1>1, Zenon DEF WalkInit, Init
<1>3. \A s : ~UnderWay(s)
  <2>1. "none" \notin Kinds
    BY KindsAre
  <2>2. QED
    BY <1>2, <2>1, Zenon DEF UnderWay, Iterating
<1>4. OrderInv
  BY <1>2, <1>3, Zenon DEF OrderInv, Ordered, IsMessage
<1>5. places \subseteq Nat
  <2>1. CASE WellFormed(data)
    <3>1. IsMessage(data)
      BY <1>2, <2>1, WholeMessage, Zenon
    <3>2. data \in Seq(Nat) /\ 1 \in 1 .. Len(data) + 1 /\ ValueEnd(data, 1) = Len(data) + 1
      BY <3>1, MessageIs
    <3>3. PICK e \in Nat : e = ValueEnd(data, 1)
      BY <3>2
    <3>4. ValuesIn(data, 1) \subseteq 1 .. e - 1
      BY <3>2, <3>3, ValuesBounds, Zenon
    <3>5. places = ValuesIn(data, 1)
      BY <1>2, <2>1, Zenon DEF ValuePositions, ValuesIn
    <3>6. \A q \in 1 .. e - 1 : q \in Nat
      OBVIOUS
    <3>7. QED
      BY <3>4, <3>5, <3>6, Zenon
  <2>2. CASE ~WellFormed(data)
    BY <1>2, <2>2 DEF ValuePositions
  <2>3. QED
    BY <2>1, <2>2
<1>6. QED
  BY <1>2, <1>4, <1>5 DEF Walk!Init

\* the places of the values are fixed
LEMMA PlacesStay ==
  ASSUME [WalkNext]_walkVars
  PROVE  places' = places
BY Zenon DEF WalkNext, walkVars, OpenContainer, OpenOther, Enter, Leave, Ask, SkipOn

\* and with every step of the caller
LEMMA OrderGoesOn ==
  WalkInv /\ OrderInv /\ [WalkNext]_walkVars
    => OrderInv' /\ [Walk!Meet]_<<places, IF places = {} THEN <<>> ELSE met>>
<1>1. SUFFICES ASSUME WalkInv, OrderInv, [WalkNext]_walkVars
               PROVE  OrderInv' /\ [Walk!Meet]_<<places, IF places = {} THEN <<>> ELSE met>>
  OBVIOUS
<1>2. data' = data /\ places' = places
  BY <1>1, WalkKeepsMessage, PlacesStay, Zenon
<1>3. ASSUME NEW s, IsMessage(s) PROVE Ordered(s)' /\ Steps
  BY <1>1, <1>3, StepInOrder, Zenon DEF WalkInv, OrderInv
<1>4. \A s : IsMessage(s)' => IsMessage(s)
  BY <1>2 DEF IsMessage, Source
<1>5. OrderInv'
  BY <1>1, <1>2, <1>3, <1>4, Zenon DEF OrderInv
<1>6. CASE WellFormed(data)
  <2>1. IsMessage(data)
    BY <1>1, <1>6, WholeMessage, Zenon DEF OrderInv
  <2>2. PICK s : s = data
    OBVIOUS
  <2>3. Walk!Meet \/ UNCHANGED <<places, met>>
    BY <1>3, <2>1, <2>2, Zenon DEF Steps
  <2>4. QED
    BY <1>5, <2>3
<1>7. CASE ~WellFormed(data)
  <2>1. places = {}
    BY <1>1, <1>7 DEF OrderInv, ValuePositions
  <2>2. UNCHANGED <<places, IF places = {} THEN <<>> ELSE met>>
    BY <1>2, <2>1
  <2>3. QED
    BY <1>5, <2>2, Zenon
<1>8. QED
  BY <1>6, <1>7

\* A caller that reads a message with these iterators, each container as soon as it is
\* handed it, implements ValueWalk in every step: it is never handed a value out of
\* order, never one twice, and never goes past one, although benr.c has passed over
\* what is in a container by the time it hands it out.  That it goes on to the last
\* value rests on fairness, and is checked by TLC (MeetsEveryValue).
THEOREM WalkKeepsOrder == WalkSpec => Walk!Safety
<1>1. WalkInit => WalkInv /\ OrderInv /\ Walk!Init
  BY WalkBegins, OrderBegins
<1>2. WalkInv /\ [WalkNext]_walkVars => WalkInv'
  BY WalkGoesOn
<1>3. WalkInv /\ OrderInv /\ [WalkNext]_walkVars
        => OrderInv' /\ [Walk!Meet]_<<places, IF places = {} THEN <<>> ELSE met>>
  BY OrderGoesOn
<1>4. QED
  BY <1>1, <1>2, <1>3, PTL DEF WalkSpec, Walk!Safety
=============================================================================
