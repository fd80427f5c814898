------------------------------ MODULE BenpToken ------------------------------
(***************************************************************************)
(* The events of src/benp.c: benp_next takes one event off a context.      *)
(***************************************************************************)
EXTENDS Bytes

Event(kind, num, at) == [kind |-> kind, num |-> num, at |-> at]

NoBytes == Ctx(0, 0)

Emit(e, c) == [ev |-> e, ctx |-> c]

\* mutated: the end of the data ends the number
BenpUintAtEof(data, c, end) ==
  IF ~Stops(data, c)
  THEN Emit(Event("UINT", UintValue(data, c.pos, c.pos + c.len - 1), NoBytes),
            Advance(c, c.len))
  ELSE LET q == Stop(data, c) IN
    IF data[q] = end
    THEN Emit(Event("UINT", UintValue(data, c.pos, q - 1), NoBytes),
              Advance(c, q + 1 - c.pos))
    ELSE Emit(Event("UNEXPECTED_BYTE_IN_INT", 0, Ctx(q, 0)), c)

\* _benp_next_uint
BenpUint(data, c, end) ==
  IF ~Stops(data, c) THEN Emit(Event("UNEXPECTED_EOF", 0, NoBytes), c)
  ELSE LET q == Stop(data, c) IN
    IF data[q] = end
    THEN Emit(Event("UINT", UintValue(data, c.pos, q - 1), NoBytes),
              Advance(c, q + 1 - c.pos))
    ELSE Emit(Event("UNEXPECTED_BYTE_IN_INT", 0, Ctx(q, 0)), c)

\* mutated: the caller's context is advanced past the `i' at once
BenpIntegerEager(data, c) ==
  LET d == Advance(c, 1) IN
  IF d.len = 0 THEN Emit(Event("UNEXPECTED_EOF", 0, NoBytes), d)
  ELSE LET minus == Peek(data, d) = MINUS
           u == BenpUint(data, IF minus THEN Advance(d, 1) ELSE d, E)
       IN IF u.ev.kind # "UINT" THEN Emit(u.ev, d)
          ELSE Emit(Event("INTEGER", Signed(u.ev.num, IF minus THEN -1 ELSE 1),
                          NoBytes), u.ctx)

BenpInteger(data, c) ==
  LET d == Advance(c, 1) IN
  IF d.len = 0 THEN Emit(Event("UNEXPECTED_EOF", 0, NoBytes), c)
  ELSE LET minus == Peek(data, d) = MINUS
           u == BenpUint(data, IF minus THEN Advance(d, 1) ELSE d, E)
       IN IF u.ev.kind # "UINT" THEN Emit(u.ev, c)
          ELSE Emit(Event("INTEGER", Signed(u.ev.num, IF minus THEN -1 ELSE 1),
                          NoBytes), u.ctx)

\* mutated: the string is read, and its bytes are left to be read again
BenpStringStays(data, c) ==
  LET u == BenpUint(data, c, COLON) IN
  IF u.ev.kind # "UINT" THEN Emit(u.ev, c)
  ELSE IF u.ev.num \in 0 .. u.ctx.len
    THEN Emit(Event("STRING", 0, Ctx(u.ctx.pos, u.ev.num)), u.ctx)
    ELSE Emit(Event("STRING_TOO_LONG", u.ev.num, NoBytes), c)

BenpString(data, c) ==
  LET u == BenpUint(data, c, COLON) IN
  IF u.ev.kind # "UINT" THEN Emit(u.ev, c)
  ELSE IF u.ev.num \in 0 .. u.ctx.len
    THEN Emit(Event("STRING", 0, Ctx(u.ctx.pos, u.ev.num)),
              Advance(u.ctx, u.ev.num))
    ELSE Emit(Event("STRING_TOO_LONG", u.ev.num, NoBytes), c)

BenpNext(data, c) ==
  IF c.len = 0 THEN Emit(Event("DONE", 0, NoBytes), c)
  ELSE LET b == Peek(data, c) IN
    CASE b = I -> BenpInteger(data, c)
      [] b = L -> Emit(Event("LIST_START", 0, NoBytes), Advance(c, 1))
      [] b = D -> Emit(Event("DICT_START", 0, NoBytes), Advance(c, 1))
      [] b = E -> Emit(Event("X_END", 0, NoBytes), Advance(c, 1))
      [] b \in Digits -> BenpString(data, c)
      [] OTHER -> Emit(Event("UNEXPECTED_BYTE", 0, Ctx(c.pos, 0)), c)

-----------------------------------------------------------------------------
\* the event e and the token b of benr tell the same
SameToken(b, e) ==
  /\ e.num = b.num
  /\ <<b.kind, e.kind>> \in
       {<<"NONE", "DONE">>, <<"STRING", "STRING">>, <<"INT", "INTEGER">>,
        <<"DICT", "DICT_START">>, <<"LIST", "LIST_START">>,
        <<"X_END", "X_END">>, <<"UNEXPECTED_BYTE", "UNEXPECTED_BYTE">>,
        <<"UNEXPECTED_EOF", "UNEXPECTED_EOF">>,
        <<"UNEXPECTED_EOF_IN_INT", "UNEXPECTED_EOF">>,
        <<"UNEXPECTED_BYTE_IN_INT", "UNEXPECTED_BYTE_IN_INT">>,
        <<"STRING_TOO_LONG", "STRING_TOO_LONG">>}
  /\ b.kind \notin {"LIST", "DICT"} => e.at = b.at
=============================================================================
