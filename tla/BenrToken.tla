------------------------------ MODULE BenrToken ------------------------------
(***************************************************************************)
(* The tokens of src/benr.c: benr_next takes one token off a context.      *)
(*                                                                         *)
(* A struct benr is a kind, a number (of an integer, or the length that    *)
(* was too long), and a context: the bytes of a string, those that follow  *)
(* the opening byte of a container, or (empty) the place of an error.      *)
(***************************************************************************)
EXTENDS Bytes

Benr(kind, num, at) == [kind |-> kind, num |-> num, at |-> at]

Nowhere == Ctx(0, 0)
None    == Benr("NONE", 0, Nowhere)

ContainerKinds == {"DICT", "LIST"}
ErrorKinds == {"UNEXPECTED_BYTE", "UNEXPECTED_EOF", "UNEXPECTED_BYTE_IN_INT",
               "UNEXPECTED_EOF_IN_INT", "STRING_TOO_LONG"}

\* a token and the context after it; an error leaves the context as it is
Take(b, c) == [b |-> b, ctx |-> c]
Fail(kind, num, pos, c) == Take(Benr(kind, num, Ctx(pos, 0)), c)

\* benr_init_uint
InitUint(data, c, end) ==
  IF ~Stops(data, c) THEN Fail("UNEXPECTED_EOF_IN_INT", 0, 0, c)
  ELSE LET q == Stop(data, c) IN
    IF data[q] = end
    THEN Take(Benr("UINT", UintValue(data, c.pos, q - 1), Nowhere),
              Advance(c, q + 1 - c.pos))
    ELSE Fail("UNEXPECTED_BYTE_IN_INT", 0, q, c)

\* the `i' of benr_next
NextInt(data, c) ==
  LET d == Advance(c, 1) IN
  IF d.len = 0 THEN Fail("UNEXPECTED_EOF", 0, 0, c)
  ELSE LET minus == Peek(data, d) = MINUS
           u == InitUint(data, IF minus THEN Advance(d, 1) ELSE d, E)
       IN IF u.b.kind # "UINT" THEN Take(u.b, c)
          ELSE Take(Benr("INT", Signed(u.b.num, IF minus THEN -1 ELSE 1),
                         Nowhere), u.ctx)

\* mutated: the start of the string is noted after it has been skipped
NextStringLate(data, c) ==
  LET u == InitUint(data, c, COLON) IN
  IF u.b.kind # "UINT" THEN Take(u.b, c)
  ELSE IF u.b.num \in 0 .. u.ctx.len
    THEN Take(Benr("STRING", 0, Ctx(u.ctx.pos + u.b.num, u.b.num)),
              Advance(u.ctx, u.b.num))
    ELSE Fail("STRING_TOO_LONG", u.b.num, 0, c)

\* the digit of benr_next
NextString(data, c) ==
  LET u == InitUint(data, c, COLON) IN
  IF u.b.kind # "UINT" THEN Take(u.b, c)
  ELSE IF u.b.num \in 0 .. u.ctx.len
    THEN Take(Benr("STRING", 0, Ctx(u.ctx.pos, u.b.num)),
              Advance(u.ctx, u.b.num))
    ELSE Fail("STRING_TOO_LONG", u.b.num, 0, c)

Open(kind, c) == Take(Benr(kind, 0, Advance(c, 1)), Advance(c, 1))

BenrNext(data, c) ==
  IF c.len = 0 THEN Take(None, c)
  ELSE LET b == Peek(data, c) IN
    CASE b = I -> NextInt(data, c)
      [] b = D -> Open("DICT", c)
      [] b = L -> Open("LIST", c)
      [] b = E -> Take(Benr("X_END", 0, Nowhere), Advance(c, 1))
      [] b \in Digits -> NextString(data, c)
      [] OTHER -> Fail("UNEXPECTED_BYTE", 0, c.pos, c)

\* benr_init: an `e' that closes nothing is an error
BenrInit(data) ==
  LET b == BenrNext(data, Whole(data)).b
  IN IF b.kind = "X_END" THEN Benr("UNEXPECTED_BYTE", 0, Ctx(1, 0)) ELSE b
=============================================================================
