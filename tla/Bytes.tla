-------------------------------- MODULE Bytes --------------------------------
(***************************************************************************)
(* What the bencode readers of src/benr.c and src/benp.c share: bytes, a   *)
(* context (the unread part of a buffer), and decimal numbers held in a    *)
(* uintmax_t.  Pointers are positions in the buffer, which is a sequence.  *)
(***************************************************************************)
EXTENDS Integers, Sequences

CONSTANT UINTMAX   \* the values a uintmax_t takes: 0 .. UINTMAX - 1

ASSUME UintAssumption == UINTMAX \in Nat \ {0}

\* the bytes with a meaning, as in ASCII
MINUS == 45
COLON == 58
D == 100
E == 101
I == 105
L == 108
Digits == 48 .. 57      \* isdigit

\* struct benr_ctx, struct benp_ctx: the position and number of unread bytes
Ctx(pos, len) == [pos |-> pos, len |-> len]
Whole(data)   == Ctx(1, Len(data))

\* ctx_adv, ctx_adv_n
Advance(c, n) == Ctx(c.pos + n, c.len - n)

\* ctx_peek
Peek(data, c) == data[c.pos]

Unread(c) == c.pos .. c.pos + c.len - 1

\* q is the first unread byte that is not a digit
StopsAt(data, c, q) ==
  /\ q \in Unread(c)
  /\ data[q] \notin Digits
  /\ \A r \in c.pos .. q - 1 : data[r] \in Digits

Stops(data, c) == \E q \in Unread(c) : StopsAt(data, c, q)
Stop(data, c)  == CHOOSE q \in Unread(c) : StopsAt(data, c, q)

\* v *= 10; v += it - '0': what overflows is lost
UintValue(data, first, last) ==
  LET v[k \in first - 1 .. last] ==
        IF k < first THEN 0 ELSE (10 * v[k - 1] + data[k] - 48) % UINTMAX
  IN v[last]

\* a uintmax_t times a sign, as an intmax_t
Signed(u, sign) ==
  LET w == (u * sign) % UINTMAX
  IN IF 2 * w < UINTMAX THEN w ELSE w - UINTMAX
=============================================================================
