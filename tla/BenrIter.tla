------------------------------ MODULE BenrIter ------------------------------
(***************************************************************************)
(* The container iterators of src/benr.c under the most general caller: it *)
(* opens a message, asks for the next element as often as it likes (also   *)
(* after the end or an error), and may go on with the container it was     *)
(* given last.  The loop of ctx_adv_container is one action per token.     *)
(***************************************************************************)
EXTENDS BenrToken, BenpToken, Bencode

CONSTANTS
  Values,   \* well-formed containers, bencoded
  Others    \* any other messages

ASSUME MessagesAssumption ==
  Values \subseteq Seq(0 .. 255) /\ Others \subseteq Seq(0 .. 255)

\* a message is in memory: a uintmax_t holds its length
ASSUME ValuesAssumption ==
  /\ \A s \in Values : WellFormed(s)
  /\ \A s \in Values \cup Others : Len(s) < UINTMAX

Cut(s)     == {SubSeq(s, 1, n) : n \in 0 .. Len(s) - 1}
Truncated  == UNION {Cut(s) : s \in Values}
Messages   == Values \cup Truncated \cup Others

VARIABLES
  data,       \* the message
  pc,         \* "idle" between calls, "skip" in ctx_adv_container
  over,       \* kind of the container iterated over; "none" before
  base,       \* history: position of its first element
  ctx,        \* the iterator
  from,       \* history: where it was when the last call began
  ret,        \* "ok" (0), "end" (-1) or "bad" (minus a kind of error)
  key, val,   \* what the last call that returned 0 set
  k, v,       \* locals of the call
  skip, depth,\* locals of ctx_adv_container: lctx, depth
  clean       \* history: every call so far returned an element, or the end

iterVars == <<data, pc, over, base, ctx, from, ret, key, val, k, v, skip,
              depth, clean>>

locals == <<k, v, skip, depth>>

IsError(b) == b.kind \in ErrorKinds
IsContainer(b) == b.kind \in ContainerKinds

Init ==
  /\ data \in Messages
  /\ pc = "idle"
  /\ over = "none"
  /\ base = 1 /\ from = 1
  /\ ctx = Nowhere
  /\ ret = "ok"
  /\ key = None /\ val = None
  /\ k = None /\ v = None
  /\ skip = Nowhere /\ depth = 0
  /\ clean = TRUE

-----------------------------------------------------------------------------
\* benr_as_list or benr_as_dict, and benr_list_iter or benr_dict_iter
Iterate(b) ==
  /\ IsContainer(b)
  /\ over' = b.kind
  /\ base' = b.at.pos
  /\ from' = b.at.pos
  /\ ctx' = b.at
  /\ ret' = "ok"
  /\ key' = None
  /\ val' = None
  /\ UNCHANGED <<data, pc, locals, clean>>

OpenMessage ==
  /\ over = "none"
  /\ Iterate(BenrInit(data))

Descend ==
  /\ pc = "idle"
  /\ over # "none"
  /\ ret = "ok"
  /\ Iterate(val)

-----------------------------------------------------------------------------
\* one call of the iterator over a container of that kind
Call(kind) ==
  /\ pc = "idle"
  /\ over = kind
  /\ from' = ctx.pos
  /\ UNCHANGED <<data, over, base>>

\* the locals of the call are gone
Forget ==
  /\ k' = None /\ v' = None
  /\ skip' = Nowhere /\ depth' = 0

\* it returns 0
Return(kk, vv) ==
  /\ pc' = "idle"
  /\ ret' = "ok"
  /\ key' = kk
  /\ val' = vv
  /\ Forget
  /\ clean' = (clean /\ ret # "end" /\ vv # None /\ ~IsError(vv) /\ ~IsError(kk))

\* mutated: the iterator is left on the end marker's far side
ReturnEndReadsOn(c) ==
  /\ pc' = "idle"
  /\ ret' = "end"
  /\ ctx' = c
  /\ clean' = (clean /\ ret # "end")
  /\ Forget
  /\ UNCHANGED <<key, val>>

\* it returns -1 and empties the iterator
ReturnEnd(c) ==
  /\ pc' = "idle"
  /\ ret' = "end"
  /\ ctx' = [c EXCEPT !.len = 0]
  /\ clean' = (clean /\ ret # "end")
  /\ Forget
  /\ UNCHANGED <<key, val>>

\* the last token read is the element, or opens it
Element(kk, t) ==
  /\ ctx' = t.ctx
  /\ \/ /\ ~IsContainer(t.b)
        /\ Return(kk, t.b)
     \/ /\ IsContainer(t.b)
        /\ pc' = "skip"
        /\ k' = kk
        /\ v' = t.b
        /\ skip' = t.ctx
        /\ depth' = 1
        /\ UNCHANGED <<ret, key, val, clean>>

\* mutated: the end of the data ends the list
ListNextAtEof ==
  /\ Call("LIST")
  /\ \E x \in {BenrNext(data, ctx)} :
       \/ x.b.kind \in {"X_END", "NONE"} /\ ReturnEnd(x.ctx)
       \/ x.b.kind \notin {"X_END", "NONE"} /\ Element(None, x)

\* benr_list_iter_next
ListNext ==
  /\ Call("LIST")
  /\ \E x \in {BenrNext(data, ctx)} :
       \/ x.b.kind = "X_END" /\ ReturnEnd(x.ctx)
       \/ x.b.kind # "X_END" /\ Element(None, x)

\* mutated: the end marker in place of a value does not empty the iterator
DictNextReadsOn ==
  /\ Call("DICT")
  /\ \E x \in {BenrNext(data, ctx)} : \E y \in {BenrNext(data, x.ctx)} :
       \/ x.b.kind = "X_END" /\ ReturnEnd(x.ctx)
       \/ x.b.kind # "X_END" /\ y.b.kind = "X_END" /\ ReturnEndReadsOn(y.ctx)
       \/ x.b.kind # "X_END" /\ y.b.kind # "X_END" /\ Element(x.b, y)

\* benr_dict_iter_next: an end marker in place of a value is an end as well
DictNext ==
  /\ Call("DICT")
  /\ \E x \in {BenrNext(data, ctx)} : \E y \in {BenrNext(data, x.ctx)} :
       \/ x.b.kind = "X_END" /\ ReturnEnd(x.ctx)
       \/ x.b.kind # "X_END" /\ y.b.kind = "X_END" /\ ReturnEnd(y.ctx)
       \/ x.b.kind # "X_END" /\ y.b.kind # "X_END" /\ Element(x.b, y)

-----------------------------------------------------------------------------
(* ctx_adv_container: past the end marker that closes the container *)

\* t is the token read
Scan(t) ==
  /\ pc = "skip"
  /\ UNCHANGED <<data, over, base, from>>

\* mutated: dictionaries are not counted
ScanDeeperLists(t) ==
  /\ Scan(t)
  /\ t.b.kind \in {"LIST", "DICT"}
  /\ depth' = IF t.b.kind = "LIST" THEN depth + 1 ELSE depth
  /\ skip' = t.ctx
  /\ UNCHANGED <<pc, ctx, ret, key, val, k, v, clean>>

\* mutated: the opening byte is not taken
ScanDeeperStays(t) ==
  /\ Scan(t)
  /\ IsContainer(t.b)
  /\ UNCHANGED <<pc, ctx, ret, key, val, k, v, clean, skip, depth>>

ScanDeeper(t) ==
  /\ Scan(t)
  /\ IsContainer(t.b)
  /\ depth' = depth + 1
  /\ skip' = t.ctx
  /\ UNCHANGED <<pc, ctx, ret, key, val, k, v, clean>>

ScanOn(t) ==
  /\ Scan(t)
  /\ t.b.kind \in {"STRING", "INT"}
  /\ skip' = t.ctx
  /\ UNCHANGED <<pc, ctx, ret, key, val, k, v, depth, clean>>

ScanUp(t) ==
  /\ Scan(t)
  /\ t.b.kind = "X_END"
  /\ depth > 1
  /\ depth' = depth - 1
  /\ skip' = t.ctx
  /\ UNCHANGED <<pc, ctx, ret, key, val, k, v, clean>>

\* mutated: the iterator is left behind the opening byte
SkippedNotTaken(t) ==
  /\ Scan(t)
  /\ t.b.kind = "X_END"
  /\ depth = 1
  /\ Return(k, v)
  /\ UNCHANGED ctx

Skipped(t) ==
  /\ Scan(t)
  /\ t.b.kind = "X_END"
  /\ depth = 1
  /\ ctx' = t.ctx
  /\ Return(k, v)

\* mutated: the end of the data is not looked for
SkipFailsOnError(t) ==
  /\ Scan(t)
  /\ IsError(t.b)
  /\ pc' = "idle"
  /\ ret' = "bad"
  /\ clean' = FALSE
  /\ Forget
  /\ UNCHANGED <<ctx, key, val>>

\* an error, or the end of the data; the iterator stays inside the container
SkipFails(t) ==
  /\ Scan(t)
  /\ IsError(t.b) \/ t.b = None
  /\ pc' = "idle"
  /\ ret' = "bad"
  /\ clean' = FALSE
  /\ Forget
  /\ UNCHANGED <<ctx, key, val>>

-----------------------------------------------------------------------------
Skip ==
  /\ pc = "skip"
  /\ \E t \in {BenrNext(data, skip)} :
       \/ ScanDeeper(t) \/ ScanOn(t) \/ ScanUp(t)
       \/ Skipped(t) \/ SkipFails(t)

Next == OpenMessage \/ Descend \/ ListNext \/ DictNext \/ Skip

\* a call runs until it returns
Spec == Init /\ [][Next]_iterVars /\ WF_iterVars(Skip)

-----------------------------------------------------------------------------
(* Properties *)

Called == pc = "idle" /\ over # "none"
Span(b) == b.at.pos + b.at.len

\* Whatever the bytes: every context, string and container lies in the message.
Inside(c) ==
  /\ c \in [pos : Nat, len : Nat]
  /\ c.pos + c.len <= Len(data) + 1
  /\ c.len > 0 => c.pos > 0

InBounds ==
  /\ Inside(ctx) /\ Inside(skip)
  /\ Inside(key.at) /\ Inside(val.at) /\ Inside(k.at) /\ Inside(v.at)

\* b is the string at p
IsStringAt(b, p, end) ==
  /\ b.kind = "STRING"
  /\ Span(b) = end
  /\ data[b.at.pos - 1] = COLON /\ AllDigits(data, p, b.at.pos - 2)

\* Iterating over a well-formed container never fails.  It gives its elements,
\* each once and in order, and ends at its end marker: a call takes exactly the
\* value (or the key and the value) at which it begins.
ReadsEveryElement ==
  data \in Values /\ Called =>
    /\ ret # "bad"
    /\ ~clean => ctx.len = 0 /\ val = None      \* asked after the end
    /\ clean /\ ret = "end" => from = Close(data, over, base)
    /\ clean /\ ret = "ok" /\ val # None =>
         LET at == IF over = "LIST" THEN from ELSE ValueEnd(data, from) IN
         /\ ctx.pos = ValueEnd(data, at)
         /\ over = "DICT" => IsStringAt(key, from, at)
         /\ val.kind \in {"STRING", "INT", "LIST", "DICT"}
         /\ val.kind = "STRING" => IsStringAt(val, at, ctx.pos)
         /\ val.kind = "INT" /\ Fits(Integer(data, at)) =>
              val.num = Integer(data, at)
         /\ IsContainer(val) => val.at.pos = at + 1

\* A message cut short is never read as a complete one: -1 is returned at an
\* end marker that closes the container.
TruncationIsNoticed ==
  data \in Truncated /\ Called /\ clean /\ ret = "end" =>
    from = Close(data, over, base)

\* "after returning -1 once, will not return -1 again (both benr's will be
\* BENR_NONE instead)": the end of an iteration is final, also one that was told
\* because a key had no value.  The next call finds nothing, and so does every call
\* after one that found nothing.
NothingThere == ret = "ok" /\ key.kind = "NONE" /\ val.kind = "NONE"

EndIsFinal ==
  /\ [][ret = "end" => NothingThere']_iterVars
  /\ [](ret = "end" => [](NothingThere => []NothingThere))

\* benr and benp, written apart, take the same token off the same bytes.
Agree(c) ==
  LET r == BenrNext(data, c)
      p == BenpNext(data, c)
  IN SameToken(r.b, p.ev) /\ r.ctx = p.ctx

TokenizersAgree == Agree(ctx) /\ Agree(skip)

\* Every call returns, whatever the bytes: the scan for the end of a container
\* takes a byte of the message in each round.
CallsReturn == pc = "skip" ~> pc = "idle"
=============================================================================
