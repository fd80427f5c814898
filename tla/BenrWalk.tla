------------------------------ MODULE BenrWalk ------------------------------
(***************************************************************************)
(* A caller that reads all of a message with the iterators of src/benr.c:  *)
(* it opens each container it is handed at once, keeps the iterators of    *)
(* the containers around it, and goes on with them when the inner one is   *)
(* at its end.  This is what the cases of src/benr-api-test.c do, and the  *)
(* "depth-first decoding" whose cost src/benr.h works out.                 *)
(***************************************************************************)
EXTENDS BenrIter, SequencesExt

VARIABLES
  outer,     \* the iterators of the containers around this one, innermost first
  results,   \* history: what each call handed out
  met,       \* history: where the values begin that were handed out
  places,    \* history: where those of a well-formed message begin
  reads      \* history: bytes read

walkVars == <<iterVars, outer, results, met, places, reads>>

\* what a caller sees of a value: its kind, its number, the bytes of a string
Result(kind, num, text) == [kind |-> kind, num |-> num, text |-> text]
Ended  == Result("END", 0, <<>>)
Failed == Result("FAILED", 0, <<>>)

BytesOf(c) == SubSeq(data, c.pos, c.pos + c.len - 1)
Seen(b) == Result(b.kind, b.num, IF b.kind = "STRING" THEN BytesOf(b.at) ELSE <<>>)

\* the bytes read to take t off c: all of them but those of a string
Examined(t, c) ==
  t.ctx.pos - c.pos - (IF t.b.kind = "STRING" THEN t.b.at.len ELSE 0)

WalkInit ==
  /\ Init
  /\ outer = <<>>
  /\ results = <<>>
  /\ met = <<>>
  /\ places = ValuePositions(data)
  /\ reads = 0

-----------------------------------------------------------------------------
\* benr_init, and the iterator of a container
OpenContainer ==
  /\ OpenMessage
  /\ results' = <<Seen(BenrInit(data))>>
  /\ met' = <<1>>
  /\ reads' = 1
  /\ UNCHANGED <<outer, places>>

\* benr_init of anything else; there is nothing to iterate over
OpenOther ==
  /\ over = "none"
  /\ \E b \in {BenrInit(data)} :
       /\ ~IsContainer(b)
       /\ over' = "nothing"
       /\ results' = <<Seen(b)>>
       /\ met' = IF IsError(b) \/ b = None THEN <<>> ELSE <<1>>
  /\ reads' = Examined(BenrNext(data, Whole(data)), Whole(data))
  /\ UNCHANGED <<data, pc, base, ctx, from, ret, key, val, locals, clean, outer, places>>

Here == [over |-> over, base |-> base, ctx |-> ctx]

\* mutated: one iterator for all containers
EnterOnly ==
  /\ Descend
  /\ UNCHANGED <<outer, results, met, places, reads>>

\* the value is a container: it is read before what follows it
Enter ==
  /\ Descend
  /\ outer' = <<Here>> \o outer
  /\ UNCHANGED <<results, met, places, reads>>

\* the container is at its end: on with the one around it
Leave ==
  /\ pc = "idle"
  /\ ret = "end"
  /\ outer # <<>>
  /\ over' = Head(outer).over
  /\ base' = Head(outer).base
  /\ ctx'  = Head(outer).ctx
  /\ from' = Head(outer).ctx.pos
  /\ outer' = Tail(outer)
  /\ ret' = "ok"
  /\ key' = None
  /\ val' = None
  /\ clean' = TRUE
  /\ UNCHANGED <<data, pc, locals, results, met, places, reads>>

-----------------------------------------------------------------------------
\* the call that takes this step returns it, the value at start, or goes on
Hands(start) ==
  \/ /\ pc' = "skip"
     /\ UNCHANGED <<results, met>>
  \/ /\ pc' = "idle"
     /\ ret' = "ok"
     /\ results' = results \o (IF over = "DICT" THEN <<Seen(key')>> ELSE <<>>)
                           \o <<Seen(val')>>
     /\ met' = IF IsError(val') \/ val' = None THEN met ELSE Append(met, start)
  \/ /\ pc' = "idle"
     /\ ret' # "ok"
     /\ results' = Append(results, IF ret' = "end" THEN Ended ELSE Failed)
     /\ UNCHANGED met

\* asks for the next element; the value read last is no container
Ask ==
  /\ over \in ContainerKinds
  /\ pc = "idle"
  /\ ret = "ok"
  /\ ~IsContainer(val)
  /\ ~IsError(val)
  /\ Last(results).kind # "NONE"
  /\ \E x \in {BenrNext(data, ctx)} : \E y \in {BenrNext(data, x.ctx)} :
       \/ /\ ListNext
          /\ Hands(ctx.pos)
          /\ reads' = reads + Examined(x, ctx)
       \/ /\ DictNext
          /\ Hands(x.ctx.pos)
          /\ reads' = reads + Examined(x, ctx)
                + IF x.b.kind = "X_END" THEN 0 ELSE Examined(y, x.ctx)
  /\ UNCHANGED <<outer, places>>

\* a round of ctx_adv_container
SkipOn ==
  /\ Skip
  /\ Hands(v.at.pos - 1)
  /\ \E t \in {BenrNext(data, skip)} : reads' = reads + Examined(t, skip)
  /\ UNCHANGED <<outer, places>>

WalkNext == OpenContainer \/ OpenOther \/ Enter \/ Leave \/ Ask \/ SkipOn

\* one thread that reads until it is done
WalkSpec == WalkInit /\ [][WalkNext]_walkVars /\ WF_walkVars(WalkNext)

-----------------------------------------------------------------------------
(* benr-api-test.c: the messages and what its calls have to hand out *)

One   == 49
Three == 51
StringOf(text)   == <<48 + Len(text), COLON>> \o text
NumberOf(digits) == <<I>> \o digits \o <<E>>
ListOf(items)    == <<L>> \o items \o <<E>>
DictOf(pairs)    == <<D>> \o pairs \o <<E>>

IntIs(n)    == Result("INT", n, <<>>)
StringIs(t) == Result("STRING", 0, t)
IsList      == Result("LIST", 0, <<>>)
IsDict      == Result("DICT", 0, <<>>)

CaseInteger  == <<NumberOf(<<One>>), <<IntIs(1)>>>>
CaseNegative == <<NumberOf(<<MINUS, 52, 50, 53, 54, 49>>), <<IntIs(-42561)>>>>
CaseString   == <<StringOf(<<104, 101, 108, 108, 111>>),
                  <<StringIs(<<104, 101, 108, 108, 111>>)>>>>
CaseList ==
  <<ListOf(NumberOf(<<Three>>) \o NumberOf(<<54>>) \o NumberOf(<<MINUS, One>>)),
    <<IsList, IntIs(3), IntIs(6), IntIs(-1), Ended>>>>
CaseMarkers == <<ListOf(StringOf(<<E>>)), <<IsList, StringIs(<<E>>)>>>>
CaseDict ==
  LET one   == <<111, 110, 101>>
      seven == <<115, 101, 118, 101, 110>>
  IN <<DictOf(StringOf(one) \o NumberOf(<<One>>)
                \o StringOf(seven) \o NumberOf(<<55>>)),
       <<IsDict, StringIs(one), IntIs(1), StringIs(seven), IntIs(7), Ended>>>>
CaseNesting ==
  <<ListOf(DictOf(<<>>) \o DictOf(StringOf(<<E>>) \o ListOf(NumberOf(<<Three>>)))),
    <<IsList, IsDict, Ended, IsDict, StringIs(<<E>>), IsList, IntIs(3),
      Ended, Ended, Ended>>>>

ApiCases == {CaseInteger, CaseNegative, CaseString, CaseList, CaseMarkers,
             CaseDict, CaseNesting}

-----------------------------------------------------------------------------
(* Properties *)

Stopped ==
  \/ over = "nothing"
  \/ /\ over \in ContainerKinds
     /\ pc = "idle"
     /\ \/ ret = "bad"
        \/ ret = "end" /\ outer = <<>>
        \/ ret = "ok" /\ (IsError(val) \/ Last(results).kind = "NONE")

\* A well-formed message is met value by value, in the order it is written and
\* each value once, to the last one, although every iterator passes over what is
\* in its elements and each container is then read again from inside.
Walk == INSTANCE ValueWalk WITH met <- IF places = {} THEN <<>> ELSE met

MeetsEveryValue == Walk!Spec

\* "R(N) = N + (N - 2) + (N - 2 - 2) + (N - 6) ...": reading a well-formed message
\* of N bytes to the bottom reads no more bytes than that.
WorstCase ==
  LET R[n \in 0 .. Len(data)] == IF n < 2 THEN n ELSE n + R[n - 2]
  IN R[Len(data)]

ReadsAreBounded == data \in Values => reads <= WorstCase

\* The assertions of benr-api-test.c: its calls get these results.
CasesPass ==
  \A c \in ApiCases : data = c[1] =>
    /\ \A i \in 1 .. Len(results) : i <= Len(c[2]) => results[i] = c[2][i]
    /\ Stopped => Len(results) >= Len(c[2])

\* The walk ends, whatever the message.
Finishes == <>Stopped
=============================================================================
