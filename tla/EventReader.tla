----------------------------- MODULE EventReader -----------------------------
(***************************************************************************)
(* A caller that reads a message event by event with benp_next, or with    *)
(* benr_next inside its library, and compares what it gets with a table:   *)
(* the loops benp_eq of src/test-benp.c and benr_eq of                     *)
(* src/benr-internal-test.c, the only users these two functions have as    *)
(* such.  They keep no track of what is open, so the reader notes it.      *)
(***************************************************************************)
EXTENDS BenrToken, BenpToken, Bencode, SequencesExt

CONSTANTS
  Values,   \* well-formed messages
  Tables    \* pairs of a message and the events to compare with

\* an event: its kind, a number or the length that was too long, and the bytes
\* of a string
Ev(kind, num, text) == [kind |-> kind, num |-> num, text |-> text]
Plain(kind) == Ev(kind, 0, <<>>)

BenpErrors == {"UNEXPECTED_EOF", "UNEXPECTED_BYTE", "STRING_TOO_LONG",
               "UNEXPECTED_BYTE_IN_INT"}

\* an entry of a table: it has a number or bytes where its kind has
IsEntry(e) ==
  /\ e = Ev(e.kind, e.num, e.text)
  /\ e.kind # "INTEGER" => e.num = 0
  /\ e.kind # "STRING" => e.text = <<>>

\* a message is in memory: a uintmax_t holds its length
ASSUME MessagesAssumption ==
  /\ \A s \in Values : s \in Seq(0 .. 255) /\ WellFormed(s) /\ Len(s) < UINTMAX
  /\ \A t \in Tables : /\ t[1] \in Seq(0 .. 255) /\ Len(t[1]) < UINTMAX
                       /\ Len(t[2]) \in Nat
                       /\ \A j \in 1 .. Len(t[2]) : IsEntry(t[2][j])

VARIABLES
  lib,      \* "benp" or "benr"
  data,     \* bytes
  want,     \* ev
  i,        \* events compared so far
  ctx,
  got,      \* the event read last
  at,       \* history: where it was read
  open,     \* history: where the containers begin that are open, innermost first
  verdict   \* what the loop returns; "none" before

vars == <<lib, data, want, i, ctx, got, at, open, verdict>>

Libraries == {"benp", "benr"}

\* the kinds of struct benr, by the names of enum benp_ev_e
KindOf ==
  [NONE |-> "DONE", STRING |-> "STRING", INT |-> "INTEGER",
   DICT |-> "DICT_START", LIST |-> "LIST_START", X_END |-> "X_END",
   UNEXPECTED_BYTE |-> "UNEXPECTED_BYTE", UNEXPECTED_EOF |-> "UNEXPECTED_EOF",
   UNEXPECTED_BYTE_IN_INT |-> "UNEXPECTED_BYTE_IN_INT",
   UNEXPECTED_EOF_IN_INT |-> "UNEXPECTED_EOF", STRING_TOO_LONG |-> "STRING_TOO_LONG"]

\* the bytes a string points at
Text(c) == SubSeq(data, c.pos, c.pos + c.len - 1)

\* the next event of the library at c, and the context after it
BenpReading(c) ==
  LET r == BenpNext(data, c)
  IN [ev |-> Ev(r.ev.kind, r.ev.num, Text(r.ev.at)), ctx |-> r.ctx]

BenrReading(c) ==
  LET r == BenrNext(data, c) IN
  [ev  |-> Ev(KindOf[r.b.kind], r.b.num,
              IF r.b.kind = "STRING" THEN Text(r.b.at) ELSE <<>>),
   ctx |-> r.ctx]

Reading(c) == IF lib = "benp" THEN BenpReading(c) ELSE BenrReading(c)

Init ==
  /\ lib \in Libraries
  /\ \E t \in Tables : data = t[1] /\ want = t[2]
  /\ i = 0
  /\ ctx = Whole(data)
  /\ got = Plain("DONE")
  /\ at = 1
  /\ open = <<>>
  /\ verdict = "none"

-----------------------------------------------------------------------------
\* mutated: what an event carries is not looked at
MatchesKind(e1, e2) == e1.kind = e2.kind

\* the comparison of two events; benr_eq has no case for errors
Matches(e1, e2) ==
  /\ e1.kind = e2.kind
  /\ e1.kind = "INTEGER" => e1.num = e2.num
  /\ e1.kind = "STRING" => e1.text = e2.text
  /\ lib = "benr" => e1.kind \notin BenpErrors

\* what is open once the event read last has been read
OpenAfterGot ==
  CASE i = 0 -> <<>>
    [] i > 0 /\ got.kind \in {"LIST_START", "DICT_START"} ->
         <<[kind |-> got.kind, base |-> ctx.pos]>> \o open
    [] i > 0 /\ got.kind = "X_END" /\ open # <<>> -> Tail(open)
    [] OTHER -> open

\* one round of the loop
Round ==
  /\ verdict = "none"
  /\ i < Len(want)
  /\ \E r \in {Reading(ctx)} :
       /\ got' = r.ev
       /\ ctx' = r.ctx
       /\ verdict' = IF Matches(want[i + 1], r.ev) THEN "none" ELSE "false"
  /\ i' = i + 1
  /\ at' = ctx.pos
  /\ open' = OpenAfterGot
  /\ UNCHANGED <<lib, data, want>>

\* the table is used up: return true
AllEqual ==
  /\ verdict = "none"
  /\ i = Len(want)
  /\ verdict' = "true"
  /\ UNCHANGED <<lib, data, want, i, ctx, got, at, open>>

Next == Round \/ AllEqual

Spec == Init /\ [][Next]_vars

-----------------------------------------------------------------------------
(* The tables of the tests: a, b and c are in both, d and e in benr's. *)

One   == 49
Hello == <<104, 101, 108, 108, 111>>

String(s)      == <<48 + Len(s), COLON>> \o s
Number(digits) == <<I>> \o digits \o <<E>>
List(items) == <<L>> \o items \o <<E>>
Dict(pairs) == <<D>> \o pairs \o <<E>>

IntIs(n) == Ev("INTEGER", n, <<>>)
StrIs(s) == Ev("STRING", 0, s)
IsList == Plain("LIST_START")
IsDict == Plain("DICT_START")
End    == Plain("X_END")
Done   == Plain("DONE")

TestA == <<Number(<<One>>), <<IntIs(1), Done>>>>
TestB == <<Dict(List(<<>>)), <<IsDict, IsList, End, End>>>>
TestC == <<Dict(String(Hello) \o Number(<<MINUS, One>>)),
           <<IsDict, StrIs(Hello), IntIs(-1), End>>>>
TestD == <<List(String(<<E>>)), <<IsList, StrIs(<<E>>), End, Done>>>>
TestE == <<List(Dict(<<>>) \o Dict(String(<<E>>) \o List(Number(<<51>>)))),
           <<IsList, IsDict, End, IsDict, StrIs(<<E>>), IsList, IntIs(3),
             End, End, End, Done>>>>

Tests == {TestA, TestB, TestC, TestD, TestE}

-----------------------------------------------------------------------------
(* Properties *)

\* Where the event at p ends (0 when there is none), and what it is.
EventEnd(s, p) == CASE s[p] = I -> IntEnd(s, p)
                    [] s[p] \in Digits -> StringEnd(s, p)
                    [] s[p] \in {L, D, E} -> p + 1
                    [] OTHER -> 0

EventAt(s, p) ==
  CASE EventEnd(s, p) = 0 -> Plain("NO_EVENT")
    [] EventEnd(s, p) # 0 /\ s[p] = I -> Ev("INTEGER", Integer(s, p), <<>>)
    [] EventEnd(s, p) # 0 /\ s[p] = L -> Plain("LIST_START")
    [] EventEnd(s, p) # 0 /\ s[p] = D -> Plain("DICT_START")
    [] EventEnd(s, p) # 0 /\ s[p] = E -> Plain("X_END")
    [] EventEnd(s, p) # 0 /\ s[p] \in Digits ->
         LET c == CHOOSE c \in p .. Len(s) : s[c] = COLON /\ AllDigits(s, p, c - 1)
         IN Ev("STRING", 0, SubSeq(s, c + 1, EventEnd(s, p) - 1))

\* the events from each position on, and those of a message
EventsFrom(s) ==
  LET from[p \in 1 .. Len(s) + 1] ==
        IF p > Len(s) THEN <<>>
        ELSE <<EventAt(s, p)>>
               \o (IF EventEnd(s, p) = 0 THEN <<>> ELSE from[EventEnd(s, p)])
  IN from

EventsOf(s) == EventsFrom(s)[1]

\* the event to expect: behind the last one, DONE
Expected(all, j) == IF j > Len(all) THEN Plain("DONE") ELSE all[j]

\* an intmax_t holds the numbers
NumbersFit(all) ==
  \A j \in 1 .. Len(all) : all[j].kind = "INTEGER" => Fits(all[j].num)

\* The tables of the tests say what is written in their messages (one of which
\* is a dictionary with a list for a key).
ASSUME TestsAssumption ==
  \A t \in Tests : LET all == EventsOf(t[1]) IN
    /\ NumbersFit(all)
    /\ \A j \in 1 .. Len(all) : all[j].kind # "NO_EVENT"
    /\ \A j \in 1 .. Len(t[2]) : t[2][j] = Expected(all, j)

\* Read to its end, a well-formed message gives the events the grammar says, and
\* then DONE for ever: the loop returns true for these and for no others.  (A
\* number that no intmax_t holds is read as another one.)  And the tests pass
\* ("assert(benp_eq(...))", "assert(benr_eq(...))").
VerdictIsRight ==
  verdict # "none" =>
    /\ data \in Values =>
         LET all == EventsOf(data) IN
         NumbersFit(all) =>
           (verdict = "true" <=> \A j \in 1 .. Len(want) : want[j] = Expected(all, j))
    /\ <<data, want>> \in Tests => verdict = "true"

\* Nobody counts what is open, and nobody has to: in a well-formed message, or
\* one cut short, an end marker that is read as one closes the container opened
\* last, however many bytes in strings look like one.
Started(s) == s # <<>> /\ \E m \in Values : IsPrefix(s, m)
KindOpened(o) == IF o.kind = "LIST_START" THEN "LIST" ELSE "DICT"

EndsClose ==
  Started(data) /\ i > 0 /\ got.kind = "X_END" =>
    /\ open # <<>>
    /\ at = Close(data, KindOpened(Head(open)), Head(open).base)

\* "DONE" alone does not mean that the message is complete, but with nothing
\* open it does.
DoneIsComplete ==
  Started(data) /\ i > 0 /\ got.kind = "DONE" => (open = <<>> <=> data \in Values)

\* "On return, ctx is unchanged", says benp.h of its errors: a reader that goes on
\* after an error of benp_next is told the same again, never something about bytes
\* behind it.  (benr_eq stops at every error, so nothing is said of benr.)
ErrorsStay ==
  [][lib = "benp" /\ got.kind \in BenpErrors /\ i' # i =>
       got' = got /\ ctx' = ctx]_vars
=============================================================================
