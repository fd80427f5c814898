-------------------------- MODULE EventReaderProof --------------------------
(* Proofs about EventReader, for either library, every message and every table:
   a reader that goes on after an error is told the same error again, the end
   markers it reads close the containers it has open, and what it says of a
   message and a table is right. *)
EXTENDS EventReader, BencodeProof

(* The kinds of a token that moves the context. *)
BenpTaken == {"INTEGER", "STRING", "LIST_START", "DICT_START", "X_END"}
BenrTaken == {"INT", "STRING", "LIST", "DICT", "X_END"}

\* benp_next moves the context only with a token, ...
LEMMA BenpMoves ==
  ASSUME NEW c
  PROVE  LET r == BenpNext(data, c)
         IN  r.ctx = c \/ r.ev.kind \in BenpTaken
<1> DEFINE b == Peek(data, c)
           r == BenpNext(data, c)
           moves == r.ctx = c \/ r.ev.kind \in BenpTaken
<1>1. CASE c.len # 0 /\ b = I
  <2>1. r = BenpInteger(data, c)
    BY <1>1 DEF BenpNext, I, D, L, E, Digits
  <2>2. \/ BenpInteger(data, c).ctx = c
        \/ BenpInteger(data, c).ev.kind = "INTEGER"
    BY DEF BenpInteger, Emit, Event
  <2>3. QED
    BY <2>1, <2>2 DEF BenpTaken
<1>2. CASE c.len # 0 /\ b \in Digits
  <2>1. r = BenpString(data, c)
    BY <1>2 DEF BenpNext, I, D, L, E, Digits
  <2>2. \/ BenpString(data, c).ctx = c
        \/ BenpString(data, c).ev.kind = "STRING"
    BY DEF BenpString, Emit, Event
  <2>3. QED
    BY <2>1, <2>2 DEF BenpTaken
<1>3. CASE c.len # 0 /\ b \notin {I} \cup Digits
  BY <1>3 DEF BenpNext, Emit, Event, BenpTaken, I, D, L, E, Digits
<1>4. CASE c.len = 0
  BY <1>4 DEF BenpNext, Emit
<1>5. QED
  BY <1>1, <1>2, <1>3, <1>4

\* ... and so does benr_next
LEMMA BenrMoves ==
  ASSUME NEW c
  PROVE  LET r == BenrNext(data, c)
         IN  r.ctx = c \/ r.b.kind \in BenrTaken
<1> DEFINE b == Peek(data, c)
           r == BenrNext(data, c)
<1>1. CASE c.len # 0 /\ b = I
  <2>1. r = NextInt(data, c)
    BY <1>1 DEF BenrNext, I, D, L, E, Digits
  <2>2. NextInt(data, c).ctx = c \/ NextInt(data, c).b.kind = "INT"
    BY DEF NextInt, Take, Fail, Benr
  <2>3. QED
    BY <2>1, <2>2 DEF BenrTaken
<1>2. CASE c.len # 0 /\ b \in Digits
  <2>1. r = NextString(data, c)
    BY <1>2 DEF BenrNext, I, D, L, E, Digits
  <2>2. NextString(data, c).ctx = c \/ NextString(data, c).b.kind = "STRING"
    BY DEF NextString, Take, Fail, Benr
  <2>3. QED
    BY <2>1, <2>2 DEF BenrTaken
<1>3. CASE c.len # 0 /\ b \notin {I} \cup Digits
  BY <1>3 DEF BenrNext, Open, Take, Fail, Benr, BenrTaken, I, D, L, E, Digits
<1>4. CASE c.len = 0
  BY <1>4 DEF BenrNext, Take
<1>5. QED
  BY <1>1, <1>2, <1>3, <1>4

(* An error leaves the context as it is. *)
LEMMA ErrorsMoveNothing ==
  ASSUME NEW c, Reading(c).ev.kind \in BenpErrors
  PROVE  Reading(c).ctx = c
<1>1. BenpTaken \cap BenpErrors = {}
  BY DEF BenpTaken, BenpErrors
<1>2. \A k \in BenrTaken : KindOf[k] \notin BenpErrors
  BY DEF BenrTaken, BenpErrors, KindOf
<1>3. CASE lib = "benp"
  <2>1. /\ Reading(c).ev.kind = BenpNext(data, c).ev.kind
        /\ Reading(c).ctx = BenpNext(data, c).ctx
    BY <1>3 DEF Reading, BenpReading, Ev
  <2>2. QED
    BY <1>1, <2>1, BenpMoves
<1>4. CASE lib # "benp"
  <2>1. /\ Reading(c).ev.kind = KindOf[BenrNext(data, c).b.kind]
        /\ Reading(c).ctx = BenrNext(data, c).ctx
    BY <1>4 DEF Reading, BenrReading, Ev
  <2>2. QED
    BY <1>2, <2>1, BenrMoves
<1>5. QED
  BY <1>3, <1>4

-----------------------------------------------------------------------------
(* After an error, what comes next is that error: the inductive invariant. *)
ErrorInv ==
  got.kind \in BenpErrors => Reading(ctx).ev = got /\ Reading(ctx).ctx = ctx

\* what a round reads
LEMMA RoundReads ==
  ASSUME Round
  PROVE  /\ got' = Reading(ctx).ev /\ ctx' = Reading(ctx).ctx
         /\ lib' = lib /\ data' = data
BY DEF Round

\* the invariant is kept by every step
LEMMA ErrorInvNext == ErrorInv /\ [Next]_vars => ErrorInv'
<1> SUFFICES ASSUME ErrorInv, [Next]_vars PROVE ErrorInv'
  OBVIOUS
<1>1. CASE Round
  <2> SUFFICES ASSUME got'.kind \in BenpErrors
               PROVE  (Reading(ctx))'.ev = got' /\ (Reading(ctx))'.ctx = ctx'
    BY DEF ErrorInv, BenpErrors
  <2>1. ctx' = ctx
    BY <1>1, RoundReads, ErrorsMoveNothing
  <2>2. (Reading(ctx))' = Reading(ctx)
    BY <1>1, <2>1, RoundReads DEF Reading, BenpReading, BenrReading, Text
  <2>3. QED
    BY <1>1, <2>1, <2>2, RoundReads
<1>2. CASE AllEqual \/ UNCHANGED vars
  <2>1. UNCHANGED <<got, ctx, lib, data>>
    BY <1>2 DEF AllEqual, vars
  <2>2. (Reading(ctx))' = Reading(ctx)
    BY <2>1 DEF Reading, BenpReading, BenrReading, Text
  <2>3. QED
    BY <2>1, <2>2 DEF ErrorInv, BenpErrors
<1>3. QED
  BY <1>1, <1>2 DEF Next

(* "On return, ctx is unchanged" (benp.h:74, 85, 93): whoever calls benp_next
   again after an error is told that error, and nothing else. *)
THEOREM ErrorsRepeat == Spec => ErrorsStay
<1>1. Init => ErrorInv
  BY DEF Init, ErrorInv, Plain, Ev, BenpErrors
<1>2. ErrorInv /\ [Next]_vars =>
        [lib = "benp" /\ got.kind \in BenpErrors /\ i' # i =>
           got' = got /\ ctx' = ctx]_vars
  <2> SUFFICES ASSUME ErrorInv, Next, got.kind \in BenpErrors, i' # i
               PROVE  got' = got /\ ctx' = ctx
    OBVIOUS
  <2>1. Round
    BY DEF Next, AllEqual
  <2>2. QED
    BY <2>1, RoundReads DEF ErrorInv
<1>3. QED
  BY <1>1, <1>2, ErrorInvNext, PTL DEF Spec, ErrorsStay

-----------------------------------------------------------------------------
(* The two libraries give the same events. *)

\* an event has the kind of the token, and moves the context as it does
LEMMA EventIs ==
  ASSUME NEW c
  PROVE  /\ Reading(c).ctx = BenrNext(data, c).ctx
         /\ Reading(c).ev.kind = KindOf[BenrNext(data, c).b.kind]
<1>1. CASE lib # "benp"
  BY <1>1 DEF Reading, BenrReading, Ev
<1>2. CASE lib = "benp"
  <2>1. SameResult(BenrNext(data, c), BenpNext(data, c))
    BY NextsAgree
  <2>2. /\ BenpNext(data, c).ctx = BenrNext(data, c).ctx
        /\ SameToken(BenrNext(data, c).b, BenpNext(data, c).ev)
    BY <2>1, Zenon DEF SameResult
  <2>3. BenpNext(data, c).ev.kind = KindOf[BenrNext(data, c).b.kind]
    BY <2>2 DEF SameToken, KindOf
  <2>4. /\ Reading(c).ev.kind = BenpNext(data, c).ev.kind
        /\ Reading(c).ctx = BenpNext(data, c).ctx
    BY <1>2 DEF Reading, BenpReading, Ev
  <2>5. QED
    BY <2>2, <2>3, <2>4, Zenon
<1>3. QED
  BY <1>1, <1>2

-----------------------------------------------------------------------------
(* The containers that are open, innermost first *)

Starts == {"LIST_START", "DICT_START"}
Opened == [kind : Starts, base : Nat]

\* the end marker of an open container
CloseOf(m, o) == Close(m, KindOpened(o), o.base)

\* In m, at q the containers of open are open, and the outermost is all of m;
\* with none open, q is at the start of m or behind it.
Nested(m, q, opened) ==
  /\ opened \in Seq(Opened)
  /\ \A j \in 1 .. Len(opened) : opened[j].base \in 1 .. Len(m) + 1
  /\ opened = <<>> => q = 1 \/ q = Len(m) + 1
  /\ opened # <<>> => /\ Pending(m, q, CloseOf(m, opened[1]))
                      /\ CloseOf(m, opened[Len(opened)]) = Len(m)
  /\ \A j \in 1 .. Len(opened) - 1 :
       Pending(m, CloseOf(m, opened[j]) + 1, CloseOf(m, opened[j + 1]))

\* one more in front, and one less
LEMMA PushIs ==
  ASSUME NEW S, NEW s \in Seq(S), NEW x \in S
  PROVE  /\ <<x>> \o s \in Seq(S) /\ <<x>> \o s # <<>>
         /\ Len(<<x>> \o s) = Len(s) + 1 /\ (<<x>> \o s)[1] = x
         /\ \A j \in 1 .. Len(s) : (<<x>> \o s)[j + 1] = s[j]
  OBVIOUS

\* the first one gone
LEMMA PopIs ==
  ASSUME NEW S, NEW s \in Seq(S), s # <<>>
  PROVE  /\ Tail(s) \in Seq(S) /\ Head(s) = s[1]
         /\ Len(s) \in Nat \ {0} /\ Len(Tail(s)) = Len(s) - 1
         /\ \A j \in 1 .. Len(s) - 1 : Tail(s)[j] = s[j + 1]
  OBVIOUS

\* none left
LEMMA EmptyIs ==
  ASSUME NEW S, NEW s \in Seq(S)
  PROVE  s = <<>> <=> Len(s) = 0
  OBVIOUS

\* a well-formed message
Message(m) == m \in Seq(Nat) /\ WellFormed(m) /\ Len(m) < UINTMAX

\* Where containers are open there is an end marker, of the innermost, or a value.
LEMMA NestedIs ==
  ASSUME NEW m, Message(m), NEW q \in 1 .. Len(m), NEW opened, Nested(m, q, opened)
  PROVE  \/ /\ m[q] = E /\ opened # <<>> /\ q = CloseOf(m, opened[1])
         \/ /\ m[q] # E /\ ValueEnd(m, q) # 0
            /\ opened = <<>> => ValueEnd(m, q) = Len(m) + 1
            /\ opened # <<>> => Pending(m, ValueEnd(m, q), CloseOf(m, opened[1]))
<1>1. m \in Seq(Nat) /\ ValueEnd(m, 1) = Len(m) + 1
  BY DEF Message, WellFormed
<1>2. CASE opened = <<>>
  <2>1. q = 1
    <3>1. q # Len(m) + 1
      BY <1>1
    <3>2. QED
      BY <1>2, <3>1, Zenon DEF Nested
  <2>2. ValueEnd(m, q) # 0 /\ ValueEnd(m, q) = Len(m) + 1
    BY <1>1, <2>1
  <2>3. m[q] # E
    <3>1. E \notin {I, L, D} \cup Digits
      BY DEF E, I, L, D, Digits
    <3>2. QED
      BY <1>1, <2>2, <3>1, ValueEndIs, Zenon
  <2>4. QED
    BY <1>2, <2>2, <2>3, Zenon
<1>3. CASE opened # <<>>
  <2>1. Pending(m, q, CloseOf(m, opened[1]))
    BY <1>3, Zenon DEF Nested
  <2>2. QED
    BY <1>1, <1>3, <2>1, PendingIs, Zenon
<1>4. QED
  BY <1>2, <1>3

\* behind an end marker one container less is open
LEMMA NestedLess ==
  ASSUME NEW m, Message(m), NEW q \in 1 .. Len(m), NEW opened, Nested(m, q, opened),
         opened # <<>>, q = CloseOf(m, opened[1])
  PROVE  Nested(m, q + 1, Tail(opened))
<1>1. PICK n \in Nat \ {0} : n = Len(opened) /\ Len(Tail(opened)) = n - 1
  BY PopIs, Zenon DEF Nested
<1>2. /\ Tail(opened) \in Seq(Opened)
      /\ \A j \in 1 .. n - 1 : Tail(opened)[j] = opened[j + 1]
  BY <1>1, PopIs, Zenon DEF Nested
<1>3. /\ \A j \in 1 .. n : opened[j].base \in 1 .. Len(m) + 1
      /\ CloseOf(m, opened[n]) = Len(m)
      /\ \A j \in 1 .. n - 1 : Pending(m, CloseOf(m, opened[j]) + 1, CloseOf(m, opened[j + 1]))
  BY <1>1, Zenon DEF Nested
<1>4. \A j \in 1 .. n - 1 : Tail(opened)[j].base \in 1 .. Len(m) + 1
  <2>1. \A j \in 1 .. n - 1 : j + 1 \in 1 .. n
    BY <1>1
  <2>2. QED
    BY <1>2, <1>3, <2>1, Zenon
<1>5. CASE n = 1
  <2>1. Tail(opened) = <<>>
    <3>1. Len(Tail(opened)) = 0
      BY <1>1, <1>5
    <3>2. QED
      BY <1>2, <3>1, EmptyIs, Zenon
  <2>2. q + 1 = Len(m) + 1
    BY <1>3, <1>5
  <2>3. 1 .. n - 1 = {} /\ 1 .. n - 1 - 1 = {}
    BY <1>5
  <2>4. QED
    BY <1>1, <1>2, <2>1, <2>2, <2>3, Zenon DEF Nested
<1>6. CASE n # 1
  <2>1. 1 \in 1 .. n - 1 /\ n - 1 \in 1 .. n - 1 /\ 1 + 1 = 2 /\ n - 1 + 1 = n
    BY <1>6
  <2>2. Tail(opened)[1] = opened[2] /\ Tail(opened)[n - 1] = opened[n]
    BY <1>2, <2>1
  <2>3. Pending(m, q + 1, CloseOf(m, Tail(opened)[1]))
    BY <1>3, <2>1, <2>2
  <2>4. CloseOf(m, Tail(opened)[Len(Tail(opened))]) = Len(m)
    BY <1>1, <1>3, <2>2, Zenon
  <2>5. ASSUME NEW j \in 1 .. n - 1 - 1
        PROVE  Pending(m, CloseOf(m, Tail(opened)[j]) + 1, CloseOf(m, Tail(opened)[j + 1]))
    <3>1. j \in 1 .. n - 1 /\ j + 1 \in 1 .. n - 1
      OBVIOUS
    <3>2. Tail(opened)[j] = opened[j + 1] /\ Tail(opened)[j + 1] = opened[j + 1 + 1]
      BY <1>2, <3>1, Zenon
    <3>3. QED
      BY <1>3, <3>1, <3>2, Zenon
  <2>6. Tail(opened) # <<>>
    BY <1>1, <1>6
  <2>7. QED
    BY <1>1, <1>2, <1>4, <2>3, <2>4, <2>5, <2>6, Zenon DEF Nested
<1>7. QED
  BY <1>5, <1>6

\* behind the opening byte of a container one more is open
LEMMA NestedMore ==
  ASSUME NEW m, Message(m), NEW q \in 1 .. Len(m), NEW opened, Nested(m, q, opened),
         NEW o \in Opened, o.base = q + 1, CloseOf(m, o) # 0,
         ValueEnd(m, q) = CloseOf(m, o) + 1,
         opened = <<>> => ValueEnd(m, q) = Len(m) + 1,
         opened # <<>> => Pending(m, ValueEnd(m, q), CloseOf(m, opened[1]))
  PROVE  Nested(m, q + 1, <<o>> \o opened)
<1>1. PICK n \in Nat : n = Len(opened)
  BY DEF Nested
<1> DEFINE more == <<o>> \o opened
<1>2. /\ more \in Seq(Opened) /\ more # <<>> /\ Len(more) = n + 1 /\ more[1] = o
      /\ \A j \in 1 .. n : more[j + 1] = opened[j]
  <2>1. opened \in Seq(Opened)
    BY Zenon DEF Nested
  <2>2. /\ <<o>> \o opened \in Seq(Opened) /\ <<o>> \o opened # <<>>
        /\ Len(<<o>> \o opened) = Len(opened) + 1 /\ (<<o>> \o opened)[1] = o
        /\ \A j \in 1 .. Len(opened) : (<<o>> \o opened)[j + 1] = opened[j]
    BY <2>1, PushIs
  <2>3. QED
    BY <1>1, <2>2, Zenon
<1> HIDE DEF more
<1>3. /\ \A j \in 1 .. n : opened[j].base \in 1 .. Len(m) + 1
      /\ opened # <<>> => CloseOf(m, opened[n]) = Len(m)
      /\ \A j \in 1 .. n - 1 : Pending(m, CloseOf(m, opened[j]) + 1, CloseOf(m, opened[j + 1]))
  BY <1>1, Zenon DEF Nested
<1>4. PICK k \in Nat : k = Len(m)
  BY DEF Message
<1>5. q + 1 \in 1 .. k + 1
  BY <1>4
<1>6. ASSUME NEW j \in 1 .. n + 1 PROVE more[j].base \in 1 .. Len(m) + 1
  <2>1. CASE j = 1
    BY <1>2, <1>4, <1>5, <2>1
  <2>2. CASE j # 1
    <3>1. j - 1 \in 1 .. n /\ j - 1 + 1 = j
      BY <2>2
    <3>2. more[j] = opened[j - 1]
      BY <1>2, <3>1
    <3>3. QED
      BY <1>3, <3>1, <3>2, Zenon
  <2>3. QED
    BY <2>1, <2>2
<1>7. Pending(m, q + 1, CloseOf(m, more[1]))
  <2>1. o.kind \in Starts
    BY DEF Opened
  <2>2. CloseOf(m, o) = Close(m, "LIST", q + 1) \/ CloseOf(m, o) = Close(m, "DICT", q + 1)
    BY DEF CloseOf, KindOpened
  <2>3. q + 1 \in 1 .. Len(m) + 1
    BY <1>4, <1>5
  <2>4. QED
    BY <1>2, <2>2, <2>3, Zenon DEF Pending
<1>8. CloseOf(m, more[Len(more)]) = Len(m)
  <2>1. CASE n = 0
    <3>1. opened = <<>> /\ Len(more) = 1
      <4>1. opened = <<>>
        BY <1>1, <2>1, EmptyIs, Zenon DEF Nested
      <4>2. Len(more) = 1
        BY <1>2, <2>1
      <4>3. QED
        BY <4>1, <4>2
    <3>2. CloseOf(m, o) + 1 = k + 1
      BY <1>4, <3>1
    <3>3. CloseOf(m, o) \in Int
      <4>1. CloseOf(m, o) = Close(m, "LIST", q + 1) \/ CloseOf(m, o) = Close(m, "DICT", q + 1)
        BY DEF CloseOf, KindOpened
      <4>2. q + 1 \in 1 .. Len(m) + 1 /\ m \in Seq(Nat) /\ "LIST" \in Kinds /\ "DICT" \in Kinds
        BY <1>4, <1>5 DEF Message, Kinds
      <4>3. PICK kind \in Kinds : CloseOf(m, o) = Close(m, kind, q + 1)
        BY <4>1, <4>2, Zenon
      <4>4. CloseOf(m, o) \in q + 1 .. Len(m)
        BY <4>2, <4>3, CloseBounds, Zenon
      <4>5. QED
        BY <4>4
    <3>4. CloseOf(m, o) = k
      BY <1>4, <3>2, <3>3
    <3>5. QED
      BY <1>2, <1>4, <3>1, <3>4
  <2>2. CASE n # 0
    <3>1. opened # <<>>
      BY <1>1, <2>2, EmptyIs, Zenon DEF Nested
    <3>2. n \in 1 .. n
      BY <2>2
    <3>3. more[Len(more)] = opened[n]
      BY <1>2, <3>2, Zenon
    <3>4. QED
      BY <1>3, <3>1, <3>3, Zenon
  <2>3. QED
    BY <2>1, <2>2
<1>9. ASSUME NEW j \in 1 .. n + 1 - 1
      PROVE  Pending(m, CloseOf(m, more[j]) + 1, CloseOf(m, more[j + 1]))
  <2>1. j \in 1 .. n /\ opened # <<>>
    <3>1. j \in 1 .. n /\ n # 0
      OBVIOUS
    <3>2. QED
      BY <1>1, <3>1, EmptyIs, Zenon DEF Nested
  <2>2. more[j + 1] = opened[j]
    BY <1>2, <2>1
  <2>3. CASE j = 1
    BY <1>2, <2>1, <2>2, <2>3
  <2>4. CASE j # 1
    <3>1. j - 1 \in 1 .. n - 1 /\ j - 1 \in 1 .. n /\ j - 1 + 1 = j
      BY <2>1, <2>4
    <3>2. more[j] = opened[j - 1]
      BY <1>2, <3>1
    <3>3. Pending(m, CloseOf(m, opened[j - 1]) + 1, CloseOf(m, opened[j]))
      BY <1>3, <3>1
    <3>4. QED
      BY <2>2, <3>2, <3>3
  <2>5. QED
    BY <2>3, <2>4
<1>10. Nested(m, q + 1, more)
  <2>1. \A j \in 1 .. Len(more) : more[j].base \in 1 .. Len(m) + 1
    BY <1>2, <1>6, Zenon
  <2>2. \A j \in 1 .. Len(more) - 1 :
          Pending(m, CloseOf(m, more[j]) + 1, CloseOf(m, more[j + 1]))
    <3>1. 1 .. Len(more) - 1 = 1 .. n + 1 - 1
      BY <1>2
    <3>2. QED
      BY <1>9, <3>1, Zenon
  <2>3. QED
    BY <1>2, <1>7, <1>8, <2>1, <2>2, Zenon DEF Nested
<1>11. QED
  BY <1>10 DEF more

\* behind a value that is no container the same are open
LEMMA NestedOn ==
  ASSUME NEW m, NEW q, NEW r, NEW opened, Nested(m, q, opened),
         opened = <<>> => r = Len(m) + 1,
         opened # <<>> => Pending(m, r, CloseOf(m, opened[1]))
  PROVE  Nested(m, r, opened)
  BY Zenon DEF Nested

-----------------------------------------------------------------------------
(* The reader of a message of which m is the whole *)

\* where it stands, and what is open there
Standing(m) ==
  \E q \in 1 .. Len(data) + 1 :
    /\ ctx = Rest(data, q)
    /\ Nested(m, q, OpenAfterGot)
    /\ i > 0 /\ got.kind = "DONE" => q = Len(data) + 1

\* an end marker was the one of the container opened last
EndRead(m) ==
  i > 0 /\ got.kind = "X_END" =>
    /\ open # <<>> /\ Nested(m, at, open)
    /\ at \in 1 .. Len(data) /\ at = CloseOf(m, open[1])

Following(m) == Standing(m) /\ EndRead(m)

NestInv ==
  /\ i \in Nat
  /\ data \in Seq(Nat)
  /\ \A m \in Values : Begins(data, m) => Following(m)

\* the messages of the model are messages of naturals
LEMMA ValuesAreMessages == \A m \in Values : Message(m)
<1> SUFFICES ASSUME NEW m \in Values PROVE Message(m)
  OBVIOUS
<1>1. m \in Seq(0 .. 255) /\ WellFormed(m) /\ Len(m) < UINTMAX
  BY MessagesAssumption, Zenon
<1>2. m \in Seq(Nat)
  BY <1>1, BytesAre, Zenon
<1>3. QED
  BY <1>1, <1>2, Zenon DEF Message

\* before the first round nothing is open, ...
LEMMA InitNested == Init => NestInv
<1> SUFFICES ASSUME Init PROVE NestInv
  OBVIOUS
<1>1. data \in Seq(Nat)
  <2>1. PICK t \in Tables : data = t[1]
    BY DEF Init
  <2>2. t[1] \in Seq(0 .. 255)
    BY MessagesAssumption, Zenon
  <2>3. QED
    BY <2>1, <2>2, BytesAre, Zenon
<1>2. i = 0 /\ i \in Nat /\ ~(i > 0) /\ OpenAfterGot = <<>>
  BY DEF Init, OpenAfterGot
<1>3. ASSUME NEW m \in Values, Begins(data, m) PROVE Following(m)
  <2>1. ctx = Rest(data, 1)
    BY <1>1 DEF Init, Whole, Rest, Ctx
  <2>2. 1 \in 1 .. Len(data) + 1
    BY <1>1
  <2>3. <<>> \in Seq(Opened) /\ Len(<<>>) = 0 /\ 1 .. 0 = {} /\ 1 .. 0 - 1 = {}
    OBVIOUS
  <2>4. Nested(m, 1, <<>>)
    BY <2>3, Zenon DEF Nested
  <2>5. QED
    BY <1>2, <2>1, <2>2, <2>4, Zenon DEF Following, Standing, EndRead
<1>4. QED
  BY <1>1, <1>2, <1>3, Zenon DEF NestInv

\* what one round of the loop leaves, in terms of the token
LEMMA RoundIs ==
  ASSUME Round, i \in Nat
  PROVE  /\ ctx' = BenrNext(data, ctx).ctx
         /\ got'.kind = KindOf[BenrNext(data, ctx).b.kind]
         /\ at' = ctx.pos /\ open' = OpenAfterGot /\ data' = data
         /\ i' \in Nat /\ i' > 0
         /\ OpenAfterGot' =
              IF got'.kind \in Starts
              THEN <<[kind |-> got'.kind, base |-> ctx'.pos]>> \o OpenAfterGot
              ELSE IF got'.kind = "X_END" /\ OpenAfterGot # <<>> THEN Tail(OpenAfterGot)
              ELSE OpenAfterGot
<1>1. got' = Reading(ctx).ev /\ ctx' = Reading(ctx).ctx /\ data' = data
  BY RoundReads
<1>2. at' = ctx.pos /\ open' = OpenAfterGot /\ i' = i + 1
  BY Zenon DEF Round
<1>3. i' \in Nat /\ i' > 0 /\ i' # 0
  BY <1>2
<1>4. OpenAfterGot' =
        IF got'.kind \in Starts
        THEN <<[kind |-> got'.kind, base |-> ctx'.pos]>> \o open'
        ELSE IF got'.kind = "X_END" /\ open' # <<>> THEN Tail(open')
        ELSE open'
  BY <1>3 DEF OpenAfterGot, Starts
<1>5. QED
  BY <1>1, <1>2, <1>3, <1>4, EventIs, Zenon

\* the events of the tokens
LEMMA EventKinds ==
  /\ KindOf["X_END"] = "X_END" /\ KindOf["NONE"] = "DONE"
  /\ KindOf["LIST"] = "LIST_START" /\ KindOf["DICT"] = "DICT_START"
  /\ \A k \in {"STRING", "INT"} \cup ErrorKinds :
       KindOf[k] \notin Starts \cup {"X_END", "DONE"}
  /\ "X_END" \notin Starts /\ "DONE" \notin Starts /\ "DONE" # "X_END"
BY DEF KindOf, ErrorKinds, Starts

\* A round follows the nesting of the whole message.
LEMMA RoundFollows ==
  ASSUME NestInv, Round, NEW m \in Values, Begins(data, m), Following(m)
  PROVE  Following(m)'
<1>1. Message(m) /\ m \in Seq(Nat) /\ Len(m) < UINTMAX
  BY ValuesAreMessages, Zenon DEF Message
<1>2. PICK q \in 1 .. Len(data) + 1 : ctx = Rest(data, q) /\ Nested(m, q, OpenAfterGot)
  BY Zenon DEF Following, Standing
<1>3. i \in Nat /\ data \in Seq(Nat)
  BY Zenon DEF NestInv
<1>4. PICK n \in Nat, k \in Nat : n = Len(data) /\ k = Len(m) /\ n <= k
  BY BeginsLen
<1>5. PICK x, e, opened, r :
        /\ x = BenrNext(data, Rest(data, q)) /\ e = got'.kind
        /\ opened = OpenAfterGot /\ r = ctx'
  OBVIOUS
<1>6. /\ r = x.ctx /\ e = KindOf[x.b.kind] /\ at' = q
      /\ open' = opened /\ data' = data
      /\ OpenAfterGot' = IF e \in Starts THEN <<[kind |-> e, base |-> r.pos]>> \o opened
                         ELSE IF e = "X_END" /\ opened # <<>> THEN Tail(opened)
                         ELSE opened
  <2>1. ctx.pos = q
    BY <1>2 DEF Rest, Ctx
  <2>2. QED
    BY <1>2, <1>3, <1>5, <2>1, RoundIs, Zenon
<1>7. Nested(m, q, opened)
  BY <1>2, <1>5
<1>8. Following(m)' <=>
        /\ \E p \in 1 .. n + 1 : /\ r = Rest(data, p)
                                 /\ Nested(m, p, OpenAfterGot')
                                 /\ e = "DONE" => p = n + 1
        /\ e = "X_END" => /\ opened # <<>> /\ Nested(m, q, opened)
                          /\ q \in 1 .. n /\ q = CloseOf(m, opened[1])
  <2>1. i' > 0
    BY <1>3, RoundIs, Zenon
  <2>2. QED
    BY <1>4, <1>5, <1>6, <2>1, Zenon DEF Following, Standing, EndRead
<1>9. CASE q = n + 1
  <2>1. IsNothing(x, data, q)
    BY <1>3, <1>4, <1>5, <1>9, NothingLeft
  <2>2. e = "DONE" /\ r = Rest(data, q)
    BY <1>6, <2>1, EventKinds, Zenon DEF IsNothing
  <2>3. OpenAfterGot' = opened /\ e # "X_END"
    BY <1>6, <2>2, EventKinds, Zenon
  <2>4. QED
    BY <1>4, <1>7, <1>8, <1>9, <2>2, <2>3, Zenon
<1>10. CASE q # n + 1
  <2>1. q \in 1 .. n /\ q \in 1 .. k /\ q \in 1 .. n + 1 /\ q + 1 \in 1 .. n + 1
    BY <1>4, <1>10
  <2>2. q \in 1 .. Len(data) /\ q \in 1 .. Len(m)
    BY <1>4, <2>1, Zenon
  <2>3. CASE m[q] = E
    <3>1. opened # <<>> /\ q = CloseOf(m, opened[1])
      BY <1>1, <1>7, <2>2, <2>3, NestedIs, Zenon
    <3>2. IsEnd(x, data, q)
      BY <1>1, <1>5, <2>2, <2>3, TokenIs, Zenon
    <3>3. e = "X_END" /\ r = Rest(data, q + 1)
      BY <1>6, <3>2, EventKinds, Zenon DEF IsEnd
    <3>4. OpenAfterGot' = Tail(opened) /\ e # "DONE"
      BY <1>6, <3>1, <3>3, EventKinds, Zenon
    <3>5. Nested(m, q + 1, Tail(opened))
      BY <1>1, <1>7, <2>2, <3>1, NestedLess, Zenon
    <3>6. QED
      BY <1>7, <1>8, <2>1, <3>1, <3>3, <3>4, <3>5, Zenon
  <2>4. CASE m[q] # E
    <3>1. /\ ValueEnd(m, q) # 0
          /\ opened = <<>> => ValueEnd(m, q) = Len(m) + 1
          /\ opened # <<>> => Pending(m, ValueEnd(m, q), CloseOf(m, opened[1]))
      BY <1>1, <1>7, <2>2, <2>4, NestedIs, Zenon
    <3>2. CutShort(x, m, data, q) \/ TakenAs(x, m, data, q)
      BY <1>1, <1>5, <2>2, <3>1, ValueToken, Zenon
    <3>3. CASE CutShort(x, m, data, q)
      <4>1. e \notin Starts \cup {"X_END", "DONE"} /\ r = Rest(data, q)
        BY <1>6, <3>3, EventKinds, Zenon DEF CutShort
      <4>2. OpenAfterGot' = opened /\ e # "X_END" /\ e # "DONE"
        BY <1>6, <4>1, Zenon
      <4>3. QED
        BY <1>7, <1>8, <2>1, <4>1, <4>2, Zenon
    <3>4. CASE TakenAs(x, m, data, q) /\ x.b.kind \notin Kinds
      <4>1. x.b.kind \in {"STRING", "INT"}
        BY <3>4 DEF TakenAs, ReadAs, Kinds
      <4>2. r = Rest(data, ValueEnd(m, q)) /\ ValueEnd(m, q) \in 1 .. n + 1
        BY <1>4, <1>6, <3>4, Zenon DEF TakenAs
      <4>3. e \notin Starts \cup {"X_END", "DONE"}
        BY <1>6, <4>1, EventKinds, Zenon
      <4>4. OpenAfterGot' = opened /\ e # "X_END" /\ e # "DONE"
        BY <1>6, <4>3, Zenon
      <4>5. Nested(m, ValueEnd(m, q), opened)
        BY <1>7, <3>1, NestedOn, Zenon
      <4>6. QED
        BY <1>8, <4>2, <4>4, <4>5, Zenon
    <3>5. CASE TakenAs(x, m, data, q) /\ x.b.kind \in Kinds
      <4>1. PICK kind \in Kinds : kind = x.b.kind
        BY <3>5
      <4>2. /\ r = Rest(data, q + 1) /\ Close(m, kind, q + 1) # 0
            /\ ValueEnd(m, q) = PastEnd(Close(m, kind, q + 1))
        BY <1>6, <3>5, <4>1, Zenon DEF TakenAs, ReadAs
      <4>3. r.pos = q + 1
        BY <4>2 DEF Rest, Ctx
      <4>4. e \in Starts /\ e # "X_END" /\ e # "DONE" /\ e = KindOf[kind]
        BY <1>6, <4>1, EventKinds DEF Kinds, Starts
      <4>5. PICK o : o = [kind |-> e, base |-> q + 1]
        OBVIOUS
      <4>6. o \in Opened /\ o.base = q + 1
        BY <2>1, <4>4, <4>5 DEF Opened
      <4>7. CloseOf(m, o) = Close(m, kind, q + 1)
        <5>1. KindOpened(o) = kind
          BY <4>1, <4>4, <4>5, EventKinds DEF KindOpened, Kinds
        <5>2. QED
          BY <4>6, <5>1, Zenon DEF CloseOf
      <4>8. CloseOf(m, o) # 0 /\ ValueEnd(m, q) = CloseOf(m, o) + 1
        <5>1. Close(m, kind, q + 1) \in Nat
          <6>1. q + 1 \in 1 .. k + 1
            BY <2>1
          <6>2. Close(m, kind, q + 1) \in q + 1 .. Len(m)
            BY <1>1, <1>4, <4>2, <6>1, CloseBounds, Zenon
          <6>3. QED
            BY <2>1, <6>2
        <5>2. QED
          BY <4>2, <4>7, <5>1, PastEndIs, Zenon
      <4>9. Nested(m, q + 1, <<o>> \o opened)
        BY <1>1, <1>7, <2>2, <3>1, <4>6, <4>8, NestedMore, Zenon
      <4>10. OpenAfterGot' = <<o>> \o opened
        BY <1>6, <4>3, <4>4, <4>5, Zenon
      <4>11. QED
        BY <1>8, <2>1, <4>2, <4>4, <4>9, <4>10, Zenon
    <3>6. QED
      BY <3>2, <3>3, <3>4, <3>5, Zenon
  <2>5. QED
    BY <2>3, <2>4
<1>11. QED
  BY <1>9, <1>10


\* ... and every step follows the nesting
LEMMA NextNested == NestInv /\ [Next]_vars => NestInv'
<1> SUFFICES ASSUME NestInv, [Next]_vars PROVE NestInv'
  OBVIOUS
<1>1. CASE Round
  <2>1. i' \in Nat /\ data' = data /\ data' \in Seq(Nat)
    BY <1>1, RoundIs, Zenon DEF NestInv
  <2>2. ASSUME NEW m \in Values, Begins(data, m) PROVE Following(m)'
    <3>1. Following(m)
      BY <2>2, Zenon DEF NestInv
    <3>2. QED
      BY <1>1, <2>2, <3>1, RoundFollows, Zenon
  <2>3. QED
    BY <2>1, <2>2, Zenon DEF NestInv
<1>2. CASE AllEqual \/ UNCHANGED vars
  <2>1. UNCHANGED <<data, i, ctx, got, at, open>>
    BY <1>2 DEF AllEqual, vars
  <2>2. QED
    BY <2>1 DEF NestInv, Following, Standing, EndRead, OpenAfterGot
<1>3. QED
  BY <1>1, <1>2 DEF Next

\* in every state of the reader
LEMMA NestInvHolds == Spec => []NestInv
<1>1. Init => NestInv
  BY InitNested
<1>2. NestInv /\ [Next]_vars => NestInv'
  BY NextNested
<1>3. QED
  BY <1>1, <1>2, PTL DEF Spec

-----------------------------------------------------------------------------
(* What the two invariants of the model follow from *)

\* a message that has started is the beginning of a whole one
LEMMA StartedIs ==
  ASSUME NEW s \in Seq(Nat), Started(s)
  PROVE  s # <<>> /\ \E m \in Values : Begins(s, m)
<1>1. PICK m \in Values : s # <<>> /\ IsPrefix(s, m)
  BY DEF Started
<1>2. m \in Seq(Nat)
  BY ValuesAreMessages, Zenon DEF Message
<1>3. PICK n \in Nat, k \in Nat : n = Len(s) /\ k = Len(m)
  BY <1>2
<1>4. n <= k /\ SubSeq(s, 1, n) = SubSeq(m, 1, n)
  BY <1>1, <1>3, Zenon DEF IsPrefix
<1>5. ASSUME NEW j \in 1 .. n PROVE s[j] = m[j]
  <2>1. SubSeq(s, 1, n)[j] = s[j]
    BY <1>3
  <2>2. SubSeq(m, 1, n)[j] = m[j]
    BY <1>2, <1>3, <1>4
  <2>3. QED
    BY <1>4, <2>1, <2>2, Zenon
<1>6. Begins(s, m)
  BY <1>2, <1>3, <1>4, <1>5, Zenon DEF Begins, Same
<1>7. QED
  BY <1>1, <1>6, Zenon

\* a message begins itself
LEMMA BeginsItself ==
  ASSUME NEW s \in Seq(Nat)
  PROVE  Begins(s, s)
<1>1. Len(s) <= Len(s)
  OBVIOUS
<1>2. QED
  BY <1>1, Zenon DEF Begins, Same

\* and the only beginning of its length
LEMMA BeginsWhole ==
  ASSUME NEW s, NEW m, Begins(s, m), Len(s) = Len(m)
  PROVE  s = m
<1>1. s \in Seq(Nat) /\ m \in Seq(Nat) /\ \A j \in 1 .. Len(s) : s[j] = m[j]
  BY Zenon DEF Begins, Same
<1>2. QED
  BY <1>1

\* an end marker read is the one of the container opened last, also by the
\* grammar of the bytes that are there
LEMMA EndsAreTheirs == NestInv => EndsClose
<1> SUFFICES ASSUME NestInv, Started(data), i > 0, got.kind = "X_END"
             PROVE  /\ open # <<>>
                    /\ at = Close(data, KindOpened(Head(open)), Head(open).base)
  BY Zenon DEF EndsClose
<1>1. data \in Seq(Nat)
  BY Zenon DEF NestInv
<1>2. PICK m \in Values : Begins(data, m)
  BY <1>1, StartedIs, Zenon
<1>3. /\ open # <<>> /\ Nested(m, at, open)
      /\ at \in 1 .. Len(data) /\ at = CloseOf(m, open[1])
  BY <1>2, Zenon DEF NestInv, Following, EndRead
<1>4. PICK o, b : o = open[1] /\ b = o.base
  OBVIOUS
<1> DEFINE kind == KindOpened(o)
<1> kind \in Kinds
  BY DEF KindOpened, Kinds
<1> HIDE DEF kind
<1>5. Head(open) = o
  BY <1>3, <1>4, PopIs, Zenon DEF Nested
<1>6. at = Close(m, kind, b)
  BY <1>3, <1>4, Zenon DEF CloseOf, kind
<1>7. b \in 1 .. Len(m) + 1
  <2>1. 1 \in 1 .. Len(open)
    <3>1. Len(open) \in Nat \ {0}
      BY <1>3, PopIs, Zenon DEF Nested
    <3>2. QED
      BY <3>1
  <2>2. QED
    BY <1>3, <1>4, <2>1, Zenon DEF Nested
<1>8. PICK n \in Nat, k \in Nat : n = Len(data) /\ k = Len(m)
  BY <1>2, BeginsLen
<1>9. at \in b .. k
  <2>1. m \in Seq(Nat) /\ Close(m, kind, b) # 0
    <3>1. at # 0
      BY <1>3
    <3>2. QED
      BY <1>2, <1>6, <3>1, BeginsLen, Zenon
  <2>2. QED
    BY <1>6, <1>7, <1>8, <2>1, CloseBounds, Zenon
<1>10. b \in 1 .. n + 1 /\ at # 0 /\ at <= n
  <2>1. at \in 1 .. n /\ b \in 1 .. k + 1
    BY <1>3, <1>7, <1>8, Zenon
  <2>2. QED
    BY <1>9, <2>1
<1>11. KeepsClose(m, data, kind, b)
  BY <1>2, <1>8, <1>10, GrammarKept, Zenon
<1>12. Close(data, kind, b) = at
  BY <1>6, <1>8, <1>10, <1>11, Zenon DEF KeepsClose
<1>13. QED
  BY <1>3, <1>4, <1>5, <1>12, Zenon DEF kind

\* the bytes used up with nothing open are a whole message, and no whole message
\* is used up with something open
LEMMA DoneIsTheEnd == NestInv => DoneIsComplete
<1> SUFFICES ASSUME NestInv, Started(data), i > 0, got.kind = "DONE"
             PROVE  open = <<>> <=> data \in Values
  BY Zenon DEF DoneIsComplete
<1>1. data \in Seq(Nat)
  BY Zenon DEF NestInv
<1>2. PICK m \in Values : Begins(data, m) /\ data # <<>>
  BY <1>1, StartedIs, Zenon
<1>3. PICK n \in Nat : n = Len(data) /\ n # 0
  BY <1>1, <1>2
<1>4. OpenAfterGot = open
  <2>1. got.kind \notin {"LIST_START", "DICT_START"} /\ got.kind # "X_END" /\ i # 0
    BY DEF NestInv
  <2>2. QED
    BY <2>1 DEF OpenAfterGot
\* where it stands, for every whole message it may be the beginning of
<1>5. ASSUME NEW s \in Values, Begins(data, s)
      PROVE  Nested(s, n + 1, open)
  <2>1. Standing(s)
    BY <1>5, Zenon DEF NestInv, Following
  <2>2. PICK q : Nested(s, q, OpenAfterGot) /\ q = Len(data) + 1
    BY <2>1, Zenon DEF Standing
  <2>3. QED
    BY <1>3, <1>4, <2>2, Zenon
<1>6. ASSUME open = <<>> PROVE data \in Values
  <2>1. n + 1 = 1 \/ n + 1 = Len(m) + 1
    BY <1>2, <1>5, <1>6, Zenon DEF Nested
  <2>2. Len(data) = Len(m)
    <3>1. Len(m) \in Nat
      BY <1>2, BeginsLen, Zenon
    <3>2. QED
      BY <1>3, <2>1, <3>1
  <2>3. QED
    BY <1>2, <2>2, BeginsWhole, Zenon
<1>7. ASSUME data \in Values PROVE open = <<>>
  <2>1. Nested(data, n + 1, open)
    BY <1>1, <1>5, <1>7, BeginsItself, Zenon
  <2>2. ASSUME open # <<>> PROVE FALSE
    <3>1. Pending(data, n + 1, CloseOf(data, open[1]))
      BY <2>1, <2>2, Zenon DEF Nested
    <3>2. n + 1 \in 1 .. n
      BY <1>1, <1>3, <3>1, PendingIs, Zenon
    <3>3. QED
      BY <3>2
  <2>3. QED
    BY <2>2
<1>8. QED
  BY <1>6, <1>7

-----------------------------------------------------------------------------
(* BENP_EV_X_END stands for the ends of both kinds of container, "due to lack of
   tracking support" (benp.h:62): a caller that notes what it has opened knows
   which one closes, in every message and wherever it is cut.  The strings of
   the message may be full of end markers; none of them is ever read as one. *)
THEOREM EndsCloseContainers == Spec => []EndsClose
BY NestInvHolds, EndsAreTheirs, PTL

(* DONE says only that the bytes are used up; with nothing open, and only
   then, they were a whole message. *)
THEOREM DoneMeansComplete == Spec => []DoneIsComplete
BY NestInvHolds, DoneIsTheEnd, PTL

-----------------------------------------------------------------------------
(* The events of a message *)

\* the event at p, by its first byte
LEMMA EventByByte ==
  ASSUME NEW s, NEW p
  PROVE  /\ s[p] = I => EventEnd(s, p) = IntEnd(s, p)
         /\ s[p] \in Digits => EventEnd(s, p) = StringEnd(s, p)
         /\ s[p] \in {L, D, E} => EventEnd(s, p) = p + 1
         /\ s[p] \notin {I, L, D, E} \cup Digits => EventEnd(s, p) = 0
<1>1. PICK b : b = s[p]
  OBVIOUS
<1>2. EventEnd(s, p) = CASE b = I -> IntEnd(s, p)
                         [] b \in Digits -> StringEnd(s, p)
                         [] b \in {L, D, E} -> p + 1
                         [] OTHER -> 0
  BY <1>1, Zenon DEF EventEnd
<1>3. /\ b = I => EventEnd(s, p) = IntEnd(s, p)
      /\ b \in Digits => EventEnd(s, p) = StringEnd(s, p)
      /\ b \in {L, D, E} => EventEnd(s, p) = p + 1
      /\ b \notin {I, L, D, E} \cup Digits => EventEnd(s, p) = 0
  BY <1>2, FiveSigns
<1>4. QED
  BY <1>1, <1>3, Zenon

\* ... and what it is
LEMMA EventAtByByte ==
  ASSUME NEW s, NEW p
  PROVE  /\ EventEnd(s, p) = 0 => EventAt(s, p) = Plain("NO_EVENT")
         /\ EventEnd(s, p) # 0 /\ s[p] = I => EventAt(s, p) = Ev("INTEGER", Integer(s, p), <<>>)
         /\ EventEnd(s, p) # 0 /\ s[p] = L => EventAt(s, p) = Plain("LIST_START")
         /\ EventEnd(s, p) # 0 /\ s[p] = D => EventAt(s, p) = Plain("DICT_START")
         /\ EventEnd(s, p) # 0 /\ s[p] = E => EventAt(s, p) = Plain("X_END")
         /\ EventEnd(s, p) # 0 /\ s[p] \in Digits =>
              EventAt(s, p) =
                LET c == CHOOSE c \in p .. Len(s) : s[c] = COLON /\ AllDigits(s, p, c - 1)
                IN Ev("STRING", 0, SubSeq(s, c + 1, EventEnd(s, p) - 1))
<1>1. PICK b, e, text :
        /\ b = s[p] /\ e = EventEnd(s, p)
        /\ text = LET c == CHOOSE c \in p .. Len(s) : s[c] = COLON /\ AllDigits(s, p, c - 1)
                  IN Ev("STRING", 0, SubSeq(s, c + 1, EventEnd(s, p) - 1))
  OBVIOUS
<1>2. EventAt(s, p) = CASE e = 0 -> Plain("NO_EVENT")
                        [] e # 0 /\ b = I -> Ev("INTEGER", Integer(s, p), <<>>)
                        [] e # 0 /\ b = L -> Plain("LIST_START")
                        [] e # 0 /\ b = D -> Plain("DICT_START")
                        [] e # 0 /\ b = E -> Plain("X_END")
                        [] e # 0 /\ b \in Digits -> text
  BY <1>1, Zenon DEF EventAt
<1>3. /\ e = 0 => EventAt(s, p) = Plain("NO_EVENT")
      /\ e # 0 /\ b = I => EventAt(s, p) = Ev("INTEGER", Integer(s, p), <<>>)
      /\ e # 0 /\ b = L => EventAt(s, p) = Plain("LIST_START")
      /\ e # 0 /\ b = D => EventAt(s, p) = Plain("DICT_START")
      /\ e # 0 /\ b = E => EventAt(s, p) = Plain("X_END")
      /\ e # 0 /\ b \in Digits => EventAt(s, p) = text
  BY <1>2, FiveSigns
<1>4. QED
  BY <1>1, <1>3, Zenon

\* an event ends behind where it begins, in the message
LEMMA EventEndIs ==
  ASSUME NEW s \in Seq(Nat), NEW n \in Nat, n = Len(s), NEW p \in 1 .. n,
         EventEnd(s, p) # 0
  PROVE  /\ EventEnd(s, p) \in p + 1 .. n + 1 /\ EventEnd(s, p) \in 1 .. n + 1
         /\ s[p] \in {I, L, D, E} \cup Digits
<1>1. CASE s[p] = I
  <2>1. EventEnd(s, p) = IntEnd(s, p)
    BY <1>1, EventByByte
  <2>2. IntEnd(s, p) \in p + 2 .. n + 1
    BY <2>1, IntEndBounds
  <2>3. QED
    BY <1>1, <2>1, <2>2
<1>2. CASE s[p] \in Digits
  <2>1. EventEnd(s, p) = StringEnd(s, p)
    BY <1>2, EventByByte
  <2>2. StringEnd(s, p) \in p + 2 .. n + 1
    BY <2>1, StringParts
  <2>3. QED
    BY <1>2, <2>1, <2>2
<1>3. CASE s[p] \in {L, D, E}
  <2>1. EventEnd(s, p) = p + 1
    BY <1>3, EventByByte
  <2>2. QED
    BY <1>3, <2>1
<1>4. QED
  BY <1>1, <1>2, <1>3, EventByByte

\* f[p] are the events from p on
Lists(f, s) ==
  \A p \in 1 .. Len(s) + 1 :
    f[p] = IF p > Len(s) THEN <<>>
           ELSE <<EventAt(s, p)>>
                  \o (IF EventEnd(s, p) = 0 THEN <<>> ELSE f[EventEnd(s, p)])

\* EventsFrom has the values its definition says
LEMMA EventsFromIs ==
  ASSUME NEW s \in Seq(Nat)
  PROVE  /\ Lists(EventsFrom(s), s)
         /\ EventsFrom(s) \in [1 .. Len(s) + 1 -> Seq({EventAt(s, p) : p \in 1 .. Len(s)})]
<1>1. PICK n \in Nat : n = Len(s)
  OBVIOUS
<1> DEFINE S == 1 .. n + 1
           Es == {EventAt(s, p) : p \in 1 .. n}
           Listed == Seq(Es)
           to == [c \in S |-> IF c > n \/ EventEnd(s, c) = 0 THEN 0 ELSE EventEnd(s, c)]
           here == [c \in S |-> IF c > n THEN <<>> ELSE <<EventAt(s, c)>>]
           rank == [c \in S |-> n + 1 - c]
           more(c, g) == here[c] \o (IF to[c] = 0 THEN <<>> ELSE g[to[c]])
           F == [c \in S |-> [g \in [S -> Listed] |-> more(c, g)]]
<1>2. \A c \in S : /\ to[c] = (IF c > n \/ EventEnd(s, c) = 0 THEN 0 ELSE EventEnd(s, c))
                    /\ here[c] = (IF c > n THEN <<>> ELSE <<EventAt(s, c)>>)
  OBVIOUS
<1>3. \A c \in S : to[c] # 0 => to[c] \in c + 1 .. n + 1 /\ to[c] \in S
  <2> SUFFICES ASSUME NEW c \in S, to[c] # 0
               PROVE  to[c] \in c + 1 .. n + 1 /\ to[c] \in S
    OBVIOUS
  <2>1. to[c] = EventEnd(s, c) /\ ~(c > n) /\ EventEnd(s, c) # 0
    BY <1>2
  <2>2. c \in 1 .. n
    BY <2>1
  <2>3. QED
    BY <1>1, <2>1, <2>2, EventEndIs
<1>4. \A c \in S : here[c] \in Listed
  <2> SUFFICES ASSUME NEW c \in S PROVE here[c] \in Listed
    OBVIOUS
  <2>1. CASE c > n
    BY <1>2, <2>1
  <2>2. CASE ~(c > n)
    <3>1. c \in 1 .. n
      BY <2>2
    <3>2. EventAt(s, c) \in Es
      BY <3>1
    <3> HIDE DEF Es, here
    <3>3. here[c] = <<EventAt(s, c)>>
      BY <1>2, <2>2
    <3>4. QED
      BY <3>2, <3>3
  <2>3. QED
    BY <2>1, <2>2
<1>5. rank \in [S -> Nat] /\ \A c \in S : rank[c] = n + 1 - c
  OBVIOUS
<1>6. \A a, b \in Listed : a \o b \in Listed /\ a \o <<>> \in Listed /\ a \o <<>> = a
  <2> HIDE DEF Es
  <2>1. QED
    OBVIOUS
<1>7. <<>> \in Listed
  OBVIOUS
<1> HIDE DEF to, here, rank
<1>8. \A c \in S : to[c] # 0 => rank[to[c]] < rank[c]
  <2> SUFFICES ASSUME NEW c \in S, to[c] # 0 PROVE rank[to[c]] < rank[c]
    OBVIOUS
  <2>1. PICK q \in c + 1 .. n + 1 : q = to[c] /\ q \in S
    BY <1>3
  <2>2. n + 1 - q < n + 1 - c
    OBVIOUS
  <2>3. QED
    BY <1>5, <2>1, <2>2, Zenon
<1>9. \A c \in S : \A g \in [S -> Listed] : more(c, g) \in Listed
  <2> SUFFICES ASSUME NEW c \in S, NEW g \in [S -> Listed] PROVE more(c, g) \in Listed
    OBVIOUS
  <2> HIDE DEF S, Listed
  <2>1. CASE to[c] = 0
    BY <1>4, <1>6, <1>7, <2>1
  <2>2. CASE to[c] # 0
    BY <1>3, <1>4, <1>6, <2>2
  <2>3. QED
    BY <2>1, <2>2
<1>10. \A c \in S : \A g, h \in [S -> Listed] :
         (to[c] # 0 => g[to[c]] = h[to[c]]) => more(c, g) = more(c, h)
  <2> HIDE DEF S, Listed
  <2>1. QED
    OBVIOUS
<1> HIDE DEF Listed
<1>11. /\ F \in [S -> [[S -> Listed] -> Listed]]
       /\ \A c \in S : \A g \in [S -> Listed] : F[c][g] = more(c, g)
  <2> HIDE DEF S, more
  <2>1. QED
    BY <1>9
<1> HIDE DEF F, more
<1>12. Recursion(F, rank, S, Listed)
  <2>1. ASSUME NEW c \in S, NEW g \in [S -> Listed], NEW h \in [S -> Listed],
               \A y \in S : rank[y] < rank[c] => g[y] = h[y]
        PROVE  F[c][g] = F[c][h]
    <3>1. to[c] # 0 => g[to[c]] = h[to[c]]
      BY <1>3, <1>8, <2>1, Zenon
    <3>2. more(c, g) = more(c, h)
      BY <1>10, <3>1
    <3>3. QED
      BY <1>11, <3>2
  <2>2. QED
    BY <1>5, <1>11, <2>1, Zenon DEF Recursion
<1>13. PICK f \in [S -> Listed] : \A c \in S : f[c] = F[c][f]
  <2> HIDE DEF S
  <2>1. Listed # {}
    BY <1>7
  <2>2. QED
    BY <1>12, <2>1, RecursionHasFunction
<1>14. \A c \in S : more(c, f) = IF c > n THEN <<>>
                                ELSE <<EventAt(s, c)>>
                                       \o (IF EventEnd(s, c) = 0 THEN <<>> ELSE f[EventEnd(s, c)])
  <2> SUFFICES ASSUME NEW c \in S
               PROVE  more(c, f) = IF c > n THEN <<>>
                                   ELSE <<EventAt(s, c)>>
                                          \o (IF EventEnd(s, c) = 0 THEN <<>> ELSE f[EventEnd(s, c)])
    OBVIOUS
  <2>1. CASE c > n
    <3>1. here[c] = <<>> /\ to[c] = 0
      BY <1>2, <2>1
    <3>2. <<>> \o <<>> = <<>>
      OBVIOUS
    <3>3. QED
      BY <2>1, <3>1, <3>2 DEF more
  <2>2. CASE ~(c > n)
    <3>1. here[c] = <<EventAt(s, c)>> /\ to[c] = EventEnd(s, c)
      BY <1>2, <2>2
    <3>2. QED
      BY <2>2, <3>1 DEF more
  <2>3. QED
    BY <2>1, <2>2
<1>15. f = [p \in 1 .. Len(s) + 1 |->
              IF p > Len(s) THEN <<>>
              ELSE <<EventAt(s, p)>>
                     \o (IF EventEnd(s, p) = 0 THEN <<>> ELSE f[EventEnd(s, p)])]
  <2>1. f = [c \in S |-> f[c]]
    OBVIOUS
  <2>2. ASSUME NEW c \in S
        PROVE  f[c] = IF c > n THEN <<>>
                      ELSE <<EventAt(s, c)>>
                             \o (IF EventEnd(s, c) = 0 THEN <<>> ELSE f[EventEnd(s, c)])
    BY <1>11, <1>13, <1>14, Zenon
  <2>3. QED
    BY <1>1, <2>1, <2>2, Zenon
<1> DEFINE d == CHOOSE from : from = [p \in 1 .. Len(s) + 1 |->
                  IF p > Len(s) THEN <<>>
                  ELSE <<EventAt(s, p)>>
                         \o (IF EventEnd(s, p) = 0 THEN <<>> ELSE from[EventEnd(s, p)])]
<1>16. EventsFrom(s) = d
  BY Zenon DEF EventsFrom
<1>17. d = [p \in 1 .. Len(s) + 1 |->
              IF p > Len(s) THEN <<>>
              ELSE <<EventAt(s, p)>>
                     \o (IF EventEnd(s, p) = 0 THEN <<>> ELSE d[EventEnd(s, p)])]
  BY <1>15, Zenon
<1> HIDE DEF d
<1>18. Lists(d, s)
  BY <1>17 DEF Lists
\* all that the definition leaves open is what is a sequence of events
<1>19. ASSUME NEW c \in S PROVE d[c] \in Listed
  <2> DEFINE Bad == {x \in S : d[x] \notin Listed}
  <2>1. ASSUME NEW x \in Bad PROVE \E y \in Bad : rank[y] < rank[x]
    <3>1. x \in S /\ d[x] \notin Listed
      OBVIOUS
    <3>2. d[x] = more(x, d)
      <4>1. d[x] = IF x > n THEN <<>>
                   ELSE <<EventAt(s, x)>>
                          \o (IF EventEnd(s, x) = 0 THEN <<>> ELSE d[EventEnd(s, x)])
        BY <1>1, <1>18, <3>1, Zenon DEF Lists
      <4>2. CASE x > n
        <5>1. here[x] = <<>> /\ to[x] = 0
          BY <1>2, <3>1, <4>2
        <5>2. <<>> \o <<>> = <<>>
          OBVIOUS
        <5>3. QED
          BY <4>1, <4>2, <5>1, <5>2 DEF more
      <4>3. CASE ~(x > n)
        <5>1. here[x] = <<EventAt(s, x)>> /\ to[x] = EventEnd(s, x)
          BY <1>2, <3>1, <4>3
        <5>2. QED
          BY <4>1, <4>3, <5>1 DEF more
      <4>4. QED
        BY <4>2, <4>3
    <3>3. to[x] # 0 /\ d[to[x]] \notin Listed
      <4>1. ASSUME to[x] = 0 \/ d[to[x]] \in Listed PROVE more(x, d) \in Listed
        <5>1. (IF to[x] = 0 THEN <<>> ELSE d[to[x]]) \in Listed
          BY <1>7, <4>1
        <5>2. QED
          BY <1>4, <1>6, <3>1, <5>1 DEF more
      <4>2. QED
        BY <3>1, <3>2, <4>1, Zenon
    <3>4. to[x] \in S /\ rank[to[x]] < rank[x]
      BY <1>3, <1>8, <3>1, <3>3
    <3>5. QED
      BY <3>3, <3>4, Zenon
  <2>2. Bad \subseteq S
    OBVIOUS
  <2> HIDE DEF Bad, S
  <2>3. Bad = {}
    BY <1>5, <2>1, <2>2, NoDescent, Zenon
  <2>4. QED
    BY <2>3 DEF Bad
<1>20. QED
  <2>1. d = [c \in S |-> d[c]]
    BY <1>1, <1>17, Zenon
  <2>2. d \in [S -> Listed]
    BY <1>19, <2>1
  <2>3. QED
    BY <1>1, <1>16, <1>18, <2>2 DEF Listed

-----------------------------------------------------------------------------
(* What the comparison of an event that is read says *)

\* what an event carries is what its token does
LEMMA EventCarries ==
  ASSUME NEW c
  PROVE  /\ BenrNext(data, c).b.kind = "INT" =>
              Reading(c).ev.num = BenrNext(data, c).b.num
         /\ BenrNext(data, c).b.kind = "STRING" =>
              Reading(c).ev.text = Text(BenrNext(data, c).b.at)
<1>1. CASE lib # "benp"
  <2>1. Reading(c) = BenrReading(c)
    BY <1>1 DEF Reading
  <2>2. QED
    BY <2>1 DEF BenrReading, Ev
<1>2. CASE lib = "benp"
  <2>1. SameToken(BenrNext(data, c).b, BenpNext(data, c).ev)
    BY NextsAgree, Zenon DEF SameResult
  <2>2. /\ BenpNext(data, c).ev.num = BenrNext(data, c).b.num
        /\ BenrNext(data, c).b.kind = "STRING" =>
             BenpNext(data, c).ev.at = BenrNext(data, c).b.at
    BY <2>1 DEF SameToken
  <2>3. /\ Reading(c).ev.num = BenpNext(data, c).ev.num
        /\ Reading(c).ev.text = Text(BenpNext(data, c).ev.at)
    BY <1>2 DEF Reading, BenpReading, Ev
  <2>4. QED
    BY <2>2, <2>3
<1>3. QED
  BY <1>1, <1>2

\* e tells what an entry of a table can
Tells(e, kind, num, text) ==
  /\ IsEntry(Ev(kind, num, text)) /\ kind \notin BenpErrors
  /\ e.kind = kind
  /\ kind = "INTEGER" => e.num = num
  /\ kind = "STRING" => e.text = text

\* An entry matches an event when it is what the event should be.
LEMMA MatchesOnly ==
  ASSUME NEW w, IsEntry(w), NEW e, NEW kind, NEW num, NEW text, Tells(e, kind, num, text)
  PROVE  /\ Matches(w, e) => w = Ev(kind, num, text)
         /\ w = Ev(kind, num, text) => Matches(w, e)
<1>1. PICK z : z = Ev(kind, num, text)
  OBVIOUS
<1>2. z.kind = kind /\ z.num = num /\ z.text = text
  BY <1>1 DEF Ev
<1>3. /\ w = Ev(w.kind, w.num, w.text)
      /\ w.kind # "INTEGER" => w.num = 0
      /\ w.kind # "STRING" => w.text = <<>>
  BY Zenon DEF IsEntry
<1>4. /\ kind # "INTEGER" => num = 0
      /\ kind # "STRING" => text = <<>>
  <2>1. IsEntry(z)
    BY <1>1, Zenon DEF Tells
  <2>2. QED
    BY <1>2, <2>1, Zenon DEF IsEntry
<1>5. ASSUME Matches(w, e) PROVE w = z
  <2>1. w.kind = kind
    BY <1>5, Zenon DEF Matches, Tells
  <2>2. w.num = num
    BY <1>3, <1>4, <1>5, <2>1 DEF Matches, Tells
  <2>3. w.text = text
    BY <1>3, <1>4, <1>5, <2>1 DEF Matches, Tells
  <2>4. QED
    BY <1>1, <1>3, <2>1, <2>2, <2>3, Zenon
<1>6. ASSUME w = z PROVE Matches(w, e)
  BY <1>2, <1>6, Zenon DEF Matches, Tells
<1>7. QED
  BY <1>1, <1>5, <1>6, Zenon

\* the bytes of the string at p
LEMMA StringIs ==
  ASSUME NEW s \in Seq(Nat), NEW p \in 1 .. Len(s), NEW b, NEW e \in 1 .. Len(s) + 1,
         StringFrom(b, s, p, e)
  PROVE  (CHOOSE c \in p .. Len(s) : s[c] = COLON /\ AllDigits(s, p, c - 1)) + 1 = b.at.pos
<1>1. PICK n \in Nat : n = Len(s)
  OBVIOUS
<1>2. PICK q \in p + 2 .. e : q = b.at.pos
  BY DEF StringFrom
<1>3. s[q - 1] = COLON /\ AllDigits(s, p, q - 2)
  BY <1>2, Zenon DEF StringFrom
<1>4. q - 1 \in p .. n /\ q - 1 - 1 = q - 2
  BY <1>1
<1>5. ASSUME NEW c \in p .. n, s[c] = COLON, AllDigits(s, p, c - 1) PROVE c = q - 1
  <2>1. c \in Nat /\ q - 1 \in Nat /\ p \in Nat
    BY <1>4
  <2>2. QED
    BY <1>3, <1>4, <1>5, <2>1, Signs, OneEnd
<1>6. (CHOOSE c \in p .. Len(s) : s[c] = COLON /\ AllDigits(s, p, c - 1)) = q - 1
  BY <1>1, <1>3, <1>4, <1>5, Zenon
<1>7. q - 1 + 1 = q
  BY <1>2
<1>8. QED
  BY <1>2, <1>6, <1>7, Zenon

\* Where the message has an event it is read, whole, and as what it is.
LEMMA ReadingIs ==
  ASSUME data \in Seq(Nat), Len(data) < UINTMAX, NEW p \in 1 .. Len(data),
         EventEnd(data, p) # 0, EventAt(data, p).kind = "INTEGER" => Fits(EventAt(data, p).num),
         NEW w, IsEntry(w)
  PROVE  /\ Reading(Rest(data, p)).ctx = Rest(data, EventEnd(data, p))
         /\ Matches(w, Reading(Rest(data, p)).ev) <=> w = EventAt(data, p)
<1> DEFINE c == Rest(data, p)
<1>1. PICK x, r : x = BenrNext(data, c) /\ r = Reading(c)
  OBVIOUS
<1>2. /\ r.ctx = x.ctx /\ r.ev.kind = KindOf[x.b.kind]
      /\ x.b.kind = "INT" => r.ev.num = x.b.num
      /\ x.b.kind = "STRING" => r.ev.text = Text(x.b.at)
  BY <1>1, EventIs, EventCarries
<1>3. PICK n \in Nat : n = Len(data)
  OBVIOUS
<1>4. /\ ~CutShort(x, data, data, p)
      /\ data[p] = E => IsEnd(x, data, p)
      /\ data[p] = L => Opens(x, data, p, "LIST")
      /\ data[p] = D => Opens(x, data, p, "DICT")
      /\ data[p] = I /\ IntEnd(data, p) # 0 => IsInteger(x, data, data, p, IntEnd(data, p))
      /\ data[p] \in Digits /\ StringEnd(data, p) # 0 => IsString(x, data, data, p, StringEnd(data, p))
  <2>1. ~CutShort(x, data, data, p)
    BY <1>3 DEF CutShort
  <2>2. Begins(data, data)
    BY BeginsItself
  <2>3. QED
    BY <1>1, <2>1, <2>2, TokenIs, Zenon
<1> HIDE DEF c
<1>5. PICK e \in 1 .. n + 1 : e = EventEnd(data, p)
  BY <1>3, EventEndIs
<1>6. ASSUME NEW kind, NEW num, NEW text, Tells(r.ev, kind, num, text),
             EventAt(data, p) = Ev(kind, num, text), x.ctx = Rest(data, e)
      PROVE  r.ctx = Rest(data, e) /\ (Matches(w, r.ev) <=> w = EventAt(data, p))
  <2>1. Matches(w, r.ev) <=> w = Ev(kind, num, text)
    BY <1>6, MatchesOnly
  <2>2. QED
    BY <1>2, <1>6, <2>1, Zenon
<1>7. /\ IsEntry(Plain("LIST_START")) /\ IsEntry(Plain("DICT_START")) /\ IsEntry(Plain("X_END"))
      /\ \A num : IsEntry(Ev("INTEGER", num, <<>>))
      /\ \A text : IsEntry(Ev("STRING", 0, text))
  BY DEF IsEntry, Plain, Ev
<1>8. {"LIST_START", "DICT_START", "X_END", "INTEGER", "STRING"} \cap BenpErrors = {}
  BY DEF BenpErrors
<1>9. CASE data[p] = I
  <2>1. e = IntEnd(data, p) /\ e # 0
    BY <1>5, <1>9, EventByByte
  <2>2. IsInteger(x, data, data, p, e)
    BY <1>4, <1>9, <2>1
  <2>3. x.b.kind = "INT" /\ x.ctx = Rest(data, e) /\ (Fits(Integer(data, p)) => x.b.num = Integer(data, p))
    BY <2>2, Zenon DEF IsInteger
  <2>4. EventAt(data, p) = Ev("INTEGER", Integer(data, p), <<>>)
    BY <1>5, <1>9, <2>1, EventAtByByte, Zenon
  <2>5. Fits(Integer(data, p))
    BY <2>4 DEF Ev
  <2>6. r.ev.kind = "INTEGER" /\ r.ev.num = Integer(data, p)
    BY <1>2, <2>3, <2>5 DEF KindOf
  <2>7. Tells(r.ev, "INTEGER", Integer(data, p), <<>>)
    BY <1>7, <1>8, <2>6 DEF Tells
  <2>8. QED
    BY <1>1, <1>5, <1>6, <2>3, <2>4, <2>7, Zenon DEF c
<1>10. CASE data[p] \in Digits
  <2>1. e = StringEnd(data, p) /\ e # 0
    BY <1>5, <1>10, EventByByte
  <2>2. IsString(x, data, data, p, e)
    BY <1>4, <1>10, <2>1
  <2>3. x.b.kind = "STRING" /\ x.ctx = Rest(data, e) /\ StringFrom(x.b, data, p, e)
        /\ x.b.at.pos + x.b.at.len = e
        /\ x.b.at.pos \in p + 2 .. e /\ x.b.at.len \in Nat
    BY <2>2, Zenon DEF IsString, StringFrom
  <2>4. PICK q : q = (CHOOSE d \in p .. Len(data) : data[d] = COLON /\ AllDigits(data, p, d - 1))
    OBVIOUS
  <2>5. q + 1 = x.b.at.pos
    BY <1>3, <2>3, <2>4, StringIs
  <2>6. EventAt(data, p) = Ev("STRING", 0, SubSeq(data, q + 1, e - 1))
    <3>1. EventAt(data, p) =
            LET d == CHOOSE d \in p .. Len(data) : data[d] = COLON /\ AllDigits(data, p, d - 1)
            IN Ev("STRING", 0, SubSeq(data, d + 1, EventEnd(data, p) - 1))
      BY <1>5, <1>10, <2>1, EventAtByByte, Zenon
    <3>2. QED
      BY <1>5, <2>4, <3>1, Zenon
  <2>7. Text(x.b.at) = SubSeq(data, q + 1, e - 1)
    <3>1. PICK l \in Nat : l = x.b.at.len
      BY <2>3
    <3>2. PICK a \in p + 2 .. e : a = x.b.at.pos /\ a + l = e
      BY <2>3, <3>1, Zenon
    <3>3. a + l - 1 = e - 1
      <4>1. a + l = e
        BY <3>2, Zenon
      <4>2. a \in Int
        OBVIOUS
      <4>3. QED
        BY <4>1, <4>2
    <3>4. Text(x.b.at) = SubSeq(data, a, a + l - 1)
      BY <3>1, <3>2, Zenon DEF Text
    <3>5. QED
      BY <2>5, <3>2, <3>3, <3>4, Zenon
  <2>8. r.ev.kind = "STRING" /\ r.ev.text = SubSeq(data, q + 1, e - 1)
    BY <1>2, <2>3, <2>7 DEF KindOf
  <2>9. Tells(r.ev, "STRING", 0, SubSeq(data, q + 1, e - 1))
    BY <1>7, <1>8, <2>8 DEF Tells
  <2>10. QED
    BY <1>1, <1>5, <1>6, <2>3, <2>6, <2>9, Zenon DEF c
<1>11. CASE data[p] \in {L, D, E}
  <2>1. e = p + 1 /\ e # 0
    BY <1>5, <1>11, EventByByte
  <2>2. PICK kind : /\ kind \in {"LIST_START", "DICT_START", "X_END"}
                    /\ EventAt(data, p) = Plain(kind)
                    /\ x.ctx = Rest(data, e) /\ r.ev.kind = kind
    <3>1. CASE data[p] = L
      <4>1. EventAt(data, p) = Plain("LIST_START")
        BY <1>5, <2>1, <3>1, EventAtByByte, Zenon
      <4>2. x.ctx = Rest(data, e) /\ r.ev.kind = "LIST_START"
        BY <1>2, <1>4, <2>1, <3>1 DEF Opens, KindOf
      <4>3. QED
        BY <4>1, <4>2
    <3>2. CASE data[p] = D
      <4>1. EventAt(data, p) = Plain("DICT_START")
        BY <1>5, <2>1, <3>2, EventAtByByte, Zenon
      <4>2. x.ctx = Rest(data, e) /\ r.ev.kind = "DICT_START"
        BY <1>2, <1>4, <2>1, <3>2 DEF Opens, KindOf
      <4>3. QED
        BY <4>1, <4>2
    <3>3. CASE data[p] = E
      <4>1. EventAt(data, p) = Plain("X_END")
        BY <1>5, <2>1, <3>3, EventAtByByte, Zenon
      <4>2. x.ctx = Rest(data, e) /\ r.ev.kind = "X_END"
        BY <1>2, <1>4, <2>1, <3>3 DEF IsEnd, KindOf
      <4>3. QED
        BY <4>1, <4>2
    <3>4. QED
      BY <1>11, <3>1, <3>2, <3>3
  <2>3. Tells(r.ev, kind, 0, <<>>)
    BY <1>7, <1>8, <2>2 DEF Tells, Plain
  <2>4. QED
    BY <1>1, <1>5, <1>6, <2>2, <2>3, Zenon DEF c, Plain
<1>12. QED
  BY <1>9, <1>10, <1>11, EventEndIs

\* behind the last byte DONE is read, again and again
LEMMA ReadingNothing ==
  ASSUME data \in Seq(Nat), NEW w, IsEntry(w)
  PROVE  /\ Reading(Rest(data, Len(data) + 1)).ctx = Rest(data, Len(data) + 1)
         /\ Matches(w, Reading(Rest(data, Len(data) + 1)).ev) <=> w = Plain("DONE")
<1> DEFINE c == Rest(data, Len(data) + 1)
<1>1. IsNothing(BenrNext(data, c), data, Len(data) + 1)
  BY NothingLeft
<1>2. Reading(c).ctx = c /\ Reading(c).ev.kind = "DONE"
  BY <1>1, EventIs DEF IsNothing, KindOf
<1> HIDE DEF c
<1>3. Tells(Reading(c).ev, "DONE", 0, <<>>)
  BY <1>2 DEF IsEntry, Ev, BenpErrors, Tells
<1>4. Matches(w, Reading(c).ev) <=> w = Ev("DONE", 0, <<>>)
  BY <1>3, MatchesOnly
<1>5. QED
  BY <1>2, <1>4, Zenon DEF c, Plain

-----------------------------------------------------------------------------
(* The verdict *)

\* every event can be read as what it is
Readable(all) ==
  \A j \in 1 .. Len(all) :
    /\ all[j].kind # "NO_EVENT"
    /\ all[j].kind = "INTEGER" => Fits(all[j].num)

\* behind the last byte there are no events, ...
LEMMA NoneLeft ==
  ASSUME NEW s \in Seq(Nat)
  PROVE  /\ EventsFrom(s)[Len(s) + 1] = <<>>
         /\ \A j \in Nat \ {0} : Expected(EventsFrom(s)[Len(s) + 1], j) = Plain("DONE")
<1>1. PICK n \in Nat : n = Len(s)
  OBVIOUS
<1>2. n + 1 \in 1 .. n + 1 /\ n + 1 > n
  OBVIOUS
<1>3. EventsFrom(s)[n + 1] = <<>>
  BY <1>1, <1>2, EventsFromIs DEF Lists
<1>4. QED
  BY <1>1, <1>3 DEF Expected

\* ... and before it one and those behind that one
LEMMA FirstIs ==
  ASSUME NEW s \in Seq(Nat), NEW p \in 1 .. Len(s)
  PROVE  \E more :
           /\ more = (IF EventEnd(s, p) = 0 THEN <<>> ELSE EventsFrom(s)[EventEnd(s, p)])
           /\ Len(more) \in Nat /\ Len(EventsFrom(s)[p]) = Len(more) + 1
           /\ EventsFrom(s)[p][1] = EventAt(s, p)
           /\ \A j \in 1 .. Len(more) : EventsFrom(s)[p][j + 1] = more[j]
<1>1. PICK n \in Nat : n = Len(s)
  OBVIOUS
<1> DEFINE Es == {EventAt(s, c) : c \in 1 .. Len(s)}
           f == EventsFrom(s)
           e == EventEnd(s, p)
           more == IF e = 0 THEN <<>> ELSE f[e]
<1>2. p \in 1 .. n + 1 /\ ~(p > n)
  BY <1>1
<1>3. EventAt(s, p) \in Es
  OBVIOUS
<1>4. e # 0 => e \in 1 .. n + 1
  BY <1>1, EventEndIs
<1>5. f[p] = <<EventAt(s, p)>> \o more /\ \A c \in 1 .. n + 1 : f[c] \in Seq(Es)
  <2>1. Lists(f, s) /\ f \in [1 .. n + 1 -> Seq(Es)]
    BY <1>1, EventsFromIs
  <2> HIDE DEF f, Es
  <2>2. QED
    BY <1>1, <1>2, <2>1 DEF Lists
<1> HIDE DEF Es, f, e
<1>6. more \in Seq(Es)
  <2>1. <<>> \in Seq(Es)
    OBVIOUS
  <2>2. QED
    BY <1>4, <1>5, <2>1
<1>7. more = IF e = 0 THEN <<>> ELSE f[e]
  OBVIOUS
<1> HIDE DEF more
<1>8. /\ Len(more) \in Nat /\ Len(f[p]) = Len(more) + 1 /\ f[p][1] = EventAt(s, p)
      /\ \A j \in 1 .. Len(more) : f[p][j + 1] = more[j]
  <2>1. Len(more) \in Nat
    BY <1>6
  <2>2. QED
    BY <1>3, <1>5, <1>6, <2>1, PushIs
<1>9. QED
  BY <1>7, <1>8, Zenon DEF e, f

\* the same, if it can be read, of what is to be expected
LEMMA OneMore ==
  ASSUME NEW s \in Seq(Nat), NEW p \in 1 .. Len(s), Readable(EventsFrom(s)[p])
  PROVE  /\ EventEnd(s, p) # 0 /\ EventEnd(s, p) \in 1 .. Len(s) + 1
         /\ EventAt(s, p).kind = "INTEGER" => Fits(EventAt(s, p).num)
         /\ Expected(EventsFrom(s)[p], 1) = EventAt(s, p)
         /\ Readable(EventsFrom(s)[EventEnd(s, p)])
         /\ \A j \in Nat \ {0} : Expected(EventsFrom(s)[p], j + 1)
                                   = Expected(EventsFrom(s)[EventEnd(s, p)], j)
<1>1. PICK n \in Nat : n = Len(s)
  OBVIOUS
<1> DEFINE f == EventsFrom(s)
           e == EventEnd(s, p)
<1>2. e # 0 => e \in 1 .. n + 1
  BY <1>1, EventEndIs
<1>3. PICK more : /\ more = (IF e = 0 THEN <<>> ELSE f[e])
                  /\ Len(more) \in Nat /\ Len(f[p]) = Len(more) + 1
                  /\ f[p][1] = EventAt(s, p)
                  /\ \A j \in 1 .. Len(more) : f[p][j + 1] = more[j]
  BY FirstIs, Zenon
<1>4. \A j \in 1 .. Len(f[p]) : /\ f[p][j].kind # "NO_EVENT"
                                /\ f[p][j].kind = "INTEGER" => Fits(f[p][j].num)
  BY Zenon DEF Readable
<1> HIDE DEF f, e
<1>5. PICK k \in Nat : k = Len(more)
  BY <1>3
<1>6. /\ Len(f[p]) = k + 1 /\ f[p][1] = EventAt(s, p)
      /\ \A j \in 1 .. k : f[p][j + 1] = more[j]
  BY <1>3, <1>5, Zenon
<1>7. \A j \in 1 .. k + 1 : /\ f[p][j].kind # "NO_EVENT"
                            /\ f[p][j].kind = "INTEGER" => Fits(f[p][j].num)
  BY <1>4, <1>6, Zenon
<1>8. /\ EventAt(s, p).kind # "NO_EVENT"
      /\ EventAt(s, p).kind = "INTEGER" => Fits(EventAt(s, p).num)
  <2>1. 1 \in 1 .. k + 1
    OBVIOUS
  <2>2. QED
    BY <1>6, <1>7, <2>1, Zenon
<1>9. e # 0
  <2>1. Plain("NO_EVENT").kind = "NO_EVENT"
    BY DEF Plain, Ev
  <2>2. e = 0 => EventAt(s, p) = Plain("NO_EVENT")
    BY EventAtByByte, Zenon DEF e
  <2>3. QED
    BY <1>8, <2>1, <2>2, Zenon
<1>10. more = f[e]
  BY <1>3, <1>9
<1>11. Readable(more)
  <2>1. \A j \in 1 .. k : j + 1 \in 1 .. k + 1
    OBVIOUS
  <2>2. QED
    BY <1>5, <1>6, <1>7, <2>1, Zenon DEF Readable
<1>12. Expected(f[p], 1) = EventAt(s, p)
  BY <1>6 DEF Expected
<1>13. ASSUME NEW j \in Nat \ {0} PROVE Expected(f[p], j + 1) = Expected(more, j)
  <2>1. (j + 1 > k + 1) <=> (j > k)
    OBVIOUS
  <2>2. CASE j > k
    BY <1>5, <1>6, <2>1, <2>2 DEF Expected
  <2>3. CASE ~(j > k)
    <3>1. j \in 1 .. k
      BY <2>3
    <3>2. f[p][j + 1] = more[j]
      BY <1>6, <3>1
    <3>3. QED
      BY <1>5, <1>6, <2>1, <2>3, <3>2 DEF Expected
  <2>4. QED
    BY <2>2, <2>3
<1>14. QED
  BY <1>1, <1>2, <1>8, <1>9, <1>10, <1>11, <1>12, <1>13, Zenon DEF e, f

\* the reader is at q, and the events behind it are those still to be expected
Told(q) ==
  /\ q \in 1 .. Len(data) + 1 /\ ctx = Rest(data, q)
  /\ Readable(EventsFrom(data)[q])
  /\ \A j \in Nat \ {0} :
       Expected(EventsOf(data), i + j) = Expected(EventsFrom(data)[q], j)

\* As long as the verdict is open, or true, what was read is what is written.
Compared(all) ==
  /\ verdict # "false" => /\ \E q : Told(q)
                          /\ \A j \in 1 .. i : want[j] = Expected(all, j)
  /\ verdict = "true" => i = Len(want)
  /\ verdict = "false" => \E j \in 1 .. Len(want) : want[j] # Expected(all, j)

VerdictInv ==
  /\ data \in Seq(Nat) /\ Len(data) < UINTMAX
  /\ Len(want) \in Nat /\ \A j \in 1 .. Len(want) : IsEntry(want[j])
  /\ i \in Nat /\ i <= Len(want)
  /\ verdict \in {"none", "true", "false"}
  /\ Readable(EventsOf(data)) => Compared(EventsOf(data))

\* at the start
LEMMA InitVerdict == Init => VerdictInv
<1> SUFFICES ASSUME Init PROVE VerdictInv
  OBVIOUS
<1>1. PICK t \in Tables : data = t[1] /\ want = t[2]
  BY DEF Init
<1>2. /\ t[1] \in Seq(0 .. 255) /\ Len(t[1]) < UINTMAX
      /\ Len(t[2]) \in Nat /\ \A j \in 1 .. Len(t[2]) : IsEntry(t[2][j])
  BY MessagesAssumption, Zenon
<1>3. data \in Seq(Nat) /\ Len(data) < UINTMAX
      /\ Len(want) \in Nat /\ \A j \in 1 .. Len(want) : IsEntry(want[j])
  BY <1>1, <1>2, BytesAre, Zenon
<1>4. i = 0 /\ verdict = "none" /\ ctx = Whole(data)
  BY DEF Init
<1>5. i \in Nat /\ i <= Len(want) /\ 1 .. i = {}
  BY <1>3, <1>4
<1>6. ASSUME Readable(EventsOf(data)) PROVE Told(1)
  <2>1. ctx = Rest(data, 1) /\ 1 \in 1 .. Len(data) + 1
    BY <1>3, <1>4 DEF Whole, Rest, Ctx
  <2>2. \A j \in Nat \ {0} : i + j = j
    BY <1>4
  <2>3. EventsOf(data) = EventsFrom(data)[1]
    BY Zenon DEF EventsOf
  <2>4. QED
    BY <1>6, <2>1, <2>2, <2>3, Zenon DEF Told
<1>7. Readable(EventsOf(data)) => Compared(EventsOf(data))
  <2>1. verdict # "false" /\ verdict # "true"
    BY <1>4
  <2>2. QED
    BY <1>5, <1>6, <2>1, Zenon DEF Compared
<1>8. QED
  BY <1>3, <1>4, <1>5, <1>7, Zenon DEF VerdictInv

\* One round reads what is to be expected next.
LEMMA RoundTold ==
  ASSUME VerdictInv, Round, NEW q, Told(q)
  PROVE  /\ \E r : Told(r)'
         /\ verdict' = IF want[i + 1] = Expected(EventsOf(data), i + 1) THEN "none" ELSE "false"
<1>1. /\ data \in Seq(Nat) /\ Len(data) < UINTMAX /\ i \in Nat
      /\ Len(want) \in Nat /\ \A j \in 1 .. Len(want) : IsEntry(want[j])
  BY Zenon DEF VerdictInv
<1>2. i < Len(want)
  BY DEF Round
<1>3. IsEntry(want[i + 1])
  <2>1. i + 1 \in 1 .. Len(want)
    BY <1>1, <1>2
  <2>2. QED
    BY <1>1, <2>1, Zenon
<1>4. /\ ctx' = Reading(ctx).ctx /\ i' = i + 1 /\ data' = data
      /\ verdict' = IF Matches(want[i + 1], Reading(ctx).ev) THEN "none" ELSE "false"
  BY Zenon DEF Round
<1>5. PICK n \in Nat : n = Len(data)
  BY <1>1
<1>6. /\ q \in 1 .. n + 1 /\ ctx = Rest(data, q)
      /\ Readable(EventsFrom(data)[q])
      /\ \A j \in Nat \ {0} :
           Expected(EventsOf(data), i + j) = Expected(EventsFrom(data)[q], j)
  BY <1>5, Zenon DEF Told
<1>7. Expected(EventsOf(data), i + 1) = Expected(EventsFrom(data)[q], 1)
  BY <1>6
<1>8. PICK ii, c, t : ii = i /\ c = Reading(ctx).ctx /\ t = data
  OBVIOUS
<1>9. ASSUME NEW r \in 1 .. n + 1, c = Rest(t, r), Readable(EventsFrom(t)[r]),
             \A j \in Nat \ {0} : Expected(EventsFrom(t)[q], j + 1) = Expected(EventsFrom(t)[r], j)
      PROVE  Told(r)'
  <2>1. ASSUME NEW j \in Nat \ {0}
        PROVE  Expected(EventsOf(t), ii + 1 + j) = Expected(EventsFrom(t)[r], j)
    <3>1. j + 1 \in Nat \ {0} /\ ii + 1 + j = ii + (j + 1)
      BY <1>1, <1>8
    <3>2. Expected(EventsOf(t), ii + (j + 1)) = Expected(EventsFrom(t)[q], j + 1)
      BY <1>6, <1>8, <3>1, Zenon
    <3>3. QED
      BY <1>9, <3>1, <3>2, Zenon
  <2>2. Told(r)' <=> /\ r \in 1 .. n + 1 /\ c = Rest(t, r)
                     /\ Readable(EventsFrom(t)[r])
                     /\ \A j \in Nat \ {0} :
                          Expected(EventsOf(t), ii + 1 + j) = Expected(EventsFrom(t)[r], j)
    BY <1>4, <1>5, <1>8, Zenon DEF Told
  <2>3. QED
    BY <1>9, <2>1, <2>2, Zenon
<1>10. CASE q = n + 1
  <2>1. /\ Reading(Rest(data, q)).ctx = Rest(data, q)
        /\ Matches(want[i + 1], Reading(Rest(data, q)).ev) <=> want[i + 1] = Plain("DONE")
    BY <1>1, <1>3, <1>5, <1>10, ReadingNothing
  <2>2. \A j \in Nat \ {0} : Expected(EventsFrom(data)[q], j) = Plain("DONE")
    BY <1>1, <1>5, <1>10, NoneLeft
  <2>3. \A j \in Nat \ {0} : j + 1 \in Nat \ {0}
    OBVIOUS
  <2>4. 1 \in Nat \ {0}
    OBVIOUS
  <2>5. Told(q)'
    BY <1>6, <1>8, <1>9, <2>1, <2>2, <2>3, Zenon
  <2>6. Expected(EventsOf(data), i + 1) = Plain("DONE")
    BY <1>7, <2>2, <2>4, Zenon
  <2>7. Matches(want[i + 1], Reading(ctx).ev) <=> want[i + 1] = Expected(EventsOf(data), i + 1)
    BY <1>6, <2>1, <2>6
  <2>8. QED
    BY <1>4, <2>5, <2>7
<1>11. CASE q # n + 1
  <2>1. q \in 1 .. Len(data)
    BY <1>5, <1>6, <1>11
  <2>2. PICK e : e = EventEnd(data, q)
    OBVIOUS
  <2>3. /\ e # 0 /\ e \in 1 .. n + 1
        /\ EventAt(data, q).kind = "INTEGER" => Fits(EventAt(data, q).num)
        /\ Expected(EventsFrom(data)[q], 1) = EventAt(data, q)
        /\ Readable(EventsFrom(data)[e])
        /\ \A j \in Nat \ {0} : Expected(EventsFrom(data)[q], j + 1)
                                  = Expected(EventsFrom(data)[e], j)
    BY <1>1, <1>5, <1>6, <2>1, <2>2, OneMore, Zenon
  <2>4. /\ Reading(Rest(data, q)).ctx = Rest(data, e)
        /\ Matches(want[i + 1], Reading(Rest(data, q)).ev) <=> want[i + 1] = EventAt(data, q)
    BY <1>1, <1>3, <2>1, <2>2, <2>3, ReadingIs
  <2>5. Told(e)'
    BY <1>6, <1>8, <1>9, <2>3, <2>4, Zenon
  <2>6. Matches(want[i + 1], Reading(ctx).ev) <=> want[i + 1] = Expected(EventsOf(data), i + 1)
    BY <1>6, <1>7, <2>3, <2>4
  <2>7. QED
    BY <1>4, <2>5, <2>6
<1>12. QED
  BY <1>10, <1>11

\* and every step keeps to it
LEMMA NextVerdict == VerdictInv /\ [Next]_vars => VerdictInv'
<1> SUFFICES ASSUME VerdictInv, [Next]_vars PROVE VerdictInv'
  OBVIOUS
<1>1. /\ data \in Seq(Nat) /\ Len(data) < UINTMAX
      /\ Len(want) \in Nat /\ \A j \in 1 .. Len(want) : IsEntry(want[j])
      /\ i \in Nat /\ i <= Len(want)
      /\ verdict \in {"none", "true", "false"}
      /\ Readable(EventsOf(data)) => Compared(EventsOf(data))
  BY Zenon DEF VerdictInv
<1>2. CASE Round
  <2>1. /\ data' = data /\ want' = want /\ i' = i + 1 /\ i < Len(want) /\ verdict = "none"
        /\ verdict' \in {"none", "false"}
    BY <1>2 DEF Round
  <2>2. i + 1 \in Nat /\ i + 1 <= Len(want) /\ i + 1 \in 1 .. Len(want)
        /\ \A j \in 1 .. i + 1 : j \in 1 .. i \/ j = i + 1
    BY <1>1, <2>1
  <2>3. PICK all, k : all = EventsOf(data) /\ k = i + 1
    OBVIOUS
  <2>4. ASSUME Readable(all) PROVE Compared(all)'
    <3>1. Compared(all)
      BY <1>1, <2>3, <2>4, Zenon
    <3>2. verdict # "false"
      BY <2>1
    <3>3. PICK q : Told(q)
      BY <3>1, <3>2, Zenon DEF Compared
    <3>4. /\ \E r : Told(r)'
          /\ verdict' = IF want[k] = Expected(all, k) THEN "none" ELSE "false"
      BY <1>2, <2>3, <3>3, RoundTold, Zenon
    <3>5. \A j \in 1 .. i : want[j] = Expected(all, j)
      BY <3>1, <3>2, Zenon DEF Compared
    <3>6. verdict' # "true"
      BY <2>1
    <3>7. CASE want[k] = Expected(all, k)
      <4>1. verdict' # "false"
        BY <3>4, <3>7
      <4>2. \A j \in 1 .. k : want[j] = Expected(all, j)
        BY <2>2, <2>3, <3>5, <3>7, Zenon
      <4>3. QED
        BY <2>1, <2>3, <3>4, <3>6, <4>1, <4>2, Zenon DEF Compared
    <3>8. CASE want[k] # Expected(all, k)
      <4>1. verdict' = "false"
        BY <3>4, <3>8
      <4>2. \E j \in 1 .. Len(want) : want[j] # Expected(all, j)
        BY <2>2, <2>3, <3>8, Zenon
      <4>3. QED
        BY <2>1, <3>6, <4>1, <4>2, Zenon DEF Compared
    <3>9. QED
      BY <3>7, <3>8
  <2>5. (Readable(EventsOf(data)) => Compared(EventsOf(data)))'
    BY <2>1, <2>3, <2>4, Zenon
  <2>6. verdict' \in {"none", "true", "false"}
    BY <2>1
  <2>7. QED
    BY <1>1, <2>1, <2>2, <2>5, <2>6, Zenon DEF VerdictInv
<1>3. CASE AllEqual
  <2>1. /\ UNCHANGED <<lib, data, want, i, ctx, got, at, open>>
        /\ verdict = "none" /\ i = Len(want) /\ verdict' = "true"
    BY <1>3 DEF AllEqual
  <2>2. PICK all : all = EventsOf(data)
    OBVIOUS
  <2>3. ASSUME Readable(all) PROVE Compared(all)'
    <3>1. Compared(all)
      BY <1>1, <2>2, <2>3, Zenon
    <3>2. verdict # "false" /\ verdict' # "false"
      BY <2>1
    <3>3. PICK q : Told(q)
      BY <3>1, <3>2, Zenon DEF Compared
    <3>4. Told(q)'
      BY <2>1, <3>3 DEF Told
    <3>5. \A j \in 1 .. i : want[j] = Expected(all, j)
      BY <3>1, <3>2, Zenon DEF Compared
    <3>6. QED
      BY <2>1, <3>2, <3>4, <3>5 DEF Compared
  <2>4. (Readable(EventsOf(data)) => Compared(EventsOf(data)))'
    BY <2>1, <2>2, <2>3
  <2>5. QED
    BY <1>1, <2>1, <2>4 DEF VerdictInv
<1>4. CASE UNCHANGED vars
  <2>1. UNCHANGED <<data, want, i, ctx, verdict>>
    BY <1>4 DEF vars
  <2>2. QED
    BY <2>1 DEF VerdictInv, Compared, Told
<1>5. QED
  BY <1>2, <1>3, <1>4 DEF Next

\* in every state
LEMMA VerdictInvHolds == Spec => []VerdictInv
<1>1. Init => VerdictInv
  BY InitVerdict
<1>2. VerdictInv /\ [Next]_vars => VerdictInv'
  BY NextVerdict
<1>3. QED
  BY <1>1, <1>2, PTL DEF Spec

\* What is written decides, in a message that can be read.
LEMMA Decided ==
  ASSUME VerdictInv, verdict # "none", Readable(EventsOf(data))
  PROVE  verdict = "true" <=> \A j \in 1 .. Len(want) : want[j] = Expected(EventsOf(data), j)
<1>1. verdict = "true" \/ verdict = "false"
  BY DEF VerdictInv
<1>2. Compared(EventsOf(data))
  BY Zenon DEF VerdictInv
<1>3. CASE verdict = "true"
  <2>1. verdict # "false" /\ i = Len(want)
    BY <1>2, <1>3 DEF Compared
  <2>2. QED
    BY <1>2, <1>3, <2>1, Zenon DEF Compared
<1>4. CASE verdict = "false"
  <2>1. verdict # "true"
    BY <1>4
  <2>2. QED
    BY <1>2, <1>4, <2>1, Zenon DEF Compared
<1>5. QED
  BY <1>1, <1>3, <1>4

-----------------------------------------------------------------------------
(* A well-formed message can be read. *)

\* Where containers are open, or the message begins, there is an event, and
\* behind it some are open, or the message ends.
LEMMA EventNested ==
  ASSUME NEW m, Message(m), NEW q \in 1 .. Len(m), NEW opened, Nested(m, q, opened)
  PROVE  EventEnd(m, q) # 0 /\ \E then : Nested(m, EventEnd(m, q), then)
<1>1. m \in Seq(Nat) /\ E \notin {I, L, D} \cup Digits
  BY DEF Message, E, I, L, D, Digits
<1>2. PICK n \in Nat : n = Len(m)
  BY <1>1
<1>3. CASE m[q] = E
  <2>1. opened # <<>> /\ q = CloseOf(m, opened[1])
    BY <1>3, NestedIs, Zenon
  <2>2. Nested(m, q + 1, Tail(opened))
    BY <2>1, NestedLess, Zenon
  <2>3. EventEnd(m, q) = q + 1
    BY <1>3, EventByByte
  <2>4. q + 1 # 0
    OBVIOUS
  <2>5. QED
    BY <2>2, <2>3, <2>4, Zenon
<1>4. CASE m[q] # E
  <2>1. /\ ValueEnd(m, q) # 0
        /\ opened = <<>> => ValueEnd(m, q) = Len(m) + 1
        /\ opened # <<>> => Pending(m, ValueEnd(m, q), CloseOf(m, opened[1]))
    BY <1>4, NestedIs, Zenon
  <2>2. m[q] \in {I, L, D} \cup Digits
    BY <1>1, <2>1, ValueEndIs, Zenon
  <2>3. CASE m[q] \in {I} \cup Digits
    <3>1. m[q] = I => EventEnd(m, q) = IntEnd(m, q)
      BY EventByByte
    <3>2. m[q] \in Digits => EventEnd(m, q) = StringEnd(m, q)
      BY EventByByte
    <3>3. EventEnd(m, q) = ValueEnd(m, q)
      BY <1>1, <2>3, <3>1, <3>2, ValueEndIs, Zenon
    <3>4. Nested(m, ValueEnd(m, q), opened)
      BY <2>1, NestedOn, Zenon
    <3>5. QED
      BY <2>1, <3>3, <3>4, Zenon
  <2>4. ASSUME NEW kind \in Kinds, NEW start \in Starts,
               ValueEnd(m, q) = PastEnd(Close(m, kind, q + 1)),
               KindOpened([kind |-> start, base |-> q + 1]) = kind
        PROVE  \E then : Nested(m, q + 1, then)
    <3>1. PICK o : o = [kind |-> start, base |-> q + 1]
      OBVIOUS
    <3>2. o \in Opened /\ o.base = q + 1
      BY <3>1 DEF Opened
    <3>3. CloseOf(m, o) = Close(m, kind, q + 1)
      BY <2>4, <3>1, <3>2, Zenon DEF CloseOf
    <3>4. Close(m, kind, q + 1) = 0 \/ Close(m, kind, q + 1) \in Nat
      <4>1. q + 1 \in 1 .. n + 1
        BY <1>2
      <4>2. Close(m, kind, q + 1) = 0 \/ Close(m, kind, q + 1) \in q + 1 .. n
        BY <1>1, <1>2, <4>1, CloseBounds, Zenon
      <4>3. QED
        BY <4>1, <4>2
    <3>5. CloseOf(m, o) # 0 /\ ValueEnd(m, q) = CloseOf(m, o) + 1
      BY <2>1, <2>4, <3>3, <3>4, PastEndIs, Zenon
    <3>6. Nested(m, q + 1, <<o>> \o opened)
      BY <2>1, <3>2, <3>5, NestedMore, Zenon
    <3>7. QED
      BY <3>6, Zenon
  <2>5. CASE m[q] \in {L, D}
    <3>1. /\ "LIST" \in Kinds /\ "DICT" \in Kinds
          /\ "LIST_START" \in Starts /\ "DICT_START" \in Starts
          /\ KindOpened([kind |-> "LIST_START", base |-> q + 1]) = "LIST"
          /\ KindOpened([kind |-> "DICT_START", base |-> q + 1]) = "DICT"
      BY DEF Kinds, Starts, KindOpened
    <3>2. \E then : Nested(m, q + 1, then)
      BY <1>1, <2>4, <2>5, <3>1, ValueEndIs, Zenon
    <3>3. EventEnd(m, q) = q + 1 /\ q + 1 # 0
      BY <2>5, EventByByte
    <3>4. QED
      BY <3>2, <3>3, Zenon
  <2>6. QED
    BY <2>2, <2>3, <2>5, Zenon
<1>5. QED
  BY <1>3, <1>4

\* So every event of a whole message is one.
LEMMA WholeReadable ==
  ASSUME NEW m \in Values, NumbersFit(EventsOf(m))
  PROVE  Readable(EventsOf(m))
<1>1. Message(m) /\ m \in Seq(Nat)
  BY ValuesAreMessages, Zenon DEF Message
<1>2. PICK n \in Nat : n = Len(m)
  BY <1>1
<1> DEFINE f == EventsFrom(m)
           S == 1 .. n + 1
           rank == [q \in S |-> n + 1 - q]
           Bad == {q \in S : /\ \E opened : Nested(m, q, opened)
                              /\ \E j \in 1 .. Len(f[q]) : f[q][j].kind = "NO_EVENT"}
<1>3. rank \in [S -> Nat] /\ \A q \in S : rank[q] = n + 1 - q
  OBVIOUS
<1> HIDE DEF rank, f
<1>4. ASSUME NEW q \in Bad PROVE \E r \in Bad : rank[r] < rank[q]
  <2>1. /\ \E opened : Nested(m, q, opened)
        /\ \E j \in 1 .. Len(f[q]) : f[q][j].kind = "NO_EVENT"
    OBVIOUS
  <2>2. PICK opened : Nested(m, q, opened)
    BY <2>1
  <2>3. PICK j \in 1 .. Len(f[q]) : f[q][j].kind = "NO_EVENT"
    BY <2>1
  <2>4. q \in 1 .. n + 1
    OBVIOUS
  <2>5. q # n + 1
    <3>1. f[n + 1] = <<>>
      BY <1>1, <1>2, NoneLeft DEF f
    <3>2. QED
      BY <2>3, <3>1
  <2>6. q \in 1 .. n
    BY <2>4, <2>5
  <2>7. PICK e, then : /\ e = EventEnd(m, q) /\ e # 0 /\ Nested(m, e, then)
    BY <1>1, <1>2, <2>2, <2>6, EventNested, Zenon
  <2>8. e \in q + 1 .. n + 1 /\ e \in 1 .. n + 1
    BY <1>1, <1>2, <2>6, <2>7, EventEndIs
  <2>9. m[q] \in {I, L, D, E} \cup Digits
    BY <1>1, <1>2, <2>6, <2>7, EventEndIs
  <2>10. EventAt(m, q).kind # "NO_EVENT"
    <3>1. \/ \E kind \in {"LIST_START", "DICT_START", "X_END"} : EventAt(m, q) = Ev(kind, 0, <<>>)
          \/ \E num : EventAt(m, q) = Ev("INTEGER", num, <<>>)
          \/ \E text : EventAt(m, q) = Ev("STRING", 0, text)
      BY <2>7, <2>9, EventAtByByte DEF Plain
    <3>2. QED
      BY <3>1 DEF Ev
  <2>11. /\ Len(f[e]) \in Nat /\ Len(f[q]) = Len(f[e]) + 1 /\ f[q][1] = EventAt(m, q)
         /\ \A l \in 1 .. Len(f[e]) : f[q][l + 1] = f[e][l]
    <3>1. PICK more : /\ more = (IF EventEnd(m, q) = 0 THEN <<>> ELSE f[EventEnd(m, q)])
                      /\ Len(more) \in Nat /\ Len(f[q]) = Len(more) + 1
                      /\ f[q][1] = EventAt(m, q)
                      /\ \A l \in 1 .. Len(more) : f[q][l + 1] = more[l]
      BY <1>1, <1>2, <2>6, FirstIs, Zenon DEF f
    <3>2. more = f[e]
      BY <2>7, <3>1
    <3>3. QED
      BY <3>1, <3>2, Zenon
  <2>12. PICK k \in Nat : k = Len(f[e])
    BY <2>11
  <2>13. j # 1 /\ j \in 1 .. k + 1
    BY <2>3, <2>10, <2>11, <2>12
  <2>14. j - 1 \in 1 .. k /\ j - 1 + 1 = j
    BY <2>13
  <2>15. f[e][j - 1].kind = "NO_EVENT"
    <3>1. f[q][j - 1 + 1] = f[e][j - 1]
      BY <2>11, <2>12, <2>14, Zenon
    <3>2. QED
      BY <2>3, <2>14, <3>1, Zenon
  <2>16. e \in Bad
    BY <2>7, <2>8, <2>12, <2>14, <2>15
  <2>17. rank[e] < rank[q]
    <3>1. n + 1 - e < n + 1 - q
      BY <2>8
    <3>2. QED
      BY <1>3, <2>4, <2>8, <3>1, Zenon
  <2>18. QED
    BY <2>16, <2>17, Zenon
<1>5. Bad = {}
  <2>1. Bad \subseteq S
    OBVIOUS
  <2> HIDE DEF Bad, S
  <2>2. QED
    BY <1>3, <1>4, <2>1, NoDescent, Zenon
<1>6. Nested(m, 1, <<>>)
  <2>1. <<>> \in Seq(Opened) /\ Len(<<>>) = 0 /\ 1 .. 0 = {} /\ 1 .. 0 - 1 = {}
    OBVIOUS
  <2>2. QED
    BY <2>1, Zenon DEF Nested
<1>7. \A j \in 1 .. Len(f[1]) : f[1][j].kind # "NO_EVENT"
  <2>1. 1 \in S /\ 1 \notin Bad
    BY <1>5
  <2>2. QED
    BY <1>6, <2>1
<1>8. EventsOf(m) = f[1]
  BY Zenon DEF EventsOf, f
<1>9. QED
  BY <1>7, <1>8, Zenon DEF Readable, NumbersFit

\* What the verdict says follows.
LEMMA VerdictFollows == VerdictInv => VerdictIsRight
<1> SUFFICES ASSUME VerdictInv, verdict # "none" PROVE VerdictIsRight
  BY Zenon DEF VerdictIsRight
<1>1. ASSUME data \in Values, NumbersFit(EventsOf(data))
      PROVE  verdict = "true" <=>
               \A j \in 1 .. Len(want) : want[j] = Expected(EventsOf(data), j)
  BY <1>1, WholeReadable, Decided, Zenon
<1>2. ASSUME <<data, want>> \in Tests PROVE verdict = "true"
  <2>1. PICK t \in Tests : t = <<data, want>>
    BY <1>2
  <2>2. t[1] = data /\ t[2] = want
    BY <2>1
  <2>3. /\ NumbersFit(EventsOf(data))
        /\ \A j \in 1 .. Len(EventsOf(data)) : EventsOf(data)[j].kind # "NO_EVENT"
        /\ \A j \in 1 .. Len(want) : want[j] = Expected(EventsOf(data), j)
    <3>1. /\ NumbersFit(EventsOf(t[1]))
          /\ \A j \in 1 .. Len(EventsOf(t[1])) : EventsOf(t[1])[j].kind # "NO_EVENT"
          /\ \A j \in 1 .. Len(t[2]) : t[2][j] = Expected(EventsOf(t[1]), j)
      BY TestsAssumption, Zenon
    <3>2. QED
      BY <2>2, <3>1, Zenon
  <2>4. Readable(EventsOf(data))
    BY <2>3, Zenon DEF Readable, NumbersFit
  <2>5. QED
    BY <2>3, <2>4, Decided, Zenon
<1>3. QED
  BY <1>1, <1>2, Zenon DEF VerdictIsRight

(* benp_eq (test-benp.c:11) and benr_eq (benr-internal-test.c:8) answer what they
   are asked: with a well-formed message the loop returns true if and only if
   the table says what is written in the message, and DONE behind it, whatever
   the message and the table. *)
THEOREM VerdictRight == Spec => []VerdictIsRight
BY VerdictInvHolds, VerdictFollows, PTL
=============================================================================
