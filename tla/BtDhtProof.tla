----------------------------- MODULE BtDhtProof -----------------------------
(* Proofs about BtDht: the timer is never lost, and pings are neither late nor
   crowded, for every timeout, step of the wall clock, delay and number of
   datagrams. *)
EXTENDS BtDht, TLAPS

USE ConstantsAssumption DEF Stopped, Running

\* the least of two numbers
LEMMA LeastIsLower ==
  ASSUME NEW a \in Nat, NEW b \in Nat
  PROVE  Least(a, b) \in 0 .. b /\ (Least(a, b) < b => Least(a, b) = a)
  BY DEF Least

\* the invariant holds at the start, ...
LEMMA InitOK == Init => IInv
  <1> SUFFICES ASSUME Init PROVE IInv
      OBVIOUS
  <1>1. TypeOK
      BY DEF Init, TypeOK, AgeCap, Skews
  <1> QED BY <1>1 DEF Init, IInv, TimerKept, NextPingInTime, BeforeLoop, InLoop

(* main, up to ev_run, preserves the invariant. *)
LEMMA MainOK == IInv /\ Main => IInv'
  <1> SUFFICES ASSUME IInv, Main PROVE IInv'
      OBVIOUS
  <1> USE DEF IInv, TypeOK, TimerKept, NextPingInTime, BeforeLoop, InLoop
  <1>1. CASE SetUp \/ GiveUp \/ NoPeer
      BY <1>1 DEF SetUp, GiveUp, NoPeer
  <1>2. CASE AddPeer
      BY <1>2 DEF AddPeer, AgeCap, Skews
  <1>3. CASE FirstPing
      BY <1>3 DEF FirstPing, SendPing
  <1> QED BY <1>1, <1>2, <1>3 DEF Main

(* Time and the network preserve the invariant. *)
LEMMA EnvironmentOK == IInv /\ Environment => IInv'
  <1> SUFFICES ASSUME IInv, Environment PROVE IInv'
      OBVIOUS
  <1>1. /\ UNCHANGED <<pc, timer, age, skew, pending, quiet, lag>>
        /\ now' \in 0 .. MaxLag
        /\ inbox' \in 0 .. MaxInbox
      BY DEF IInv, TypeOK, Environment, Tick, Arrive, Discard
  <1>2. TypeOK'
      BY <1>1 DEF IInv, TypeOK, AgeCap
  <1> QED BY <1>1, <1>2 DEF IInv, TimerKept, NextPingInTime, BeforeLoop, InLoop,
                            AgeCap

(* An iteration of the loop moves the reading: the timer and the last ping
   move together. *)
LEMMA IterateOK ==
  ASSUME IInv, NEW s \in Skews, Iterate(s)
  PROVE  IInv'
  <1> DEFINE newAge == Least(age + now, AgeCap)
  <1>1. /\ newAge \in 0 .. AgeCap
        /\ newAge < AgeCap => newAge = age + now
    <2>1. age \in Nat /\ now \in Nat /\ AgeCap \in Nat
        BY DEF IInv, TypeOK, AgeCap
    <2>2. age + now \in Nat
        BY <2>1
    <2> QED BY <2>1, <2>2, LeastIsLower
  <1>2. age' = newAge
      BY DEF Iterate
  <1> HIDE DEF newAge
  <1>3. TypeOK'
      BY <1>1, <1>2 DEF IInv, TypeOK, Iterate
  <1>4. TimerKept'
      BY DEF IInv, TypeOK, TimerKept, Iterate
  <1>5. NextPingInTime'
      BY DEF IInv, TypeOK, NextPingInTime, Iterate
  <1>6. BeforeLoop'
      BY DEF Iterate, BeforeLoop
  <1>7. InLoop'
      BY <1>1, <1>2 DEF IInv, TypeOK, InLoop, Iterate, AgeCap
  <1> QED BY <1>3, <1>4, <1>5, <1>6, <1>7 DEF IInv

(* The callbacks start the timer again, on each of their paths. *)
LEMMA CallbackOK ==
  ASSUME IInv, TimeoutPings \/ TimeoutDefers
  PROVE  IInv'
  <1> USE DEF IInv, TypeOK, OnTimeout, StartTimer
  <1>1. CASE TimeoutPings
      BY <1>1 DEF TimeoutPings, SendPing, TimerKept, NextPingInTime,
                  BeforeLoop, InLoop
  <1>2. CASE TimeoutDefers
    \* the age has not saturated, and the last ping is no older
    <2>1. /\ age < AgeCap
          /\ quiet <= age
          /\ quiet > PEER_TIMEOUT - lag
        BY <1>2 DEF TimeoutDefers, Idle, AgeCap, Skews, InLoop
    <2>2. timer' = PEER_TIMEOUT - (age - skew) /\ timer' \in Nat 
        BY <1>2 DEF TimeoutDefers, Idle, Skews
    <2>3. UNCHANGED <<pc, now, age, skew, inbox, quiet, lag>>
        BY <1>2 DEF TimeoutDefers
    <2>4. TypeOK'
        BY <1>2, <2>2, <2>3 DEF TimeoutDefers
    <2>5. TimerKept' /\ BeforeLoop'
        BY <1>2, <2>2, <2>3 DEF TimeoutDefers, TimerKept, BeforeLoop
    <2>6. NextPingInTime'
        BY <2>1, <2>2, <2>3 DEF NextPingInTime, Skews
    <2>7. InLoop'
        BY <1>2, <2>1, <2>2, <2>3 DEF TimeoutDefers, InLoop, AgeCap
    <2> QED BY <2>4, <2>5, <2>6, <2>7
  <1> QED BY <1>1, <1>2

\* ... after the socket callback, whether recvfrom fails or not, ...
LEMMA SocketOK ==
  ASSUME IInv, SockCb \/ \E o \in {"loop", "crashed"} : SockCbFails(o)
  PROVE  IInv'
  BY DEF IInv, TypeOK, TimerKept, NextPingInTime, BeforeLoop, InLoop,
         SockCb, SockCbFails

\* ... and after every step
LEMMA StepOK == IInv /\ [Next]_vars => IInv'
  <1> SUFFICES ASSUME IInv, [Next]_vars PROVE IInv'
      OBVIOUS
  <1>1. CASE Main BY <1>1, MainOK
  <1>2. CASE Environment BY <1>2, EnvironmentOK
  <1>3. CASE Loop BY <1>3, IterateOK, CallbackOK, SocketOK DEF Loop
  <1>4. CASE UNCHANGED vars
      BY <1>4 DEF IInv, TypeOK, TimerKept, NextPingInTime, BeforeLoop, InLoop,
                  AgeCap, vars
  <1> QED BY <1>1, <1>2, <1>3, <1>4 DEF Next

(* The invariant of bt_dht.c's loop holds in every state it reaches: its types,
   and the facts the theorems below need. *)
THEOREM Invariance == Spec => []IInv
  BY InitOK, StepOK, PTL DEF Spec

(* The timer, the clocks and the waiting datagrams keep to their ranges; in
   particular the rest of a timeout (bt_dht.c:401-409) is never negative. *)
THEOREM LoopTypes == Spec => []TypeOK
  <1>1. IInv => TypeOK
      BY DEF IInv
  <1> QED BY <1>1, Invariance, PTL

(* The one-shot timer of the peer (bt_dht.c:396-411) is never lost: on every
   path of the callback it is started again. *)
THEOREM TimerNeverLost == Spec => []TimerKept
  <1>1. IInv => TimerKept
      BY DEF IInv
  <1> QED BY <1>1, Invariance, PTL

(* The next ping is due at most PEER_TIMEOUT after the last, plus what the wall
   clock was stepped back (bt_dht.c:401-409). *)
THEOREM PingsInTime == Spec => []NextPingInTime
  <1>1. IInv => NextPingInTime
      BY DEF IInv
  <1> QED BY <1>1, Invariance, PTL

(* No two pings are closer than PEER_TIMEOUT, less the age of the reading the
   timer was started from (bt_dht.c:405-406, 464-466). *)
THEOREM PingsStayApart == Spec => PingsApart
  <1>1. IInv /\ [Next]_vars =>
          [TimeoutPings => quiet + now > PEER_TIMEOUT - lag]_vars
      BY DEF IInv, TypeOK, InLoop, TimeoutPings, OnTimeout
  <1> QED BY <1>1, Invariance, PTL DEF Spec, PingsApart
=============================================================================
