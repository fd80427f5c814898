------------------------------- MODULE BtDht -------------------------------
(***************************************************************************)
(* The program `bt' (src/bt_dht.c): main adds one peer, pings it, and runs *)
(* a libev loop with two watchers, the peer's stale_timer and the socket.  *)
(*                                                                         *)
(* libev times everything by a clock it reads once per iteration (mn_now   *)
(* for timers, ev_now for callbacks), so a callback sees the time at which *)
(* the iteration began.  The model keeps all times RELATIVE to that        *)
(* reading, which makes its state finite without bounding how long the     *)
(* program runs.                                                           *)
(***************************************************************************)
EXTENDS Integers

CONSTANTS
  PEER_TIMEOUT,
  MaxStep,    \* how far the wall clock may be from where it was at add_peer
  MaxLag,     \* how old the loop's clock reading may get (bound)
  MaxInbox    \* datagrams the socket holds (bound)

ASSUME ConstantsAssumption ==
  /\ PEER_TIMEOUT \in Nat \ {0}
  /\ MaxStep \in Nat
  /\ MaxLag \in Nat
  /\ MaxInbox \in Nat

VARIABLES
  pc,        \* where main is; "loop" while ev_run runs
  now,       \* time passed since the loop read the clock
  timer,     \* stale_timer expires that long after the reading, if it runs
  age,       \* the reading - add_peer's, on the monotonic clock (saturates)
  skew,      \* how far the wall clock was stepped back since add_peer
  pending,   \* the watchers whose callbacks this iteration still invokes
  inbox,     \* datagrams to be received
  quiet,     \* history: the reading - the time of the last ping
  lag        \* history: `now' at the last ping

vars == <<pc, now, timer, age, skew, pending, inbox, quiet, lag>>

Least(a, b) == IF a <= b THEN a ELSE b

\* beyond that age every timeout pings, whatever the wall clock does
AgeCap == PEER_TIMEOUT + 1 + MaxStep
Skews  == -MaxStep .. MaxStep

Stopped == -1
Running == timer # Stopped

\* ev_now - last_activity.  add_peer sets last_activity, nothing else does
Idle == age - skew

\* a ping leaves at the true time
SendPing == quiet' = -now /\ lag' = now

Init ==
  /\ pc = "setup"
  /\ now = 0
  /\ timer = Stopped
  /\ age = 0 /\ skew = 0
  /\ pending = {}
  /\ inbox = 0
  /\ quiet = 0 /\ lag = 0

-----------------------------------------------------------------------------
(* main, up to ev_run *)

\* the local address, the socket, my_id and the loop
SetUp ==
  /\ pc = "setup"
  /\ pc' = "lookup"
  /\ UNCHANGED <<now, timer, age, skew, pending, inbox, quiet, lag>>

\* err or errx: one of those, or the name of the peer, cannot be had
GiveUp ==
  /\ pc \in {"setup", "lookup"}
  /\ pc' = "exited"
  /\ UNCHANGED <<now, timer, age, skew, pending, inbox, quiet, lag>>

\* add_peer returns NULL, and main passes it on to send_ping_to_peer
NoPeer ==
  /\ pc = "lookup"
  /\ now = 0
  /\ pc' = "crashed"
  /\ UNCHANGED <<now, timer, age, skew, pending, inbox, quiet, lag>>

\* add_peer: resolve_peer blocks for as long as the lookup takes, and the
\* timer is started by the reading from before it
AddPeer ==
  /\ pc = "lookup"
  /\ timer' = PEER_TIMEOUT
  /\ age' = 0
  /\ skew' = 0
  /\ pc' = "ping"
  /\ UNCHANGED <<now, pending, inbox, quiet, lag>>

FirstPing ==
  /\ pc = "ping"
  /\ SendPing
  /\ pc' = "loop"
  /\ UNCHANGED <<now, timer, age, skew, pending, inbox>>

-----------------------------------------------------------------------------
(* the environment *)

Tick ==
  /\ pc \in {"lookup", "ping", "loop"}
  /\ now < MaxLag
  /\ now' = now + 1
  /\ UNCHANGED <<pc, timer, age, skew, pending, inbox, quiet, lag>>

Arrive ==
  /\ pc = "loop"
  /\ inbox < MaxInbox
  /\ inbox' = inbox + 1
  /\ UNCHANGED <<pc, now, timer, age, skew, pending, quiet, lag>>

\* the kernel drops a datagram it has announced (its checksum is wrong)
Discard ==
  /\ pc = "loop"
  /\ inbox > 0
  /\ inbox' = inbox - 1
  /\ UNCHANGED <<pc, now, timer, age, skew, pending, quiet, lag>>

-----------------------------------------------------------------------------
(* ev_run *)

\* One iteration, up to the callbacks: block until the timer is due or the
\* socket is readable, read the clock, expire the timer.  s is what has been
\* noticed of the steps of the wall clock.
Iterate(s) ==
  /\ pc = "loop"
  /\ pending = {}
  /\ inbox > 0 \/ (Running /\ now >= timer)
  /\ now' = 0
  /\ timer' = IF Running /\ now <= timer THEN timer - now ELSE Stopped
  /\ age' = Least(age + now, AgeCap)
  /\ skew' = s
  /\ quiet' = quiet + now
  /\ pending' = {w \in {"read", "timeout"} :
                   \/ w = "read" /\ inbox > 0
                   \/ w = "timeout" /\ Running /\ now > timer}
  /\ UNCHANGED <<pc, inbox, lag>>

\* ev_timer_set and ev_timer_start: relative to the reading
StartTimer(after) == timer' = after

\* on_peer_timeout, invoked before sock_cb when both are pending
OnTimeout ==
  /\ pc = "loop"
  /\ "timeout" \in pending
  /\ pending' = pending \ {"timeout"}
  /\ UNCHANGED <<pc, now, age, skew, inbox>>

\* mutated: the timer is started again for no time at all
TimeoutPingsAgain ==
  /\ OnTimeout
  /\ Idle > PEER_TIMEOUT
  /\ SendPing
  /\ StartTimer(0)

\* after < 0
TimeoutPings ==
  /\ OnTimeout
  /\ Idle > PEER_TIMEOUT
  /\ SendPing
  /\ StartTimer(PEER_TIMEOUT)

\* mutated: the one-shot timer is taken for a repeating one
TimeoutDefersOnce ==
  /\ OnTimeout
  /\ Idle <= PEER_TIMEOUT
  /\ UNCHANGED <<timer, quiet, lag>>

\* mutated: a full timeout instead of what is left of it
TimeoutDefersInFull ==
  /\ OnTimeout
  /\ Idle <= PEER_TIMEOUT
  /\ StartTimer(PEER_TIMEOUT)
  /\ UNCHANGED <<quiet, lag>>

\* the wall clock was stepped back since last_activity was taken from it
TimeoutDefers ==
  /\ OnTimeout
  /\ Idle <= PEER_TIMEOUT
  /\ StartTimer(PEER_TIMEOUT - Idle)
  /\ UNCHANGED <<quiet, lag>>

\* mutated: no datagram is taken for a datagram
SockCbAnyway ==
  /\ pc = "loop"
  /\ pending = {"read"}
  /\ inbox' = inbox - 1
  /\ pending' = {}
  /\ UNCHANGED <<pc, now, timer, age, skew, quiet, lag>>

\* sock_cb: recvfrom waits on the blocking socket until there is a datagram
SockCb ==
  /\ pc = "loop"
  /\ pending = {"read"}
  /\ inbox > 0
  /\ inbox' = inbox - 1
  /\ pending' = {}
  /\ UNCHANGED <<pc, now, timer, age, skew, quiet, lag>>

\* recvfrom fails: sock_cb prints -1 bytes all the same, and reads past buf
SockCbFails(outcome) ==
  /\ pc = "loop"
  /\ pending = {"read"}
  /\ pending' = {}
  /\ pc' = outcome
  /\ UNCHANGED <<now, timer, age, skew, inbox, quiet, lag>>

-----------------------------------------------------------------------------
Main == SetUp \/ GiveUp \/ NoPeer \/ AddPeer \/ FirstPing

Environment == Tick \/ Arrive \/ Discard

Loop ==
  \/ \E s \in Skews : Iterate(s)
  \/ TimeoutPings \/ TimeoutDefers
  \/ SockCb
  \/ \E o \in {"loop", "crashed"} : SockCbFails(o)

Next == Main \/ Environment \/ Loop

\* The loop is one thread the system schedules, and time passes.  Nothing says
\* that datagrams arrive or that recvfrom fails.
Fairness ==
  /\ WF_vars(\E s \in Skews : Iterate(s))
  /\ WF_vars(TimeoutPings \/ TimeoutDefers)
  /\ WF_vars(SockCb)
  /\ WF_vars(Tick)

Spec == Init /\ [][Next]_vars /\ Fairness

-----------------------------------------------------------------------------
(* Properties *)

TypeOK ==
  /\ pc \in {"setup", "lookup", "ping", "loop", "exited", "crashed"}
  /\ now \in 0 .. MaxLag
  /\ timer \in Nat \cup {Stopped}
  /\ age \in 0 .. AgeCap /\ skew \in Skews
  /\ pending \subseteq {"timeout", "read"}
  /\ inbox \in 0 .. MaxInbox
  /\ quiet \in Int /\ lag \in 0 .. MaxLag

\* The one-shot stale_timer is never lost and never started twice: in the loop
\* it is running, or else its callback is about to start it again.
TimerKept == pc = "loop" => (Running <=> "timeout" \notin pending)

\* The running timer expires no later than PEER_TIMEOUT after the last ping,
\* but for the time the wall clock was stepped back: the callback computes what
\* is left from ev_now, the timer counts monotonic time.
NextPingInTime ==
  pc = "loop" /\ Running => quiet + timer <= PEER_TIMEOUT + MaxStep

(* The inductive invariant behind these, for the proofs. *)

\* before the loop runs the reading is add_peer's and nothing was pinged
BeforeLoop ==
  /\ pc \in {"setup", "lookup", "ping"} => age = 0 /\ pending = {} /\ quiet = 0
  /\ pc = "ping" => timer = PEER_TIMEOUT

\* in the loop no ping is older than last_activity (until `age' saturates),
\* and the timer expires at least PEER_TIMEOUT after the reading the last ping
\* was sent by
InLoop ==
  pc = "loop" =>
    /\ age < AgeCap => quiet <= age
    /\ Running => quiet + timer >= PEER_TIMEOUT - lag
    /\ "timeout" \in pending => quiet > PEER_TIMEOUT - lag

\* Every state of the program satisfies these together: what each property
\* needs to know of the states the callbacks start from.
IInv == TypeOK /\ TimerKept /\ NextPingInTime /\ BeforeLoop /\ InLoop

(* Action and liveness properties. *)

\* Two pings are more than PEER_TIMEOUT apart, less the age of the reading when
\* the first of them left: a callback's delay, and for the first ping of all
\* the whole name lookup.
PingsApart ==
  [][TimeoutPings => quiet + now > PEER_TIMEOUT - lag]_vars

\* The peer is pinged for ever, whatever it answers and however the wall clock
\* is stepped, unless the program ended or is kept in sock_cb by a datagram
\* that was announced and discarded.
PingsForever ==
  []<><<TimeoutPings>>_vars \/ <>[](pc # "loop" \/ pending = {"read"})
=============================================================================
