----------------------------- MODULE NnodeProof -----------------------------
(***************************************************************************)
(* What nnode has settled when it reaches its loop, for every set of files *)
(* and command lines of any length.                                        *)
(***************************************************************************)
EXTENDS Nnode, TLAPS

\* The options seen so far, as long as none of them was wrong or asked for help:
\* each named a file, and cfg_file is the last of them.
NamedSoFar ==
  main # "exited" /\ errflg = 0 =>
    /\ \A i \in 1 .. optind : argv[i][1] = "c"
    /\ IF optind = 0 THEN cfg_file = "none" ELSE cfg_file = argv[optind][2]

\* What is settled behind each of main's steps.
Settled ==
  /\ main \in {"open", "read", "parse", "setup", "listen"} \/ Running =>
       optind = Len(argv) /\ errflg = 0 /\ cfg_file # "none"
  /\ main \in {"setup", "listen"} \/ Running => root = cfg_file
  /\ main = "listen" \/ Running => id # "zero"
  /\ Running => sock = "ok"

IInv ==
  /\ argv \in Seq(Options)
  /\ optind \in 0 .. Len(argv) /\ errflg \in Nat
  /\ NamedSoFar
  /\ Settled

\* the invariant holds at the start, ...
LEMMA InvInit == Init => IInv
<1> SUFFICES ASSUME Init PROVE IInv
  OBVIOUS
<1>1. argv \in Seq(Options)
  BY OptionsAssumption DEF Init, BoundedSeq, SeqOf
<1>2. optind \in 0 .. Len(argv) /\ errflg \in Nat
  BY <1>1 DEF Init
<1>3. NamedSoFar /\ Settled
  BY DEF Init, NamedSoFar, Settled, Running
<1> QED BY <1>1, <1>2, <1>3 DEF IInv

\* getopt hands out the next argument, and touches nothing else
LEMMA OptionSeen ==
  ASSUME IInv, NEW o, Option(o)
  PROVE  /\ argv' = argv /\ main = "getopt" /\ optind' = optind + 1
         /\ optind' \in 1 .. Len(argv) /\ argv[optind'] = o
         /\ root' = root /\ id' = id /\ sock' = sock
BY DEF IInv, Option, config, loop

\* the options that set nothing keep the invariant
LEMMA OptionKeeps ==
  ASSUME IInv, OptHelp \/ OptConfig \/ OptWrong
  PROVE  IInv'
<1>1. CASE OptHelp
  <2>1. Option(<<"h">>) /\ main' = "exited" /\ errflg' = errflg
    BY <1>1 DEF OptHelp, Leave
  <2>2. argv' = argv /\ optind' \in 1 .. Len(argv)
    BY <2>1, OptionSeen
  <2> QED BY <2>1, <2>2 DEF IInv, NamedSoFar, Settled, Running
<1>2. CASE OptConfig
  <2>1. PICK f \in Files :
          Option(<<"c", f>>) /\ cfg_file' = f /\ main' = "getopt" /\ errflg' = errflg
    BY <1>2 DEF OptConfig, Go
  <2>2. /\ argv' = argv /\ main = "getopt" /\ optind' = optind + 1
        /\ optind' \in 1 .. Len(argv) /\ argv[optind'] = <<"c", f>>
    BY <2>1, OptionSeen
  <2>3. NamedSoFar'
    <3> SUFFICES ASSUME errflg' = 0
                 PROVE  /\ \A i \in 1 .. optind' : argv'[i][1] = "c"
                        /\ optind' # 0 /\ cfg_file' = argv'[optind'][2]
      BY DEF NamedSoFar
    <3>1. \A i \in 1 .. optind : argv[i][1] = "c"
      BY <2>1, <2>2 DEF IInv, NamedSoFar
    <3>2. \A i \in 1 .. optind' : i \in 1 .. optind \/ i = optind'
      BY <2>2 DEF IInv
    <3> QED BY <2>1, <2>2, <3>1, <3>2
  <2>4. Settled'
    BY <2>1 DEF Settled, Running
  <2> QED BY <2>1, <2>2, <2>3, <2>4 DEF IInv
<1>3. CASE OptWrong
  <2>1. /\ Option(<<":">>) \/ Option(<<"?">>)
        /\ main' = "getopt" /\ errflg' = errflg + 1
    BY <1>3 DEF OptWrong, Go
  <2>2. argv' = argv /\ optind' \in 1 .. Len(argv)
    BY <2>1, OptionSeen
  <2>3. errflg' \in Nat /\ errflg' # 0
    BY <2>1 DEF IInv
  <2> QED BY <2>1, <2>2, <2>3 DEF IInv, NamedSoFar, Settled, Running
<1> QED BY <1>1, <1>2, <1>3

\* What follows the options leaves them alone.
LEMMA OptionsStay ==
  ASSUME OptionsEnd \/ OpenConfig \/ ReadConfig \/ ParseConfig \/ SetupMe
           \/ SetupListener \/ Loop \/ BecomesReadable \/ UNCHANGED vars
  PROVE  /\ UNCHANGED <<argv, optind, cfg_file, errflg>>
         /\ main = "exited" => main' = "exited"
BY DEF OptionsEnd, OpenConfig, ReadConfig, ParseConfig, SetupMe, SetupListener,
       Loop, Poll, Callbacks, BecomesReadable, options, vars, Go, Leave

\* what is settled after the options stays so
LEMMA SettledKept ==
  ASSUME IInv, OptionsEnd \/ OpenConfig \/ ReadConfig \/ ParseConfig \/ SetupMe
           \/ SetupListener \/ Loop \/ BecomesReadable \/ UNCHANGED vars
  PROVE  Settled'
<1> USE OptionsStay DEF Settled, Running, config, loop, Go, Leave
<1>1. CASE OptionsEnd
  BY <1>1 DEF OptionsEnd, IInv
<1>2. CASE OpenConfig
  BY <1>2 DEF OpenConfig, IInv
<1>3. CASE ReadConfig
  BY <1>3 DEF ReadConfig, IInv
<1>4. CASE ParseConfig
  BY <1>4 DEF ParseConfig, IInv
<1>5. CASE SetupMe
  BY <1>5 DEF SetupMe, IInv
<1>6. CASE SetupListener
  BY <1>6 DEF SetupListener, IInv
<1>7. CASE Loop
  BY <1>7 DEF Loop, Poll, Callbacks, IInv
<1>8. CASE BecomesReadable
  BY <1>8 DEF BecomesReadable, IInv
<1>9. CASE UNCHANGED vars
  BY <1>9 DEF vars, IInv
<1> QED BY <1>1, <1>2, <1>3, <1>4, <1>5, <1>6, <1>7, <1>8, <1>9

\* ... and every step keeps it
LEMMA InvNext == IInv /\ [Next]_vars => IInv'
<1> SUFFICES ASSUME IInv, [Next]_vars PROVE IInv'
  OBVIOUS
<1> DEFINE Later == OptionsEnd \/ OpenConfig \/ ReadConfig \/ ParseConfig \/ SetupMe
                      \/ SetupListener \/ Loop \/ BecomesReadable \/ UNCHANGED vars
<1>1. CASE OptHelp \/ OptConfig \/ OptWrong
  BY <1>1, OptionKeeps
<1>2. CASE Later
  <2>1. UNCHANGED <<argv, optind, cfg_file, errflg>> /\ (main = "exited" => main' = "exited")
    BY <1>2, OptionsStay
  <2>2. NamedSoFar'
    BY <2>1 DEF IInv, NamedSoFar
  <2>3. Settled'
    BY <1>2, SettledKept
  <2> QED BY <2>1, <2>2, <2>3 DEF IInv
<1> QED BY <1>1, <1>2 DEF Next, Startup

\* nnode's loop runs with everything configured, however long the command line
\* is and whatever the files hold.
THEOREM LoopIsConfigured == Spec => []RunsConfigured
<1>1. IInv => RunsConfigured
  BY DEF IInv, NamedSoFar, Settled, RunsConfigured, Running
<1> QED BY <1>1, InvInit, InvNext, PTL DEF Spec
=============================================================================
