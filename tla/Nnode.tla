-------------------------------- MODULE Nnode --------------------------------
(***************************************************************************)
(* The daemon of src/nnode.c from main to its loop, with the configuration *)
(* it loads through src/cfg_json.c.  yajl parses the file and libev runs   *)
(* the loop; neither is in the repository.  The callbacks are still empty, *)
(* and so is base64_decode.                                                *)
(***************************************************************************)
EXTENDS Integers, Sequences, SequencesExt

CONSTANTS
  Files,       \* names that may be given to -c
  MaxOptions   \* bound: options on the command line

ASSUME OptionsAssumption == MaxOptions \in Nat /\ "none" \notin Files

\* what is under a name; "self" has the id inside another object, as in
\* src/cfg.json
Contents == {"missing", "unreadable", "no JSON", "no id", "id", "self"}

\* what getopt returns with ":hc:": an option, ':' or '?'
Options == {<<"h">>, <<":">>, <<"?">>} \cup {<<"c", f>> : f \in Files}

VARIABLES
  argv,        \* the options
  disk,        \* what each name stands for
  main,        \* where main is
  optind,      \* options seen
  cfg_file,
  errflg,
  stream,      \* the FILE of config_load: "none" or "open"
  root,        \* cfg->root: the file it was parsed from, or "none"
  id,          \* me->id: "zero", "random" or "configured"
  sock,        \* the listener: "none", "bad" (-1) or "ok"
  readable,    \* descriptors with something to read
  exit         \* what main returns

vars == <<argv, disk, main, optind, cfg_file, errflg, stream, root, id, sock,
          readable, exit>>

options == <<optind, cfg_file, errflg>>
config  == <<stream, root, id>>
loop    == <<sock, readable>>

Init ==
  /\ argv \in BoundedSeq(Options, MaxOptions)
  /\ disk \in [Files -> Contents]
  /\ main = "getopt"
  /\ optind = 0 /\ cfg_file = "none" /\ errflg = 0
  /\ stream = "none" /\ root = "none" /\ id = "zero"
  /\ sock = "none" /\ readable = {}
  /\ exit = 0

Leave(status) == main' = "exited" /\ exit' = status
Go(place) == main' = place /\ UNCHANGED exit

-----------------------------------------------------------------------------
(* main: the options *)

\* getopt returns the next option
Option(o) ==
  /\ main = "getopt"
  /\ optind < Len(argv)
  /\ argv[optind + 1] = o
  /\ optind' = optind + 1
  /\ UNCHANGED <<argv, disk, config, loop>>

OptHelp ==
  /\ Option(<<"h">>)
  /\ Leave(-1)
  /\ UNCHANGED <<cfg_file, errflg>>

\* mutated: the first file stays
OptConfigFirst ==
  \E f \in Files :
    /\ Option(<<"c", f>>)
    /\ cfg_file' = IF cfg_file = "none" THEN f ELSE cfg_file
    /\ Go("getopt")
    /\ UNCHANGED errflg

OptConfig ==
  \E f \in Files :
    /\ Option(<<"c", f>>)
    /\ cfg_file' = f
    /\ Go("getopt")
    /\ UNCHANGED errflg

OptWrong ==
  /\ Option(<<":">>) \/ Option(<<"?">>)
  /\ errflg' = errflg + 1
  /\ Go("getopt")
  /\ UNCHANGED cfg_file

\* getopt returns -1
OptionsEnd ==
  /\ main = "getopt"
  /\ optind = Len(argv)
  /\ \/ cfg_file # "none" /\ errflg = 0 /\ Go("open")
     \/ (cfg_file = "none" \/ errflg > 0) /\ Leave(-1)
  /\ UNCHANGED <<argv, disk, options, config, loop>>

-----------------------------------------------------------------------------
(* config_load *)

OpenConfig ==
  /\ main = "open"
  /\ \/ disk[cfg_file] # "missing" /\ stream' = "open" /\ Go("read")
     \/ disk[cfg_file] = "missing" /\ Leave(-1) /\ UNCHANGED stream
  /\ UNCHANGED <<argv, disk, options, root, id, loop>>

ReadConfig ==
  /\ main = "read"
  /\ \/ disk[cfg_file] # "unreadable" /\ Go("parse")
     \/ disk[cfg_file] = "unreadable" /\ Leave(-2)
  /\ UNCHANGED <<argv, disk, options, config, loop>>

\* yajl_tree_parse wants a string, and nothing ends what was read: what the stack
\* holds behind it may spoil a good file and even complete one that is none
ParseConfig ==
  /\ main = "parse"
  /\ \/ root' = cfg_file /\ Go("setup")
     \/ root' = "none" /\ Leave(-3)
  /\ UNCHANGED <<argv, disk, options, stream, id, loop>>

-----------------------------------------------------------------------------
(* setup_me, do_event_loop *)

base64_decode == -1

\* config_get_id
ConfigGetId == IF disk[root] = "id" THEN base64_decode ELSE -1

\* mutated: only a configuration without an id gets a random one
SetupMeIfAbsent ==
  /\ main = "setup"
  /\ id' = IF disk[root] = "id" THEN id ELSE "random"
  /\ Go("listen")
  /\ UNCHANGED <<argv, disk, options, stream, root, loop>>

SetupMe ==
  /\ main = "setup"
  /\ id' = IF ConfigGetId < 0 THEN "random" ELSE "configured"
  /\ Go("listen")
  /\ UNCHANGED <<argv, disk, options, stream, root, loop>>

\* setup_listener; libev does not accept a watcher of descriptor -1
SetupListener ==
  /\ main = "listen"
  /\ \/ sock' = "ok" /\ Go("poll")
     \/ sock' = "bad" /\ Go("crashed")
  /\ UNCHANGED <<argv, disk, options, config, readable>>

\* a command, or the end of standard input; a datagram
BecomesReadable ==
  /\ main \in {"poll", "callbacks"}
  /\ \E fd \in {"stdin", "socket"} \ readable : readable' = readable \cup {fd}
  /\ UNCHANGED <<argv, disk, main, options, config, sock, exit>>

\* ev_run: waits until there is something to read
Poll ==
  /\ main = "poll"
  /\ readable # {}
  /\ Go("callbacks")
  /\ UNCHANGED <<argv, disk, options, config, loop>>

\* mutated: what woke the loop is read
CallbacksRead ==
  /\ main = "callbacks"
  /\ readable' = {}
  /\ Go("poll")
  /\ UNCHANGED <<argv, disk, options, config, sock>>

\* interact_cb, listen_cb: they read nothing
Callbacks ==
  /\ main = "callbacks"
  /\ Go("poll")
  /\ UNCHANGED <<argv, disk, options, config, loop>>

Startup == OptHelp \/ OptConfig \/ OptWrong \/ OptionsEnd \/ OpenConfig
             \/ ReadConfig \/ ParseConfig \/ SetupMe \/ SetupListener

Loop == Poll \/ Callbacks

Next == Startup \/ Loop \/ BecomesReadable

\* one thread; what there is to read comes from elsewhere
Spec == Init /\ [][Next]_vars /\ WF_vars(Startup) /\ WF_vars(Loop)

-----------------------------------------------------------------------------
(* Properties *)

Running == main \in {"poll", "callbacks"}

\* Whatever the options, the loop is reached only when all of them name a file,
\* with the one named last parsed, an id chosen and a socket to listen on.
RunsConfigured ==
  Running =>
    /\ argv # <<>> /\ \A i \in 1 .. Len(argv) : argv[i][1] = "c"
    /\ root = argv[Len(argv)][2]
    /\ id # "zero" /\ sock = "ok"

\* Once there is anything to read the loop never sleeps again: nobody reads it.
NeverSleepsAgain == Running /\ readable # {} ~> []<>(main = "callbacks")
=============================================================================
