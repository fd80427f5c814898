------------------------------ MODULE NdReader ------------------------------
(***************************************************************************)
(* The program of src/nd_reader.c: read a nodes.dat file chunk by chunk    *)
(* through the parser of NodesDat, print the peers found, and release      *)
(* everything.  Each action of main joins a step of the library.           *)
(***************************************************************************)
EXTENDS NodesDat

CONSTANT BufLen   \* sizeof(buf), the most bytes one fread returns

ASSUME BufLenAssumption == BufLen \in Nat \ {0}

VARIABLES
  main,      \* where main is
  exit,      \* its exit status, once known
  printed,   \* the peers printed
  badRead    \* a read error occurred (main never calls ferror)

mainVars == <<main, exit, printed, badRead>>
allVars == <<vars, mainVars>>

ReaderInit ==
  /\ Init
  /\ main = "open"
  /\ exit = 0
  /\ printed = {}
  /\ badRead = FALSE

-----------------------------------------------------------------------------
Open ==
  /\ main = "open"
  /\ main' = "read"
  /\ UNCHANGED <<vars, exit, printed, badRead>>

\* fopen returns NULL, and fread is called with it
OpenFails ==
  /\ main = "open"
  /\ main' = "crashed"
  /\ UNCHANGED <<vars, exit, printed, badRead>>

\* fread returns a full buffer, or less at the end of the file or on an error
ReadChunk(r) ==
  /\ main = "read"
  /\ ReturnAtOnce(r) \/ StartCall(r)
  /\ badRead' = (badRead \/ r < Least(BufLen, file.size - fpos))
  /\ main' = "call"
  /\ UNCHANGED <<exit, printed>>

\* the call goes on in the library, as does free_kad_peers further down
InLibrary ==
  /\ \/ main = "call" /\ Parse
     \/ main \in {"free", "leave"} /\ (FreeOne \/ FreePeersDone \/ DestroyDone)
  /\ UNCHANGED mainVars

\* mutated: only a count equal to the chunk counts as success
CallSucceededInFull ==
  /\ main = "call"
  /\ pc = "idle"
  /\ ret = given
  /\ main' = "read"
  /\ UNCHANGED <<vars, exit, printed, badRead>>

\* any count that is not negative: main reads on, even when the parse is over
CallSucceeded ==
  /\ main = "call"
  /\ pc = "idle"
  /\ ret >= 0
  /\ main' = "read"
  /\ UNCHANGED <<vars, exit, printed, badRead>>

\* mutated: main returns without nd_parse_destroy
CallFailedAtOnce ==
  /\ main = "call"
  /\ pc = "idle"
  /\ ret < 0
  /\ exit' = 3
  /\ main' = "leave"
  /\ UNCHANGED <<vars, printed, badRead>>

CallFailed ==
  /\ main = "call"
  /\ pc = "idle"
  /\ ret < 0
  /\ Destroy
  /\ exit' = 3
  /\ main' = "leave"
  /\ UNCHANGED <<printed, badRead>>

\* fread returns 0: the end of the file, or an error before it
TakePeers ==
  /\ main = "read"
  /\ GetPeers
  /\ badRead' = (badRead \/ fpos < file.size)
  /\ main' = "got"
  /\ UNCHANGED <<exit, printed>>

NoPeers ==
  /\ main = "got"
  /\ held = 0
  /\ Destroy
  /\ exit' = 4
  /\ main' = "leave"
  /\ UNCHANGED <<printed, badRead>>

\* mutated: the loop of print_kad_peers does not follow the links
PrintFirstPeer ==
  /\ main = "got"
  /\ held # 0
  /\ printed' = {held}
  /\ main' = "print"
  /\ UNCHANGED <<vars, exit, badRead>>

\* print_kad_peers
PrintPeers ==
  /\ main = "got"
  /\ held # 0
  /\ printed' = Chain(held)
  /\ main' = "print"
  /\ UNCHANGED <<vars, exit, badRead>>

FreePrinted ==
  /\ main = "print"
  /\ FreePeers
  /\ main' = "free"
  /\ UNCHANGED <<exit, printed, badRead>>

Finish ==
  /\ main = "free"
  /\ Destroy
  /\ exit' = 0
  /\ main' = "leave"
  /\ UNCHANGED <<printed, badRead>>

Leave ==
  /\ main = "leave"
  /\ pc = "idle"
  /\ main' = "exited"
  /\ UNCHANGED <<vars, exit, printed, badRead>>

-----------------------------------------------------------------------------
ReaderNext ==
  \/ Open \/ OpenFails
  \/ \E r \in 1 .. Least(BufLen, file.size - fpos) : ReadChunk(r)
  \/ InLibrary \/ CallSucceeded \/ CallFailed
  \/ TakePeers \/ NoPeers \/ PrintPeers \/ FreePrinted \/ Finish \/ Leave

\* one thread that nothing blocks: it runs until it exits
ReaderSpec == ReaderInit /\ [][ReaderNext]_allVars /\ WF_allVars(ReaderNext)

-----------------------------------------------------------------------------
(* Properties *)

\* Whichever way main returns, every peer was freed.
NothingLeaked == main = "exited" => freed = 1 .. Len(decoded)

\* The program always returns (or crashes on a file it cannot open).
Returns == <>(main \in {"exited", "crashed"})

\* Exit status 0, with no read error and no failed allocation on the way, means
\* that every entry the file holds of those it announces was printed.
PrintsWhatIsThere ==
  main = "exited" /\ exit = 0 /\ ~badRead /\ error = 0 =>
    \A i \in 1 .. nr_total :
      HdrLen + i * EntryLen <= file.size => i \in printed

\* "nr_total; /* total entries in file */": no peer is printed that is not an
\* entry of the file.  Bytes after the last entry break it: when they come in a
\* later chunk, nr_consumed is what it was when the last call began.
PrintsOnlyEntries == ~badRead => printed \subseteq 1 .. nr_total
=============================================================================
