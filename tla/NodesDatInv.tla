---------------------------- MODULE NodesDatInv ----------------------------
(***************************************************************************)
(* The inductive invariant behind the safety properties of NodesDat, in    *)
(* four parts: where the parser stands, which bytes it has, what it has    *)
(* told the caller, and which lists its peers are on.                      *)
(***************************************************************************)
EXTENDS NodesDat

InCall == pc \in {"header", "version", "entries"}

\* where the parser stands in each phase of a call and between calls
Control ==
  /\ InCall => /\ error = 0
               /\ buf + len = fpos
               /\ consumed + len = given
  /\ pc = "header" => ~header_parsed /\ len > 0 /\ consumed = 0
  /\ pc \in {"version", "entries"} => header_parsed
  /\ pc = "entries" => version \in {0, 2} /\ pos < EntryLen
  /\ cur_e_pos < EntryLen
  /\ ~header_parsed =>
       /\ version = 0 /\ nr_consumed = 0 /\ cur_e_pos = 0
       /\ decoded = <<>> /\ error = 0
       /\ head_pos < HeadLen
       /\ file.zero # 0 => head_pos < WordLen
       /\ head_pos = IF pc = "header" THEN buf ELSE fpos

-----------------------------------------------------------------------------
\* What is known of the entry being read: in a call it is in the locals,
\* between calls in the context.
Cursor == IF pc \in {"version", "entries"} THEN buf ELSE fpos
EntryPos == IF pc = "entries" THEN pos ELSE cur_e_pos
EntryNr == IF pc = "entries" THEN nr ELSE nr_consumed
EntryStart(i) == HdrLen + i * EntryLen

InProgress == header_parsed /\ error = 0 /\ Len(decoded) < nr_total

HeaderIsRead ==
  header_parsed =>
    IF file.zero # 0 THEN version = 0 /\ nr_total = file.zero
                     ELSE version = file.version /\ nr_total = file.nr

\* while entries are missing, the cursor is at the next byte of the next entry
CursorInEntry ==
  InProgress =>
    /\ EntryNr = Len(decoded)
    /\ Cursor = EntryStart(Len(decoded)) + EntryPos
    /\ \A j \in 0 .. EntryPos - 1 : cur_e[j] = EntryStart(Len(decoded)) + j

\* once a file that ends with its last entry is decoded, nothing is left of it
WellSized == file.size <= EntryStart(nr_total)
NothingLeft ==
  header_parsed /\ WellSized /\ Len(decoded) >= nr_total =>
    /\ Len(decoded) = nr_total
    /\ fpos = file.size
    /\ pc \in {"version", "entries"} => EntryNr >= nr_total

-----------------------------------------------------------------------------
ShortCount == ~InCall /\ error = 0 /\ ret < given => Complete

-----------------------------------------------------------------------------
ListShape ==
  /\ pc \notin {"free", "destroy"} => walk = 0
  /\ pc = "free" => held = 0
  /\ \A i \in 1 .. Len(next) : next[i] \in {0, i + 1}
  /\ Len(next) > 0 => next[Len(next)] = 0
  /\ pc # "destroy" =>
       /\ peers = 0 <=> tail = 0
       /\ tail # 0 => /\ tail = Len(next)
                      /\ peers <= tail
                      /\ \A j \in peers .. tail - 1 : next[j] = j + 1

-----------------------------------------------------------------------------
\* CopiesInBounds, EntriesAreFileSlices, NoExtraPeers, ShortCountMeansComplete
\* and TailEndsParserList follow from these parts.
IInv ==
  /\ TypeOK /\ Control
  /\ HeaderIsRead /\ CursorInEntry /\ EntriesAreFileSlices /\ NothingLeft
  /\ ShortCount
  /\ ListShape /\ OneOwnerPerPeer
=============================================================================
