------------------------------ MODULE NodesDat ------------------------------
(***************************************************************************)
(* The incremental parser of nodes.dat files (src/nodes_dat.c) under the   *)
(* most general caller: it cuts the file into chunks of any length, may    *)
(* fetch and free the decoded peers between two chunks, and may destroy    *)
(* the context at any time.                                                *)
(*                                                                         *)
(* A byte is named by its offset in the file, so a buffer is a function    *)
(* from positions to offsets: the model keeps track of WHICH bytes of the  *)
(* file end up in WHICH peer, and of nothing else about them.              *)
(*                                                                         *)
(* Peers are numbered from 1 in the order of their allocation.  0 is the   *)
(* NULL pointer; for `tail', a pointer to a pointer, 0 is &npc->peers and  *)
(* i is &peer_i->next.                                                     *)
(***************************************************************************)
EXTENDS Integers, Sequences

CONSTANTS
  WordLen,   \* sizeof(uint32_t): the header is three words
  V0Len,     \* sizeof(struct nd_entry_v0)
  V2Len,     \* sizeof(struct nd_entry)
  Files      \* the files a caller may open: header words and size

ASSUME LengthsAssumption ==
  /\ WordLen \in Nat \ {0}
  /\ V0Len \in Nat \ {0}
  /\ V2Len \in Nat \ {0}
  /\ V0Len <= V2Len

ASSUME FilesAssumption ==
  Files \subseteq [zero : Nat, version : Nat, nr : Nat, size : Nat]

VARIABLES
  file, fpos,               \* the open file; offset of its next unread byte
  head_pos, header_parsed,  \* struct nd_parse_ctx, by field
  version, nr_total, nr_consumed, cur_e, cur_e_pos, error, peers, tail,
  pc,                       \* where the library is; "idle" between calls
  given, buf, len,          \* nd_parse_proc: argument len, then what is left
  consumed, nr, pos, ret,   \* its locals and its last return value
  decoded, next, freed,     \* heap: the bytes of each peer, its link, free()d
  held, walk                \* list the caller owns; cursor of free_kad_peers

inputVars == <<file, fpos>>
headVars  == <<head_pos, header_parsed, version, nr_total>>
entryVars == <<nr_consumed, cur_e, cur_e_pos>>
listVars  == <<peers, tail>>
callVars  == <<given, buf, len, consumed, nr, pos, ret>>
heapVars  == <<decoded, next, freed, held, walk>>
vars == <<inputVars, headVars, entryVars, error, listVars, pc, callVars,
          heapVars>>

HeadLen == WordLen + WordLen + WordLen
EINVAL  == 22
ENOMEM  == 12

Least(a, b) == IF a <= b THEN a ELSE b

\* memcpy of n bytes of the chunk, from offset src on, to dst + at
Memcpy(dst, at, src, n) ==
  [j \in DOMAIN dst |-> IF at <= j /\ j < at + n THEN src + (j - at) ELSE dst[j]]

-----------------------------------------------------------------------------
\* nd_parse_init, and a caller that has just opened a file
Init ==
  /\ file \in Files
  /\ fpos = 0
  /\ head_pos = 0 /\ header_parsed = FALSE
  /\ version = 0 /\ nr_total = 0
  /\ nr_consumed = 0 /\ cur_e_pos = 0
  /\ cur_e = [j \in 0 .. V2Len - 1 |-> -1]
  /\ error = 0
  /\ peers = 0 /\ tail = 0
  /\ pc = "idle"
  /\ given = 0 /\ buf = 0 /\ len = 0
  /\ consumed = 0 /\ nr = 0 /\ pos = 0 /\ ret = 0
  /\ decoded = <<>> /\ next = <<>> /\ freed = {}
  /\ held = 0 /\ walk = 0

-----------------------------------------------------------------------------
\* nd_parse_proc is entered with the next n bytes of the file

PassChunk(n) ==
  /\ pc = "idle"
  /\ n \in 0 .. file.size - fpos
  /\ given' = n
  /\ buf' = fpos
  /\ len' = n
  /\ consumed' = 0
  /\ fpos' = fpos + n

\* mutated: the pending error is not returned
ReturnAtOnceSilently(n) ==
  /\ PassChunk(n)
  /\ error < 0 \/ n = 0
  /\ ret' = 0
  /\ UNCHANGED <<file, headVars, entryVars, error, listVars, pc, nr, pos,
                 heapVars>>

\* an earlier error, or an empty chunk: the call returns at once
ReturnAtOnce(n) ==
  /\ PassChunk(n)
  /\ error < 0 \/ n = 0
  /\ ret' = IF error < 0 THEN error ELSE 0
  /\ UNCHANGED <<file, headVars, entryVars, error, listVars, pc, nr, pos,
                 heapVars>>

StartCall(n) ==
  /\ PassChunk(n)
  /\ error >= 0
  /\ n > 0
  /\ pc' = IF header_parsed THEN "version" ELSE "header"
  /\ UNCHANGED <<file, headVars, entryVars, error, listVars, nr, pos, ret,
                 heapVars>>

-----------------------------------------------------------------------------
\* header_parser: the first word tells a v0 file (it is the entry count) from
\* a newer one (it is zero, and two more words follow)

\* mutated: what an earlier chunk held of the header is not deducted
HeadMissingAfresh == HeadLen

WordMissing == IF head_pos < WordLen THEN WordLen - head_pos ELSE 0
HeadMissing == HeadLen - head_pos
FirstWordIsCount ==
  /\ head_pos < WordLen
  /\ len >= WordMissing
  /\ file.zero # 0

TakeHeader(n) ==
  /\ pc = "header"
  /\ head_pos' = head_pos + n
  /\ UNCHANGED <<inputVars, entryVars, error, listVars, given, nr, pos,
                 heapVars>>

HeaderDone(n, v, total) ==
  /\ TakeHeader(n)
  /\ header_parsed' = TRUE
  /\ version' = v
  /\ nr_total' = total
  /\ buf' = buf + n
  /\ len' = len - n
  /\ consumed' = consumed + n
  /\ pc' = "version"
  /\ UNCHANGED ret

HeaderV0 == FirstWordIsCount /\ HeaderDone(WordMissing, 0, file.zero)

HeaderFull ==
  /\ ~FirstWordIsCount
  /\ len >= HeadMissing
  /\ HeaderDone(HeadMissing, file.version, file.nr)

HeaderShort ==
  /\ ~FirstWordIsCount
  /\ len < HeadMissing
  /\ TakeHeader(len)
  /\ ret' = len
  /\ pc' = "idle"
  /\ UNCHANGED <<header_parsed, version, nr_total, buf, len, consumed>>

-----------------------------------------------------------------------------
\* nd_parse_proc once the header is known: v0 and v2 entries are understood

RejectVersion ==
  /\ pc = "version"
  /\ version \notin {0, 2}
  /\ error' = -EINVAL
  /\ ret' = -EINVAL
  /\ pc' = "idle"
  /\ UNCHANGED <<inputVars, headVars, entryVars, listVars, given, buf, len,
                 consumed, nr, pos, heapVars>>

StartEntries ==
  /\ pc = "version"
  /\ version \in {0, 2}
  /\ nr' = nr_consumed
  /\ pos' = cur_e_pos
  /\ pc' = "entries"
  /\ UNCHANGED <<inputVars, headVars, entryVars, error, listVars, given, buf,
                 len, consumed, ret, heapVars>>

-----------------------------------------------------------------------------
\* One round of the loop over entries: copy what the chunk holds of the
\* current entry, then decode it, fail to allocate it, or wait for more

EntryLen == IF version = 0 THEN V0Len ELSE V2Len      \* goal_len
Copied   == Least(EntryLen - pos, len)                \* cpy_len
CurEntry == [j \in 0 .. EntryLen - 1 |-> cur_e[j]]    \* what mk_kad_peer reads

CopyIntoEntry ==
  /\ pc = "entries"
  /\ nr < nr_total
  /\ cur_e' = Memcpy(cur_e, pos, buf, Copied)
  /\ buf' = buf + Copied
  /\ len' = len - Copied
  /\ UNCHANGED <<inputVars, headVars, given>>

\* mutated: peers are pushed in front of the list
AppendPeerInFront(p) ==
  /\ decoded' = Append(decoded, CurEntry')
  /\ next' = Append(next, peers)
  /\ peers' = p
  /\ tail' = p

\* *(npc->tail) = p; npc->tail = &(p->next), for a fresh p
AppendPeer(p) ==
  /\ decoded' = Append(decoded, CurEntry')
  /\ next' = Append(IF tail = 0 THEN next ELSE [next EXCEPT ![tail] = p], 0)
  /\ peers' = IF tail = 0 THEN p ELSE peers
  /\ tail' = p

\* mutated: pos is not reset for the next entry
EntryDecodedKeepsPos ==
  /\ CopyIntoEntry
  /\ pos + Copied = EntryLen
  /\ AppendPeer(Len(decoded) + 1)
  /\ pos' = pos + Copied
  /\ nr' = nr + 1
  /\ consumed' = consumed + Copied
  /\ UNCHANGED <<nr_consumed, cur_e_pos, error, pc, ret, freed, held, walk>>

EntryDecoded ==
  /\ CopyIntoEntry
  /\ pos + Copied = EntryLen
  /\ AppendPeer(Len(decoded) + 1)
  /\ pos' = 0
  /\ nr' = nr + 1
  /\ consumed' = consumed + Copied
  /\ UNCHANGED <<nr_consumed, cur_e_pos, error, pc, ret, freed, held, walk>>

\* mutated: the position in the entry that could not be stored is kept
EntryNotAllocatedKeepsPos ==
  /\ CopyIntoEntry
  /\ pos + Copied = EntryLen
  /\ error' = -ENOMEM
  /\ nr_consumed' = nr
  /\ cur_e_pos' = pos + Copied
  /\ ret' = consumed
  /\ pc' = "idle"
  /\ UNCHANGED <<listVars, consumed, nr, pos, heapVars>>

\* malloc fails: the bytes just copied are not counted as consumed
EntryNotAllocated ==
  /\ CopyIntoEntry
  /\ pos + Copied = EntryLen
  /\ error' = -ENOMEM
  /\ nr_consumed' = nr
  /\ cur_e_pos' = 0
  /\ ret' = consumed
  /\ pc' = "idle"
  /\ UNCHANGED <<listVars, consumed, nr, pos, heapVars>>

\* mutated: the position in the entry is not saved
EntryIncompleteForgetsPos ==
  /\ CopyIntoEntry
  /\ pos + Copied # EntryLen
  /\ nr_consumed' = nr
  /\ ret' = consumed + Copied
  /\ pc' = "idle"
  /\ UNCHANGED <<cur_e_pos, error, listVars, consumed, nr, pos, heapVars>>

\* mutated: the bytes of the incomplete entry are not counted
EntryIncompleteUncounted ==
  /\ CopyIntoEntry
  /\ pos + Copied # EntryLen
  /\ cur_e_pos' = pos + Copied
  /\ nr_consumed' = nr
  /\ ret' = consumed
  /\ pc' = "idle"
  /\ UNCHANGED <<error, listVars, consumed, nr, pos, heapVars>>

EntryIncomplete ==
  /\ CopyIntoEntry
  /\ pos + Copied # EntryLen
  /\ cur_e_pos' = pos + Copied
  /\ nr_consumed' = nr
  /\ ret' = consumed + Copied
  /\ pc' = "idle"
  /\ UNCHANGED <<error, listVars, consumed, nr, pos, heapVars>>

\* every entry is read; nr_consumed and cur_e_pos keep what they held when
\* the call began
EntriesExhausted ==
  /\ pc = "entries"
  /\ nr >= nr_total
  /\ ret' = consumed
  /\ pc' = "idle"
  /\ UNCHANGED <<inputVars, headVars, entryVars, error, listVars, given, buf,
                 len, consumed, nr, pos, heapVars>>

-----------------------------------------------------------------------------
\* The caller and the peer list

libraryIdle == <<inputVars, headVars, entryVars, error, callVars>>

\* mutated: the list handed over stays the parser's
GetPeersKeepsHead ==
  /\ pc = "idle"
  /\ held = 0
  /\ held' = peers
  /\ UNCHANGED <<libraryIdle, listVars, pc, decoded, next, freed, walk>>

GetPeers ==
  /\ pc = "idle"
  /\ held = 0
  /\ held' = peers
  /\ peers' = 0
  /\ tail' = 0
  /\ UNCHANGED <<libraryIdle, pc, decoded, next, freed, walk>>

\* free_kad_peers, called by the owner of a list
FreePeers ==
  /\ pc = "idle"
  /\ held # 0
  /\ walk' = held
  /\ held' = 0
  /\ pc' = "free"
  /\ UNCHANGED <<libraryIdle, listVars, decoded, next, freed>>

\* nd_parse_destroy: free_kad_peers(npc->peers), then empty the list
Destroy ==
  /\ pc = "idle"
  /\ walk' = peers
  /\ pc' = "destroy"
  /\ UNCHANGED <<libraryIdle, listVars, decoded, next, freed, held>>

\* one round of the loop of free_kad_peers: read the link, then free
FreeOne ==
  /\ pc \in {"free", "destroy"}
  /\ walk # 0
  /\ freed' = freed \cup {walk}
  /\ walk' = next[walk]
  /\ UNCHANGED <<libraryIdle, listVars, pc, decoded, next, held>>

FreePeersDone ==
  /\ pc = "free"
  /\ walk = 0
  /\ pc' = "idle"
  /\ UNCHANGED <<libraryIdle, listVars, heapVars>>

DestroyDone ==
  /\ pc = "destroy"
  /\ walk = 0
  /\ peers' = 0
  /\ tail' = 0
  /\ pc' = "idle"
  /\ UNCHANGED <<libraryIdle, heapVars>>

-----------------------------------------------------------------------------
Call == \E n \in 0 .. file.size - fpos : ReturnAtOnce(n) \/ StartCall(n)

Parse ==
  \/ HeaderV0 \/ HeaderFull \/ HeaderShort
  \/ RejectVersion \/ StartEntries
  \/ EntryDecoded \/ EntryNotAllocated \/ EntryIncomplete \/ EntriesExhausted

Lists ==
  \/ GetPeers \/ FreePeers \/ Destroy
  \/ FreeOne \/ FreePeersDone \/ DestroyDone

Next == Call \/ Parse \/ Lists

Spec == Init /\ [][Next]_vars

-----------------------------------------------------------------------------
(* Properties *)

\* Types: positions stay inside what they index, links inside the heap.
TypeOK ==
  /\ file \in Files
  /\ fpos \in 0 .. file.size
  /\ head_pos \in 0 .. HeadLen /\ header_parsed \in BOOLEAN
  /\ version \in Nat /\ nr_total \in Nat /\ nr_consumed \in Nat
  /\ cur_e \in [0 .. V2Len - 1 -> Int] /\ cur_e_pos \in 0 .. V2Len - 1
  /\ error \in {0, -EINVAL, -ENOMEM}
  /\ peers \in 0 .. Len(decoded) /\ tail \in 0 .. Len(decoded)
  /\ pc \in {"idle", "header", "version", "entries", "free", "destroy"}
  /\ given \in Nat /\ buf \in Nat /\ len \in Nat /\ consumed \in Nat
  /\ nr \in Nat /\ pos \in 0 .. V2Len - 1 /\ ret \in Int
  /\ decoded \in Seq([0 .. EntryLen - 1 -> Int])
  /\ next \in Seq(0 .. Len(decoded)) /\ Len(next) = Len(decoded)
  /\ freed \subseteq 1 .. Len(decoded)
  /\ held \in 0 .. Len(decoded) /\ walk \in 0 .. Len(decoded)

\* every copy stays inside its source and its destination, so the unsigned
\* subtractions in the code (what is missing of the header, rem) never wrap
CopiesInBounds ==
  /\ pc = "header" => len > 0 /\ head_pos < HeadLen
  /\ pc = "entries" => 0 <= pos /\ pos < EntryLen
  /\ pc \in {"header", "version", "entries"} =>
       buf + len = fpos /\ consumed + len = given

HdrLen == IF file.zero # 0 THEN WordLen ELSE HeadLen
Complete == header_parsed /\ Len(decoded) >= nr_total

\* However the file is cut into chunks, the i-th peer is built from the bytes
\* of the i-th entry and from no others.
EntriesAreFileSlices ==
  \A i \in 1 .. Len(decoded) : i <= nr_total =>
    decoded[i] = [j \in 0 .. EntryLen - 1 |-> HdrLen + (i - 1) * EntryLen + j]

\* A file that ends with its last entry never yields more peers than its
\* header announces.
NoExtraPeers ==
  header_parsed /\ file.size <= HdrLen + nr_total * EntryLen =>
    Len(decoded) <= nr_total

\* A count short of the chunk, without an error pending, is only returned when
\* the last entry has been decoded: a caller that stops there loses nothing.
ShortCountMeansComplete ==
  pc = "idle" /\ error = 0 /\ ret < given => Complete

\* The peers on the list at p: links go from each peer to the next one.
Chain(p) ==
  IF p = 0 THEN {}
  ELSE {i \in p .. Len(decoded) : \A j \in p .. i - 1 : next[j] = j + 1}

ParserPeers == IF pc = "destroy" THEN {} ELSE Chain(peers)

\* A peer is on the parser's list, on the caller's, on the list being freed or
\* freed: never on two of them (freed twice, used after free), never on none
\* (leaked).
OneOwnerPerPeer ==
  /\ freed \cup ParserPeers \cup Chain(held) \cup Chain(walk)
       = 1 .. Len(decoded)
  /\ freed \cap (ParserPeers \cup Chain(held) \cup Chain(walk)) = {}
  /\ ParserPeers \cap (Chain(held) \cup Chain(walk)) = {}
  /\ Chain(held) \cap Chain(walk) = {}

\* The link to append through ends the parser's list, so a peer decoded after
\* nd_parse_get_peers is never linked to a list the caller owns.
TailEndsParserList ==
  pc # "destroy" =>
    /\ peers = 0 <=> tail = 0
    /\ tail # 0 => tail \in ParserPeers /\ next[tail] = 0

\* After an error nothing more is decoded and every call returns that error.
ErrorIsSticky ==
  [][error < 0 => /\ UNCHANGED <<error, decoded>>
                  /\ fpos' # fpos => ret' = error]_vars

\* The life of every peer follows the ownership protocol of the header.
OwnerOf(i) ==
  IF i \in freed THEN "freed"
  ELSE IF i \in Chain(held) \/ (pc = "free" /\ i \in Chain(walk)) THEN "caller"
  ELSE "parser"

Owners == [i \in 1 .. Len(decoded) |-> OwnerOf(i)]

Ownership == INSTANCE PeerOwnership WITH owner <- Owners

KeepsOwnership == Ownership!Spec

=============================================================================
