--------------------------- MODULE NodesDatProof ---------------------------
(* Proofs about NodesDat, and about the program NdReader on top of it, for files,
   chunks and entry lengths of any size. *)
EXTENDS NodesDatInv, NdReader, TLAPS

TInv == TypeOK /\ Control

\* an entry has at least one byte and at most those of version 2
LEMMA EntryLenType ==
  ASSUME version \in Nat
  PROVE  EntryLen \in Nat \ {0} /\ EntryLen <= V2Len
BY LengthsAssumption DEF EntryLen

\* what one call copies of an entry
LEMMA CopiedType ==
  ASSUME TypeOK, Control, pc = "entries"
  PROVE  /\ Copied \in Nat /\ Copied <= len /\ pos + Copied <= EntryLen
         /\ pos + Copied # EntryLen => Copied = len
<1>1. EntryLen \in Nat /\ pos \in Nat /\ pos < EntryLen /\ len \in Nat
  BY EntryLenType DEF TypeOK, Control
<1>2. QED
  BY <1>1 DEF Copied, Least

\* the fields of a file are naturals
LEMMA FileType ==
  ASSUME file \in Files
  PROVE  file.zero \in Nat /\ file.version \in Nat /\ file.nr \in Nat /\ file.size \in Nat
BY FilesAssumption

\* what one round of the copy loop does, whatever it finds
LEMMA CopyStep ==
  ASSUME TypeOK, Control, CopyIntoEntry
  PROVE  /\ Copied \in Nat /\ Copied <= len /\ pos + Copied <= EntryLen
         /\ pos + Copied # EntryLen => Copied = len
         /\ cur_e' \in [0 .. V2Len - 1 -> Int]
         /\ \A j \in 0 .. V2Len - 1 :
              /\ j < pos => cur_e'[j] = cur_e[j]
              /\ pos <= j /\ j < pos + Copied => cur_e'[j] = buf + (j - pos)
         /\ buf' \in Nat /\ len' \in Nat /\ buf' + len' = fpos'
         /\ EntryLen' = EntryLen
         /\ CurEntry' \in [0 .. EntryLen - 1 -> Int]
<1>0. pc = "entries"
  BY DEF CopyIntoEntry
<1>1. /\ Copied \in Nat /\ Copied <= len /\ pos + Copied <= EntryLen
      /\ pos + Copied # EntryLen => Copied = len
  BY <1>0, CopiedType
<1>2. pos \in Nat /\ buf \in Nat /\ len \in Nat /\ cur_e \in [0 .. V2Len - 1 -> Int]
  BY LengthsAssumption DEF TypeOK
<1>3. /\ cur_e' \in [0 .. V2Len - 1 -> Int]
      /\ \A j \in 0 .. V2Len - 1 :
           /\ pos <= j /\ j < pos + Copied => cur_e'[j] = buf + (j - pos)
           /\ ~(pos <= j /\ j < pos + Copied) => cur_e'[j] = cur_e[j]
  <2>1. cur_e' = [j \in 0 .. V2Len - 1 |->
                   IF pos <= j /\ j < pos + Copied THEN buf + (j - pos) ELSE cur_e[j]]
    BY <1>2 DEF CopyIntoEntry, Memcpy
  <2>2. \A j \in 0 .. V2Len - 1 : cur_e[j] \in Int /\ buf + (j - pos) \in Int
    BY <1>2, LengthsAssumption
  <2>3. QED
    BY <2>1, <2>2
<1>4. EntryLen' = EntryLen /\ fpos' = fpos
  BY DEF CopyIntoEntry, EntryLen, headVars, inputVars
<1>5. buf' \in Nat /\ len' \in Nat /\ buf' + len' = fpos'
  BY <1>0, <1>1, <1>2, <1>4 DEF CopyIntoEntry, Control, InCall
<1>6. EntryLen \in Nat /\ EntryLen <= V2Len
  BY EntryLenType DEF TypeOK
<1>7. CurEntry' \in [0 .. EntryLen - 1 -> Int]
  <2>1. CurEntry' = [j \in 0 .. EntryLen - 1 |-> cur_e'[j]]
    BY <1>4 DEF CurEntry
  <2>2. \A j \in 0 .. EntryLen - 1 : cur_e'[j] \in Int
    BY <1>3, <1>6, LengthsAssumption
  <2>3. QED
    BY <2>1, <2>2
<1>8. \A j \in 0 .. V2Len - 1 : j < pos => ~(pos <= j /\ j < pos + Copied)
  BY <1>2, LengthsAssumption
<1>9. QED
  BY <1>1, <1>3, <1>4, <1>5, <1>7, <1>8

\* what a decoded entry does to the heap
LEMMA AppendStep ==
  ASSUME TypeOK, Control, EntryDecoded
  PROVE  /\ decoded' = Append(decoded, CurEntry')
         /\ decoded' \in Seq([0 .. EntryLen' - 1 -> Int])
         /\ Len(decoded') = Len(decoded) + 1
         /\ next' \in Seq(0 .. Len(decoded'))
         /\ Len(next') = Len(next) + 1
         /\ next'[Len(next) + 1] = 0
         /\ \A i \in 1 .. Len(next) :
              next'[i] = IF i = tail THEN Len(next) + 1 ELSE next[i]
<1>1. /\ decoded' = Append(decoded, CurEntry')
      /\ next' = Append(IF tail = 0 THEN next
                        ELSE [next EXCEPT ![tail] = Len(decoded) + 1], 0)
  BY DEF EntryDecoded, AppendPeer
<1>2. CurEntry' \in [0 .. EntryLen' - 1 -> Int] /\ EntryLen' = EntryLen
  BY CopyStep DEF EntryDecoded
<1>3. decoded \in Seq([0 .. EntryLen - 1 -> Int])
  BY DEF TypeOK
<1>4. /\ decoded' \in Seq([0 .. EntryLen' - 1 -> Int])
      /\ Len(decoded') = Len(decoded) + 1
  BY <1>1, <1>2, <1>3
<1>5. /\ next \in Seq(0 .. Len(decoded)) /\ Len(next) = Len(decoded)
      /\ tail \in 0 .. Len(decoded) /\ Len(decoded) \in Nat
  BY <1>3 DEF TypeOK
<1> DEFINE linked == IF tail = 0 THEN next
                     ELSE [next EXCEPT ![tail] = Len(decoded) + 1]
<1>6. /\ linked \in Seq(0 .. Len(decoded) + 1) /\ Len(linked) = Len(next)
      /\ \A i \in 1 .. Len(next) :
           linked[i] = IF i = tail THEN Len(next) + 1 ELSE next[i]
  <2>1. CASE tail = 0
    BY <2>1, <1>5
  <2>2. CASE tail # 0
    BY <2>2, <1>5
  <2>3. QED
    BY <2>1, <2>2
<1>7. next' = Append(linked, 0)
  BY <1>1
<1> HIDE DEF linked
<1>8. /\ next' \in Seq(0 .. Len(decoded')) /\ Len(next') = Len(next) + 1
      /\ next'[Len(next) + 1] = 0
      /\ \A i \in 1 .. Len(next) : next'[i] = linked[i]
  BY <1>4, <1>5, <1>6, <1>7
<1>9. QED
  BY <1>1, <1>4, <1>6, <1>8

-----------------------------------------------------------------------------
(* TypeOK in two parts: what a call reads and writes, and the heap. *)

CallTypes ==
  /\ file \in Files
  /\ fpos \in 0 .. file.size
  /\ head_pos \in 0 .. HeadLen /\ header_parsed \in BOOLEAN
  /\ version \in Nat /\ nr_total \in Nat /\ nr_consumed \in Nat
  /\ cur_e \in [0 .. V2Len - 1 -> Int] /\ cur_e_pos \in 0 .. V2Len - 1
  /\ error \in {0, -EINVAL, -ENOMEM}
  /\ pc \in {"idle", "header", "version", "entries", "free", "destroy"}
  /\ given \in Nat /\ buf \in Nat /\ len \in Nat /\ consumed \in Nat
  /\ nr \in Nat /\ pos \in 0 .. V2Len - 1 /\ ret \in Int

HeapTypes ==
  /\ peers \in 0 .. Len(decoded) /\ tail \in 0 .. Len(decoded)
  /\ decoded \in Seq([0 .. EntryLen - 1 -> Int])
  /\ next \in Seq(0 .. Len(decoded)) /\ Len(next) = Len(decoded)
  /\ freed \subseteq 1 .. Len(decoded)
  /\ held \in 0 .. Len(decoded) /\ walk \in 0 .. Len(decoded)

\* the type invariant in two halves, ...
LEMMA TypeParts == (TypeOK <=> CallTypes /\ HeapTypes)
BY DEF TypeOK, CallTypes, HeapTypes

\* ... also after a step
LEMMA TypePartsNext == CallTypes' /\ HeapTypes' => TypeOK'
BY DEF TypeOK, CallTypes, HeapTypes

\* before the header is read there is no peer whose bytes could have another
\* length afterwards
LEMMA HeapKept ==
  ASSUME HeapTypes, UNCHANGED <<listVars, heapVars>>,
         decoded = <<>> \/ EntryLen' = EntryLen
  PROVE  HeapTypes'
<1>1. UNCHANGED <<peers, tail, decoded, next, freed, held, walk>>
  BY DEF listVars, heapVars
<1>2. decoded' \in Seq([0 .. EntryLen' - 1 -> Int])
  <2>1. CASE decoded = <<>>
    BY <1>1, <2>1
  <2>2. CASE EntryLen' = EntryLen
    BY <1>1, <2>2 DEF HeapTypes
  <2>3. QED
    BY <2>1, <2>2
<1>3. QED
  BY <1>1, <1>2 DEF HeapTypes

\* types and control hold at the start, ...
LEMMA TInvInit == Init => TInv
<1> SUFFICES ASSUME Init PROVE TInv
  OBVIOUS
<1>1. EntryLen \in Nat \ {0} /\ HeadLen \in Nat \ {0}
  BY EntryLenType, LengthsAssumption DEF Init, HeadLen
<1>2. cur_e \in [0 .. V2Len - 1 -> Int]
  BY DEF Init
<1>3. TypeOK
  BY <1>1, <1>2, FileType, LengthsAssumption DEF Init, TypeOK
<1>4. Control
  BY <1>1, LengthsAssumption DEF Init, Control, InCall
<1>5. QED
  BY <1>3, <1>4 DEF TInv

\* ... and every step keeps them
LEMMA TInvNext == TInv /\ [Next]_vars => TInv'
<1> SUFFICES ASSUME TInv, [Next]_vars PROVE TInv'
  OBVIOUS
<1> USE DEF TInv
<1>0. /\ version \in Nat /\ EntryLen \in Nat \ {0} /\ EntryLen <= V2Len
      /\ HeadLen \in Nat /\ WordLen \in Nat /\ WordLen < HeadLen
  BY EntryLenType, LengthsAssumption DEF TypeOK, HeadLen
<1>1. ASSUME NEW n \in 0 .. file.size - fpos, ReturnAtOnce(n)
      PROVE TInv'
  <2>1. HeapTypes'
    <3>1. UNCHANGED <<listVars, heapVars>> /\ (decoded = <<>> \/ EntryLen' = EntryLen)
      BY <1>1, <1>0, FilesAssumption
      DEF Control, InCall, ReturnAtOnce, PassChunk, EntryLen, EINVAL, ENOMEM, headVars,
          entryVars
    <3>2. QED
      BY <3>1, HeapKept, TypeParts
  <2>2. CallTypes'
    <3>1. CallTypes
      BY TypeParts
    <3>2. QED
      BY <3>1, <1>1, <1>0, FilesAssumption
      DEF CallTypes, Control, InCall, ReturnAtOnce, PassChunk, EntryLen, EINVAL, ENOMEM,
          headVars, entryVars
  <2>3. Control'
    BY <1>1, <1>0, FilesAssumption
    DEF TypeOK, Control, InCall, ReturnAtOnce, PassChunk, EntryLen, EINVAL, ENOMEM,
        headVars, entryVars, listVars, heapVars
  <2>4. QED
    BY <2>1, <2>2, <2>3, TypePartsNext
<1>2. ASSUME NEW n \in 0 .. file.size - fpos, StartCall(n)
      PROVE TInv'
  <2>1. HeapTypes'
    <3>1. UNCHANGED <<listVars, heapVars>> /\ (decoded = <<>> \/ EntryLen' = EntryLen)
      BY <1>2, <1>0, FilesAssumption
      DEF Control, InCall, StartCall, PassChunk, EntryLen, EINVAL, ENOMEM, headVars,
          entryVars
    <3>2. QED
      BY <3>1, HeapKept, TypeParts
  <2>2. CallTypes'
    <3>1. CallTypes
      BY TypeParts
    <3>2. QED
      BY <3>1, <1>2, <1>0, FilesAssumption
      DEF CallTypes, Control, InCall, StartCall, PassChunk, EntryLen, EINVAL, ENOMEM,
          headVars, entryVars
  <2>3. Control'
    <3>1. /\ n \in Nat /\ fpos \in Nat /\ n > 0 /\ error = 0
          /\ fpos' = fpos + n /\ given' = n /\ buf' = fpos /\ len' = n /\ consumed' = 0
          /\ pc = "idle" /\ pc' = IF header_parsed THEN "version" ELSE "header"
      <4>1. n \in Nat /\ fpos \in Nat
        BY FileType DEF TypeOK
      <4>2. QED
        BY <4>1, <1>2 DEF StartCall, PassChunk, TypeOK, EINVAL, ENOMEM
    <3>2. UNCHANGED <<file, head_pos, header_parsed, version, nr_consumed, cur_e_pos,
                      error, decoded>>
      BY <1>2 DEF StartCall, headVars, entryVars, heapVars
    <3>3. EntryLen' = EntryLen
      BY <3>2 DEF EntryLen
    <3>4. QED
      BY <3>1, <3>2, <3>3 DEF Control, InCall
  <2>4. QED
    BY <2>1, <2>2, <2>3, TypePartsNext
<1>3. ASSUME HeaderV0 PROVE TInv'
  <2>1. HeapTypes'
    <3>1. UNCHANGED <<listVars, heapVars>> /\ (decoded = <<>> \/ EntryLen' = EntryLen)
      BY <1>3, <1>0, FilesAssumption, LengthsAssumption
      DEF Control, InCall, HeaderV0, HeaderDone, TakeHeader, FirstWordIsCount,
          WordMissing, EntryLen, HeadLen, inputVars, entryVars
    <3>2. QED
      BY <3>1, HeapKept, TypeParts
  <2>2. CallTypes'
    <3>1. CallTypes
      BY TypeParts
    <3>2. QED
      BY <3>1, <1>3, <1>0, FilesAssumption, LengthsAssumption
      DEF CallTypes, Control, InCall, HeaderV0, HeaderDone, TakeHeader,
          FirstWordIsCount, WordMissing, EntryLen, HeadLen, inputVars, entryVars
  <2>3. Control'
    BY <1>3, <1>0, FilesAssumption, LengthsAssumption
    DEF TypeOK, Control, InCall, HeaderV0, HeaderDone, TakeHeader, FirstWordIsCount,
        WordMissing, EntryLen, HeadLen, inputVars, entryVars, listVars, heapVars
  <2>4. QED
    BY <2>1, <2>2, <2>3, TypePartsNext
<1>4. ASSUME HeaderFull PROVE TInv'
  <2>1. HeapTypes'
    <3>1. UNCHANGED <<listVars, heapVars>> /\ (decoded = <<>> \/ EntryLen' = EntryLen)
      BY <1>4, <1>0, FilesAssumption, LengthsAssumption
      DEF Control, InCall, HeaderFull, HeaderDone, TakeHeader, FirstWordIsCount,
          HeadMissing, EntryLen, HeadLen, inputVars, entryVars
    <3>2. QED
      BY <3>1, HeapKept, TypeParts
  <2>2. CallTypes'
    <3>1. CallTypes
      BY TypeParts
    <3>2. QED
      BY <3>1, <1>4, <1>0, FilesAssumption, LengthsAssumption
      DEF CallTypes, Control, InCall, HeaderFull, HeaderDone, TakeHeader,
          FirstWordIsCount, HeadMissing, EntryLen, HeadLen, inputVars, entryVars
  <2>3. Control'
    BY <1>4, <1>0, FilesAssumption, LengthsAssumption
    DEF TypeOK, Control, InCall, HeaderFull, HeaderDone, TakeHeader, FirstWordIsCount,
        HeadMissing, EntryLen, HeadLen, inputVars, entryVars, listVars, heapVars
  <2>4. QED
    BY <2>1, <2>2, <2>3, TypePartsNext
<1>5. ASSUME HeaderShort PROVE TInv'
  <2>1. HeapTypes'
    <3>1. UNCHANGED <<listVars, heapVars>> /\ (decoded = <<>> \/ EntryLen' = EntryLen)
      BY <1>5, <1>0, FilesAssumption, LengthsAssumption
      DEF Control, InCall, HeaderShort, TakeHeader, FirstWordIsCount, WordMissing,
          HeadMissing, EntryLen, HeadLen, inputVars, entryVars
    <3>2. QED
      BY <3>1, HeapKept, TypeParts
  <2>2. CallTypes'
    <3>1. CallTypes
      BY TypeParts
    <3>2. QED
      BY <3>1, <1>5, <1>0, FilesAssumption, LengthsAssumption
      DEF CallTypes, Control, InCall, HeaderShort, TakeHeader, FirstWordIsCount,
          WordMissing, HeadMissing, EntryLen, HeadLen, inputVars, entryVars
  <2>3. Control'
    BY <1>5, <1>0, FilesAssumption, LengthsAssumption
    DEF TypeOK, Control, InCall, HeaderShort, TakeHeader, FirstWordIsCount, WordMissing,
        HeadMissing, EntryLen, HeadLen, inputVars, entryVars, listVars, heapVars
  <2>4. QED
    BY <2>1, <2>2, <2>3, TypePartsNext
<1>6. ASSUME RejectVersion PROVE TInv'
  <2>1. HeapTypes'
    <3>1. UNCHANGED <<listVars, heapVars>> /\ (decoded = <<>> \/ EntryLen' = EntryLen)
      BY <1>6, <1>0
      DEF Control, InCall, RejectVersion, EntryLen, EINVAL, ENOMEM, inputVars, headVars,
          entryVars
    <3>2. QED
      BY <3>1, HeapKept, TypeParts
  <2>2. CallTypes'
    <3>1. CallTypes
      BY TypeParts
    <3>2. QED
      BY <3>1, <1>6, <1>0
      DEF CallTypes, Control, InCall, RejectVersion, EntryLen, EINVAL, ENOMEM,
          inputVars, headVars, entryVars
  <2>3. Control'
    BY <1>6, <1>0
    DEF TypeOK, Control, InCall, RejectVersion, EntryLen, EINVAL, ENOMEM, inputVars,
        headVars, entryVars, listVars, heapVars
  <2>4. QED
    BY <2>1, <2>2, <2>3, TypePartsNext
<1>7. ASSUME StartEntries PROVE TInv'
  BY <1>7, <1>0
  DEF TypeOK, Control, InCall, StartEntries, EntryLen, EINVAL, ENOMEM,
      inputVars, headVars, entryVars, listVars, heapVars
<1>8. ASSUME EntryDecoded PROVE TInv'
  <2>1. CopyIntoEntry
    BY <1>8 DEF EntryDecoded
  <2>2. UNCHANGED <<inputVars, headVars, nr_consumed, cur_e_pos, error, pc, held, walk, freed, given, ret>>
    BY <1>8, <2>1 DEF EntryDecoded, CopyIntoEntry
  <2>3. pos' = 0 /\ nr' = nr + 1 /\ consumed' = consumed + Copied
    BY <1>8 DEF EntryDecoded
  <2>4. /\ peers' \in 0 .. Len(decoded') /\ tail' \in 0 .. Len(decoded')
        /\ Len(decoded) \in Nat /\ Len(next') = Len(decoded')
    <3>1. Len(decoded') = Len(decoded) + 1 /\ Len(next') = Len(next) + 1
      BY <1>8, AppendStep
    <3>2. /\ peers' = (IF tail = 0 THEN Len(decoded) + 1 ELSE peers)
          /\ tail' = Len(decoded) + 1
      BY <1>8 DEF EntryDecoded, AppendPeer
    <3>3. Len(decoded) \in Nat /\ Len(next) = Len(decoded) /\ peers \in 0 .. Len(decoded)
      BY DEF TypeOK
    <3>4. QED
      BY <3>1, <3>2, <3>3
  <2>5. /\ Copied \in Nat /\ cur_e' \in [0 .. V2Len - 1 -> Int]
        /\ buf' \in Nat /\ len' \in Nat /\ buf' + len' = fpos'
        /\ len' = len - Copied /\ EntryLen' = EntryLen
    BY <2>1, CopyStep DEF CopyIntoEntry
  <2>6. /\ decoded' \in Seq([0 .. EntryLen' - 1 -> Int])
        /\ next' \in Seq(0 .. Len(decoded'))
        /\ Len(decoded') = Len(decoded) + 1
    BY <1>8, AppendStep
  <2>7. /\ freed' \subseteq 1 .. Len(decoded')
        /\ held' \in 0 .. Len(decoded') /\ walk' \in 0 .. Len(decoded')
    <3>1. /\ freed \subseteq 1 .. Len(decoded)
          /\ held \in 0 .. Len(decoded) /\ walk \in 0 .. Len(decoded)
      BY DEF TypeOK
    <3>2. freed' = freed /\ held' = held /\ walk' = walk
      BY <2>2
    <3>3. Len(decoded) \in Nat /\ Len(decoded') = Len(decoded) + 1
      BY <2>4, <2>6
    <3>4. QED
      BY <3>1, <3>2, <3>3
  <2>8. /\ pos' \in 0 .. V2Len - 1 /\ nr' \in Nat /\ consumed' \in Nat
        /\ given' \in Nat /\ ret' \in Int /\ error' \in {0, -EINVAL, -ENOMEM}
        /\ pc' \in {"idle", "header", "version", "entries", "free", "destroy"}
    BY <2>2, <2>3, <2>5, LengthsAssumption DEF TypeOK
  <2>9. /\ file' \in Files /\ fpos' \in 0 .. file'.size
        /\ head_pos' \in 0 .. HeadLen /\ header_parsed' \in BOOLEAN
        /\ version' \in Nat /\ nr_total' \in Nat /\ nr_consumed' \in Nat
        /\ cur_e_pos' \in 0 .. V2Len - 1
    BY <2>2 DEF TypeOK, inputVars, headVars
  <2>10. TypeOK'
    BY <2>4, <2>5, <2>6, <2>7, <2>8, <2>9 DEF TypeOK
  <2>11. Control'
    BY <2>1, <2>2, <2>3, <2>5, <1>0
    DEF TypeOK, Control, InCall, CopyIntoEntry, inputVars, headVars
  <2>12. QED
    BY <2>10, <2>11
<1>9. ASSUME EntryNotAllocated \/ EntryIncomplete PROVE TInv'
  <2>1. CopyIntoEntry
    BY <1>9 DEF EntryNotAllocated, EntryIncomplete
  <2>2. /\ Copied \in Nat /\ cur_e' \in [0 .. V2Len - 1 -> Int]
        /\ buf' \in Nat /\ len' \in Nat /\ EntryLen' = EntryLen
        /\ pos + Copied <= EntryLen
        /\ pos \in Nat /\ nr \in Nat /\ consumed \in Nat
    <3>1. /\ Copied \in Nat /\ cur_e' \in [0 .. V2Len - 1 -> Int]
          /\ buf' \in Nat /\ len' \in Nat /\ EntryLen' = EntryLen
          /\ pos + Copied <= EntryLen
      BY <2>1, CopyStep
    <3>2. pos \in Nat /\ nr \in Nat /\ consumed \in Nat
      BY LengthsAssumption DEF TypeOK
    <3>3. QED
      BY <3>1, <3>2
  <2>3. /\ cur_e_pos' \in 0 .. V2Len - 1 /\ cur_e_pos' < EntryLen
        /\ nr_consumed' \in Nat /\ ret' \in Int
    <3>1. /\ cur_e_pos' \in {0, pos + Copied} /\ (pos + Copied = EntryLen => cur_e_pos' = 0)
          /\ nr_consumed' = nr /\ ret' \in {consumed, consumed + Copied}
      BY <1>9, <2>2 DEF EntryNotAllocated, EntryIncomplete
    <3>2. cur_e_pos' \in Nat /\ cur_e_pos' < EntryLen
      BY <3>1, <2>2, <1>0
    <3>3. QED
      BY <3>1, <3>2, <2>2, <1>0, LengthsAssumption
  <2>4. /\ UNCHANGED <<inputVars, headVars, listVars, given, consumed, nr, pos, heapVars>>
        /\ pc' = "idle" /\ error' \in {0, -EINVAL, -ENOMEM}
    BY <1>9, <2>1 DEF EntryNotAllocated, EntryIncomplete, CopyIntoEntry, TypeOK
  <2>5. TypeOK'
    BY <2>2, <2>3, <2>4, <1>0 DEF TypeOK, inputVars, headVars, listVars, heapVars
  <2>6. Control'
    BY <2>1, <2>2, <2>3, <2>4, <1>0
    DEF TypeOK, Control, InCall, CopyIntoEntry, inputVars, headVars
  <2>7. QED
    BY <2>5, <2>6
<1>11. ASSUME EntriesExhausted PROVE TInv'
  <2>1. HeapTypes'
    <3>1. UNCHANGED <<listVars, heapVars>> /\ (decoded = <<>> \/ EntryLen' = EntryLen)
      BY <1>11, <1>0
      DEF Control, InCall, EntriesExhausted, EntryLen, EINVAL, ENOMEM, inputVars,
          headVars, entryVars
    <3>2. QED
      BY <3>1, HeapKept, TypeParts
  <2>2. CallTypes'
    <3>1. CallTypes
      BY TypeParts
    <3>2. QED
      BY <3>1, <1>11, <1>0
      DEF CallTypes, Control, InCall, EntriesExhausted, EntryLen, EINVAL, ENOMEM,
          inputVars, headVars, entryVars
  <2>3. Control'
    BY <1>11, <1>0
    DEF TypeOK, Control, InCall, EntriesExhausted, EntryLen, EINVAL, ENOMEM, inputVars,
        headVars, entryVars, listVars, heapVars
  <2>4. QED
    BY <2>1, <2>2, <2>3, TypePartsNext
<1>12. ASSUME Lists PROVE TInv'
  <2>1. UNCHANGED <<inputVars, headVars, entryVars, error, callVars, decoded, next>>
    BY <1>12 DEF Lists, GetPeers, FreePeers, Destroy, FreeOne, FreePeersDone, DestroyDone,
        libraryIdle, heapVars
  <2>2. /\ peers \in 0 .. Len(decoded) /\ tail \in 0 .. Len(decoded)
        /\ held \in 0 .. Len(decoded) /\ walk \in 0 .. Len(decoded)
        /\ freed \subseteq 1 .. Len(decoded)
        /\ Len(decoded) \in Nat
        /\ \A i \in 1 .. Len(decoded) : next[i] \in 0 .. Len(decoded)
    <3>1. HeapTypes
      BY TypeParts
    <3>2. QED
      BY <3>1 DEF HeapTypes
  <2>3. /\ peers' \in 0 .. Len(decoded) /\ tail' \in 0 .. Len(decoded)
        /\ held' \in 0 .. Len(decoded) /\ walk' \in 0 .. Len(decoded)
        /\ freed' \subseteq 1 .. Len(decoded)
        /\ pc' \in {"idle", "free", "destroy"}
    <3>1. CASE FreeOne
      BY <3>1, <2>2 DEF FreeOne, listVars
    <3>2. CASE GetPeers
      BY <3>2, <2>2 DEF GetPeers
    <3>3. CASE FreePeers
      BY <3>3, <2>2 DEF FreePeers, listVars
    <3>7. CASE Destroy
      BY <3>7, <2>2 DEF Destroy, listVars
    <3>4. CASE FreePeersDone
      BY <3>4, <2>2 DEF FreePeersDone, listVars, heapVars
    <3>5. CASE DestroyDone
      BY <3>5, <2>2 DEF DestroyDone, heapVars
    <3>6. QED
      BY <1>12, <3>1, <3>2, <3>3, <3>4, <3>5, <3>7 DEF Lists
  <2>4. TypeOK'
    BY <2>1, <2>3 DEF TypeOK, EntryLen, inputVars, headVars, entryVars, callVars
  <2>5. pc \notin {"header", "version", "entries"}
    BY <1>12
    DEF Lists, GetPeers, FreePeers, Destroy, FreeOne, FreePeersDone, DestroyDone
  <2>6. Control'
    BY <2>1, <2>3, <2>5
    DEF Control, InCall, EntryLen, inputVars, headVars, entryVars, callVars
  <2>7. QED
    BY <2>4, <2>6
<1>13. CASE UNCHANGED vars
  BY <1>13 DEF TypeOK, Control, InCall, EntryLen, vars, inputVars, headVars, entryVars,
      listVars, callVars, heapVars
<1> HIDE DEF TInv
<1>14. ASSUME Call PROVE TInv'
  BY <1>14, <1>1, <1>2 DEF Call
<1>15. ASSUME Parse PROVE TInv'
  BY <1>15, <1>3, <1>4, <1>5, <1>6, <1>7, <1>8, <1>9, <1>11 DEF Parse
<1>16. QED
  BY <1>12, <1>13, <1>14, <1>15 DEF Next

\* Every state has the types of TypeOK, and every copy of the parser stays in
\* bounds, for chunks, words, entries and files of any size.
THEOREM TypeCorrect == Spec => [](TypeOK /\ CopiesInBounds)
<1>1. TInv => TypeOK /\ CopiesInBounds
  <2> SUFFICES ASSUME TInv PROVE CopiesInBounds
    BY DEF TInv
  <2>1. pos \in Nat
    BY LengthsAssumption DEF TInv, TypeOK
  <2>2. Control
    BY DEF TInv
  <2>3. QED
    BY <2>1, <2>2 DEF Control, InCall, CopiesInBounds
<1>2. QED
  BY <1>1, TInvInit, TInvNext, PTL DEF Spec

-----------------------------------------------------------------------------
(* Which bytes the parser has, and what it tells the caller. *)

BInv == HeaderIsRead /\ CursorInEntry /\ EntriesAreFileSlices /\ NothingLeft /\ ShortCount

\* multiples, one by one
LEMMA Multiples ==
  ASSUME NEW n \in Nat, NEW i \in Nat
  PROVE  0 * n = 0 /\ i * n \in Nat /\ (i + 1) * n = i * n + n
OBVIOUS

\* a number between two equal ones
LEMMA Squeezed ==
  ASSUME NEW s \in Nat, NEW f \in Nat, NEW b \in Nat, NEW l \in Nat,
         f <= s, s <= b, b + l = f
  PROVE  f = s
OBVIOUS

\* one entry begins where the one before it ends
LEMMA EntryStartStep ==
  ASSUME TInv, NEW i \in Nat
  PROVE  /\ HdrLen \in Nat /\ EntryStart(0) = HdrLen
         /\ EntryStart(i) \in Nat
         /\ EntryStart(i + 1) = EntryStart(i) + EntryLen
<1>1. EntryLen \in Nat /\ WordLen \in Nat /\ HeadLen \in Nat
  BY EntryLenType, LengthsAssumption DEF TInv, TypeOK, HeadLen
<1>2. HdrLen \in Nat
  BY <1>1 DEF HdrLen
<1>3. /\ i * EntryLen \in Nat /\ 0 * EntryLen = 0
      /\ (i + 1) * EntryLen = i * EntryLen + EntryLen
  BY <1>1
<1>4. QED
  BY <1>1, <1>2, <1>3 DEF EntryStart

\* nothing is read at the start, ...
LEMMA BInvInit == Init => BInv
<1> SUFFICES ASSUME Init PROVE BInv
  OBVIOUS
<1>1. ~header_parsed /\ Len(decoded) = 0 /\ ret = given
  BY DEF Init
<1>2. QED
  BY <1>1 DEF BInv, HeaderIsRead, CursorInEntry, InProgress, EntriesAreFileSlices,
              NothingLeft, ShortCount, Init

\* ... the header is read whole, ...
LEMMA BInvHeader ==
  ASSUME TInv, TInv', BInv, HeaderV0 \/ HeaderFull
  PROVE  BInv'
<1> USE DEF TInv
<1>1. /\ pc = "header" /\ ~header_parsed /\ head_pos = buf /\ buf + len = fpos
      /\ nr_consumed = 0 /\ cur_e_pos = 0 /\ decoded = <<>> /\ error = 0
      /\ file.zero # 0 => head_pos < WordLen
  BY DEF HeaderV0, HeaderFull, HeaderDone, TakeHeader, Control, InCall
<1>2. /\ head_pos \in Nat /\ head_pos < HeadLen /\ len \in Nat
      /\ WordLen \in Nat /\ HeadLen \in Nat /\ WordLen < HeadLen
  BY <1>1, LengthsAssumption DEF TypeOK, Control, HeadLen
<1>3. /\ file.zero \in Nat /\ file.version \in Nat /\ file.nr \in Nat /\ file.size \in Nat
      /\ fpos \in 0 .. file.size
  BY FileType DEF TypeOK
<1>4. /\ pc' = "version" /\ header_parsed' /\ decoded' = <<>> /\ error' = 0
      /\ nr_consumed' = 0 /\ cur_e_pos' = 0 /\ file' = file /\ fpos' = fpos
      /\ HdrLen' = HdrLen
  BY <1>1 DEF HeaderV0, HeaderFull, HeaderDone, TakeHeader, inputVars, entryVars, heapVars,
              HdrLen
<1>5. /\ HeaderIsRead' /\ buf' = HdrLen
  <2>1. CASE HeaderV0
    BY <2>1, <1>1, <1>2, <1>4
    DEF HeaderV0, FirstWordIsCount, WordMissing, HeaderDone, HeaderIsRead, HdrLen
  <2>2. CASE HeaderFull
    <3>1. file.zero = 0
      BY <2>2, <1>1, <1>2, <1>3
      DEF HeaderFull, FirstWordIsCount, WordMissing, HeadMissing
    <3>2. buf' = HeadLen
      BY <2>2, <1>1, <1>2 DEF HeaderFull, HeadMissing, HeaderDone
    <3>3. QED
      BY <2>2, <3>1, <3>2, <1>4 DEF HeaderFull, HeaderDone, HeaderIsRead, HdrLen
  <2>3. QED
    BY <2>1, <2>2
<1>6. Len(decoded') = 0 /\ (EntryStart(Len(decoded)))' = HdrLen'
  <2>1. EntryLen' \in Nat /\ HdrLen' \in Nat
    BY <1>2, <1>4, LengthsAssumption DEF HdrLen, EntryLen
  <2>2. Len(decoded') = 0 /\ 0 * EntryLen' = 0
    BY <1>4, <2>1, Multiples
  <2>3. (EntryStart(Len(decoded)))' = HdrLen' + 0 * EntryLen'
    BY <2>2 DEF EntryStart
  <2>4. QED
    BY <2>1, <2>2, <2>3
<1>7. CursorInEntry'
  <2>1. EntryNr' = 0 /\ EntryPos' = 0 /\ Cursor' = HdrLen'
    BY <1>4, <1>5 DEF EntryNr, EntryPos, Cursor
  <2>2. HdrLen' \in Nat
    BY <1>2, <1>4 DEF HdrLen
  <2>3. QED
    BY <1>6, <2>1, <2>2 DEF CursorInEntry
<1>8. EntriesAreFileSlices' /\ ShortCount'
  BY <1>4 DEF EntriesAreFileSlices, ShortCount, InCall
<1>9. NothingLeft'
  <2> SUFFICES ASSUME WellSized', Len(decoded') >= nr_total'
               PROVE  Len(decoded') = nr_total' /\ fpos' = file.size /\ EntryNr' >= nr_total'
    BY <1>4 DEF NothingLeft
  <2>1. nr_total' = 0
    BY <1>6 DEF TypeOK
  <2>2. file.size <= buf' /\ buf' + len' = fpos'
    <3>1. EntryLen' \in Nat /\ HdrLen' \in Nat
      BY <1>2, <1>4, LengthsAssumption DEF HdrLen, EntryLen
    <3>2. 0 * EntryLen' = 0
      BY <3>1, Multiples
    <3>3. file.size <= HdrLen' + nr_total' * EntryLen'
      BY <1>4 DEF WellSized, EntryStart
    <3>4. file.size <= buf'
      BY <1>4, <1>5, <2>1, <3>1, <3>2, <3>3
    <3>5. QED
      BY <1>4, <3>4 DEF Control, InCall
  <2>3. len' \in Nat /\ buf' \in Nat
    BY DEF TypeOK
  <2>4. fpos' = file.size
    <3>1. fpos' \in Nat /\ fpos' <= file.size /\ file.size \in Nat
      BY <1>3, <1>4
    <3>2. QED
      BY <3>1, <2>2, <2>3, Squeezed
  <2>5. EntryNr' = 0
    BY <1>4 DEF EntryNr
  <2>6. QED
    BY <1>6, <2>1, <2>4, <2>5
<1>10. QED
  BY <1>5, <1>7, <1>8, <1>9 DEF BInv

\* ... an entry is decoded once it is there, ...
LEMMA BInvDecoded ==
  ASSUME TInv, TInv', BInv, EntryDecoded
  PROVE  BInv'
<1> USE DEF TInv
<1>1. CopyIntoEntry
  BY DEF EntryDecoded
<1>2. /\ pc = "entries" /\ pc' = "entries" /\ header_parsed /\ error = 0 /\ error' = 0
      /\ nr < nr_total /\ pos + Copied = EntryLen
      /\ nr' = nr + 1 /\ pos' = 0 /\ buf' = buf + Copied
      /\ UNCHANGED <<file, fpos, header_parsed, version, nr_total>>
      /\ EntryLen' = EntryLen /\ HdrLen' = HdrLen
  BY <1>1
  DEF EntryDecoded, CopyIntoEntry, Control, InCall, inputVars, headVars, EntryLen,
      HdrLen
<1>3. /\ decoded' = Append(decoded, CurEntry') /\ Len(decoded') = Len(decoded) + 1
      /\ decoded \in Seq([0 .. EntryLen - 1 -> Int]) /\ Len(decoded) \in Nat
  <2>1. /\ decoded' = Append(decoded, CurEntry') /\ Len(decoded') = Len(decoded) + 1
    BY AppendStep
  <2>2. QED
    BY <2>1 DEF TypeOK
<1>4. /\ nr \in Nat /\ nr_total \in Nat /\ EntryLen \in Nat \ {0} /\ EntryLen <= V2Len
      /\ pos \in Nat /\ buf \in Nat /\ Copied \in Nat /\ V2Len \in Nat /\ HdrLen \in Nat
      /\ len \in Nat /\ Copied <= len
  <2>1. Copied \in Nat /\ Copied <= len
    BY <1>1, CopyStep
  <2>2. version \in Nat /\ nr \in Nat /\ nr_total \in Nat /\ pos \in Nat /\ buf \in Nat /\ len \in Nat
    BY LengthsAssumption DEF TypeOK
  <2>3. EntryLen \in Nat \ {0} /\ EntryLen <= V2Len /\ V2Len \in Nat
    BY <2>2, EntryLenType, LengthsAssumption
  <2>4. HdrLen \in Nat
    BY LengthsAssumption DEF HdrLen, HeadLen
  <2>5. QED
    BY <2>1, <2>2, <2>3, <2>4
<1> DEFINE n == Len(decoded)
<1>5. /\ EntryStart(n) = HdrLen + n * EntryLen
      /\ n * EntryLen \in Nat /\ (n + 1) * EntryLen = n * EntryLen + EntryLen
  BY <1>3, <1>4, Multiples DEF EntryStart
<1>6. n < nr_total =>
        /\ nr = n
        /\ buf = EntryStart(n) + pos
        /\ CurEntry' = [j \in 0 .. EntryLen - 1 |-> EntryStart(n) + j]
  <2> HAVE n < nr_total
  <2>1. /\ nr = n /\ buf = EntryStart(n) + pos
        /\ \A j \in 0 .. pos - 1 : cur_e[j] = EntryStart(n) + j
    BY <1>2 DEF BInv, CursorInEntry, InProgress, EntryNr, EntryPos, Cursor
  <2>2. \A j \in 0 .. V2Len - 1 :
          /\ j < pos => cur_e'[j] = cur_e[j]
          /\ pos <= j /\ j < pos + Copied => cur_e'[j] = buf + (j - pos)
    BY <1>1, CopyStep
  <2>3. ASSUME NEW j \in 0 .. EntryLen - 1 PROVE cur_e'[j] = EntryStart(n) + j
    <3>1. j \in 0 .. V2Len - 1 /\ j \in Nat /\ j < pos + Copied
      BY <1>2, <1>4
    <3>2. CASE j < pos
      BY <2>1, <2>2, <3>1, <3>2, <1>4
    <3>3. CASE pos <= j
      BY <2>1, <2>2, <3>1, <3>3, <1>4, <1>5
    <3>4. QED
      BY <3>1, <3>2, <3>3, <1>4
  <2>4. CurEntry' = [j \in 0 .. EntryLen - 1 |-> cur_e'[j]]
    BY <1>2 DEF CurEntry
  <2>5. QED
    BY <2>1, <2>3, <2>4
<1>7. HeaderIsRead' /\ ShortCount'
  BY <1>2 DEF BInv, HeaderIsRead, ShortCount, InCall
<1>8. CursorInEntry'
  <2> SUFFICES ASSUME InProgress'
               PROVE  /\ EntryNr' = Len(decoded')
                      /\ Cursor' = (EntryStart(Len(decoded)))' + EntryPos'
                      /\ \A j \in 0 .. EntryPos' - 1 :
                           cur_e'[j] = (EntryStart(Len(decoded)))' + j
    BY DEF CursorInEntry
  <2>1. n < nr_total
    BY <1>2, <1>3, <1>4 DEF InProgress
  <2>2. (EntryStart(Len(decoded)))' = HdrLen + (n + 1) * EntryLen
    BY <1>2, <1>3 DEF EntryStart
  <2>3. EntryNr' = nr + 1 /\ EntryPos' = 0 /\ Cursor' = buf + Copied
    BY <1>2 DEF EntryNr, EntryPos, Cursor
  <2>4. nr + 1 = n + 1 /\ buf + Copied = HdrLen + (n + 1) * EntryLen
    <3>1. nr = n /\ buf = HdrLen + n * EntryLen + pos /\ pos + Copied = EntryLen
      BY <2>1, <1>2, <1>5, <1>6
    <3>2. buf + Copied = HdrLen + (n * EntryLen + EntryLen)
      BY <3>1, <1>4, <1>5
    <3>3. QED
      BY <3>1, <3>2, <1>5
  <2>5. HdrLen + (n + 1) * EntryLen + 0 = HdrLen + (n + 1) * EntryLen
    BY <1>4, <1>5
  <2>6. QED
    BY <2>2, <2>3, <2>4, <2>5, <1>3
<1>9. EntriesAreFileSlices'
  <2> SUFFICES ASSUME NEW i \in 1 .. Len(decoded'), i <= nr_total'
               PROVE  decoded'[i] =
                        [j \in 0 .. EntryLen' - 1 |-> HdrLen' + (i - 1) * EntryLen' + j]
    BY DEF EntriesAreFileSlices
  <2>1. CASE i <= n
    <3>1. decoded'[i] = decoded[i] /\ i \in 1 .. Len(decoded) /\ i <= nr_total
      BY <2>1, <1>2, <1>3 DEF TypeOK
    <3>2. QED
      BY <3>1, <1>2 DEF BInv, EntriesAreFileSlices
  <2>2. CASE i = n + 1
    <3>1. decoded'[i] = CurEntry'
      BY <2>2, <1>3
    <3>3. i \in Int /\ n < nr_total /\ i - 1 = n
      BY <2>2, <1>2, <1>3, <1>4
    <3>2. QED
      BY <3>1, <3>3, <1>2, <1>5, <1>6
  <2>3. QED
    BY <2>1, <2>2, <1>3
<1>10. NothingLeft'
  <2> SUFFICES ASSUME WellSized', Len(decoded') >= nr_total'
               PROVE  Len(decoded') = nr_total' /\ fpos' = file'.size /\ EntryNr' >= nr_total'
    BY DEF NothingLeft
  <2>1. WellSized /\ file.size <= HdrLen + nr_total * EntryLen
    BY <1>2 DEF WellSized, EntryStart
  <2>2. n < nr_total
    <3> SUFFICES ASSUME n >= nr_total PROVE FALSE
      BY <1>3, <1>4
    <3>1. EntryNr >= nr_total
      BY <1>2, <2>1 DEF BInv, NothingLeft
    <3>2. QED
      BY <3>1, <1>2, <1>4 DEF EntryNr
  <2>3. n + 1 = nr_total
    BY <1>2, <1>3, <1>4, <2>2
  <2>4. buf = HdrLen + n * EntryLen + pos /\ nr = n
    BY <1>5, <1>6, <2>2
  <2>5. nr_total * EntryLen = n * EntryLen + EntryLen
    BY <1>5, <2>3
  <2>6. buf + len = fpos /\ fpos \in Nat /\ fpos <= file.size /\ file.size \in Nat
    <3>1. file \in Files /\ fpos \in 0 .. file.size
      BY DEF TypeOK
    <3>2. buf + len = fpos
      BY <1>2 DEF Control, InCall
    <3>3. QED
      BY <3>1, <3>2, FileType
  <2>9. fpos = file.size
    <3>1. pos + Copied = EntryLen /\ Copied <= len
      BY <1>2, <1>4
    <3>2. buf + len >= HdrLen + n * EntryLen + EntryLen
      BY <2>4, <3>1, <1>4, <1>5
    <3>3. file.size <= HdrLen + n * EntryLen + EntryLen
      BY <2>1, <2>5, <1>4, <1>5
    <3>4. QED
      BY <2>6, <3>2, <3>3, <1>4, <1>5
  <2>7. EntryNr' = nr + 1
    BY <1>2 DEF EntryNr
  <2>8. QED
    BY <1>2, <1>3, <1>4, <2>3, <2>4, <2>7, <2>9
<1>11. QED
  BY <1>7, <1>8, <1>9, <1>10 DEF BInv

\* equal bounds, equal ranges
LEMMA SameRange == \A a, b \in Int : a = b => 0 .. a - 1 = 0 .. b - 1
OBVIOUS

\* the two ways in which a call returns in the middle of the loop
LEMMA BInvStopped ==
  ASSUME TInv, BInv, EntryNotAllocated \/ EntryIncomplete
  PROVE  BInv'
<1> USE DEF TInv
<1>1. CopyIntoEntry
  BY DEF EntryNotAllocated, EntryIncomplete
<1>2. /\ pc = "entries" /\ pc' = "idle" /\ nr_consumed' = nr
      /\ UNCHANGED <<file, fpos, header_parsed, version, nr_total, decoded, given>>
      /\ EntryLen' = EntryLen /\ HdrLen' = HdrLen
  BY <1>1 DEF EntryNotAllocated, EntryIncomplete, CopyIntoEntry, inputVars, headVars,
              heapVars, EntryLen, HdrLen
<1>3. /\ Copied \in Nat /\ pos + Copied <= EntryLen
      /\ pos + Copied # EntryLen => Copied = len
      /\ \A j \in 0 .. V2Len - 1 :
           /\ j < pos => cur_e'[j] = cur_e[j]
           /\ pos <= j /\ j < pos + Copied => cur_e'[j] = buf + (j - pos)
  BY <1>1, CopyStep
<1>4. /\ pos \in Nat /\ buf \in Nat /\ len \in Nat /\ Len(decoded) \in Nat
      /\ consumed \in Nat /\ V2Len \in Nat /\ nr \in Nat
      /\ buf + len = fpos /\ consumed + len = given /\ header_parsed /\ error = 0
  BY <1>2, LengthsAssumption DEF TypeOK, Control, InCall
<1>5. HeaderIsRead' /\ EntriesAreFileSlices'
  BY <1>2 DEF BInv, HeaderIsRead, EntriesAreFileSlices
<1>6. NothingLeft'
  BY <1>2 DEF BInv, NothingLeft, WellSized, EntryStart
<1>7. CASE EntryNotAllocated
  <2>1. error' # 0
    BY <1>7 DEF EntryNotAllocated, ENOMEM
  <2>2. CursorInEntry' /\ ShortCount'
    BY <2>1 DEF CursorInEntry, InProgress, ShortCount
  <2>3. QED
    BY <1>5, <1>6, <2>2 DEF BInv
<1>8. CASE EntryIncomplete
  <2>1. Copied = len /\ cur_e_pos' = pos + Copied /\ ret' = consumed + Copied /\ error' = 0
    BY <1>3, <1>4, <1>8 DEF EntryIncomplete
  <2>2. ret' = given
    BY <2>1, <1>4
  <2>3. ShortCount'
    BY <2>2, <1>2, <1>4 DEF ShortCount
  <2>4. CursorInEntry'
    <3> SUFFICES ASSUME InProgress'
                 PROVE  /\ EntryNr' = Len(decoded')
                        /\ Cursor' = (EntryStart(Len(decoded)))' + EntryPos'
                        /\ \A j \in 0 .. EntryPos' - 1 :
                             cur_e'[j] = (EntryStart(Len(decoded)))' + j
      BY DEF CursorInEntry
    <3> DEFINE s == HdrLen + Len(decoded) * EntryLen
    <3>1. /\ nr = Len(decoded) /\ buf = EntryStart(Len(decoded)) + pos
          /\ \A j \in 0 .. pos - 1 : cur_e[j] = EntryStart(Len(decoded)) + j
      BY <1>2, <1>4 DEF BInv, CursorInEntry, InProgress, EntryNr, EntryPos, Cursor
    <3>2. EntryStart(Len(decoded)) = s /\ (EntryStart(Len(decoded)))' = s
      BY <1>2 DEF EntryStart
    <3>3. s \in Nat
      BY <3>2, <1>4, EntryStartStep
    <3>4. EntryNr' = nr /\ EntryPos' = pos + Copied /\ Cursor' = fpos
      BY <1>2, <2>1 DEF EntryNr, EntryPos, Cursor
    <3> HIDE DEF s
    <3>5. fpos = s + (pos + Copied)
      BY <1>3, <1>4, <2>1, <3>1, <3>2, <3>3
    <3>6. ASSUME NEW j \in 0 .. pos + Copied - 1 PROVE cur_e'[j] = s + j
      <4>1. EntryLen \in Nat /\ EntryLen <= V2Len
        <5>1. version \in Nat
          BY DEF TypeOK
        <5>2. QED
          BY <5>1, EntryLenType
      <4>2. j \in 0 .. V2Len - 1 /\ j \in Nat /\ j < pos + Copied
        BY <4>1, <1>3, <1>4
      <4>3. CASE j < pos
        BY <4>2, <4>3, <1>3, <1>4, <3>1, <3>2
      <4>4. CASE pos <= j
        BY <4>2, <4>4, <1>3, <1>4, <3>1, <3>2, <3>3
      <4>5. QED
        BY <4>2, <4>3, <4>4, <1>4
    <3>7. EntryNr' = Len(decoded') /\ Cursor' = s + EntryPos'
      BY <1>2, <3>1, <3>4, <3>5
    <3>8. \A j \in 0 .. EntryPos' - 1 : cur_e'[j] = s + j
      <4>1. 0 .. EntryPos' - 1 = 0 .. pos + Copied - 1
        BY <1>3, <1>4, <3>4, SameRange
      <4>2. QED
        BY <3>6, <4>1
    <3>9. QED
      BY <3>2, <3>7, <3>8
  <2>5. QED
    BY <1>5, <1>6, <2>3, <2>4 DEF BInv
<1>9. QED
  BY <1>7, <1>8

\* ... and every step keeps what is read in its place
LEMMA BInvNext == TInv /\ TInv' /\ BInv /\ [Next]_vars => BInv'
<1> SUFFICES ASSUME TInv, TInv', BInv, [Next]_vars PROVE BInv'
  OBVIOUS
<1> USE DEF TInv
<1>0. /\ fpos \in Nat /\ file.size \in Nat /\ fpos <= file.size
      /\ ret \in Int /\ given \in Nat /\ Len(decoded) \in Nat /\ nr_total \in Nat
      /\ nr \in Nat /\ nr_consumed \in Nat /\ error \in Int /\ error <= 0
  <2>1. file \in Files /\ fpos \in 0 .. file.size /\ error \in {0, -EINVAL, -ENOMEM}
    BY DEF TypeOK
  <2>2. error \in Int /\ error <= 0
    BY <2>1 DEF EINVAL, ENOMEM
  <2>3. fpos \in Nat /\ file.size \in Nat /\ fpos <= file.size
    BY <2>1, FileType
  <2>4. /\ ret \in Int /\ given \in Nat /\ Len(decoded) \in Nat
        /\ nr_total \in Nat /\ nr \in Nat /\ nr_consumed \in Nat
    BY DEF TypeOK
  <2>5. QED
    BY <2>2, <2>3, <2>4
<1>1. ASSUME UNCHANGED <<file, header_parsed, version, nr_total, decoded>>
      PROVE  /\ HeaderIsRead' /\ EntriesAreFileSlices'
             /\ EntryStart(Len(decoded))' = EntryStart(Len(decoded))
             /\ WellSized' = WellSized
  BY <1>1
  DEF BInv, HeaderIsRead, EntriesAreFileSlices, HdrLen, EntryLen, EntryStart, WellSized
<1>2. ASSUME UNCHANGED <<file, header_parsed, version, nr_total, decoded, error, cur_e>>,
             EntryNr' = EntryNr, EntryPos' = EntryPos, Cursor' = Cursor
      PROVE  CursorInEntry'
  BY <1>1, <1>2 DEF BInv, CursorInEntry, InProgress
<1>3. ASSUME UNCHANGED <<file, header_parsed, version, nr_total, decoded, fpos>>,
             EntryNr' = EntryNr,
             pc' \in {"version", "entries"} => pc \in {"version", "entries"}
      PROVE  NothingLeft'
  BY <1>1, <1>3 DEF BInv, NothingLeft
<1>4. ASSUME NEW n \in 0 .. file.size - fpos, ReturnAtOnce(n) PROVE BInv'
  <2>1. /\ UNCHANGED <<file, header_parsed, version, nr_total, nr_consumed, cur_e, cur_e_pos,
                       decoded, error, pc>>
        /\ pc = "idle" /\ fpos' = fpos + n /\ given' = n /\ n \in Nat
        /\ error < 0 \/ n = 0
        /\ ret' = IF error < 0 THEN error ELSE 0
    BY <1>4, <1>0 DEF ReturnAtOnce, PassChunk, headVars, entryVars, heapVars
  <2>2. CASE error < 0
    <3>1. CursorInEntry' /\ ShortCount'
      BY <2>1, <2>2 DEF CursorInEntry, InProgress, ShortCount
    <3>2. NothingLeft'
      <4>1. fpos = file.size => fpos' = fpos
        BY <1>0, <2>1
      <4>2. QED
        BY <1>1, <2>1, <4>1 DEF BInv, NothingLeft
    <3>3. QED
      BY <1>1, <2>1, <3>1, <3>2 DEF BInv
  <2>3. CASE n = 0 /\ ~(error < 0)
    <3>1. fpos' = fpos /\ ret' = given'
      BY <1>0, <2>1, <2>3
    <3>2. ShortCount'
      BY <2>1, <2>3, <3>1 DEF ShortCount
    <3>3. CursorInEntry' /\ NothingLeft'
      BY <1>2, <1>3, <2>1, <3>1 DEF EntryNr, EntryPos, Cursor
    <3>4. QED
      BY <1>1, <2>1, <3>2, <3>3 DEF BInv
  <2>4. QED
    BY <2>1, <2>2, <2>3
<1>5. ASSUME NEW n \in 0 .. file.size - fpos, StartCall(n) PROVE BInv'
  <2>1. /\ UNCHANGED <<file, header_parsed, version, nr_total, nr_consumed, cur_e, cur_e_pos,
                       decoded, error>>
        /\ pc = "idle" /\ fpos' = fpos + n /\ buf' = fpos /\ n > 0
        /\ pc' = IF header_parsed THEN "version" ELSE "header"
    BY <1>5 DEF StartCall, PassChunk, headVars, entryVars, heapVars
  <2>2. ShortCount'
    BY <2>1 DEF ShortCount, InCall
  <2>3. CursorInEntry'
    <3>1. CASE header_parsed
      BY <1>2, <2>1, <3>1 DEF EntryNr, EntryPos, Cursor
    <3>2. CASE ~header_parsed
      BY <2>1, <3>2 DEF CursorInEntry, InProgress
    <3>3. QED
      BY <3>1, <3>2
  <2>4. NothingLeft'
    <3>1. fpos # file.size
      BY <1>0, <2>1
    <3>2. QED
      BY <1>1, <2>1, <3>1 DEF BInv, NothingLeft
  <2>5. QED
    BY <1>1, <2>1, <2>2, <2>3, <2>4 DEF BInv
<1>6. ASSUME HeaderShort PROVE BInv'
  <2>1. /\ UNCHANGED <<file, header_parsed, version, nr_total, decoded, error, given>>
        /\ ~header_parsed /\ ret' = len /\ consumed = 0 /\ consumed + len = given
    BY <1>6 DEF HeaderShort, TakeHeader, Control, InCall, inputVars, heapVars
  <2>2. ret' = given
    <3>1. len \in Nat
      BY DEF TypeOK
    <3>2. QED
      BY <2>1, <3>1
  <2>3. ShortCount'
    BY <1>0, <2>1, <2>2 DEF ShortCount
  <2>4. QED
    BY <1>1, <2>1, <2>3 DEF BInv, CursorInEntry, InProgress, NothingLeft
<1>7. ASSUME RejectVersion PROVE BInv'
  <2>1. /\ UNCHANGED <<file, header_parsed, version, nr_total, decoded, nr_consumed, fpos>>
        /\ pc = "version" /\ pc' = "idle" /\ error' # 0
    BY <1>7 DEF RejectVersion, inputVars, headVars, entryVars, heapVars, EINVAL
  <2>2. QED
    BY <1>1, <1>3, <2>1 DEF BInv, CursorInEntry, InProgress, ShortCount, EntryNr
<1>8. ASSUME StartEntries PROVE BInv'
  <2>1. /\ UNCHANGED <<file, header_parsed, version, nr_total, decoded, fpos, buf, error, cur_e>>
        /\ pc = "version" /\ pc' = "entries" /\ nr' = nr_consumed /\ pos' = cur_e_pos
    BY <1>8 DEF StartEntries, inputVars, headVars, entryVars, heapVars
  <2>2. EntryNr' = EntryNr /\ EntryPos' = EntryPos /\ Cursor' = Cursor
    BY <2>1 DEF EntryNr, EntryPos, Cursor
  <2>3. ShortCount'
    BY <2>1 DEF ShortCount, InCall
  <2>4. QED
    BY <1>1, <1>2, <1>3, <2>1, <2>2, <2>3 DEF BInv
<1>9. ASSUME EntriesExhausted PROVE BInv'
  <2>1. /\ UNCHANGED <<file, header_parsed, version, nr_total, decoded, fpos, error>>
        /\ pc = "entries" /\ pc' = "idle" /\ nr >= nr_total
        /\ header_parsed /\ error = 0
    BY <1>9 DEF EntriesExhausted, inputVars, headVars, entryVars, heapVars, Control, InCall
  <2>2. Len(decoded) >= nr_total
    <3> SUFFICES ASSUME Len(decoded) < nr_total PROVE FALSE
      BY <1>0
    <3>1. nr = Len(decoded)
      BY <2>1 DEF BInv, CursorInEntry, InProgress, EntryNr
    <3>2. QED
      BY <1>0, <2>1, <3>1
  <2>3. ~(Len(decoded) < nr_total)
    BY <1>0, <2>2
  <2>4. CursorInEntry' /\ ShortCount'
    BY <2>1, <2>2, <2>3 DEF CursorInEntry, InProgress, ShortCount, Complete
  <2>5. NothingLeft'
    BY <1>1, <2>1 DEF BInv, NothingLeft
  <2>6. QED
    BY <1>1, <2>1, <2>4, <2>5 DEF BInv
<1>10. ASSUME Lists \/ UNCHANGED vars PROVE BInv'
  <2>1. /\ UNCHANGED <<file, header_parsed, version, nr_total, decoded, fpos, error, cur_e,
                       nr, nr_consumed, pos, cur_e_pos, buf, ret, given>>
        /\ UNCHANGED pc \/ (~InCall /\ ~InCall')
    BY <1>10
    DEF Lists, GetPeers, FreePeers, Destroy, FreeOne, FreePeersDone, DestroyDone, libraryIdle,
        vars, inputVars, headVars, entryVars, callVars, heapVars, InCall
  <2>2. EntryNr' = EntryNr /\ EntryPos' = EntryPos /\ Cursor' = Cursor
    BY <2>1 DEF EntryNr, EntryPos, Cursor, InCall
  <2>3. ShortCount'
    BY <2>1 DEF BInv, ShortCount, Complete, InCall
  <2>4. QED
    BY <1>1, <1>2, <1>3, <2>1, <2>2, <2>3 DEF BInv, InCall
<1>11. QED
  BY <1>4, <1>5, <1>6, <1>7, <1>8, <1>9, <1>10, BInvHeader, BInvDecoded, BInvStopped
  DEF Next, Call, Parse

\* The i-th peer is built from the bytes of the i-th entry of the file, and from
\* no others, however the file reaches nd_parse_proc.
THEOREM EntriesIntact == Spec => []EntriesAreFileSlices
<1>1. BInv => EntriesAreFileSlices
  BY DEF BInv
<1>2. QED
  BY <1>1, TInvInit, TInvNext, BInvInit, BInvNext, PTL DEF Spec

\* A count short of the chunk is only returned once the last entry is decoded,
\* so a caller that stops reading at a short count loses no peer.
THEOREM ShortCountIsCompletion == Spec => []ShortCountMeansComplete
<1>1. BInv => ShortCountMeansComplete
  BY DEF BInv, ShortCount, ShortCountMeansComplete, InCall
<1>2. QED
  BY <1>1, TInvInit, TInvNext, BInvInit, BInvNext, PTL DEF Spec

\* A file without trailing bytes never yields more peers than it announces.
THEOREM NoPeerTooMany == Spec => []NoExtraPeers
<1>1. TInv /\ BInv => NoExtraPeers
  <2> SUFFICES ASSUME TInv, BInv, header_parsed, file.size <= HdrLen + nr_total * EntryLen
               PROVE  Len(decoded) <= nr_total
    BY DEF NoExtraPeers
  <2>1. Len(decoded) \in Nat /\ nr_total \in Nat
    BY DEF TInv, TypeOK
  <2>2. Len(decoded) >= nr_total => Len(decoded) = nr_total
    BY DEF BInv, NothingLeft, WellSized, EntryStart
  <2>3. QED
    BY <2>1, <2>2
<1>2. QED
  BY <1>1, TInvInit, TInvNext, BInvInit, BInvNext, PTL DEF Spec

\* Once nd_parse_proc has met an error it decodes nothing more and returns that
\* error for every further chunk.
THEOREM ErrorsStick == Spec => ErrorIsSticky
<1> DEFINE Sticks == error < 0 => /\ UNCHANGED <<error, decoded>>
                                  /\ fpos' # fpos => ret' = error
<1>1. TInv /\ [Next]_vars => [Sticks]_vars
  <2> SUFFICES ASSUME TInv, [Next]_vars, error < 0 PROVE Sticks
    OBVIOUS
  <2>1. ASSUME NEW n \in 0 .. file.size - fpos, ReturnAtOnce(n) PROVE Sticks
    BY <2>1 DEF ReturnAtOnce, heapVars
  <2>2. ASSUME NEW n \in 0 .. file.size - fpos, StartCall(n) PROVE FALSE
    <3>1. error >= 0
      BY <2>2 DEF StartCall
    <3>2. error \in Int
      BY DEF TInv, TypeOK, EINVAL, ENOMEM
    <3>3. QED
      BY <3>1, <3>2
  <2>3. CASE Parse
    <3>1. pc \in {"header", "version", "entries"}
      BY <2>3
      DEF Parse, HeaderV0, HeaderFull, HeaderShort, HeaderDone, TakeHeader, RejectVersion,
          StartEntries, EntryDecoded, EntryNotAllocated, EntryIncomplete, CopyIntoEntry,
          EntriesExhausted
    <3>2. error = 0
      BY <3>1 DEF TInv, Control, InCall
    <3>3. QED
      BY <3>2
  <2>4. CASE Lists \/ UNCHANGED vars
    <3>1. UNCHANGED <<error, decoded, fpos>>
      BY <2>4
      DEF Lists, GetPeers, FreePeers, Destroy, FreeOne, FreePeersDone, DestroyDone, libraryIdle,
          vars, inputVars, heapVars
    <3>2. QED
      BY <3>1
  <2>5. QED
    BY <2>1, <2>2, <2>3, <2>4 DEF Next, Call
<1>2. QED
  BY <1>1, TInvInit, TInvNext, PTL DEF Spec, ErrorIsSticky

-----------------------------------------------------------------------------
(* The peer lists: who owns each peer, and when *)

LInv == ListShape /\ OneOwnerPerPeer

-----------------------------------------------------------------------------
(* Chain, for an explicit heap of links. *)

LinksFrom(links, p) ==
  IF p = 0 THEN {}
  ELSE {i \in p .. Len(links) : \A j \in p .. i - 1 : links[j] = j + 1}

Forward(links) ==
  /\ \A i \in 1 .. Len(links) : links[i] \in {0, i + 1}
  /\ Len(links) > 0 => links[Len(links)] = 0

\* the peers of a list are those its links lead to
LEMMA ChainIsLinks ==
  ASSUME TypeOK, NEW p \in 0 .. Len(decoded)
  PROVE  Chain(p) = LinksFrom(next, p) /\ Chain(p) \subseteq 1 .. Len(decoded)
<1>1. Len(next) = Len(decoded) /\ Len(decoded) \in Nat
  BY DEF TypeOK
<1>2. QED
  BY <1>1 DEF Chain, LinksFrom

\* intervals with and without their last element
LEMMA LastOfInterval ==
  ASSUME NEW p \in Nat, NEW n \in Nat, p <= n
  PROVE  p .. n = (p .. n - 1) \cup {n}
OBVIOUS

\* a range with one more number, ...
LEMMA IntervalGrows ==
  ASSUME NEW p \in Nat, NEW n \in Nat, p <= n + 1
  PROVE  p .. n + 1 = (p .. n) \cup {n + 1} /\ n + 1 \notin p .. n
OBVIOUS

\* ... its members, ...
LEMMA InInterval ==
  ASSUME NEW p \in Nat \ {0}, NEW n \in Nat, NEW j \in p .. n - 1
  PROVE  j \in 1 .. n /\ j # n /\ j # 0
OBVIOUS

\* ... and the members below one of them
LEMMA IntervalBelow ==
  ASSUME NEW p \in Nat, NEW n \in Nat, NEW i \in p .. n
  PROVE  i \in p .. n + 1 /\ \A j \in p .. i - 1 : j \in p .. n - 1
OBVIOUS

\* NULL leads nowhere
LEMMA NoLinks == \A links, p : p = 0 => LinksFrom(links, p) = {}
BY DEF LinksFrom

\* a chain is its head and the chain from the next link on
LEMMA LinksUnfold ==
  ASSUME NEW links \in Seq(Nat), Forward(links), NEW p \in 1 .. Len(links)
  PROVE  /\ LinksFrom(links, p) = {p} \cup LinksFrom(links, links[p])
         /\ \A i \in LinksFrom(links, links[p]) : p < i
         /\ links[p] \in 0 .. Len(links)
<1> DEFINE n == Len(links)
<1>1. n \in Nat /\ p \in 1 .. n /\ links[n] = 0
  BY DEF Forward
<1>2. CASE links[p] = 0
  <2>1. LinksFrom(links, links[p]) = {}
    BY <1>2 DEF LinksFrom
  <2>2. ASSUME NEW i \in LinksFrom(links, p) PROVE i = p
    <3>1. i \in p .. n /\ \A j \in p .. i - 1 : links[j] = j + 1
      BY <1>1, <2>2 DEF LinksFrom
    <3>2. ~(p < i)
      BY <1>1, <1>2, <3>1
    <3>3. QED
      BY <1>1, <3>1, <3>2
  <2>3. p \in LinksFrom(links, p)
    BY <1>1 DEF LinksFrom
  <2>4. QED
    BY <1>1, <1>2, <2>1, <2>2, <2>3
<1>3. CASE links[p] # 0
  <2>1. links[p] = p + 1 /\ p < n
    BY <1>1, <1>3 DEF Forward
  <2>2. LinksFrom(links, p) = {i \in p .. n : \A j \in p .. i - 1 : links[j] = j + 1}
    BY <1>1 DEF LinksFrom
  <2>3. LinksFrom(links, p + 1) =
          {i \in p + 1 .. n : \A j \in p + 1 .. i - 1 : links[j] = j + 1}
    BY <1>1 DEF LinksFrom
  <2>4. ASSUME NEW i \in LinksFrom(links, p), i # p PROVE i \in LinksFrom(links, p + 1)
    <3>1. i \in p .. n /\ \A j \in p .. i - 1 : links[j] = j + 1
      BY <2>2, <2>4
    <3>2. i \in p + 1 .. n /\ \A j \in p + 1 .. i - 1 : j \in p .. i - 1
      BY <1>1, <2>4, <3>1
    <3>3. \A j \in p + 1 .. i - 1 : links[j] = j + 1
      BY <3>1, <3>2
    <3>4. QED
      BY <2>3, <3>2, <3>3
  <2>5. ASSUME NEW i \in LinksFrom(links, p + 1) PROVE i \in LinksFrom(links, p) /\ p < i
    <3>1. i \in p + 1 .. n /\ \A j \in p + 1 .. i - 1 : links[j] = j + 1
      BY <2>3, <2>5
    <3>2. ASSUME NEW j \in p .. i - 1 PROVE links[j] = j + 1
      BY <1>1, <2>1, <3>1, <3>2
    <3>3. QED
      BY <1>1, <2>2, <3>1, <3>2
  <2>6. p \in LinksFrom(links, p)
    BY <1>1, <2>2
  <2>7. QED
    BY <1>1, <2>1, <2>4, <2>5, <2>6
<1>4. QED
  BY <1>2, <1>3

\* appending a peer extends the chain the tail is on, and no other
Appended(links, t, longer) ==
  /\ Len(longer) = Len(links) + 1 /\ longer[Len(links) + 1] = 0
  /\ \A i \in 1 .. Len(links) :
       longer[i] = IF i = t THEN Len(links) + 1 ELSE links[i]

ChainGrows(links, t, longer, p) ==
  LinksFrom(longer, p) =
    LinksFrom(links, p) \cup
      (IF t # 0 /\ t \in LinksFrom(links, p) THEN {Len(links) + 1} ELSE {})

\* a peer appended to a list of links, or none
LEMMA LinksAppend ==
  ASSUME NEW links \in Seq(Nat), NEW longer \in Seq(Nat), Forward(links),
         NEW t \in {0, Len(links)}, NEW p \in 0 .. Len(links),
         Appended(links, t, longer)
  PROVE  /\ LinksFrom(longer, Len(links) + 1) = {Len(links) + 1}
         /\ ChainGrows(links, t, longer, p)
         /\ Forward(longer)
<1> USE DEF Appended, ChainGrows
<1> DEFINE n == Len(links)
<1>1. n \in Nat /\ (n > 0 => links[n] = 0)
  BY DEF Forward
<1>2. LinksFrom(longer, n + 1) = {n + 1}
  BY <1>1 DEF LinksFrom
<1>3. Forward(longer)
  <2>1. ASSUME NEW i \in 1 .. n + 1 PROVE longer[i] \in {0, i + 1}
    <3>1. CASE i = n + 1
      BY <3>1
    <3>2. CASE i # n + 1
      <4>1. i \in 1 .. n
        BY <1>1, <2>1, <3>2
      <4>2. links[i] \in {0, i + 1}
        BY <4>1 DEF Forward
      <4>3. longer[i] = IF i = t THEN n + 1 ELSE links[i]
        BY <4>1
      <4>4. CASE i = t
        <5>1. i = n
          BY <1>1, <4>1, <4>4
        <5>2. QED
          BY <4>3, <4>4, <5>1
      <4>5. CASE i # t
        BY <4>2, <4>3, <4>5
      <4>6. QED
        BY <4>4, <4>5
    <3>3. QED
      BY <3>1, <3>2
  <2>2. Len(longer) = n + 1
    OBVIOUS
  <2>3. longer[Len(longer)] = 0
    BY <2>2
  <2>4. QED
    BY <2>1, <2>2, <2>3 DEF Forward
<1>4. CASE p = 0
  BY <1>2, <1>3, <1>4 DEF LinksFrom
<1>5. CASE p # 0
  <2>1. LinksFrom(links, p) = {i \in p .. n : \A j \in p .. i - 1 : links[j] = j + 1}
    BY <1>5 DEF LinksFrom
  <2>2. LinksFrom(longer, p) = {i \in p .. n + 1 : \A j \in p .. i - 1 : longer[j] = j + 1}
    BY <1>5 DEF LinksFrom
  <2>3. n \in Nat /\ p \in 1 .. n /\ links[n] = 0
    BY <1>1, <1>5
  <2>4. ASSUME NEW j \in p .. n - 1 PROVE longer[j] = links[j]
    <3>1. j \in 1 .. n /\ j # n /\ j # 0
      <4>1. p \in Nat \ {0} /\ n \in Nat
        BY <2>3
      <4>2. QED
        BY <4>1, InInterval
    <3>2. j # t
      BY <3>1
    <3>3. longer[j] = IF j = t THEN n + 1 ELSE links[j]
      BY <3>1
    <3>4. QED
      BY <3>2, <3>3
  <2>5. longer[n] = IF t # 0 THEN n + 1 ELSE 0
    <3>1. n \in 1 .. n /\ n # 0
      BY <2>3
    <3>2. longer[n] = IF n = t THEN n + 1 ELSE links[n]
      BY <3>1
    <3>3. n = t <=> t # 0
      BY <3>1
    <3>4. QED
      BY <2>3, <3>2, <3>3
  <2>6. ASSUME NEW i \in p .. n PROVE i \in LinksFrom(longer, p) <=> i \in LinksFrom(links, p)
    <3>1. i \in p .. n + 1 /\ \A j \in p .. i - 1 : j \in p .. n - 1
      <4>1. p \in Nat /\ n \in Nat
        BY <2>3
      <4>2. QED
        BY <4>1, IntervalBelow
    <3>2. \A j \in p .. i - 1 : longer[j] = links[j]
      BY <2>4, <3>1
    <3>4. (\A j \in p .. i - 1 : longer[j] = j + 1) <=>
            \A j \in p .. i - 1 : links[j] = j + 1
      BY <3>2
    <3>3. QED
      BY <2>1, <2>2, <3>1, <3>4
  <2>7. n + 1 \in LinksFrom(longer, p) <=> t # 0 /\ t \in LinksFrom(links, p)
    <3>1. n + 1 \in LinksFrom(longer, p) <=> \A j \in p .. n : longer[j] = j + 1
      BY <2>2, <2>3
    <3>2. (\A j \in p .. n : longer[j] = j + 1) <=>
            t # 0 /\ \A j \in p .. n - 1 : links[j] = j + 1
      <4>1. (\A j \in p .. n : longer[j] = j + 1) <=>
              longer[n] = n + 1 /\ \A j \in p .. n - 1 : longer[j] = j + 1
        <5>1. p .. n = (p .. n - 1) \cup {n}
          <6>1. p \in Nat /\ n \in Nat /\ p <= n
            BY <2>3
          <6>2. QED
            BY <6>1, LastOfInterval, Zenon
        <5>2. QED
          BY <5>1
      <4>2. longer[n] = n + 1 <=> t # 0
        BY <2>3, <2>5
      <4>3. QED
        BY <2>4, <4>1, <4>2
    <3>3. n \in LinksFrom(links, p) <=> \A j \in p .. n - 1 : links[j] = j + 1
      BY <2>1, <2>3
    <3>4. QED
      BY <3>1, <3>2, <3>3
  <2>8. LinksFrom(longer, p) \subseteq p .. n + 1 /\ LinksFrom(links, p) \subseteq p .. n
    <3>1. LinksFrom(longer, p) \subseteq p .. n + 1
      BY <2>2
    <3>2. LinksFrom(links, p) \subseteq p .. n
      BY <2>1
    <3>3. QED
      BY <3>1, <3>2
  <2>9. \A i \in LinksFrom(longer, p) : i \in p .. n \/ i = n + 1
    <3>1. p .. n + 1 = (p .. n) \cup {n + 1}
      <4>1. p \in Nat /\ n \in Nat /\ p <= n + 1
        BY <2>3
      <4>2. QED
        BY <4>1, IntervalGrows, Zenon
    <3>2. QED
      BY <2>8, <3>1
  <2>10. QED
    BY <1>2, <1>3, <2>6, <2>7, <2>8, <2>9
<1>6. QED
  BY <1>2, <1>3, <1>4, <1>5

-----------------------------------------------------------------------------
\* there are no lists at the start, ...
LEMMA LInvInit == Init => LInv
<1> SUFFICES ASSUME Init PROVE LInv
  OBVIOUS
<1>1. /\ decoded = <<>> /\ next = <<>> /\ freed = {} /\ held = 0 /\ walk = 0
      /\ peers = 0 /\ tail = 0 /\ pc = "idle" /\ Len(next) = 0 /\ Len(decoded) = 0
  BY DEF Init
<1>2. ListShape
  BY <1>1 DEF ListShape
<1>3. OneOwnerPerPeer
  BY <1>1 DEF OneOwnerPerPeer, ParserPeers, Chain
<1>4. QED
  BY <1>2, <1>3 DEF LInv

\* what the invariants say of the heap, in the form the steps use
LEMMA HeapFacts ==
  ASSUME TInv, ListShape
  PROVE  /\ Len(next) = Len(decoded) /\ Len(decoded) \in Nat
         /\ next \in Seq(Nat) /\ Forward(next)
         /\ peers \in 0 .. Len(next) /\ tail \in 0 .. Len(next)
         /\ held \in 0 .. Len(next) /\ walk \in 0 .. Len(next)
         /\ Chain(peers) = LinksFrom(next, peers)
         /\ Chain(held) = LinksFrom(next, held)
         /\ Chain(walk) = LinksFrom(next, walk)
<1>1. /\ Len(next) = Len(decoded) /\ Len(decoded) \in Nat /\ next \in Seq(0 .. Len(decoded))
      /\ peers \in 0 .. Len(decoded) /\ tail \in 0 .. Len(decoded)
      /\ held \in 0 .. Len(decoded) /\ walk \in 0 .. Len(decoded)
  BY DEF TInv, TypeOK
<1>2. next \in Seq(Nat)
  BY <1>1
<1>3. Forward(next)
  BY DEF Forward, ListShape
<1>4. /\ Chain(peers) = LinksFrom(next, peers)
      /\ Chain(held) = LinksFrom(next, held)
      /\ Chain(walk) = LinksFrom(next, walk)
  BY <1>1 DEF Chain, LinksFrom
<1>5. QED
  BY <1>1, <1>2, <1>3, <1>4

\* ... the lists after a step are those of the links after it, ...
LEMMA HeapFactsNext ==
  ASSUME TInv', ListShape'
  PROVE  /\ (Chain(peers))' = LinksFrom(next', peers')
         /\ (Chain(held))' = LinksFrom(next', held')
         /\ (Chain(walk))' = LinksFrom(next', walk')
<1>1. Len(next') = Len(decoded')
  BY DEF TInv, TypeOK
<1>2. QED
  BY <1>1 DEF Chain, LinksFrom

\* ... an entry decoded is appended to one list, ...
LEMMA LInvDecoded ==
  ASSUME TInv, TInv', LInv, EntryDecoded
  PROVE  /\ LInv'
         /\ LinksFrom(next', held) = LinksFrom(next, held)
<1> DEFINE n == Len(next)
<1>1. /\ Len(next) = Len(decoded) /\ n \in Nat /\ next \in Seq(Nat) /\ Forward(next)
      /\ peers \in 0 .. n /\ tail \in 0 .. n /\ held \in 0 .. n
      /\ Chain(peers) = LinksFrom(next, peers)
      /\ Chain(held) = LinksFrom(next, held)
      /\ Chain(walk) = LinksFrom(next, walk)
  BY HeapFacts DEF LInv
<1>2. /\ Len(decoded') = n + 1 /\ Len(next') = n + 1 /\ next'[n + 1] = 0
      /\ \A i \in 1 .. n : next'[i] = IF i = tail THEN n + 1 ELSE next[i]
  BY <1>1, AppendStep DEF TInv
<1>3. next' \in Seq(Nat)
  <2>1. next' \in Seq(0 .. Len(decoded')) /\ Len(decoded') \in Nat
    BY DEF TInv, TypeOK
  <2>2. QED
    BY <2>1
<1>4. /\ pc = "entries" /\ pc' = "entries" /\ held' = held /\ walk' = walk /\ freed' = freed
      /\ peers' = (IF tail = 0 THEN n + 1 ELSE peers) /\ tail' = n + 1
  BY <1>1 DEF EntryDecoded, CopyIntoEntry, AppendPeer
<1>5. /\ walk = 0 /\ tail \in {0, n}
      /\ peers = 0 <=> tail = 0
      /\ tail # 0 => peers <= n /\ \A j \in peers .. n - 1 : next[j] = j + 1
  BY <1>4 DEF LInv, ListShape
<1>6. /\ freed \cup LinksFrom(next, peers) \cup LinksFrom(next, held) \cup LinksFrom(next, walk)
           = 1 .. n
      /\ freed \cap (LinksFrom(next, peers) \cup LinksFrom(next, held) \cup LinksFrom(next, walk))
           = {}
      /\ LinksFrom(next, peers) \cap (LinksFrom(next, held) \cup LinksFrom(next, walk)) = {}
      /\ LinksFrom(next, walk) = {}
  <2>1. LinksFrom(next, walk) = {}
    BY <1>5, NoLinks
  <2>2. ParserPeers = LinksFrom(next, peers)
    BY <1>1, <1>4 DEF ParserPeers
  <2>3. OneOwnerPerPeer
    BY DEF LInv
  <2>4. QED
    BY <1>1, <2>1, <2>2, <2>3 DEF OneOwnerPerPeer
<1>7. /\ LinksFrom(next', n + 1) = {n + 1}
      /\ \A p \in 0 .. n : LinksFrom(next', p) =
           LinksFrom(next, p) \cup
             (IF tail # 0 /\ tail \in LinksFrom(next, p) THEN {n + 1} ELSE {})
      /\ Forward(next')
  <2>1. Appended(next, tail, next')
    BY <1>2 DEF Appended
  <2>2. next \in Seq(Nat) /\ Forward(next) /\ tail \in {0, Len(next)} /\ Len(next) \in Nat
    BY <1>1, <1>5
  <2>3. ASSUME NEW p \in 0 .. n
        PROVE  /\ LinksFrom(next', n + 1) = {n + 1}
               /\ ChainGrows(next, tail, next', p)
               /\ Forward(next')
    BY <1>3, <2>1, <2>2, LinksAppend, Zenon
  <2>4. 0 \in 0 .. n
    BY <2>2
  <2>5. QED
    BY <2>3, <2>4, Zenon DEF ChainGrows
<1>8. tail # 0 => tail \in LinksFrom(next, peers)
  <2> SUFFICES ASSUME tail # 0 PROVE tail \in LinksFrom(next, peers)
    OBVIOUS
  <2>1. peers \in 1 .. n /\ tail = n /\ \A j \in peers .. n - 1 : next[j] = j + 1
    BY <1>1, <1>5
  <2>2. QED
    BY <1>1, <2>1 DEF LinksFrom
<1>9. LinksFrom(next', held) = LinksFrom(next, held)
  <2>1. ~(tail # 0 /\ tail \in LinksFrom(next, held))
    BY <1>6, <1>8
  <2>2. held \in 0 .. n
    BY <1>1
  <2>3. LinksFrom(next', held) = LinksFrom(next, held) \cup {}
    BY <2>1, <2>2, <1>7, Zenon
  <2>4. QED
    BY <2>3
<1>10. LinksFrom(next', peers') = LinksFrom(next, peers) \cup {n + 1}
  <2>1. CASE tail = 0
    <3>1. peers = 0 /\ peers' = n + 1
      BY <2>1, <1>4, <1>5
    <3>2. LinksFrom(next, peers) = {}
      BY <3>1 DEF LinksFrom
    <3>3. QED
      BY <3>1, <3>2, <1>7, Zenon
  <2>2. CASE tail # 0
    <3>1. peers' = peers /\ peers \in 0 .. n /\ tail \in LinksFrom(next, peers)
      BY <2>2, <1>1, <1>4, <1>8, Zenon
    <3>2. QED
      BY <2>2, <3>1, <1>7, Zenon
  <2>3. QED
    BY <2>1, <2>2, Zenon
<1>11. LinksFrom(next', walk') = {}
  <2>1. walk' = 0
    BY <1>4, <1>5, SMTT(30)
  <2>2. QED
    BY <2>1, NoLinks, ZenonT(30)
<1>12. ListShape'
  <2>1. peers' <= tail' /\ (peers' = 0 <=> tail' = 0)
    <3>1. CASE tail = 0
      BY <3>1, <1>1, <1>4
    <3>2. CASE tail # 0
      BY <3>2, <1>1, <1>4, <1>5
    <3>3. QED
      BY <3>1, <3>2
  <2>2. ASSUME NEW j \in peers' .. n PROVE next'[j] = j + 1
    <3>1. tail # 0 /\ peers' = peers /\ peers \in 1 .. n /\ tail = n
      <4>1. tail = 0 => peers' .. n = {}
        BY <1>1, <1>4
      <4>2. QED
        BY <2>2, <4>1, <1>1, <1>4, <1>5
    <3>2. j \in peers .. n /\ j \in 1 .. n
      BY <2>2, <3>1, <1>1
    <3>3. CASE j = n
      BY <3>1, <3>3, <1>1, <1>2
    <3>4. CASE j # n
      BY <3>1, <3>2, <3>4, <1>1, <1>2, <1>5
    <3>5. QED
      BY <3>3, <3>4
  <2>3. tail' - 1 = n
    BY <1>1, <1>4
  <2>4. QED
    BY <1>2, <1>4, <1>5, <1>7, <2>1, <2>2, <2>3 DEF ListShape, Forward
<1>13. OneOwnerPerPeer'
  <2>1. /\ (Chain(peers))' = LinksFrom(next, peers) \cup {n + 1}
        /\ (Chain(held))' = LinksFrom(next, held)
        /\ (Chain(walk))' = {}
    BY <1>4, <1>9, <1>10, <1>11, <1>12, HeapFactsNext
  <2>2. ParserPeers' = LinksFrom(next, peers) \cup {n + 1}
    BY <2>1, <1>4 DEF ParserPeers
  <2>3. 1 .. n + 1 = (1 .. n) \cup {n + 1} /\ n + 1 \notin 1 .. n
    <3>1. 1 \in Nat /\ n \in Nat /\ 1 <= n + 1
      BY <1>1
    <3>2. QED
      BY <3>1, IntervalGrows, Zenon
  <2>4. QED
    BY <1>2, <1>4, <1>6, <2>1, <2>2, <2>3 DEF OneOwnerPerPeer
<1>14. QED
  BY <1>9, <1>12, <1>13 DEF LInv

\* the steps that leave the heap and the lists alone
LEMMA LInvQuiet ==
  ASSUME LInv, UNCHANGED <<listVars, heapVars>>,
         pc \notin {"free", "destroy"}, pc' \notin {"free", "destroy"}
  PROVE  LInv' /\ Owners' = Owners
<1>1. ListShape'
  BY DEF LInv, ListShape, listVars, heapVars
<1>2. \A p : Chain(p)' = Chain(p)
  BY DEF Chain, heapVars
<1>3. /\ (Chain(peers))' = Chain(peers) /\ (Chain(held))' = Chain(held)
      /\ (Chain(walk))' = Chain(walk)
  BY DEF Chain, listVars, heapVars
<1>4. OneOwnerPerPeer'
  BY <1>3 DEF LInv, OneOwnerPerPeer, ParserPeers, listVars, heapVars
<1>5. Owners' = Owners
  BY <1>3 DEF Owners, OwnerOf, heapVars
<1>6. QED
  BY <1>1, <1>4, <1>5 DEF LInv

\* the steps that move a list from one owner to another; n peers, none of them new
LEMMA LInvLists ==
  ASSUME TInv, TInv', LInv, Lists
  PROVE  LInv'
<1> USE DEF LInv
<1>1. /\ Len(next) = Len(decoded) /\ Len(decoded) \in Nat
      /\ next \in Seq(Nat) /\ Forward(next)
      /\ peers \in 0 .. Len(next) /\ held \in 0 .. Len(next) /\ walk \in 0 .. Len(next)
      /\ Chain(peers) = LinksFrom(next, peers)
      /\ Chain(held) = LinksFrom(next, held)
      /\ Chain(walk) = LinksFrom(next, walk)
  BY HeapFacts
<1>2. UNCHANGED <<decoded, next>>
  BY DEF Lists, GetPeers, FreePeers, Destroy, FreeOne, FreePeersDone, DestroyDone, heapVars
<1>3. LinksFrom(next, 0) = {}
  BY DEF LinksFrom
<1>4. /\ (Chain(peers))' = LinksFrom(next, peers')
      /\ (Chain(held))' = LinksFrom(next, held')
      /\ (Chain(walk))' = LinksFrom(next, walk')
  BY <1>1, <1>2 DEF Chain, LinksFrom
<1>5. /\ freed \cup ParserPeers \cup Chain(held) \cup Chain(walk) = 1 .. Len(decoded)
      /\ freed \cap (ParserPeers \cup Chain(held) \cup Chain(walk)) = {}
      /\ ParserPeers \cap (Chain(held) \cup Chain(walk)) = {}
      /\ Chain(held) \cap Chain(walk) = {}
  BY DEF OneOwnerPerPeer
<1>6. CASE GetPeers
  <2>1. /\ pc = "idle" /\ pc' = "idle" /\ held = 0 /\ held' = peers /\ peers' = 0 /\ tail' = 0
        /\ UNCHANGED <<next, decoded, freed, walk>> /\ walk = 0
    BY <1>6 DEF GetPeers, ListShape
  <2>2. ListShape'
    BY <2>1 DEF ListShape
  <2>3. OneOwnerPerPeer'
    BY <2>1, <1>1, <1>3, <1>4, <1>5 DEF OneOwnerPerPeer, ParserPeers
  <2>4. QED
    BY <2>2, <2>3
<1>7. CASE FreePeers
  <2>1. /\ pc = "idle" /\ pc' = "free" /\ walk' = held /\ held' = 0 /\ walk = 0
        /\ UNCHANGED <<next, decoded, freed, peers, tail>>
    BY <1>7 DEF FreePeers, ListShape, listVars
  <2>2. ListShape'
    BY <2>1 DEF ListShape
  <2>3. OneOwnerPerPeer'
    BY <2>1, <1>1, <1>3, <1>4, <1>5 DEF OneOwnerPerPeer, ParserPeers
  <2>4. QED
    BY <2>2, <2>3
<1>8. CASE Destroy
  <2>1. /\ pc = "idle" /\ pc' = "destroy" /\ walk' = peers /\ walk = 0
        /\ UNCHANGED <<next, decoded, freed, peers, tail, held>>
    BY <1>8 DEF Destroy, ListShape, listVars
  <2>2. ListShape'
    BY <2>1 DEF ListShape
  <2>3. OneOwnerPerPeer'
    BY <2>1, <1>1, <1>3, <1>4, <1>5 DEF OneOwnerPerPeer, ParserPeers
  <2>4. QED
    BY <2>2, <2>3
<1>9. CASE FreeOne
  <2>1. /\ pc \in {"free", "destroy"} /\ pc' = pc /\ walk # 0 /\ walk' = next[walk]
        /\ freed' = freed \cup {walk}
        /\ UNCHANGED <<next, decoded, held, peers, tail>>
    BY <1>9 DEF FreeOne, listVars
  <2>2. /\ LinksFrom(next, walk) = {walk} \cup LinksFrom(next, walk')
        /\ walk \notin LinksFrom(next, walk')
    <3>1. walk \in 1 .. Len(next)
      BY <1>1, <2>1
    <3>2. /\ LinksFrom(next, walk) = {walk} \cup LinksFrom(next, next[walk])
          /\ \A i \in LinksFrom(next, next[walk]) : walk < i
      BY <1>1, <3>1, LinksUnfold
    <3>3. ~(walk < walk)
      BY <3>1
    <3>4. QED
      BY <2>1, <3>2, <3>3
  <2>3. ListShape'
    BY <2>1 DEF ListShape
  <2>4. ParserPeers' = ParserPeers
    BY <2>1, <1>1, <1>4 DEF ParserPeers
  <2>5. (Chain(held))' = Chain(held)
    BY <2>1, <1>1, <1>4
  <2>6. OneOwnerPerPeer'
    BY <2>1, <2>2, <2>4, <2>5, <1>1, <1>4, <1>5 DEF OneOwnerPerPeer
  <2>7. QED
    BY <2>3, <2>6
<1>10. CASE FreePeersDone
  <2>1. /\ pc = "free" /\ pc' = "idle" /\ walk = 0
        /\ UNCHANGED <<next, decoded, held, peers, tail, freed, walk>>
    BY <1>10 DEF FreePeersDone, listVars, heapVars
  <2>2. ListShape'
    BY <2>1 DEF ListShape
  <2>3. OneOwnerPerPeer'
    BY <2>1, <1>1, <1>4, <1>5 DEF OneOwnerPerPeer, ParserPeers
  <2>4. QED
    BY <2>2, <2>3
<1>11. CASE DestroyDone
  <2>1. /\ pc = "destroy" /\ pc' = "idle" /\ walk = 0 /\ peers' = 0 /\ tail' = 0
        /\ UNCHANGED <<next, decoded, held, freed, walk>>
    BY <1>11 DEF DestroyDone, heapVars
  <2>2. ListShape'
    BY <2>1 DEF ListShape
  <2>3. OneOwnerPerPeer'
    BY <2>1, <1>1, <1>3, <1>4, <1>5 DEF OneOwnerPerPeer, ParserPeers
  <2>4. QED
    BY <2>2, <2>3
<1>12. QED
  BY <1>6, <1>7, <1>8, <1>9, <1>10, <1>11 DEF Lists

\* ... the steps that do neither leave the lists and the heap alone, ...
LEMMA QuietSteps ==
  ASSUME [Next]_vars
  PROVE  \/ Lists \/ EntryDecoded
         \/ /\ UNCHANGED <<listVars, heapVars>>
            /\ pc' = pc \/ (pc \notin {"free", "destroy"} /\ pc' \notin {"free", "destroy"})
<1>1. ASSUME NEW n \in 0 .. file.size - fpos, ReturnAtOnce(n) \/ StartCall(n)
      PROVE  /\ UNCHANGED <<listVars, heapVars>>
             /\ pc \notin {"free", "destroy"} /\ pc' \notin {"free", "destroy"}
  BY <1>1 DEF ReturnAtOnce, StartCall, PassChunk
<1>2. ASSUME HeaderV0 \/ HeaderFull \/ HeaderShort \/ RejectVersion \/ StartEntries
               \/ EntryNotAllocated \/ EntryIncomplete \/ EntriesExhausted
      PROVE  /\ UNCHANGED <<listVars, heapVars>>
             /\ pc \notin {"free", "destroy"} /\ pc' \notin {"free", "destroy"}
  BY <1>2 DEF HeaderV0, HeaderFull, HeaderShort, HeaderDone, TakeHeader, RejectVersion,
              StartEntries, EntryNotAllocated, EntryIncomplete, CopyIntoEntry, EntriesExhausted
<1>3. CASE UNCHANGED vars
  BY <1>3 DEF vars
<1>4. QED
  BY <1>1, <1>2, <1>3 DEF Next, Call, Parse

\* ... and then the owners are the same, ...
LEMMA StutterLInv ==
  ASSUME LInv, UNCHANGED <<listVars, heapVars>>, pc' = pc
  PROVE  LInv' /\ Owners' = Owners
<1>1. ListShape'
  BY DEF LInv, ListShape, listVars, heapVars
<1>2. /\ (Chain(peers))' = Chain(peers) /\ (Chain(held))' = Chain(held)
      /\ (Chain(walk))' = Chain(walk)
  BY DEF Chain, listVars, heapVars
<1>3. OneOwnerPerPeer'
  BY <1>2 DEF LInv, OneOwnerPerPeer, ParserPeers, listVars, heapVars
<1>4. Owners' = Owners
  BY <1>2 DEF Owners, OwnerOf, heapVars
<1>5. QED
  BY <1>1, <1>3, <1>4 DEF LInv

\* ... so every step keeps the lists apart
LEMMA LInvNext == TInv /\ TInv' /\ LInv /\ [Next]_vars => LInv'
  BY QuietSteps, LInvLists, LInvDecoded, LInvQuiet, StutterLInv

\* A peer is never freed twice, never leaked, and never on two lists.
THEOREM EveryPeerOwnedOnce == Spec => []OneOwnerPerPeer
<1>1. LInv => OneOwnerPerPeer
  BY DEF LInv
<1>2. QED
  BY <1>1, TInvInit, TInvNext, LInvInit, LInvNext, PTL DEF Spec

\* A peer decoded after nd_parse_get_peers is not linked to the caller's list.
THEOREM TailInParserList == Spec => []TailEndsParserList
<1>1. TInv /\ LInv => TailEndsParserList
  <2> SUFFICES ASSUME TInv, LInv, pc # "destroy"
               PROVE  /\ peers = 0 <=> tail = 0
                      /\ tail # 0 => tail \in ParserPeers /\ next[tail] = 0
    BY DEF TailEndsParserList
  <2>1. /\ Len(next) = Len(decoded) /\ Len(decoded) \in Nat
        /\ peers \in 0 .. Len(next) /\ tail \in 0 .. Len(next)
    BY HeapFacts DEF LInv
  <2>2. /\ peers = 0 <=> tail = 0
        /\ tail # 0 => /\ tail = Len(next) /\ peers <= tail
                       /\ \A j \in peers .. tail - 1 : next[j] = j + 1
        /\ Len(next) > 0 => next[Len(next)] = 0
    BY DEF LInv, ListShape
  <2>3. ASSUME tail # 0 PROVE tail \in ParserPeers /\ next[tail] = 0
    BY <2>1, <2>2, <2>3 DEF ParserPeers, Chain
  <2>4. QED
    BY <2>2, <2>3
<1>2. QED
  BY <1>1, TInvInit, TInvNext, LInvInit, LInvNext, PTL DEF Spec

-----------------------------------------------------------------------------
(* Every step is a step of the ownership protocol, or leaves owners alone. *)
LEMMA OwnershipInit == Init => Ownership!Init
BY DEF Init, Ownership!Init, Owners

\* an entry decoded is a peer that gets its owner, ...
LEMMA OwnershipDecode ==
  ASSUME TInv, TInv', LInv, EntryDecoded
  PROVE  Ownership!Decode
<1> DEFINE n == Len(next)
<1>1. /\ Len(decoded) = n /\ n \in Nat /\ held \in 0 .. n
      /\ Chain(held) = LinksFrom(next, held)
  BY HeapFacts DEF LInv
<1>2. Len(decoded') = n + 1
  BY <1>1, AppendStep DEF TInv
<1>3. pc = "entries" /\ pc' = "entries" /\ freed' = freed /\ held' = held
  BY DEF EntryDecoded, CopyIntoEntry
<1>4. (Chain(held))' = Chain(held)
  <2>1. LInv' /\ LinksFrom(next', held) = LinksFrom(next, held)
    BY LInvDecoded
  <2>2. (Chain(held))' = LinksFrom(next', held')
    BY <2>1, HeapFactsNext DEF LInv
  <2>3. QED
    BY <1>1, <1>3, <2>1, <2>2
<1>5. freed \subseteq 1 .. n /\ Chain(held) \subseteq 1 .. n
  BY <1>1 DEF LInv, OneOwnerPerPeer
<1>6. \A i : OwnerOf(i)' = OwnerOf(i)
  BY <1>3, <1>4 DEF OwnerOf
<1>7. Owners' = [i \in 1 .. n + 1 |-> OwnerOf(i)]
  BY <1>2, <1>3, <1>4 DEF Owners, OwnerOf
<1>8. OwnerOf(n + 1) = "parser"
  BY <1>1, <1>3, <1>5 DEF OwnerOf
<1>9. Owners = [i \in 1 .. n |-> OwnerOf(i)] /\ Owners \in Seq({"parser", "caller", "freed"})
      /\ Len(Owners) = n
  BY <1>1 DEF Owners, OwnerOf
<1>10. Owners' = Append(Owners, "parser")
  BY <1>1, <1>7, <1>8, <1>9
<1>11. QED
  BY <1>10 DEF Ownership!Decode

\* ... a call on a list hands peers on or frees them, or does nothing, ...
LEMMA OwnershipLists ==
  ASSUME TInv, TInv', LInv, Lists
  PROVE  Ownership!Next \/ Owners' = Owners
<1> DEFINE n == Len(decoded)
<1>1. /\ Len(next) = n /\ n \in Nat /\ next \in Seq(Nat) /\ Forward(next)
      /\ walk \in 0 .. n
      /\ Chain(peers) = LinksFrom(next, peers)
      /\ Chain(held) = LinksFrom(next, held)
      /\ Chain(walk) = LinksFrom(next, walk)
  BY HeapFacts DEF LInv
<1>2. UNCHANGED <<decoded, next>>
  BY DEF Lists, GetPeers, FreePeers, Destroy, FreeOne, FreePeersDone, DestroyDone, heapVars
<1>3. /\ (Chain(held))' = LinksFrom(next, held')
      /\ (Chain(walk))' = LinksFrom(next, walk')
      /\ LinksFrom(next, 0) = {}
  BY <1>1, <1>2 DEF Chain, LinksFrom
<1>4. /\ freed \cup ParserPeers \cup Chain(held) \cup Chain(walk) = 1 .. n
      /\ freed \cap (ParserPeers \cup Chain(held) \cup Chain(walk)) = {}
      /\ ParserPeers \cap (Chain(held) \cup Chain(walk)) = {}
      /\ Chain(held) \cap Chain(walk) = {}
      /\ pc \notin {"free", "destroy"} => walk = 0
      /\ pc = "free" => held = 0
  BY DEF LInv, OneOwnerPerPeer, ListShape
<1>5. /\ Owners = [i \in 1 .. n |-> OwnerOf(i)]
      /\ Owners' = [i \in 1 .. n |-> OwnerOf(i)']
      /\ DOMAIN Owners = 1 .. n
  BY <1>2 DEF Owners
<1>6. CASE GetPeers
  <2>1. pc = "idle" /\ pc' = "idle" /\ held = 0 /\ held' = peers /\ freed' = freed /\ walk = 0
    BY <1>4, <1>6 DEF GetPeers
  <2>2. Chain(held) = {} /\ (Chain(held))' = ParserPeers /\ Chain(walk) = {}
    BY <1>1, <1>3, <2>1 DEF ParserPeers
  <2>3. ASSUME NEW i \in 1 .. n
        PROVE  /\ OwnerOf(i) # "caller"
               /\ OwnerOf(i)' = IF OwnerOf(i) = "parser" THEN "caller" ELSE OwnerOf(i)
    BY <1>4, <2>1, <2>2 DEF OwnerOf
  <2>4. Ownership!OwnedBy("caller") = {}
    BY <1>5, <2>3 DEF Ownership!OwnedBy
  <2>5. Owners' = [i \in DOMAIN Owners |->
                     IF Owners[i] = "parser" THEN "caller" ELSE Owners[i]]
    BY <1>5, <2>3
  <2>6. QED
    BY <2>4, <2>5 DEF Ownership!Next, Ownership!HandOver
<1>7. CASE FreePeers
  <2>1. pc = "idle" /\ pc' = "free" /\ walk' = held /\ held' = 0 /\ freed' = freed /\ walk = 0
    BY <1>4, <1>7 DEF FreePeers
  <2>2. (Chain(held))' = {} /\ (Chain(walk))' = Chain(held)
    BY <1>1, <1>3, <2>1
  <2>3. \A i \in 1 .. n : OwnerOf(i)' = OwnerOf(i)
    BY <2>1, <2>2 DEF OwnerOf
  <2>4. QED
    BY <1>5, <2>3
<1>8. CASE Destroy \/ DestroyDone
  <2>1. pc # "free" /\ pc' # "free" /\ held' = held /\ freed' = freed
    BY <1>8 DEF Destroy, DestroyDone, heapVars
  <2>2. (Chain(held))' = Chain(held)
    BY <1>1, <1>3, <2>1
  <2>3. \A i \in 1 .. n : OwnerOf(i)' = OwnerOf(i)
    BY <2>1, <2>2 DEF OwnerOf
  <2>4. QED
    BY <1>5, <2>3
<1>9. CASE FreePeersDone
  <2>1. pc = "free" /\ pc' = "idle" /\ walk = 0 /\ held' = held /\ freed' = freed
    BY <1>9 DEF FreePeersDone, heapVars
  <2>2. (Chain(held))' = Chain(held) /\ Chain(walk) = {}
    BY <1>1, <1>3, <2>1
  <2>3. \A i \in 1 .. n : OwnerOf(i)' = OwnerOf(i)
    BY <2>1, <2>2 DEF OwnerOf
  <2>4. QED
    BY <1>5, <2>3
<1>10. CASE FreeOne
  <2>1. /\ pc \in {"free", "destroy"} /\ pc' = pc /\ walk # 0 /\ walk' = next[walk]
        /\ freed' = freed \cup {walk} /\ held' = held
    BY <1>10 DEF FreeOne
  <2>2. /\ walk \in 1 .. n
        /\ Chain(walk) = {walk} \cup (Chain(walk))'
        /\ \A i \in (Chain(walk))' : walk < i
        /\ (Chain(held))' = Chain(held)
    <3>1. walk \in 1 .. Len(next)
      BY <1>1, <2>1
    <3>2. /\ LinksFrom(next, walk) = {walk} \cup LinksFrom(next, next[walk])
          /\ \A i \in LinksFrom(next, next[walk]) : walk < i
      BY <1>1, <3>1, LinksUnfold
    <3>3. QED
      BY <1>1, <1>3, <2>1, <3>1, <3>2
  <2> DEFINE who == IF pc = "free" THEN "caller" ELSE "parser"
  <2>3. ASSUME NEW i \in 1 .. n PROVE OwnerOf(i) = who <=> i \in Chain(walk)
    <3>1. CASE pc = "free"
      <4>1. Chain(held) = {}
        BY <1>1, <1>3, <1>4, <3>1
      <4>2. QED
        BY <1>4, <3>1, <4>1 DEF OwnerOf
    <3>2. CASE pc = "destroy"
      <4>1. ParserPeers = {}
        BY <3>2 DEF ParserPeers
      <4>2. QED
        BY <1>4, <3>2, <4>1 DEF OwnerOf
    <3>3. QED
      BY <2>1, <3>1, <3>2
  <2>4. Ownership!OwnedBy(who) = Chain(walk)
    <3>1. Chain(walk) \subseteq 1 .. n
      BY <1>4
    <3>2. QED
      BY <1>5, <2>3, <3>1 DEF Ownership!OwnedBy
  <2>5. \A j \in Chain(walk) : walk <= j
    BY <1>1, <1>4, <2>2
  <2>6. \A i \in 1 .. n : OwnerOf(i)' = IF i = walk THEN "freed" ELSE OwnerOf(i)
    BY <2>1, <2>2 DEF OwnerOf
  <2>7. Owners' = [Owners EXCEPT ![walk] = "freed"]
    BY <1>5, <2>2, <2>6
  <2>8. Ownership!FreeOldest(who)
    BY <2>2, <2>4, <2>5, <2>7 DEF Ownership!FreeOldest
  <2>9. QED
    BY <2>8 DEF Ownership!Next
<1>11. QED
  BY <1>6, <1>7, <1>8, <1>9, <1>10 DEF Lists

\* ... and every step is one of the abstract ownership, or a stutter
LEMMA OwnershipNext ==
  TInv /\ TInv' /\ LInv /\ [Next]_vars => [Ownership!Next]_Owners
<1> SUFFICES ASSUME TInv, TInv', LInv, [Next]_vars
             PROVE  Ownership!Next \/ Owners' = Owners
  OBVIOUS
<1>1. CASE Lists
  BY <1>1, OwnershipLists
<1>2. CASE EntryDecoded
  BY <1>2, OwnershipDecode DEF Ownership!Next
<1>3. CASE /\ UNCHANGED <<listVars, heapVars>>
           /\ pc' = pc \/ (pc \notin {"free", "destroy"} /\ pc' \notin {"free", "destroy"})
  BY <1>3, LInvQuiet, StutterLInv
<1>4. QED
  BY <1>1, <1>2, <1>3, QuietSteps

\* The parser and its callers follow the ownership protocol of the header: all
\* decoded peers change hands at once, and each list is freed oldest peer first.
THEOREM RefinesOwnership == Spec => KeepsOwnership
<1>1. QED
  BY TInvInit, TInvNext, LInvInit, LInvNext, OwnershipInit, OwnershipNext, PTL
  DEF Spec, KeepsOwnership, Ownership!Spec

-----------------------------------------------------------------------------
(* The inductive invariant: between and in calls of nodes_dat.c the parser's
   position, the bytes it has and the lists fit together, for every file, every
   way of cutting it and every order of calls. *)
THEOREM ParserInvariant == Spec => []IInv
<1>1. TInv /\ BInv /\ LInv => IInv
  BY DEF TInv, BInv, LInv, IInv
<1>2. QED
  BY <1>1, TInvInit, TInvNext, BInvInit, BInvNext, LInvInit, LInvNext, PTL DEF Spec

(* Each field of struct nd_ctx keeps to what it counts: head_pos to the header,
   cur_e_pos to one entry, the links to the peers there are. *)
THEOREM ParserTypes == Spec => []TypeOK
<1>1. IInv => TypeOK
  BY DEF IInv
<1>2. QED
  BY <1>1, ParserInvariant, PTL

-----------------------------------------------------------------------------
(* nd_reader.c uses the parser as NodesDat allows, so the theorems about NodesDat
   are theorems about the program; with OneOwnerPerPeer among them, a list that is
   given up everywhere has been freed. *)

\* a step of the program is a step of the parser, or the parser stands still
LEMMA ReaderSteps == [ReaderNext]_allVars => [Next]_vars
<1> SUFFICES ASSUME ReaderNext, ~UNCHANGED vars PROVE Next
  BY DEF allVars
<1>1. CASE \E r \in 1 .. Least(BufLen, file.size - fpos) : ReadChunk(r)
  <2>1. PICK r \in 1 .. Least(BufLen, file.size - fpos) : ReturnAtOnce(r) \/ StartCall(r)
    BY <1>1 DEF ReadChunk
  <2>2. r \in 0 .. file.size - fpos
    BY <2>1 DEF ReturnAtOnce, StartCall, PassChunk
  <2>3. QED
    BY <2>1, <2>2 DEF Next, Call
<1>2. CASE InLibrary
  BY <1>2 DEF InLibrary, Next, Lists
<1>3. CASE Open \/ OpenFails \/ CallSucceeded \/ PrintPeers \/ Leave
  BY <1>3 DEF Open, OpenFails, CallSucceeded, PrintPeers, Leave
<1>4. CASE CallFailed \/ TakePeers \/ NoPeers \/ FreePrinted \/ Finish
  BY <1>4 DEF CallFailed, TakePeers, NoPeers, FreePrinted, Finish, Next, Lists
<1>5. QED
  BY <1>1, <1>2, <1>3, <1>4 DEF ReaderNext

(* Each action of main joins a step of NodesDat or leaves its variables alone, so
   what is proved of NodesDat may be used of the program. *)
LEMMA ReaderIsACaller == ReaderSpec => Spec
<1>1. ReaderInit => Init
  BY DEF ReaderInit
<1>2. QED
  BY <1>1, ReaderSteps, PTL DEF ReaderSpec, Spec

-----------------------------------------------------------------------------
\* what main owns, at each place in it
MainInv ==
  /\ main \in {"open", "read", "call"} => held = 0 /\ pc \notin {"free", "destroy"}
  /\ main \in {"got", "print"} => peers = 0 /\ pc = "idle"
  /\ main = "free" => held = 0 /\ peers = 0 /\ pc \in {"free", "idle"}
  /\ main = "leave" => held = 0 /\ pc \in {"destroy", "idle"}
  /\ main = "leave" /\ pc = "idle" => peers = 0 /\ walk = 0
  /\ main = "exited" => held = 0 /\ peers = 0 /\ walk = 0 /\ pc = "idle"

\* the parser takes no list apart, and ends in a state that reads
LEMMA ParseKeepsLists ==
  Parse => /\ UNCHANGED <<held, walk>>
           /\ pc' \in {"idle", "header", "version", "entries"}
  BY DEF Parse, HeaderV0, HeaderFull, HeaderShort, HeaderDone, TakeHeader, RejectVersion,
         StartEntries, EntryDecoded, EntryNotAllocated, EntryIncomplete, CopyIntoEntry,
         EntriesExhausted, heapVars

\* every step of the program keeps MainInv
LEMMA MainInvNext == MainInv /\ [ReaderNext]_allVars => MainInv'
<1> SUFFICES ASSUME MainInv, [ReaderNext]_allVars PROVE MainInv'
  OBVIOUS
<1>1. CASE \E r \in 1 .. Least(BufLen, file.size - fpos) : ReadChunk(r)
  <2>1. PICK r \in 1 .. Least(BufLen, file.size - fpos) : ReadChunk(r)
    BY <1>1
  <2>2. /\ main = "read" /\ main' = "call" /\ held' = held
        /\ pc' \notin {"free", "destroy"}
    BY <2>1 DEF ReadChunk, ReturnAtOnce, StartCall, PassChunk, heapVars
  <2>3. QED
    BY <2>2 DEF MainInv
<1>2. CASE InLibrary
  <2>1. main' = main
    BY <1>2 DEF InLibrary, mainVars
  <2>2. CASE main = "call" /\ Parse
    BY <2>1, <2>2, ParseKeepsLists DEF MainInv
  <2>3. CASE main \in {"free", "leave"} /\ FreeOne
    <3>1. UNCHANGED <<pc, held, peers>> /\ pc # "idle"
      BY <2>3 DEF FreeOne, listVars
    <3>2. QED
      BY <2>1, <2>3, <3>1 DEF MainInv
  <2>4. CASE main \in {"free", "leave"} /\ FreePeersDone
    <3>1. UNCHANGED <<held, peers>> /\ pc = "free" /\ pc' = "idle"
      BY <2>4 DEF FreePeersDone, listVars, heapVars
    <3>2. QED
      BY <2>1, <2>4, <3>1 DEF MainInv
  <2>5. CASE main \in {"free", "leave"} /\ DestroyDone
    <3>1. /\ held' = held /\ peers' = 0 /\ walk' = 0
          /\ pc = "destroy" /\ pc' = "idle"
      BY <2>5 DEF DestroyDone, heapVars
    <3>2. QED
      BY <2>1, <2>5, <3>1 DEF MainInv
  <2>6. QED
    BY <1>2, <2>2, <2>3, <2>4, <2>5 DEF InLibrary
<1>3. CASE Open \/ OpenFails \/ CallSucceeded \/ PrintPeers \/ Leave \/ UNCHANGED allVars
  <2>1. UNCHANGED <<pc, held, peers, walk>>
    BY <1>3 DEF Open, OpenFails, CallSucceeded, PrintPeers, Leave, allVars, vars, listVars, heapVars
  <2>2. QED
    BY <1>3, <2>1
    DEF MainInv, Open, OpenFails, CallSucceeded, PrintPeers, Leave, allVars, mainVars
<1>4. CASE CallFailed \/ NoPeers \/ Finish
  <2>1. held' = held /\ pc' = "destroy" /\ held = 0 /\ main' = "leave"
    BY <1>4 DEF CallFailed, NoPeers, Finish, Destroy, MainInv
  <2>2. QED
    BY <2>1 DEF MainInv
<1>5. CASE TakePeers
  BY <1>5 DEF TakePeers, GetPeers, MainInv
<1>6. CASE FreePrinted
  BY <1>6 DEF FreePrinted, FreePeers, listVars, MainInv
<1>7. QED
  BY <1>1, <1>2, <1>3, <1>4, <1>5, <1>6 DEF ReaderNext

(* Whichever way main of nd_reader.c returns, every peer it had decoded has
   been freed. *)
THEOREM ReaderFreesAll == ReaderSpec => []NothingLeaked
<1>1. ReaderInit => MainInv
  BY DEF ReaderInit, Init, MainInv
<1>2. ASSUME MainInv, OneOwnerPerPeer PROVE NothingLeaked
  <2> SUFFICES ASSUME main = "exited" PROVE freed = 1 .. Len(decoded)
    BY DEF NothingLeaked
  <2>1. held = 0 /\ peers = 0 /\ walk = 0 /\ pc = "idle"
    BY <1>2 DEF MainInv
  <2>2. ParserPeers = {} /\ Chain(held) = {} /\ Chain(walk) = {}
    BY <2>1 DEF ParserPeers, Chain
  <2>3. QED
    BY <1>2, <2>2 DEF OneOwnerPerPeer
<1>3. QED
  BY <1>1, <1>2, MainInvNext, ReaderIsACaller, EveryPeerOwnedOnce, PTL
  DEF ReaderSpec

-----------------------------------------------------------------------------
(* What main has read and printed, at each place in it. *)
NothingFreed == freed = {} /\ walk = 0
AllRead == ~badRead => fpos = file.size
AllPrinted == printed = 1 .. Len(decoded)

PrintInv ==
  /\ ~header_parsed => nr_total = 0
  /\ main \in {"open", "read", "call", "got"} => NothingFreed
  /\ main \in {"got", "print", "free"} => AllRead
  /\ main \in {"print", "free"} => AllPrinted
  /\ main \in {"leave", "exited"} /\ exit = 0 => AllRead /\ AllPrinted

\* the parser frees nothing, and counts nothing before the header
LEMMA ParseFreesNothing ==
  ASSUME Parse
  PROVE  /\ UNCHANGED <<freed, walk, file, fpos>>
         /\ (~header_parsed => nr_total = 0) => (~header_parsed' => nr_total' = 0)
<1>1. CASE HeaderV0 \/ HeaderFull
  BY <1>1 DEF HeaderV0, HeaderFull, HeaderDone, TakeHeader, inputVars, heapVars
<1>2. CASE HeaderShort \/ RejectVersion \/ StartEntries \/ EntriesExhausted
  BY <1>2 DEF HeaderShort, RejectVersion, StartEntries, EntriesExhausted, TakeHeader,
              inputVars, headVars, heapVars
<1>3. CASE EntryDecoded \/ EntryNotAllocated \/ EntryIncomplete
  BY <1>3 DEF EntryDecoded, EntryNotAllocated, EntryIncomplete, CopyIntoEntry,
              inputVars, headVars, heapVars
<1>4. QED
  BY <1>1, <1>2, <1>3 DEF Parse

\* fread returned 0: without a read error the file is at its end
LEMMA ReadToTheEnd ==
  ASSUME TypeOK, TakePeers
  PROVE  AllRead'
<1>1. fpos' = fpos /\ file' = file /\ (~badRead' => ~(fpos < file.size))
  BY DEF TakePeers, GetPeers, libraryIdle, inputVars
<1>2. file.size \in Nat /\ fpos \in 0 .. file.size
  BY FilesAssumption DEF TypeOK
<1>3. ~(fpos < file.size) => fpos = file.size
  BY <1>2
<1>4. QED
  BY <1>1, <1>3 DEF AllRead

\* main holds the one list there is, with every peer on it
LEMMA PrintsAll ==
  ASSUME MainInv, OneOwnerPerPeer, NothingFreed, PrintPeers
  PROVE  AllPrinted'
<1>1. peers = 0 /\ pc = "idle" /\ walk = 0 /\ freed = {}
  BY DEF PrintPeers, MainInv, NothingFreed
<1>2. ParserPeers = {} /\ Chain(walk) = {}
  BY <1>1 DEF ParserPeers, Chain
<1>3. Chain(held) = 1 .. Len(decoded)
  BY <1>1, <1>2 DEF OneOwnerPerPeer
<1>4. printed' = Chain(held) /\ decoded' = decoded
  BY DEF PrintPeers, vars, heapVars
<1>5. QED
  BY <1>3, <1>4 DEF AllPrinted

\* every step of the program keeps PrintInv
LEMMA PrintInvNext ==
  TypeOK /\ MainInv /\ OneOwnerPerPeer /\ PrintInv /\ [ReaderNext]_allVars => PrintInv'
<1> SUFFICES ASSUME TypeOK, MainInv, OneOwnerPerPeer, PrintInv, [ReaderNext]_allVars
             PROVE  PrintInv'
  OBVIOUS
<1> DEFINE Still == /\ UNCHANGED <<header_parsed, nr_total, fpos, file, decoded>>
                    /\ UNCHANGED <<printed, badRead>>
<1>1. Still => /\ (~header_parsed => nr_total = 0)'
               /\ AllRead => AllRead'
               /\ AllPrinted => AllPrinted'
  BY DEF PrintInv, AllRead, AllPrinted
<1>2. UNCHANGED <<freed, walk>> /\ NothingFreed => NothingFreed'
  BY DEF NothingFreed
<1>3. CASE \E r \in 1 .. Least(BufLen, file.size - fpos) : ReadChunk(r)
  <2>1. /\ main = "read" /\ main' = "call"
        /\ UNCHANGED <<header_parsed, nr_total, freed, walk>>
    BY <1>3 DEF ReadChunk, ReturnAtOnce, StartCall, headVars, heapVars
  <2>2. QED
    BY <1>2, <2>1 DEF PrintInv
<1>4. CASE InLibrary
  <2>1. main' = main /\ UNCHANGED <<exit, printed, badRead>>
    BY <1>4 DEF InLibrary, mainVars
  <2>2. CASE main = "call" /\ Parse
    <3>1. UNCHANGED <<freed, walk>> /\ (~header_parsed => nr_total = 0)'
      BY <2>2, ParseFreesNothing DEF PrintInv
    <3>2. QED
      BY <1>2, <2>1, <2>2, <3>1 DEF PrintInv
  <2>3. CASE main \in {"free", "leave"} /\ (FreeOne \/ FreePeersDone \/ DestroyDone)
    <3>1. Still
      BY <2>1, <2>3
      DEF FreeOne, FreePeersDone, DestroyDone, libraryIdle, inputVars, headVars, heapVars
    <3>2. QED
      BY <1>1, <2>1, <2>3, <3>1 DEF PrintInv
  <2>4. QED
    BY <1>4, <2>2, <2>3 DEF InLibrary
<1>5. CASE Open \/ OpenFails \/ CallSucceeded \/ Leave \/ UNCHANGED allVars
  <2>1. Still /\ UNCHANGED <<freed, walk, exit>>
    BY <1>5 DEF Open, OpenFails, CallSucceeded, Leave, allVars, mainVars, vars,
                inputVars, headVars, heapVars
  <2>2. \/ main' = main
        \/ main = "open" /\ main' \in {"read", "crashed"}
        \/ main = "call" /\ main' = "read"
        \/ main = "leave" /\ main' = "exited"
    BY <1>5 DEF Open, OpenFails, CallSucceeded, Leave, allVars, mainVars
  <2>3. QED
    BY <1>1, <1>2, <2>1, <2>2 DEF PrintInv
<1>6. CASE CallFailed \/ NoPeers
  <2>1. main' = "leave" /\ exit' \in {3, 4} /\ UNCHANGED <<header_parsed, nr_total>>
    BY <1>6 DEF CallFailed, NoPeers, Destroy, libraryIdle, headVars
  <2>2. QED
    BY <2>1 DEF PrintInv
<1>7. CASE TakePeers
  <2>1. /\ main = "read" /\ main' = "got"
        /\ UNCHANGED <<header_parsed, nr_total, freed, walk>>
    BY <1>7 DEF TakePeers, GetPeers, libraryIdle, headVars
  <2>2. QED
    BY <1>2, <1>7, <2>1, ReadToTheEnd DEF PrintInv
<1>8. CASE PrintPeers
  <2>1. /\ main = "got" /\ main' = "print"
        /\ UNCHANGED <<header_parsed, nr_total, fpos, file, badRead>>
    BY <1>8 DEF PrintPeers, vars, inputVars, headVars
  <2>2. AllRead' /\ AllPrinted'
    BY <1>8, <2>1, PrintsAll DEF PrintInv, AllRead
  <2>3. QED
    BY <2>1, <2>2 DEF PrintInv
<1>9. CASE FreePrinted \/ Finish
  <2>1. /\ main \in {"print", "free"} /\ main' \in {"free", "leave"}
        /\ Still
    BY <1>9 DEF FreePrinted, Finish, FreePeers, Destroy, libraryIdle, inputVars, headVars
  <2>2. QED
    BY <1>1, <2>1 DEF PrintInv
<1>10. QED
  BY <1>3, <1>4, <1>5, <1>6, <1>7, <1>8, <1>9 DEF ReaderNext

\* what is in the file up to its end and not decoded is no whole entry
LEMMA WholeEntriesDecoded ==
  ASSUME IInv, ~header_parsed => nr_total = 0, pc = "idle", error = 0,
         fpos = file.size,
         NEW i \in 1 .. nr_total, HdrLen + i * EntryLen <= file.size
  PROVE  i <= Len(decoded)
<1> DEFINE n == Len(decoded)
<1>1. n \in Nat /\ nr_total \in Nat /\ i \in Nat /\ cur_e_pos \in Nat
  BY DEF IInv, TypeOK
<1>2. EntryLen \in Nat /\ HdrLen \in Nat
  BY EntryLenType, LengthsAssumption DEF IInv, TypeOK, HdrLen, HeadLen
<1>3. SUFFICES ASSUME n < i PROVE FALSE
  BY <1>1
<1>4. header_parsed
  BY <1>1
<1>5. n < nr_total
  BY <1>1, <1>3
<1>6. fpos = HdrLen + n * EntryLen + cur_e_pos
  <2>1. InProgress
    BY <1>4, <1>5 DEF InProgress
  <2>2. Cursor = EntryStart(n) + EntryPos
    BY <2>1 DEF IInv, CursorInEntry
  <2>3. Cursor = fpos /\ EntryPos = cur_e_pos
    BY DEF Cursor, EntryPos
  <2>4. QED
    BY <2>2, <2>3 DEF EntryStart
<1>7. cur_e_pos < EntryLen
  BY DEF IInv, Control
<1>8. n * EntryLen + EntryLen <= i * EntryLen
  BY <1>1, <1>2, <1>3, Multiples
<1>9. n * EntryLen \in Nat /\ i * EntryLen \in Nat
  BY <1>1, <1>2
<1>10. QED
  BY <1>1, <1>2, <1>6, <1>7, <1>8, <1>9

(* Exit status 0, with no read error and no failed allocation, is the truth:
   every entry of those the file announces and has was printed. *)
THEOREM ReaderPrintsAll == ReaderSpec => []PrintsWhatIsThere
<1>1. ReaderInit => MainInv /\ PrintInv
  BY DEF ReaderInit, Init, MainInv, PrintInv, NothingFreed
<1>2. IInv => TypeOK /\ OneOwnerPerPeer
  BY DEF IInv
<1>3. ASSUME IInv, MainInv, PrintInv PROVE PrintsWhatIsThere
  <2> SUFFICES ASSUME main = "exited", exit = 0, ~badRead, error = 0,
                      NEW i \in 1 .. nr_total, HdrLen + i * EntryLen <= file.size
               PROVE  i \in printed
    BY DEF PrintsWhatIsThere
  <2>1. fpos = file.size /\ printed = 1 .. Len(decoded) /\ pc = "idle"
        /\ (~header_parsed => nr_total = 0)
    BY <1>3 DEF PrintInv, MainInv, AllRead, AllPrinted
  <2>2. i <= Len(decoded)
    BY <1>3, <2>1, WholeEntriesDecoded
  <2>3. QED
    BY <2>1, <2>2
<1>4. QED
  BY <1>1, <1>2, <1>3, MainInvNext, PrintInvNext, ReaderIsACaller, ParserInvariant, PTL
  DEF ReaderSpec
=============================================================================
