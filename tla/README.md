# peerduct in TLA+

A verification project for [peerduct](../src/README), a set of C programs and
libraries around distributed hash tables. It holds TLA+ modules that model the
parts of the code with behaviour, TLC configurations that check them on small
instances, and theorems about them, checked by TLAPS, that hold for every value
of the constants.

## 1. The system

`configure` builds one program, `bt` (`bt_dht.c` with `benr.c` and ccan), and
the unit tests of the two bencode readers. `nd_reader` (`nd_reader.c`,
`nodes_dat.c`, `peer.c`) is complete and commented out of the build. The rest of
the tree is drafts, two of which (`kademlia.c`, `nnode.c` with `cfg_json.c`) have
behaviour of their own, and notes.

| component | state it keeps | operations | what is hard |
|---|---|---|---|
| nodes.dat parser (`nodes_dat.c`, `peer.c`) | `struct nd_parse_ctx`: header and entry read so far, counts, the list of peers and the place to append to, an error | `nd_parse_init`, `nd_parse_proc`, `nd_parse_get_peers`, `nd_parse_destroy`, `free_kad_peers` | chunks that end anywhere; failed allocations; lists that change hands while parsing goes on |
| `nd_reader` (`nd_reader.c`) | none of its own: one context, one list | `main` | short reads, read errors, early returns that must release everything |
| `bt` (`bt_dht.c:339-526`) | `struct peer` (timer, `last_activity`), `struct sock` | `main`, `add_peer`, `send_ping_to_peer`, `on_peer_timeout`, `sock_cb`, on a libev loop | a one-shot timer that each callback must start again; two clocks; a blocking lookup and a blocking receive in one thread |
| KRPC messages (`bt_dht.c:42-337`, `ben.h`) | locals of one call | `krpc_msg_parse`, `krpc_gen_ping`, `krpc_gen_ping_response` | a loop whose end depends on the iterator; a writer and a reader that must agree |
| bencode reader `benr` (`benr.c`) | contexts and iterators the caller owns | `benr_init`, `benr_next`, `benr_{list,dict}_iter_next`, `ctx_adv_container` | malformed and truncated messages; calls after the end; numbers at their limit |
| bencode events `benp` (`benp.c`) | a context | `benp_next` | the same grammar as `benr`, written again; nobody keeps track of what is open |
| callers of the readers (`test-benp.c`, `benr-internal-test.c`, `benr-api-test.c`) | a context, or the iterators of all open containers | `benp_eq`, `benr_eq`, the cases of the API test | iterators of nested containers over the same bytes |
| k-bucket (`kademlia.c`) | a list of contacts and their count | `kbucket_contact_insert` | a count kept apart from what it counts; a full bucket; a failed copy |
| `nnode` (`nnode.c`, `cfg_json.c`) | options, configuration, node id, listener | `main`, `config_load`, `setup_me`, `setup_listener`, `do_event_loop` and its callbacks | options in any order; failures halfway; callbacks that read nothing |

How they interact. `nd_reader` calls the parser chunk by chunk and takes over
the peer list, which it frees itself. `bt`'s `main` sets up a socket and a peer,
sends a ping that `krpc_gen_ping` writes through `ben.h`, and gives control to
libev, which calls `on_peer_timeout` and `sock_cb`. `krpc_msg_parse` reads with
`benr`'s dictionary iterator; no code calls it yet (`sock_cb` only prints what
arrives), but it is compiled and complete up to its `TODO`. `benp` has no user
but its test, nor has `benr_next` outside of `benr.c`. `nnode` loads its
configuration once and then only waits. Nothing calls the k-bucket.

What makes each part correct:

- parser: the i-th peer comes from the i-th entry's bytes whatever the chunks
  are; no copy leaves its buffer; the value returned tells a caller when to
  stop; every peer has exactly one owner until it is freed once;
- `nd_reader`: it prints what is there, leaks nothing and ends;
- `bt`: the timer is never lost, pings are neither early nor late, for ever;
- `benr`: it stays in the message, hands out each element once and in order,
  reports truncation, and every call returns;
- `benp`: it agrees with `benr`, and its events, taken alone, are those of the
  message: an end marker closes what was opened last, and after an error it is
  still in front of the token that failed;
- a caller of the iterators meets every value once and in order, whatever it
  descends into, at the cost `benr.h` works out;
- k-bucket: what is known is never forgotten or turned away, the count is the
  length of the list, the list is the order of the last contact;
- `nnode`: its loop runs with what the command line said and with nothing missing;
- KRPC: a message is understood as what it says.

## 2. Modules

    NodesDat ---- NodesDatInv ---- NodesDatProof
       |   \                         /
       |    PeerOwnership (abstract) /
    NdReader -----------------------

    BtDht ---- BtDhtProof            KBucket ---- KBucketProof
                                        \
    Nnode ---- NnodeProof                RecencyOrder (abstract)

    Bytes ---- BenrToken --\              /---- Krpc
       |------ BenpToken ---- BenrIter ------- BenrWalk ---- ValueWalk (abstract)
       |------ Bencode ----/ |
                             EventReader

    BencodeProof (tokens, grammar) ---- BenrProof (BenrIter, BenrWalk) ---- KrpcProof (Krpc)
                 \
                  EventReaderProof (EventReader)

Each component has an `MC...` module with the values of its constants.
Definitions marked `mutated` are altered forms of the definition that follows
them; `PROJECT.json` names the property each of them breaks, which is how we
know the property says something about the code.

### NodesDat, PeerOwnership, NodesDatInv

The parser under the most general caller. A byte of the file is named by its
offset, so a buffer is a function from positions to offsets: the model tells
which bytes end up in which peer and nothing else. The variables are the fields
of `struct nd_parse_ctx`, the arguments and locals of `nd_parse_proc`, and a
heap: for each peer allocated, its bytes, its `next` link, and whether it was
freed. `tail`, a pointer to a pointer, is 0 for `&npc->peers` and i for
`&peer_i->next`, so appending through a stale `tail` would be visible.

A call is several steps: `PassChunk` (`ReturnAtOnce`, `StartCall`) hands over
the next n bytes, any n; `HeaderV0`, `HeaderFull`, `HeaderShort` are the
outcomes of `header_parser`; `RejectVersion`, `StartEntries` those of the version
check; `EntryDecoded`, `EntryNotAllocated`, `EntryIncomplete`,
`EntriesExhausted` those of one round of the loop. Between calls the caller may
`GetPeers` (once it has disposed of the last list), `FreePeers`, or `Destroy`;
`FreeOne` is one round of `free_kad_peers`. There is one thread, so nothing
happens between a call's steps but the call; splitting it only lets the
invariants look inside.

Of an allocation the model says that it succeeds or fails; `errno` is then
`ENOMEM`. The context may be used again after `nd_parse_destroy`, as the code
allows.

`PeerOwnership` is the abstract specification: the parser owns the peers it
decodes, hands all of them over at once, and whoever owns a list frees it, oldest
peer first. `NodesDat` implements it under `owner <- Owners`, which reads the
owner of a peer off the lists it is on (`KeepsOwnership`).

`NodesDatInv` is the inductive invariant, see section 5.

### NdReader

`main` of `nd_reader.c` on top of `NodesDat`: each of its actions is conjoined
with the step of the library it performs, `InLibrary` lets a call run on. That
`main` is one of `NodesDat`'s callers is how the module is made, not something it shows.
`fread` returns anything from one byte to a full buffer, or stops early
(`badRead`). A file that cannot be opened is the crash it is in the code.

### BtDht

`bt` from `main` to the loop. libev reads the clock once per iteration, times
timers by the monotonic clock (`mn_now`) and reports the wall clock (`ev_now`).
All times are relative to the last reading: `now` is how old it is, `timer` what
the timer has left, `quiet` how long before the reading the last ping left. The
difference between the two clocks is `skew`, which any iteration may change.
That makes the state finite without bounding how long the program runs; `age`,
the time since `add_peer`, saturates where it no longer matters.

`Iterate` is libev up to the callbacks, as the code relies on it: it wakes when
the timer is due or the socket readable, reads the clock, stops an expired
one-shot timer, and collects the callbacks, timers first. `TimeoutPings` and
`TimeoutDefers` are the branches of `on_peer_timeout`; `SockCb` waits for a
datagram because the socket is blocking, `SockCbFails` is its unchecked error.
`Tick`, `Arrive` and `Discard` are the environment. libev, the clocks and the
network are not in the repository and are marked external in the map.

### Bytes, BenrToken, BenpToken, BenrIter, Bencode

`Bytes` has contexts, the bytes with a meaning, and numbers modulo `UINTMAX`.
`BenrNext` and `BenpNext` are `benr_next` and `benp_next` as functions from a
context to a token and a context. `BenrIter` is the state machine of a caller that
opens a message, asks for elements as often as it likes (also after the end or
an error) and descends into containers; `ctx_adv_container` is one action per
token. `Bencode` is not code: it is the grammar, by position, that the runs compare
with.

A character is compared as in the C locale, and `isdigit` is given bytes as
`char`; bytes above 127 are nothing to either reader but text.

### Krpc

The generators as the bytes that `ben.h` writes (`"%zu:%.*s"` included: it
writes up to the first zero byte), and `krpc_msg_parse` as a machine on top of
`BenrIter`: each `NextEntry` starts a call of the dictionary iterator,
`InReader` runs it, `NoteEntry` and `RanOut` take its result. `ParseType`,
`ParseQuery` and `ParseElements` are the rest of the function with its early
returns; `Refuse` is each `return -1` before the message is understood (the
`TODO` at the end returns -1 too, `at` tells the two apart).

### BenrWalk, ValueWalk

A caller of `BenrIter` that reads a message to the bottom: when a value is a
container it keeps the iterator it has on a stack (`outer`), iterates over the
container, and goes on with the outer iterator when the inner one is at its end.
That is what the cases of `benr-api-test.c` do by hand with a variable for each
level. `Ask` is a call of an iterator, `SkipOn` a round of `ctx_adv_container`
in it, `Enter` and `Leave` the caller's. History variables note what each call
returned (`results`), where the values handed out begin (`met`) and how many
bytes were read (`reads`; the bytes of a string are not read by the library).

`ValueWalk` is the abstract specification: a set of places, met one after the other
in their order (`Safety`), all of them in the end (`Spec`). `BenrWalk` implements it on
well-formed messages (`MeetsEveryValue`), fairness included. The iterators skip a container to
find what follows it and the caller then reads it from inside, so that every
value is met once is not plain from the code.

### EventReader

The loops `benp_eq` and `benr_eq` of the tests, over either library: read an
event, compare it with the next one of a table, stop at the first difference. The
tables are the tests' own and many more. A container that ends is not remembered
by anyone in the code, so the model notes what is open, to say that the events
would fit together if somebody did.

### KBucket, RecencyOrder

`kbucket_contact_insert`, one action per way through it: `InsertKnown` (moved to
the front), `InsertRefused` (full), `InsertNotCopied`, `InsertNew`. The list, its
count, and the contact and result of the last call are the variables.
`find_contact`, `copy_contact` and the list are defined nowhere in the
repository; they are what the function takes them for. `RecencyOrder` says what a
k-bucket promises without a list: which contacts are known, and which of two was
heard of later.

### Nnode

`main` of `nnode.c`, with `config_load` and `config_get_id` of `cfg_json.c` in its
steps (`OpenConfig`, `ReadConfig`, `ParseConfig`, `SetupMe`). yajl may take or
refuse any file that could be read: it is given a string that nothing ends, so
what is behind it on the stack counts too. `base64_decode` always fails, as the
stub does. `SetupListener` may get -1 for a socket, which libev does not take
for a descriptor. `Poll` is libev, `Callbacks` the two empty callbacks,
`BecomesReadable` the outside.

## 3. Runs

| run | checks | bounds, and why they are enough |
|---|---|---|
| `NodesDat` | `TypeOK`, copies in bounds, peers from their own bytes, no extra peers, short counts, ownership, refinement of `PeerOwnership`, sticky errors | words of 2 bytes, entries of 3 and 4, up to 3 entries, files cut short, whole and padded, both formats and an unknown version; every way to cut each file into chunks. Every position in a word and an entry may be a chunk's end, and lists have up to four peers, so a middle one. Deadlock is checked. |
| `NdReader` | nothing leaked, prints what is there, returns | every length a file of three entries may have, up to some more bytes, in both formats; a buffer of 5 bytes, not a multiple of an entry, with every short read. The program stops, so deadlock is not checked. |
| `BtDht` | `TypeOK`, timer kept, next ping in time, pings apart, pings for ever | timeout 3, clock steps up to 2, delays up to 7 (more than twice the timeout), 2 datagrams. Only how the constants compare matters to the callbacks, and these make every comparison come out each way; for the safety properties the theorems remove the bounds. The program may exit or crash, so deadlock is not checked. |
| `BenrIter` | in bounds, reads every element, notices truncation, `benr` = `benp`, end is final, calls return | well-formed containers nested three deep, all they may be cut to, all messages of up to 5 bytes of those with a meaning that begin with a container, and dictionaries with a key without a value, more bytes behind. A `uintmax_t` of six bits is longer than any message, and strings whose written length does not fit it wrap to 0, 1, 2 or stay at its largest value. The message is finite and a caller may stop at an error, so deadlock is not checked. |
| `BenrWalk` | every value met once and in order (refinement of `ValueWalk`), the cost of `benr.h`, the cases of `benr-api-test.c`, the walk ends | the test's seven messages, containers nested three deep with strings and numbers that hold markers, lists of nothing but lists with up to six brackets (the dearest there are), all they may be cut to, and short malformed messages. The walk stops, so deadlock is not checked. |
| `EventReader` | the loops' verdict, end markers close what is open, `DONE` with nothing open is the end, errors of `benp_next` repeat | both libraries; the tests' five tables; well-formed messages of each kind of token nested three deep, with their own events, with one of them changed, and cut at every byte; malformed messages for each error against every table of three errors. The loop returns, so deadlock is not checked. |
| `Krpc` | parsed as written, entries are those of their keys, pings understood, returns | the messages the program writes, dictionaries of up to three entries of nine (one with a key that is not known, one with a known key that has a zero before its length), all they may be cut to, two to four tokens of seven in any order behind the opening byte (keys without values, keys that are no strings, garbage), and messages that are no dictionaries. One letter stands for the name of a query. |
| `KBucket` | the count is exact, contacts stay, refinement of `RecencyOrder` | room for three of five contacts: a first, a middle and a last one to move, and two to refuse. Deadlock is checked. |
| `Nnode` | the loop runs configured, never sleeps again | up to three options, right and wrong, naming either of two files; files of every kind. The program may exit or crash, so deadlock is not checked. |

Three runs show where the code and what is said of it part, each with one property
that is quoted from a comment:

| run | what TLC shows |
|---|---|
| `NdReader_PrintsOnlyEntries` | after the last entry `nr_consumed` is stale (`nodes_dat.c:222`): bytes behind the last entry, in a later chunk, are printed as peers. |
| `Krpc_EntriesRunOut` | on a dictionary that is not closed the iterator returns 0 for ever and the loop (`bt_dht.c:218`) never reaches "we should now have all the entries we care about". |
| `Krpc_PingsAreUnderstood` | an id with a zero byte, one of about thirteen random ids, is cut by `%.*s` (`ben.h:37`): the ping is not one. |

The passing runs state what does hold next to each of these: a file that
ends with its last entry yields no extra peers (`NoExtraPeers`), well-formed
messages are parsed and the parse returns, pings with ids without a zero byte are
understood.

More disagreements came up that have no run of their own. The passing properties
are worded around them, so that they hold of the code as it is and of the code repaired:

- `nodes_dat.h:93-95` says of the count `nd_parse_proc` returns that it is `@len`
  while parsing goes on and less once it is completed. A chunk that ends with the
  last entry is consumed whole, and a failed allocation returns a short count with
  entries to come. `ShortCountMeansComplete` asks for no error pending and does
  not say the converse.
- `nd_reader` does not see an allocation that fails in the last chunk: the error
  is kept for a call it does not make (`nd_reader.c:45`). `PrintsWhatIsThere` asks
  for no error pending.
- A string length that does not fit a `uintmax_t` wraps (`benr.c:61`, `benp.c:55`,
  both marked FIXME). The model wraps as well, and `BenrIter` has messages that do; both readers do it alike
  (`TokenizersAgree`) and stay in bounds (`InBounds`).
- A container in the place of a key is entered, not skipped (`benr.c:264`, FIXME),
  and what is in it is read as entries of the message. `EntriesAreTheirKeys` is
  about messages in which that does not happen (`keyed`).
- `krpc_msg_parse` wants the name of a query in a response too (`bt_dht.c:273`) and
  refuses one without. `krpc_gen_ping_response` writes its answers without, and
  neither the comment on the keys (`bt_dht.c:130-140`) nor `doc/bep_0005.rst:224`
  has a `q` in a response: the program would not understand the answers it writes.
  `ParsedAsWritten` speaks of errors, of queries, and of responses that do have a
  `q`; of the others it says neither that they are refused nor that they are not.
- `kbucket_contact_insert` returns 0 for a contact that is there already;
  `kademlia.c:26-27` says 1. `KnownStays` tells a call that took its contact from
  one that did not by the sign of the result, and asks that the known are taken.
- A bucket that is full, or that cannot copy a contact, returns -1 or -2;
  `kademlia.c:26` has -1 for both. No property tells the two apart.
- `benr.h:28` gives a closed form for the sum it derives, which is not that sum.
  `ReadsAreBounded` is about the sum.
- `config_get_id` looks for `id` at the top of the file, `cfg.json` has it in
  `self`, and `base64_decode` fails in any case: the id is always random.

## 4. Fairness

- `NdReader`: weak fairness of the whole next-state relation: one thread that
  nothing blocks. `Returns` needs no more. Whether `fopen` or `malloc` fails is
  not assumed either way.
- `BtDht`: weak fairness of the loop's iteration, of each callback and of time.
  libev calls every pending callback and the system schedules the thread.
  Nothing is assumed of datagrams, of `recvfrom` failing or of `Discard`, so
  `PingsForever` has to except the program kept in `recvfrom`, which the code
  cannot rule out.
- `BenrIter`: weak fairness of `Skip` only: a call runs until it returns; nobody
  has to make the next one.
- `Krpc`: weak fairness of the next-state relation, one call that runs.
- `BenrWalk`: weak fairness of the next-state relation: one caller that reads until
  it is done. `MeetsEveryValue` has the fairness of `ValueWalk` on its other side.
- `Nnode`: weak fairness of `Startup` and of `Loop`, one thread that libev runs.
  Nothing is assumed of `BecomesReadable`; `NeverSleepsAgain` starts from it.
- `NodesDat`, `EventReader` and `KBucket` need none: only safety is stated of them.

## 5. Proofs

All theorems are of the form `Spec => ...` for every value of the constants,
under the assumptions the modules name: lengths are positive and a v0 entry is
no longer than a v2 entry (`LengthsAssumption`; 4, 25 and 34 bytes in the code), files have
natural sizes and counts, the buffer is not empty, the timeout is positive, messages are
sequences of bytes shorter than `UINTMAX` (they are in memory, and their length is in a
`uintmax_t`; `ValuesAssumption`, `MessagesAssumption`), an event to compare with carries a number or
bytes only if its kind does (`IsEntry`), `contact_max` is a natural number, no
file is called `none`.

**NodesDatProof.** The invariant is in parts. `Control` says where the parser
stands in each phase of a call (`buf + len = fpos`: what is left of the chunk
ends where the file was read to). From it and `TypeOK` follow the bounds of the
copies (`TypeCorrect`) and that an error ends everything (`ErrorsStick`). Type
correctness alone is not inductive: `head_pos` stays in the header only because
a header that is complete is never parsed again. `CursorInEntry` is
the heart of `EntriesIntact`: while entries are missing, the next unread byte is
byte `pos` of entry `Len(decoded)`, and the bytes before it are in `cur_e`.
It is stated on the locals during a call and on the context between calls,
which is what makes chunking disappear from the argument. `NothingLeft` (a file
that ends with its last entry has nothing left once that is decoded) gives
`NoPeerTooMany`, and `ShortCount` gives `ShortCountIsCompletion`. The theorem
about padded files would be false; `NoExtraPeers` says so in its premise.

In the second half of the module, `ListShape`: links go from a peer to the next one
allocated, and `tail` is the last peer ever allocated, or the list is empty.
With it the four sets of peers (parser's, caller's, being freed, freed) stay a
partition (`EveryPeerOwnedOnce`), and each step maps to a step of
`PeerOwnership` or to a stutter (`RefinesOwnership`). The lemmas about
`LinksFrom` say how a chain grows by one and how it loses its head. `IInv`
(`ParserInvariant`) and `TypeOK` (`ParserTypes`) come of the same induction.
`TailInParserList` is not in a run: a stale `tail` already breaks the ownership.

The end of the module is about `nd_reader`. `NdReader` is composed with `NodesDat`, each
step of `main` with the step of the library it performs, so all of the above holds of the
program (the lemma `ReaderIsACaller`). With an invariant on which lists `main` may own where, `EveryPeerOwnedOnce` then
gives `ReaderFreesAll`: with no list left, every peer is among the freed.
`ReaderPrintsAll` adds `PrintInv`: once `main` has stopped reading without a read
error the file is at its end, nothing was freed before, and so the one list there
is, which is printed, has every peer decoded. What was decoded is then known from
the parser's invariant: without an error pending and with the file at its end,
every whole entry of those announced (`WholeEntriesDecoded`).

**BtDhtProof.** `IInv` adds to the two properties what is known before the loop
(`BeforeLoop`) and two bounds in it (`InLoop`): the timer never expires earlier
than `PEER_TIMEOUT - lag` after the reading of the last ping, and no ping is
older than `last_activity`. The second is why a deferral, computed from
`last_activity`, is not too long. From them `PingsInTime`, `PingsStayApart`,
`TimerNeverLost` and `LoopTypes`.

**BencodeProof.** What both readers' proofs rest on. `Bencode` defines the grammar
as one recursive function over places (a position and whether a value, the rest of
a list or the rest of a dictionary is wanted), and the prover knows nothing of such
a function until it is shown to exist. The induction theorems of the library take an
operator as a parameter, so here, and wherever else an argument goes down a message,
the induction is made by hand: of the set of places where the claim fails, a set of
the model, the last one is taken (a set of naturals that is not empty has a least
element), and the claim follows there from the places behind it.
`GrammarIs` gives the equations of the grammar; `GrammarKept` compares a message with
a beginning of it: what ends in the beginning ends at the same place. From
`UintIsDecimal` (digit by digit and cut to `UINTMAX` after each, as the code computes,
is the number the digits write, as long as that is less than `UINTMAX`) follows
`ValueToken`: where the grammar has a value, `benr_next` takes all of it, opens it, or
finds the message too short. `NextsAgree` is the agreement of the two tokenizers,
on every context of every sequence of bytes; it needs no invariant. `Pending` is
what both readers carry: at this place something is left of a container that closes
there. The places where values begin (`ValuesFrom`) are a second recursive function over
the same places, with the same argument for its existence; `ValuesInIs` and
`RemainingIs` are its equations, and by `ValuesBounds` those of a value or of the rest
of a container lie before the end of it.

**BenrProof.** That each token lies in the context it is taken from (`Taken`) is a
lemma for each kind of token; `StaysInBounds` carries it through the iterators.
`OneTokenizer` is `NextsAgree`.
`EndToldOnce` rests on `EndInv`: an iterator that returned -1 has an empty context,
because it was emptied, also when the end marker stood in the place of a value; on an
empty context every call returns a pair of `BENR_NONE` and leaves it empty
(`AskedEmpty`). So the call after the end leads to `SettledEnd`, an empty iterator that
handed out nothing (`EndThenNothing`), and `SettledEnd` is never left (`NothingForGood`): there
is no byte to read and no container to descend into.
`EveryElementRead` and `NoFalseEnd` have an invariant of their own, `ReadsInv`: for
every whole message the bytes may be the beginning of, the rest of the container from
where the iterator stands closes where the container does, and the pair handed out last
is the element that ends there. While a container is skipped, `Within` says that
there is a chain of the places where the containers open in the skip close, each inside
the next: the depth that `ctx_adv_container` counts is its length, so an end marker
read at depth 1 is the one of the container skipped. That the invariant
speaks of every whole message, and not of the one received, is what makes truncation
fall out of it: an iteration that ends has read the end marker of the whole message,
which by `GrammarKept` is that of the bytes received.

The second half of the module is about `BenrWalk`. `ReadsBounded` is what it costs to
read a message to the bottom. A byte of a container is read
once by every container around it that is passed over, so no step alone pays for the
cost of a step, and the count of reads is bounded only together with what is still to
come. `Owed` is what the rest of the container iterated over may cost
(`Cost`), the value just read included when it is one to enter. `Budget` gives each
iterator the caller will come back to a bound on the bytes read by the time the ones inside
have ended, such that what is left of its container (`Left`) can be paid from the
difference to the next bound; the outermost bound is `MostReads`, the sum of `benr.h`.
`WalkInv` says that what was read and what is owed keep within these bounds.
`MostReadsAdds` is the arithmetic: the inside of a container is two bytes shorter, so
passing over an element and then reading it from inside costs no more than was owed for
it (`ElementCosts`). `ElementSpends` and `SkipWalks`, `EnterWalks` and `LeaveWalks`
keep the budget; where the iterators stand comes from `ReadsInv`, which holds of the
innermost one because the walk is a caller of `BenrIter`.

`WalkKeepsOrder` is the refinement of `ValueWalk` without its fairness: a step of the
walk on a well-formed message meets the first place ahead, or none. Its invariant
(`OrderInv`) says what is ahead, from where the iterators stand: `Now`, what remains of the
container iterated over and is in the value just read when that is to be entered, and
`Beyond`, what remains of the containers around it. `Nested` puts the two in order: each
container closes before the place where the one around it goes on, so all of `Now` comes
before all of `Beyond`. An element that is handed out begins where its container
goes on, in front of all that (`LaterThan`), so it is the first (`MeetsNext`); entering a
container moves what is behind it from `Now` to `Beyond`, and leaving one moves it back
(`EnterInOrder`, `LeaveInOrder`), and neither changes what is ahead. While
`ctx_adv_container` passes over a container, the places in it stay ahead, as the value is
not handed out before the end of it is found (`SkipInOrder`). A message that is not
well-formed has no places, and nothing is claimed of it.

**EventReaderProof.** A token either is an error or moves the context, in both
libraries (`BenpMoves`, `BenrMoves`), so an error leaves the context where it was
and reading there gives the same error: `ErrorsRepeat`, which is about `benp`. The loop
over `benr_next` stops at an error and asks no more.
For the end markers, `NestInv` relates what the reader noted as open to each whole
message the bytes may begin (`Nested`): the innermost container is `Pending` where the
reader stands, each closes inside the next, and the outermost is the message. A round
reads the token that `ValueToken` says and pushes, pops or leaves the containers
accordingly (`NestedMore`, `NestedLess`, `NestedOn`), in both libraries, because they
agree. `EndsCloseContainers` and `DoneMeansComplete` follow: nothing open behind the
last byte means that the message ends there.
`VerdictRight` needs `VerdictInv`: as long as no difference was found, the events that are
still to be expected are those `EventsFrom` gives where the reader stands. In a message
with an event at every place that is reached (`Readable`) a round reads the first of
these and is left with the others (`RoundTold`, `OneMore`), in both libraries, or
reads `DONE`. A well-formed message is `Readable`, because something is `Pending`
wherever its reading comes to (`WholeReadable`); so are the messages of the tests, the
one that is not well-formed included, which TLC evaluates (`TestsAssumption`). The
message's numbers have to fit an `intmax_t` (`NumbersFit`): the code cuts those that do
not.

**KrpcProof.** `KInv` says where in the message `krpc_msg_parse` is at each of its
stops: at depth one between two entries, and in a value, which `ctx_adv_container`
passes over, one deeper than the depth that counts there. The depth at a place is
`Nesting`, and `NestingOn` is the step of the induction: of a place that is reached
token by token from the beginning (`Reached`), the next one is reached too, and its
depth differs by the token between them (`Deeper`). A token that is an error leaves the
iterator where it is, and the depth with it (`TokenMoves`). Nothing is asked of the
message: `EntriesOfTheirKeys` holds of garbage as well.
`ParsedRight` is about dictionaries that were received whole (`DictReceived`), and
needs `ParseInv`: the invariants of the iterators, and `Right`, where
`krpc_msg_parse` is in the dictionary and what it has of it. `LastFrom` is a recursive
definition, so that it exists comes first (`LastFromIs`), as with the grammar; it
gives the last value of a key from each position on, and so the claim can be put half
way through the dictionary (`Looked`): the last value of a key is the one that is
still to come or, if none is, the one noted. `LookOn` is the step from one pair to
the next, `LookEnds` the end of it, where nothing is to come. `PairRead` says that what
the iterator reads is the pair that is written there (`Found`); when it has passed over a
container it ends behind it by `ReadsInv` of `BenrProof` (`ReaderRight`). `KeyIs`,
`TypeIs` and `NamedIs` that what the code compares are the bytes of the message.
What follows is `TakenAsWritten`, which says what the code does with every response as
well; `ParsedAsWritten`, which leaves those without a query open, is weaker (`TakenIsParsed`).
The last key wins, in the message as in the code, and a key of one byte may be written
with zeros before its length: neither is asked about by a test of the repository.
`PingsUnderstood` is about what `krpc_gen_ping` writes, for identifiers and
transactions of at most 99 bytes none of which is zero, in pings whose length a
`uintmax_t` holds (`PingsWritable`; `Krpc_PingsAreUnderstood` shows the ping with a
zero byte in its id). `Stands` says where in the message a part written by `ben.h`
is; `StringStands`, `StringsStand` and `DictStands` that the grammar has a value
there; `PingStands` and `PingValues` that these are four pairs of a dictionary that
ends with the message, and what each key has for its value. `ParseInv` gives the rest:
the message is one of those `ParsedRight` is about.

**KBucketProof.** `TypeOK` and `CountIsExact` are inductive together: a contact put
in front was not on the list, and one moved to the front only changes places. Both
moves are renumberings of positions (`WasIsRenumbering`), from which follow what is
known afterwards and which pairs are in which order (`MovedToFront`,
`AddedInFront`), and from these `BucketNeverForgets` and, with `KnownCounted` (as
many contacts are known as are counted), the refinement `BucketKeepsOrder`.

**NnodeProof.** `NamedSoFar` is the loop over the options: while none was wrong,
all named a file and `cfg_file` is the last of them. `Settled` lists what each later
place of `main` can rely on. Together they are inductive and give
`LoopIsConfigured` for command lines of any length.

Only model-checked:

- every liveness property (`Returns`, `PingsForever`, `CallsReturn`,
  `WellFormedReturns`, `Finishes`, `NeverSleepsAgain`), which TLAPS cannot do, and the fairness in
  `MeetsEveryValue`: that the walk goes on to the last value. What it does until then is
  proved (`WalkKeepsOrder`);
- `CasesPass`, which is about seven given messages.

## 6. Not modelled

- `unix.c` and `main.c`: loops over options that print what they read.
  `load_peers` in `unix.c` repeats `nd_reader`'s `main`, and the file does not
  compile.
- in `nnode.c`: `ping_cb`, `new_node`, `handle_ping`, `process_node` and
  `send_pkt`, which nothing calls and which use names that are declared nowhere;
  `config_destroy`, which comes after a loop that does not return.
- in `kademlia.c`: `struct kademlia_node` and `struct kademlia_ops`, declarations.
- in `ben.h`: `ben_list_*` and `ben_integer`, which nothing uses.
- the routing table of `bt_dht.c`: declarations without code.
- `emule_kad.c`, `hornet.c`, `mule_ec.h`, `byte_stream.h`, `peer_store.h`: notes.
- the fields `mk_kad_peer` copies and their byte order; output; the choice of
  the random id; the content of received datagrams, which nothing looks at.
- the build scripts and `nodes_dat_dump.py`; what the tests print.

## 7. Plan

Done: the parser with its ownership refinement, `nd_reader`, the event loop, both
bencode readers with the callers the tests make of them, KRPC, the k-bucket, the
start and loop of `nnode`, and the proofs above.

Next, in this order:

1. a bucket that pings the contact at its end before it refuses a new one, and the
   routing table, when `bt_dht.c` has code for its declarations;
2. `sock_cb` composed with `krpc_msg_parse`, when one calls the other: `Krpc` then
   becomes a step of `BtDht`, and its endless loop one of the event loop.
