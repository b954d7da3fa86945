# Formal models of gfc

gfc is a C foundation library: an allocation tracker, containers, a thread pool,
a cache, id generation, big numbers, logging, text encodings, dates, files and
network clients, each in one `src/gfc_*.c` with a header in `include/`. This
directory holds TLA+ models of its core, TLC instances that check them and TLAPS
proofs about them. Line numbers below refer to the files under `src/`.

## 1. Inventory

How the parts depend on one another:

- almost everything allocates through `gfc_gc`, whose table `gc_ctx` is one global
  for the whole process and has no lock;
- `gfc_map` allocates through `gfc_gc` but hands the old table of a rehash to the
  `free` of libc (gfc_map.c:239);
- `gfc_mt` calls `gfc_gc` from the caller and from every worker thread;
- `gfc_lru` and `gfc_log` have a mutex of their own; no other part has;
- `gfc_map_iterate`, `gfc_list_sort`, `gfc_btree_new` and `gfc_mt_do` take callbacks;
- `gfc_ws` and `gfc_http` speak over sockets.

| part | state | operations | what is hard | what makes it correct |
|---|---|---|---|---|
| `gfc_mt` thread pool | `size`, `max`, mutex, condition variable | `new`, `do`, `free`; `gfc_mt_entry` in each worker | real concurrency: `size` is read under the lock, incremented outside it, decremented by workers; failing `pthread_create`; spurious and lost wakeups; freeing while detached threads end | the count is the number of threads, bounded threads, no use after free, every call returns |
| `gfc_gc` tracker | bitmap, table of cells, total | `malloc`, `realloc`, `free`, `close`, `total` | reuse of slots by bit masks, growth of table and bitmap into memory that is not zeroed, stale cells, failing realloc | what a client holds is in the table; libc gets no foreign pointer; the total is the sum |
| `gfc_map` hash map | table, its size, entry count | `put`, `get`, `remove`, `iterate`, `free`, `deep_free` | chains that wrap and overflow, holes, rehash inside rehash, no memory half way | a dictionary: read your put, nothing else changes, put returns |
| `gfc_lru` cache | hash table of chains, free list, memory left, mutex | `new`, `set`, `get`, `remove`, `free` | items in two lists, fields nothing initialises, unsigned arithmetic, an eviction loop with the mutex held | one list per item, balanced memory, least recently used goes first, set returns |
| `gfc_id` snowflake | last time, sequence | `init`, `value` | sequence exhausted within a millisecond, a clock set back, several nodes | unique, increasing ids |
| `gfc_bignum` | none | arithmetic, shifts, comparison, text | carries, overflow of the doubled divisor, partial words, the signed result of `to_int`, the end of a text buffer | integer arithmetic modulo the size |
| `gfc_btree` AVL tree | root | `append`, `transverse` | double rotations, stored heights | sorted, balanced |
| `gfc_list` array | table, size, capacity | `append`, `remove`, `get`, `sort`, `clear`, `free`, `deep_free` | growth one before the limit, unsigned `size - 1` | a sequence; no access behind the table |
| `gfc_log` | one global `FILE*`, the date of the file, mutex; the files | `init`, `info`, `warn`, `debug`, `error`, `size`, `close` | the file is swapped at midnight while others write outside the lock; a restart has only the file's own time to go by, by gmtime where all else is localtime | no line lost, each in the file of its day, no backup overwritten but in the cases named |
| `gfc_ring` | setter, getter, items | `push`, `pop`, `clear`, `free` | the wrap of one index but not of the other, a full ring, an emptied ring, a table of a third of the items | a bounded queue, as long as it is not emptied |
| `gfc_ws` | socket, buffer, place in it | `conn`, `recv`, `send`, `close` | a stream that comes in pieces and breaks off anywhere, a recv that fails for once, partial sends, skipped frames, a buffer used again | the frames answered are those sent, and the other way round |
| `gfc_sha1` | block, index, length, hash, error | `reset`, `SHA1Input`, `result` | a message in pieces, padding at the end of a block, a length beyond its counters | the digest is that of the padded message |
| `gfc_string` | a block of characters | `new`, `concat`, `split`, `length`, `free` | the block is exactly as long as the text, and cut in place | the text with its zero inside the block |
| `gfc_utf8`, `gfc_hex`, `gfc_base64` | none | conversions | lengths at boundaries, short last groups | the encodings' definitions, round trips |
| `gfc_date`, `gfc_crypto`, `gfc_fs`, `gfc_cli`, `gfc_sql`, `gfc_http`, `gfc_tcp`, `gfc_uuid` | none between calls | wrappers of libc, POSIX, OpenSSL; one-pass text work | input and output | see section 7 |

## 2. Modules

| code | model | abstract specification | proofs | instance |
|---|---|---|---|---|
| gfc_mt.c | `GfcMt` | `ThreadPool` | `GfcMt_proofs` | `MCGfcMt` |
| gfc_gc.c | `GfcGc` | `Heap` | `GfcGc_proofs` | `MCGfcGc` |
| gfc_map.c | `GfcMap` | `Dictionary` | `GfcMap_proofs` | `MCGfcMap` |
| gfc_lru.c | `GfcLru` | `LruCache` | `GfcLru_proofs` | `MCGfcLru` |
| gfc_id.c | `GfcId`, `GfcIdThreads` | - | `GfcParts_proofs` | `MCGfcParts` |
| gfc_bignum.c | `GfcBignumWords`, `GfcBignum` | integer arithmetic (`Val`) | `GfcComputing_proofs` | `MCGfcParts` |
| gfc_btree.c | `GfcBtree` | the set `appended` | `GfcParts_proofs` | `MCGfcParts` |
| gfc_list.c | `GfcList` | the sequence `content` | `GfcParts_proofs` | `MCGfcParts` |
| gfc_log.c | `GfcLog` | the lines `ended` and the files they belong to | `GfcLog_proofs` | `MCGfcParts` |
| gfc_ring.c | `GfcRing` | the sequence `pushed` | `GfcParts_proofs` | `MCGfcParts` |
| gfc_ws.c | `GfcWs` | the frames of the peer, `Parsed` | `GfcParts_proofs` | `MCGfcParts` |
| gfc_sha1.c | `GfcSha1` | the padded message (`PaddingOf`) | `GfcParts_proofs` | `MCGfcParts` |
| gfc_string.c | `GfcString` | the sequence `text`, the letters of what is split (`Letters`) | `GfcParts_proofs` | `MCGfcParts` |
| gfc_hex.c, gfc_base64.c, gfc_utf8.c | `GfcHex`, `GfcBase64`, `GfcUtf8`, driven by `GfcText` | the encodings (`EncodingsExact`) | `GfcComputing_proofs` | `MCGfcParts` |

Each module with an abstract specification ends with `INSTANCE ... WITH`, the
refinement mapping, and a temporal formula (`PoolSpec`, `HeapSpec`, `DictSpec`,
`CacheSpec`) that a run checks as a property. Definitions whose comment begins with
`Mutant:` are plausible mistakes in the definition that follows them; each shows that some
property would notice that mistake, and none is part of a specification.

### GfcMt

Each caller and each worker has a place in the code (`caller[c]`, `worker[j]`); one
action is one step between two accesses to shared state. A job is one call of
`gfc_mt_do` and also the thread that runs it. `gfc_mt_do` is lock (111), test or wait, leave
the lock, `size++` (115) without it, `gfc_gc_malloc`, `pthread_create`; when that fails `size--`
(124), again without the lock and with no signal. `gfc_mt_entry` runs the user's function,
locks, `size--` (84), signals, unlocks, frees its data. `gfc_mt_free` waits for `size = 0`
and frees the handle. `pthread_cond_wait` gives the mutex back, takes it again and may
wake without a signal (at most `MaxSpurious` times). A signal wakes at most one of
the waiters, any of them.

`SplitIncrement` says what the build makes of the unlocked updates. C calls
them a data race; `TRUE` makes each a load and a store with other threads in
between, `FALSE` one step (what one `lock inc` instruction does). `heap` holds
the blocks alive, so freeing too early can be seen. `size` wraps at `UintMax`.

### GfcGc

The table is `ptrs`, the bitmap `bits`, one bit for each slot. `Malloc` takes the first zero bit,
`MallocGrow` lengthens table and bitmap by `IncCount`, `Free` clears the bits the mask of
its case clears (`Cleared`: the mask of case 6, line 339, clears two), `Realloc` moves a
block, `ReallocNull` and `ReallocAssert` are the paths of a failing realloc. libc is
`heap` with the operator `Pick`, which says which free addresses it may hand out.
`held` is what the clients have and may still use.

A growth writes one of the new cells (193) and one byte of the new bits (194). In the others realloc
leaves what was there: any bits, and in the cells any of `Junk`, the address of a live block
included. The zero byte of line 192, where `memset` takes a slot number for a byte number, may hit a cell
of the table (`Spoil` says what it makes of one) or nothing the tracker reads. `writer`, which the code does not
have, records for each cell whether the tracker, realloc or that byte wrote it last, and `misled`
whether a search for a pointer has ever ended at a cell the tracker had not written. The width of a byte
(`ByteLength`) and the number of the wrong mask (`WrongCase`) are constants, 8 and 6 in the code, so
that a run can have tables of several bytes.

### GfcMap

A put is a machine: `Put` begins it; `Store` puts into a free or equal cell; a full table or
chain begins a `Rehash`, a frame on the stack `frames` whose loop puts the old entries one at
a time (`RehashPut`) and may itself rehash; `OutOfMemory` is a malloc that answers NULL,
at any level. `Junk` is what malloc leaves in the half of the new table that
the code does not initialise (220). `Hash` is any function: only collisions matter.
`HashResult` is the one `int` in which `gfc_map_hash` answers the number of a cell or, in `FullCode`,
`GFC_ERROR_MAP_FULL` (3001): a table of more cells than that has a cell which stands for a full table.
`client` says how a program uses the map: `overwriter` never removes, `remover` puts only
absent keys, `any` does as it likes.

### GfcLru

`set`, `get` and `remove` hold the mutex throughout and are one action each, but for
the eviction loop: `SetInsert` and `SetUpdate` compute `required` and lead to `"fit"`, where
`Evict` abandons one item a turn until `Fit` can store. An item is a number with the fields
of the struct; `next` links both the chains and the free list. An access count matters
only by comparison, so `rank` is its place in the order. `Walk` follows
`next`; a walk that does not end leaves the cache `"stuck"`, or `"aborted"` where the
code would free an item twice. `required` is taken modulo `Word`, as the `uint32_t` is.
Nothing initialises the table, `access_count` and the `next` of a new item, and `gfc_gc_malloc` is `malloc`.
`fresh`, one of `Memories`, is what pointers they may hold: with `{Null}` memory is zeroed (`Zeroed`), otherwise
it has pointers of an earlier cache, to items that exist or not. A `careful` client is one
that sets values of one length, removes a key only while no item is free *and* finds memory
zeroed; one that does not is as badly off as any other.

### GfcId, GfcBignum, GfcBtree, GfcList

`GfcId` is a set of nodes with clocks of their own. `Tick` and `SetBack` are the system's
clock; `SameTime`, `Exhausted`, `NextTime`, `OtherTime` are the paths of `snowflake_id`,
with the busy wait as a state of its own. `Id` packs the fields. `GfcIdThreads` is the same function
once more, one access to the clock or the context at a time, by threads that share the
context without a lock; `TestSeq` and `AnswerId` may read `seq` again or use what was stored,
as the compiler likes.

`GfcBignumWords` and `GfcBignum` have one operator for each function of the C file, on functions from
word positions to words; loops are recursive functions over their turns. `BnCall` chooses operands. The first
has the functions that go from word to word with carries, for words of any size: what it promises
(`ArithmeticExact`) is proved. The second extends it by those that use the bits of words (shifts, `and`, `or`,
`xor`, texts) and those that are made of others (`div`, `mod`, `pow`, `isqrt`); their promise is `AlgorithmsExact`.
`ToInt` adds up the lowest `IntWords` words, as many as an `int` of four octets has, into a signed
`int`: it is the value only as long as that is less than half the size of an `int`. Texts are written to a buffer
of `nbytes`: `TextWritten` counts the octets touched, the closing zero of line 157 included, and `Accepted` is
what the calls of `require` ask of a text to be read.

`GfcBtree` has the tree as a nested record and the insertion as a recursive function on trees
with the four rotations; `MaxLevels` bounds the trees to which a program appends. Insertion and traversal never look
at whether a tree is in order or in balance. `GfcList` has the table as a function and, beside it, the
sequence a program believes it holds. `gfc_list_sort` changes nothing although its
header (gfc_list.h:59) says "Sorts items in the list": its exchange is commented out.

### GfcLog

Each thread has a place in `gfc_log_info` or one of its three like (`step[t]`): under the mutex
`Enter` reads the clock and finds the date of the file, `CloseOld` and `Rename` rotate it when its day
has ended, `OpenNew` opens app.log and leaves the mutex; without it, three times
`PrintPart` and a `FlushLine`. What was printed waits in `buffer` until a flush. `HalfDay` and
`ClockSetBack` are the clock. `Restart` ends the process between any two steps, with or without a flush
of what was printed: the files, the time `changed` of app.log and nothing else survive.
A print to a FILE that another thread has closed, or to NULL, is undefined
(`PrintUndefined`): it is lost or ends the process. `careful` programs keep their threads apart around
midnight: none begins a line while one of an earlier day is under way. `ahead` is
the difference of localtime and gmtime in half days, ahead, behind or none: gfc_log_open uses both (82, 104).
`early` has the days whose backup was made for a line of an earlier day, which an
evening restart behind GMT brings about: gmtime says tomorrow, and app.log is renamed under that name.

### GfcRing

One action per function. `pushed` and `popped` are what a program knows of the ring; `alive` turns
false, possibly, when the code writes or reads behind its table (`InBlock`: the table
of gfc_ring.c:73 has room for as many pointers, the items are three pointers long and the datum is the first of
them) or hands `free` something that is no block. The memory behind the table is somebody else's:
`RingOverwritten` puts anything into an item there, at any time.

### GfcWs

`stream` is all that the peer will send, as octets. `NextByte` is next_byte: an octet
of the buffer, or a `recv` that answers any number of octets up to the size of the buffer; `NoByte` is a `recv`
that brings none, because the connection has ended or for once, as after a signal. The code looks at `ret` at the end of a
length only (`failed`), takes the -1 in place of the code of the length for the one of eight octets (182), and goes on. The
octets of a length are read by calls within one expression (186-201), and C leaves open in which order: `order` is the build's,
one of `Orders`. `gfc_ws_recv` is a machine over them (`reading`): opcode, length,
its octets, skip, allocate, payload, done. `gfc_ws_send` makes a frame (`SendBegin`) and hands
it to `send` in three parts, of each of which `send` takes any prefix (`SendPart`).
`Place` are the weights of the octets of a length; of the exclusive or (`XorOctets`, a constant operator that the run gives
`^^`) only is assumed that it stays within octets and undoes itself.
`PeerFrame` and `Parsed` write and read frames as RFC 6455 lays them out, independently of the code.
`inStep` and `whole` say whether the reader lost the borders of the frames, or a send fell short.
A frame without a payload is answered whatever its kind, although the comment at 208 has frames that are no text
or binary skipped: the code gets to `skip_frame` and then answers the empty payload.

### GfcSha1

The context octet by octet (`ShaOctet`), with both counters of the length and their
wraps, and the padding of one or two blocks. An octet is its place in the message,
so that a digest is the sequence of the blocks that went into it, and two
messages have one digest only if the compression says so.

### GfcString, GfcHex, GfcBase64, GfcUtf8, GfcText

`GfcString` is one string object: its block with everything behind the zero, and beside it the
text a program believes it holds. The three encodings are operators on sequences of bytes or
characters; `GfcText` takes one sample a step and compares.

## 3. Runs

| run | question | bounds |
|---|---|---|
| `mt_pool` | with indivisible updates: is `size` the number of threads, how far may `max` be exceeded, is anything used after free, does every call return, does the pool implement `ThreadPool`? | 2 callers, 4 jobs, max 1, failing creates, 1 spurious wakeup |
| `mt_race` | with split updates: does the counter stay in its width, is a wakeup lost? | 1 caller, 4 jobs, max 2, 2 spurious wakeups, jobs symmetric |
| `mt_race_free_blocks` | finding 1 | 1 caller, 2 jobs |
| `mt_failed_create_blocks` | finding 2 | 2 callers, 3 jobs |
| `gc_few_blocks` | does the tracker implement `Heap` and keep every held pointer, as long as no byte of the bitmap is filled to slot 6? | 4 addresses, 2 sizes, any free address |
| `gc_growing` | does the table stay sound when it grows into dirty memory, when realloc fails and when slots are lost, up to the first search that ends at a cell the tracker had not written? do slots leak? | 5 addresses, lowest free one first, bytes of 2 bits, growths of 2 bytes, 8 slots |
| `gc_lost_slot` | finding 3 | 8 addresses |
| `map_table` | does the map implement `Dictionary` for the two careful clients, are entries in reach, is size the number of keys, does put return? | 4 keys, 2 values, tables of 4 to 32 cells, chains of 2, cell 8 stands for a full table |
| `map_stale_entry` | finding 4 | the same, client `any` |
| `lru_careful` | for a careful client: one list per item, balanced memory, least recently used evicted, every set returns; for others, and in memory that is not zeroed: memory within bounds | 4 keys on 2 chains, 3 items, memory for 2 values |
| `lru_shrinking_value` | finding 5 | two lengths |
| `parts_alone` | the parts that share no state: ids, numbers, trees, lists, strings, logs, rings, websockets, digests, encodings | below |

Why the bounds are enough.

- *Pool.* With max 1, two callers can both pass the test, one worker can end while another
  waits, and three jobs can be created, running and ending at once; four
  leave one to be called after the others. One caller is needed for `NoLostWakeup`: with
  two, finding 2 shows a wakeup that never comes.
- *Tracker.* `gc_few_blocks` has the bytes and masks of the code and stays below slot 6, because above it finding 3 breaks
  both properties. `gc_growing` has bytes of two bits, of which the second has the wrong mask, and begins with two bytes:
  the fifth block makes the table grow, into one byte that is cleared and one that
  is not, with the address of block 2 in a new cell of either, or none, and with a stray byte that may turn the pointer to block 1
  into one to block 3. `LowestFree` keeps it small: what the tracker does
  depends on which pointers are equal, and on nothing else about them. `GrowingView` leaves the total and the last
  answer out of the state, but for a pointer libc does not know: no step depends on them.
  Of the exemptions that the last conjunct of `TableIsAllocated` names the run reaches the stray byte; a
  second growth, with marked junk in front of a block, would need more blocks. The theorem is for all.
- *Map.* The hashes are chosen so that two keys collide up to tables of 8 and two up to 16 in
  the last cell, where the chain wraps: the instance has rehashes inside rehashes and tables that
  malloc refuses at every depth. In tables of 16 cells and more the cell of the fourth key has the number `FullCode`,
  so its put rehashes to the end of memory.
- *Cache.* Memory for two values of the longer kind among four keys and three items, one more than fit: evictions, free
  items reused, chains of three; and, in memory not zeroed, pointers to items that exist and to some that do not yet. `MemoryBalanced` is about what is held between calls: a value
  longer than the whole cache is itself evicted while its set makes room, and its length
  counted as free before it is subtracted.
- *Ids.* Two sequence numbers to a millisecond exhaust it at the third call;
  three milliseconds leave room for a wait and a step back. `FewCalls` bounds the
  calls. Two threads on one context make four calls, so that calls follow those that raced.
- *Numbers.* Three words of two bits: a carry can pass through a middle word
  that is full, and all 4096 pairs of operands are tried. An `int` has two of the words, so that values are negative as an `int`,
  or too large for one. Exponents go to 4.
- *Trees.* Every order of appending any of eight elements: all four rotations at the
  root and below it, trees of height four, one less than `MaxLevels`.
- *Lists.* Increment 2 and five elements: two enlargements, removals before and after.
- *Strings.* Up to four characters of two letters and a separator: tokens at both ends,
  separators side by side, concatenations after a split.
- *Logs.* Two threads, a midnight with half a day on both sides, three lines and a restart: a
  line on each side of the restart and of midnight, both orders of the two.
  `FewLines` lets programs that are not careful, or whose clock was set back, write two lines, which is enough for one thread to rotate
  while another prints, has threads write one at a time where gmtime is not localtime, and allows a second restart
  behind GMT. TLC finds the overwritten backup ahead of GMT and that of a second evening restart; for the one that the
  rotation of the next day makes the clock would have to go on for another day, and there the theorem is what speaks.
- *Rings.* Capacity four and six pushes: the setter wraps and goes on, a full ring is overwritten, the getter runs past the
  capacity; two items lie in the table, two behind it.
- *Websockets.* An octet has eight values, so that lengths take one octet up to 1, three
  up to 63 and nine from 64: payloads of 0, 1, 2 and 64 octets use all three. A
  buffer of four octets is refilled in the middle of every field. Two frames show whether the first leaves
  the reader in step. `FewSends` looks at sends for one sequence of frames of the peer, since
  the two directions share nothing but the status, and `FewLosses` follows a reader that is out of step for one. Builds
  read the octets of a length from left to right or from right to left.
- *Digests.* Blocks of eight octets with two for the length, counters that wrap at 5 and 4: messages
  up to 20 octets in pieces of up to three, so every place in a block is an end, and the
  length goes over its limit. One reset shows what an earlier message leaves in the block.
- *Encodings.* All bytes and pairs of six; texts of one to four bytes out of six, and equal bytes up to 120,
  which is beyond the second line feed; all strings of up to three
  characters at the limits of each length in UTF-8. For texts of any length it is proved.

TLC explores each `parts_alone` behaviour in one part only. The parts have no state in
common, so their product would show nothing more.

Runs of `Spec` with `CHECK_DEADLOCK FALSE` are systems that may end: jobs are used up, a
handle is freed, a clock is at its bound.

## 4. Fairness

`GfcMt!FairSpec` asks for weak fairness of each thread's own next step: a scheduler that
runs every thread that can run. That a user function returns is a part of it. The
mutex is not assumed to be fair: a thread takes it in a step that is only enabled
when it is free, and weak fairness does not promise the step to one that finds it taken again
and again; with finitely many jobs the others stop. Spurious wakeups are never
promised. `GfcMap` and `GfcLru` ask for weak fairness of `Step`: a call under
way goes on. Clients are never obliged to call.

## 5. What the code breaks

1. `mt_race_free_blocks` - the unlocked `size++` (gfc_mt.c:115) can swallow the decrement of a
   worker (84). `size` stays above zero with no thread left, and `gfc_mt_free` waits
   for ever. Needs a build in which the increment is not one instruction, or two processors.
2. `mt_failed_create_blocks` - when `pthread_create` fails the place is given back (124) with
   no signal: a caller that waits for it sleeps on with no thread to wake it.
3. `gc_lost_slot` - the mask of case 6 (gfc_gc.c:339) is `0b01111101` and clears slot 0 of the byte
   with slot 6. The next malloc overwrites the cell of a live block, which can no
   longer be freed.
4. `map_stale_entry` - `gfc_map_hash` takes the first free cell of the chain without looking
   further for the key (gfc_map.c:182): after a removal one key may have two cells,
   and removing it brings the old value back.
5. `lru_shrinking_value` - a shorter value for a present key makes `required` (gfc_lru.c:262) wrap to almost
   2^32; the loop evicts everything and never ends, with the mutex held.

Other defects are part of the models, and a property says what is left of the promise:

- `gfc_log` after a restart takes the day of app.log from gmtime (104) and every other day from
  localtime. Where local time is ahead, the first line after a restart early in a day rotates
  the file of the day itself and overwrites the backup of the day before. Where it is behind, the first line after a restart
  in the evening dates app.log tomorrow and renames it to the backup of that day, which the rotation at the end of
  that day overwrites. `BackupsKept` names both cases (the second as `early`) and a clock that was set back, and says that nothing else
  overwrites a backup; `LinesKept` and `LinesInFileOfTheirDay` are for `Regular` programs: `ahead = 0`,
  the clock never set back, threads kept apart around midnight.
- `gfc_gc` reads cells it has not written: after a growth the search for a pointer (266, 309) may end at a cell
  realloc left, or at one the stray byte of line 192 hit, and then the wrong cell is cleared and a pointer may reach
  libc twice. `TableIsAllocated` and `NoDoubleFree` hold until that happens (`misled`), and say that nothing
  else leads there.
- `gfc_map_hash` answers `GFC_ERROR_MAP_FULL` and cells in one `int` (gfc_map.h:38): the put of a key whose free cell is number 3001
  enlarges the table until no memory is left and then fails. `PutReturns` says that it returns.
- `gfc_lru` initialises neither table nor `next` nor `access_count` (148, 183, 271): on recycled memory chains run into cycles for
  any client. `ListsPartition`, `CarefulSetReturns` and `CacheSpec` are for memory that is zeroed.
- `gfc_bignum_to_string` writes the closing zero behind a buffer that the digits fill (157) unless there is a leading zero, and its text of zero is
  empty, which `gfc_bignum_from_string` refuses (102); `AlgorithmsExact` says when.
- The lines of `gfc_log` are printed outside the mutex (218): at a midnight between, a line goes to a FILE
  that another thread has closed (`ClosedOnlyAtMidnight`), or to the file of another day.
- `gfc_log_close` keeps the pointer to the FILE it closes (191).
- `gfc_ring` compares the getter with the setter but never wraps it (98); the push after
  the ring was emptied brings back everything popped before (89); the table holds a third of the
  items (73); a push into a full ring overwrites the oldest (84); `clear` of a ring that was used frees its table, then items in the
  middle of it (112). `RingReplays` says what is in the items that lie in the table, and up to where it is a queue.
- Threads that share one context of `gfc_id` (gfc_id.c:57) may be given the same id, also in two calls that
  did not meet; `RepeatsInRacedTimes` confines the damage to the milliseconds of calls that did.
- `gfc_ws_recv` reads a skipped frame over and then its length once more (212), after which it is
  out of step with the peer (`inStep`). So it is after a `recv` that fails for once in the middle of a frame, when there is no memory for a
  payload, and in a build that reads the octets of a length in another order. `FramesInOrder` names the four and holds up to them; the zero behind a payload may lie one behind the caller's
  buffer (241). `gfc_ws_send` does not look at how much `send` took (295).
- `gfc_sha1` sets 1 for a message that is too long (193), which is the code of another error
  (gfc_sha1.h); the digest is never wrong.
- `gfc_utf8_initial` writes its zero one behind the character's end (82), and `gfc_utf8_convert` leaves in
  `length` the size of the last character (107); the models say so and the properties are about
  the rest.
- A string appended to itself is read after `realloc` may have moved it (gfc_string.c:101).

One more: `gfc_bignum_isqrt` (gfc_bignum.c:561) squares a first
guess of half its argument modulo the size of the number, and for large arguments the square wraps and
the root is wrong; `AlgorithmsExact` says that it is right where nothing wraps.

## 6. Proofs

All proofs are about the specification TLC runs, for every value of the constants
that the named `ASSUME`s of the modules allow.

**GfcMt_proofs.** `ShapeInv` is inductive in every build: `TypeOK`; `LockInv`, the mutex is held
exactly by the thread inside a critical section; `HandInv`, the job of a caller is its own
and has no thread yet; `CloseInv`, `gfc_mt_free` runs alone; `HeapInv`, blocks in use are
allocated. `TypeCorrect` follows. With `~SplitIncrement` the invariant is `IInv`, which adds

- `WholeInv`: nobody is between a load and a store;
- `SizeIsPresent` itself;
- `PassInv`: size and the callers that have passed the test but not counted themselves
  are at most `Max + Cardinality(Callers) - 1`. `BoundedOvershoot` is not inductive without it:
  the bound is decided at the test and used up at the increment;
- `FreeInv`: once `gfc_mt_free` has seen zero no thread uses the handle.

The lemma `Moves` says how a step changes `size`, `Running`, `Counted` and `Passed`
together; the counting lemmas work on these cases only. From `IInv` follow
`SizeCorrect`, `OvershootCorrect`, `UseCorrect` and `Refinement` (`Spec => PoolSafety`). The
hypothesis `~SplitIncrement` is needed: finding 1 is a counterexample without it.

`WakeupCorrect` needs `ShapeInv` only, so it holds in every build, but for a single caller: a signal wakes one
waiter, so with two callers one of them may sleep on although `size` would let it pass. What holds for any number of callers is
`SomeoneWakesCorrect`: whoever waits, some thread is left that will signal, or a
creation has failed (finding 2). It is inductive with `IInv` and `FailedInv` (a place is given back only after
a failed creation), because a waiter has read a `size` that is not zero and with `~SplitIncrement`
that is the number of threads.

**GfcGc_proofs.** `TableInv` is `TypeOK`, `NoDoubleFree` and, until a search has ended at a cell the tracker had not
written (`misled`), `Sound` and `Waiting`. `Sound` is about the cells the tracker wrote (`Own`): each has the pointer
to a block of its own, allocated with its size. Nothing is said of the cells it did not write, nor assumed: realloc may leave anything there
(`GcJunk` is their type), and the stray byte may make anything of any cell. `Waiting` is why a search
still ends at the right cell: a junk cell in the first byte of a growth has bit 0 and lies behind every cell
written so far, since the lowest free slot is taken first. One lemma for each operation; `SlotFound`
and `FirstFreeFound` say what the linear search and the bitmap scan return, and `SoundTable` puts `TableIsAllocated`
together. The theorems hold with lost slots and failing reallocs: finding 3 leaks a block but never makes the tracker free a wrong one.

`GrowthInv` adds that a bit that is set stands for a cell in use, from which
`GrowsCorrect` follows: a malloc lengthens the table only when every slot is in use. Both
except slots `Unzeroed`, since of the bits of a growth of 64 only the first byte is cleared (gfc_gc.c:194),
and where realloc left a bit set the slot is never used, and cells that the stray byte emptied.
`OnlyFirstSlotsLost` says that the mask of case 6 is the only wrong one: until a search is misled, a cell the tracker
gave to a block and that is not the first of its byte has its bit set.

`FewBlocksTracked` and `FewBlocksRefine` are about programs that hold six blocks at most (`FewHeld`, a
hypothesis on the behaviour) with the bytes and masks of the code (`AsCoded`), for any number of addresses and calls. The table
does not grow then, and every cell is the tracker's. Why six: the lowest free slot is taken, so
six blocks lie in slots 0 to 5, whose masks are right (`FewInv`: every slot that is marked is among the first
six and has an entry, and the other way round); the seventh goes to slot 6, and freeing it
is finding 3. `TotalInv` adds that the total is the sum of the entries, which cannot wrap as six of the
largest size fit a `size_t` (`SizesFit`); with both, each step maps to a step of `Heap`.

**GfcMap_proofs.** `Shape` types the stack of rehashes (only the innermost may have its loop at the
end). `PutIsFound` is about the table alone: storing in the least usable cell of a chain makes the
lookup of that key find it, whatever else is in the table, holes and second cells
included. `ReadYourPutCorrect` rests on these two and holds for any client and any junk.
`TypeCorrect` and `ReachableCorrect` assume `Junk \subseteq {Blank}`, memory that is zeroed,
and use `CleanInv`: every used cell is in reach of its key's hash, used cells are at most
`size`, and `size` at most half the table. Without the assumption they are false,
since a junk cell may look used.

`SizeCorrect` and `DictRefinement` assume `Careful`: zeroed memory, and clients that only overwrite or that
only put keys that are absent. For others finding 4 is a counterexample. `CarefulInv` adds to `CleanInv`

- `EntriesInv`: the table is `Tidy` (a cell is blank or holds a value in reach of its key, and no key is in two
  cells); for the overwriter it has `NoHoles`, so that the first usable cell of a chain
  is the key's own if it has one; for the remover `size` is the number of used cells;
- `TopInv`: the new table holds exactly the pairs of the old one before the index of the innermost
  rehash, and a put inside it is of the pair at that index;
- `NestInv`: the same between each rehash and the one inside it, and the old table of the outermost
  has every pair of the inner ones.

A rehash is a stutter of `Dictionary` as long as its outermost old table stays, and when that is left
`CarefulRehashDone` gives that the new table has the same pairs (`SameLookup`). A put without
memory leaves part of them, which is the `DictOutOfMemory` of the abstract map.

**GfcLru_proofs.** All of it holds for any keys, hash, number of chains and items, and capacity, and `MemoryCorrect` for any `Memories`
too: pointers lead to `Ptrs`, which are items if memory is zeroed and any of the `Nodes` if it is not. A walk that gets to
where no item is stays there, without end.

`ListInv` gives `ListsCorrect`, for careful clients, hence zeroed memory. A walk is a recursive function of its length, so nothing about walks is
assumed or unfolded in the invariant: it says that *some* function `c` from chains and places to items is `Laid` - the next
pointers follow it from the head of each chain to its end, no item is in two
places, an item is where its key hashes to, and no item but the free one is missing. A walk is
the only function with its recurrence (`WalkUnique`), hence equal to `c`. Unlinking an item and appending one give a new `c`
(`RemoveLaid`, `InsertLaid`). The rest of the invariant is why the free list never
has a second item: values have one length, so after an eviction `required <= free_memory` and the loop ends,
and the next insert takes the free item. Without that, `gfc_lru_item_pop` leaves `next` of a
used item pointing into the free list, which is why the client has to be careful.

`MemInv` gives `MemoryCorrect`: free memory and the lengths of all items, free ones
included, are the capacity and what a set under way has yet to take (`Due`), and for a client that is not careful no more than
that. The sum is `MapThenSumSet`, a fold by recursion over subsets. The module proves
that the fold exists for a finite set, by least counterexample over the cardinality (`LeastOf`), and
from it that a sum changes by what is added or taken away (`SumAdd`).

`RankInv` gives `CacheRefinement` (`Spec => CacheSpec`, the eviction loop and all): items alive have keys of their own
and the ranks 1 to their number, each once, and a free item has rank 0. So the items alive, by rank, are a sequence of
keys (`OrderIs`). An item that is touched moves to its end (`MoveOrder`), a new one is appended (`JoinOrder`), one that is removed
leaves the others as they were (`DropOrder`), and the least access count of all chains is the first (`OldestIs`). `ViewState`
ties the bytes: the abstract cache is too full exactly while the loop of the code goes on.
`Search`, `Fit` and every step of a client that is not careful are stutters of the view.

**GfcLog_proofs.** `LogInv` holds while the clock is not set back: the theorem is `[](~clockBack => LogInv)`, and its step
`LogStepInv` needs nothing of the states after that. It has five parts. `LogTypeOK`: ranges. `MutexInv`: one thread at most rotates, which is
proved once more, as `LockInv`, for whatever the clock does. `DateInv`: the date of the file is not later than
today, but in a rotation behind GMT, when no FILE is open and no other thread is beyond the mutex; a thread under the mutex knows a day no earlier, a
thread that prints one no later. `OpenInv`: if a printing thread finds no open FILE, another of a
later day is under the mutex, which is `ClosedOnlyAtMidnight` made inductive. `BackupInv`: backups that were not made early are of
days before today, before the file at hand, before the day of every rotation and before the day app.log was changed on; so a rotation
meets none, unless it takes its date from gmtime and that day lies before the day of localtime, which is
`BackupsKept`. One lemma for each action; any number of threads and restarts.

`LineInv` adds what makes `LinesKept` and `LinesInFileOfTheirDay` inductive. `FileInv`: nothing waits to be flushed unless
the FILE is open, and an open FILE has its name on the disk. `NumberInv`: what waits to be flushed belongs to lines
under way, whose numbers no other line has. `PartsInv`: lines under way of a careful program are of
one day, and app.log with the buffer has the parts printed so far, in order; hence a thread that
rotates is alone (`RotatesAlone`), and one that prints finds the FILE open. `DayInv`: app.log was changed
on the day of its date, as long as no line was written past midnight. `KeptInv`: a line that
returned is in app.log, changed on its day, or in the backup of its day. app.log only gets longer or is
renamed to a backup that does not exist yet (`BackupStays`), and what is appended is of other lines.

**GfcParts_proofs.** Seven parts that share nothing but the module. For the digests, `TakenInv`: until the result, blocks hashed and the block at hand hold the message in
order, and the two counters its length. `PaddingCorrect` splits the padding into the case
of one block and of two. `DigestOfMessageCorrect` holds for any block length, length field and limits.

For the array, `ListInv`
is `ListHolds` with types and with room left in the table after every
call (`Grows` enlarges one element early); it holds for any increment. For the ring, `RingReplays` is inductive with the types
(`RingInv`): it speaks of *every* item written that lies in the table, popped ones too, which is
what the replay after an emptied ring reads. `WrittenBefore` says that a push moves each of them one back in that count, over
the wrap of the setter too; what is written behind the table (`OverwrittenInv`) disturbs none of them.

For the strings, `StringHoldsCorrect` is about any letters and texts of any length. `StringInv` says that the block
`Holds` the text: its characters in order, the zero behind them and no other zero before that one; what lies
behind it (rests of a text that was split) is left open. The tokens are the work: strtok's are defined by where
they begin and end, `Letters` by one pass over the text. `Nth` counts the tokens that begin before a place; `NthSteps` says
how it changes from place to place, so token `k` is the one whose begin has `k-1` before it (`TokenAt`,
`Ranked`), and up to each place of the text the tokens so far, the last perhaps cut off, are
the letters so far (`TokensAreLetters`).

For the websocket, `WsInv` is about any stream, in whatever pieces it comes. `Laid`: the stream is the answer to
the handshake and then the frames, one behind the other (`JoinedIs` says where each part of a `FlattenSeq`
lies). `BufferInv`: the borders of the buffer, and what is between them is what was taken from the stream.
`InPlace`: while the reader is in step, it is in the frame behind those it has answered, at the place `Pos`
that its state tells (what it is reading, how much there is to go), and the octets of a length
read so far are the length's leading ones (`NumberStep`). A `recv` that has failed leaves a reader
in step only if there is nothing more to come (`Stuck`), or between two frames. `FramesInOrderCorrect` holds for octets of any
size, any buffer and any order in which a build reads the octets of a length. `SentInv` is the other direction: the octets sent and those that
are still to be sent are, as long as every `send` was whole, one frame for each message.
`MessageAtIs` and `ParsedIs` let the peer's parser run over them, which makes `SentFramesParseCorrect`, for messages
whose length fits eight octets.

For the trees, `Even` says of a tree that all its stored heights are right and none of its nodes leans by more
than one; such a tree has as many levels as its height (`EvenLevels`). What carries the induction is `Grown`: an
insertion adds at most one to the height, and a tree that grew, and was not empty, leans to the side the new element went
to. That tells which of the four cases of gfc_btree_insert applies and that it
restores the old height (`LeftGrown`, `RightGrown`), without a word about order. Of the order, rotations
need only that what a traversal prints is regrouped (`Regrouped`), and insertion that the
element goes between smaller and greater ones (`AscendsIs`). `TreeSortedBalancedCorrect` holds for any data and any
`MaxLevels`. `TreesOf`, `Inserted`, `Transverse` and `Subtrees` are shown to satisfy their equations level by level.

For the ids, `IdInv` is `Typed`, `Packed` (an id was packed from fields that fit) and `Counted`
(up to a step back of the clock no id exceeds `Newest`, the last one possible,
and ids are as many as calls). `DigitUnique` and `DigitOrder` are the uniqueness and order of
two-digit numerals in a base; `IdOrder` and `IdUnique` apply them to the three shifts. From
these, `NoDuplicatesCorrect`, `NodesDisjointCorrect`, `IdsIncreaseCorrect`, for any
field widths and any bound of the clocks. `RepeatsCorrect` is about `GfcIdThreads`: in `IdThreadsInv`, `Met` says
that calls that are under way together have raced milliseconds, and `Alone` what a call that met no other finds
in the context and leaves there at each of its steps: for its millisecond no number was given, or the
field holds the greatest that was.

**GfcComputing_proofs.** Numbers and encodings. `ArithmeticCorrect` is about every pair of numbers, for any count of words from two and any
size of a word: the results of `add`, `sub`, `mul`, `inc` and `dec` are those of integers modulo the size
of a number, `cmp` orders by value, `to_int` is the value as a signed `int` of any number of words holds it, numbers that `cmp` calls equal have the same words, and a subtraction takes back an addition that
overflowed. The state has no history, so the invariant of the specification is only that operands are numbers of the right
length; the work is in the operators. By `LoopExists` the equations of `Carry`, `Borrow`, `Row`, `Mul`, `Weight` and
`LowVal` are facts and not assumptions. `Summing` is the common core of `add`, `sub`, `inc` and `dec`: if at each place the words
of one number and what goes on to the next place are the sum of two words and what comes in, the values differ by
what comes in at the first place and what is lost at the last. `PlacedVal` is a product of two
words at its place, the high word of which may fall behind the last; `RowVal` and `MulVal`
add these up, each equality up to multiples of `Modulus` (`Same`). The words behind the lowest few make a
multiple of the size of an `int` (`LowWords`), hence `IntIsSigned`.

For the encodings, what is shown is about texts of any length, and `EncodingsExactCorrect` follows since the
samples are such texts (`SampleInv`). Base64 (`Base64Correct`): in what is written the groups of four
characters lie one behind the other with a line feed behind some of them (`EncodedIs`), so skipping the feeds leaves
group `g` at place `4(g-1)` (`KnownIs64`); each group gives its bytes back alone (`GroupBack`), only the last has pads, and
the feeds counted up to each group stay within the room (`RoomIs`). UTF-8 (`Utf8Correct`): a
character is told by its first byte, and only the others continue it (`CharacterIs`); where characters begin
in a string then tells its length, its first character and, from the last character on, what
`gfc_utf8_convert` cuts (`ConvertedString`). Hexadecimal (`HexCorrect`): the digits of byte `k` are at `2k-1` and `2k`
(`HexTextOf`), and the sum of `gfc_hex_from_bytes_to_int` up to a byte is the number of the bytes so far times a power of 256
(`NumberOf`); the claim about that number is made as far as an `int` holds it. `ParityIs`
compares the bits of a byte and of its successor. Lengths are taken to fit `size_t`.

**Loops.** The library's induction theorems cannot be instantiated (they take an
operator), so an induction over the turns of a loop is one over a *set* of turns: `Upwards` says that a set with 0 in it that
contains the successor of each of its members contains them all, from the least one that is missing
(`LeastExists`, from `NatLessThanWellFounded`). `LoopExists` builds a recursive function from its turns by it. The numbers,
the strings, the websocket, the trees and the encodings use them. `JoinedIs`,
where each part is in a `FlattenSeq`, is there too.

Only model-checked: everything under fairness (`DoReturnsUnlessFailed`, `FreeReturns`, `PutReturns`,
`CarefulSetReturns`, the liveness of `PoolSpec`), and of the numbers what `AlgorithmsExact` says:
`GfcBignum` uses `Bitwise`, which no module with a theorem may.

## 7. Not modelled

Within the modelled parts:

- *Uninitialised memory* is an input of `GfcGc`, `GfcMap`, `GfcLru` and `GfcRing`. In `GfcLru` an access count that malloc left
  shows in the order of evictions only. The run of `GfcMap` has zeroed memory; `ReadYourPutCorrect` covers junk.
- *The tracker under threads.* `gfc_gc` has no lock, and `gfc_mt` calls it from several threads.
  Its model has one thread.
- *The byte at gfc_gc.c:192* outside the table: what it does to the data of a client, to `gc_ctx` or to libc.
- *Failing allocations* in `gfc_mt`, `gfc_lru`, `gfc_list`, `gfc_btree`, `gfc_string`, `gfc_ring` and `gfc_utf8`: the
  code dereferences the NULL it gets.
- *The compression of a SHA-1 block* (gfc_sha1.c:229): a fixed sequence of 32-bit sums and rotations with no
  second definition to compare it with; test vectors fit it better.
- *A second connect* on one websocket context, and calls of it from several threads.
- *The static `struct tm`* of localtime, which threads of `gfc_log` share outside the mutex.
- *`gfc_string_utf8` and `gfc_string_gbk`*: strcpy, or iconv on Windows.
- *Aliased operands* of `gfc_bignum_mul` and `gfc_bignum_div`, which clear their result first;
  division by zero, which does not return; `gfc_list_sort` of an empty list, which reads far behind the table.
- Calls of a cache or list that has been freed.

Whole parts: `gfc_date`, `gfc_crypto`, `gfc_fs`, `gfc_cli`, `gfc_sql`, `gfc_http`, `gfc_tcp` and `gfc_uuid` wrap system calls or
print and parse in one pass, with no state between calls. `gfc_tree.c` holds no code;
`gfc_jvm`, `gfc_lua` and `gfc_net` are headers only.

## 8. Plan

Done, in the order of how much the code depends on concurrency and history: pool, tracker, map,
cache, ids, logs; then rings, websockets, digests and strings; then the numbers, trees, lists and
the encodings, which compute.

Next, models:

1. `GfcGc` with threads: the same tracker with load and store of bitmap, cell and total apart, composed
   with the worker of `GfcMt` that frees its block. Promise: what one
   thread alone has of `TableIsAllocated`, or the steps that break it.
2. `GfcMap` over `GfcGc`: the old table that goes to `free` of libc behind the tracker, and is
   handed out again.

New questions about small parts that share nothing join `parts_alone`, so that runs
stay one for each question.

Next, proofs: the safety half of the pool's refinement with split updates, without the counter; division of
`AlgorithmsExact` as a loop of doublings and halvings.
