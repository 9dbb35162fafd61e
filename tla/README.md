# webxs: models, checks and proofs

This directory specifies the core of webxs (`src/xs/*.h`, `src/webxs.c`), a header-only HTTP and
websocket server in C: what its lock-free queue, worker pool, file cache, logger, poll threads
and connections promise to each other, and what its sort and its JSON reader compute, checked
with TLC on small instances and, where possible, proved with TLAPS for every size. Line
numbers refer to files under `src/xs/` unless said otherwise. `PROJECT.json` lists the runs, the
map from definitions to lines, the hazards and the theorems.

## The system

| component | state | operations | talks to |
|---|---|---|---|
| queue ring (`xs_queue.h` 74-279) | slots, `qWriteInd`, `qAvailInd`, `qReadInd`, `qDepth` | create, push, pop, size, full | every other component |
| worker pool (`xs_queue.h` 103-158, 242-254, 281-310) | `qActive`, `qInactive`, `qWorking`, `qAttempt`, `qProcessed`, `qCreated`, mutex and condition | launchthreads, exec, pause, resume, destroy | ring; the callback `qProc` |
| file table (`xs_fileinfo.h` 114-154, 210-245) | `gxs_statptr`, `gxs_statwrite`, `gxs_statread` | lookup, creation of an entry | file entry |
| file entry (`xs_fileinfo.h` 156-208, 247-289) | status, readcount, times, mapped data | get, lock, unlock, unloaddata | server, connections |
| logger (`xs_logger.h`) | `buffered`, `memlock`, `running`, queues `q` and `qdel` | append, flush, flush thread, writer, destroy | two queues, a pool that is to have one thread; called by everything |
| startup (`xs_startup.h`) | signal, crash and exit handlers | log, flush, end the process | logger, server list |
| poll layer (`xs_socket.h`) | slots (`pfd`, `pss`, `sidmap`), `running`, accept queue, list of poll threads, `expandlock` | push, internaladd, the poll thread, find, wake, sleep, clean, stop, destroy | queue; callbacks into connections |
| connections (`xs_connection.h`) | reference count, request, buffers, error | read, write, state machine of a request | poll layer, file entry |
| asynchronous work (`xs_connection.h` 1700-1830) | `xas->q`, poll thread | work, call, stop, destroy | queue with 20 workers, poll layer |
| write cache (`xs_connection.h` 1280-1346) | `wcache`, `is_wblocked` | fill, purge | connections |
| HTTP reader, websocket (`xs_connection.h`) | parse position, headers, chunk, frame, opcode | read, frameparse, write | connections |
| server (`xs_server.h`, `webxs.c`) | contexts, list of servers, auth file, redirects | listen, dispatch, file and directory responses, stop | all of the above |
| arrays, JSON, URI, paths (`xs_arr.h`, `xs_json.h`, `xs_utils.h`) | pure data | insert, remove, iterate, encode | used everywhere |
| vendored (`zlib`, `miniz`, `mdnsd`, `tinysvcmdns`, `khash.h`, hashes), TLS, Windows emulation | - | - | not part of the core |

Hard behaviours: lock-free interleavings around the ring's three indexes and a counter that
lags behind them; a sleep/wake-up protocol that reads its counters without the mutex;
reader/writer locks made of two counters; data unmapped or reallocated while others use it;
a flush that only enqueues; threads that start late or outlive what they use; arrays whose
entries move while callbacks look them up by token; a shared queue that its own consumers fill;
a byte stream cut into segments anywhere; sends that take a part of the data.

What makes each component correct: the ring is a FIFO and no copy is torn; no wake-up is lost
and destroy leaves nobody behind; the table is changed by one thread alone and has one entry
per path; one thread at a time refreshes an entry and never under its readers, mappings are
neither leaked nor used when gone; lines reach the log in order, whole, and without losing or
sharing a buffer, and no caller hangs; a socket is in one place until it is closed, its token
leads to its entry, every client is served and a stop comes to an end; messages are handled
whole and in order however they arrive, their answers leave in order and nothing waits for ever
in a buffer or a cache; the sort sorts, and the tags of a document nest.

## Modules

- `XsFifo` - the abstract bounded FIFO: accepted, waiting, handed out.
- `XsQueue` - `xs_queue_push` and `xs_queue_pop`, one action per shared access. `pc[t]` is the
  place in the code; `wi`, `ri`, `dd` are the locals. `published`, `delivered`, `claims` and
  `seen` are history. `MCXsQueue` adds symmetry sets. `XsQueueProofs` proves it, for one producer and one
  consumer and for any number of both.
- `XsWorkers` - the pool of a queue over a ring reduced to its length (what `XsQueue` shows it
  to be): creation and waking by push, `exec`, `pause`, `resume`, `destroy`, spurious wake-ups.
  The pushes are blocking, as in both queues that have workers, so a push claims a slot even
  where it finds no room (228), and a ring whose write index comes to stand on its read index
  reads as empty. A claim and its publication are one step, and so are the test and the swap of
  pop, which is exact as long as the ring is not overrun. `XsWorkersProofs` proves it.
- `XsFileTable` - the lookup half of `xs_fileinfo_get` and the lock of the table.
  `MCXsFileTable` adds symmetry, `XsFileTableProofs` proves it.
- `XsFileEntry` - the refresh half of `xs_fileinfo_get`, `lock`, `unlock`, `unloaddata`, the
  threads that send the data, and a file that changes, disappears and comes back. A
  modification time stands for a content. The data's mappings are numbered, so use after
  unmapping is visible. `MCXsFileEntry` adds symmetry, `XsFileEntryProofs` proves it.
- `XsLogger` - append, flush, flush thread, writers, destroy and the exit handlers. A line has
  length 1; buffers live in numbered chunks of memory, so reallocation, recycling and freeing
  are visible. A push creates a writer while none has begun, as `XsWorkers` has it, so `q` may
  get several. Its queues are the FIFOs of `XsFifo`: a flush holds the mutex, so `q` has one
  pusher and `qdel` one popper at a time; several writers pop from `q` and push, not
  blocking, to `qdel`, which is the shared ring of `XsQueue` without a lap. `MCXsLogger` has the
  scenarios, `XsLoggerProofs` proves it.
- `XsPollSlots` - the arrays of one `xs_pollfd` and the free list through `sidmap`, as a record
  and operators: add, clear, move. The tokens on the free list are defined as the smallest set
  that follows it (`Follows`), which needs no recursive operator. `XsPoll` - the threads that run `xs_Pollthread3`, one action
  per part of the loop and one per turn of the pass, the shared accept queue (`XsFifo` as a
  sequence), the clients, and the main thread that listens, stops and joins. `MCXsPoll` has the
  scenarios, `XsPollProofs` proves it.
- `XsConnWrite` - `xs_conn_write_`, `cachefill`, `cachepurge` as operators from the state of the
  write side to the set of its outcomes, one for every part of the data the socket may take.
  `XsByteStream` is the promise: accepted bytes go out in order, none twice, none left out.
- `XsHttpRead` - `xs_conn_httpread` and all it calls, as operators on a record with the fields of
  `xs_conn` and `xs_httpreq`. What arrives is a sequence of tokens (request line, blank line, unit
  of body, chunk size, line end, halves of a frame header), so every cut the parser can tell
  apart is a cut between tokens. A response is a head, one unit, and a body.
- `XsConn` - one connection: both sides sharing `errnum`, the loop of `server_handler`,
  `xs_async_handler` with the poll events it arms, and the peer. `MCXsConn` has the scripts,
  `XsConnProofs` proves what is said of it and of its two halves.
- `XsSort` - `xs_ptr_qsort`, one action per turn of a loop, with a consistent comparator (the two
  for dates, `xs_server.h` 145-146, put each of two equal ones after the other: entries with one
  date come in an order nobody chose). `XsDataProofs` proves it, and the reader:
- `XsJson` - `xs_json_next`, one action per call. `XsData` puts the two side by side: a behaviour
  sorts an array or reads a text; `MCXsData` has the texts.

Composition: `XsConn` puts `XsConnWrite` and `XsHttpRead` together and implements
`XsByteStream`; `XsPoll` is built on `XsPollSlots` and shows what `XsConn` takes for granted, one
thread per connection and a token that leads to it. `XsWorkers`, `XsLogger` and `XsPoll`
use the queue through its abstraction, which
`queue_spsc`, `queue_lapfree` and the theorems `SPSCImplementsFifo` and `SharedImplementsFifo` justify; `XsFileEntry`
starts where `XsFileTable` ends, with the entry found.

## Assumptions on the schedule

Some of the code is right only if a thread is not held up at one place. The models have those
places as steps of their own, so that the assumption is visible, and name it:

- *Lap-free* (`LapFreeSpec`): between loading an index and its compare-and-swap a thread does
  not sleep through a whole lap of the ring (1024 or 10240 slots in the code). After a lap the
  index has its old value and the swap succeeds with a stale element. And no push that may
  block goes on to claim a slot where it has found no room (`ClaimHasRoom`), which is what
  `queue_fanin` shows to happen. A push that does not block never does so, by itself and under
  any schedule (theorem `UnblockedPushHasRoom`).
- *Prompt entry* (`XsFileTable!PromptSpec`): no writer comes in between a reader's test of
  `gxs_statwrite` (147) and its increment (150). `file_table_assert` runs without it and shows
  what happens.
- *Prompt lock* (`XsFileEntry!PromptSpec`): no refresh copies its structure (283) between a
  reader's test (157) and increment (158). Otherwise the copy sets `readcount` to 0 under the
  reader, the later unlock makes it -1, and the next refresh spins at 282 for ever.
- *Room for the claim* (`XsWorkers!RoomSpec`): a blocking push passes the test of `qDepth`
  (215-217) while others are between that test and their count (241) only if there is room for
  all of them. Two that pass it with one slot left both claim (228-230); the write index then
  stands on the read index, the elements in the ring are as if they were not there, and `qDepth`
  stays above 0. That each claim has room follows (`AlwaysRoom`, `ClaimsHaveRoom`). One producer
  at a time needs no assumption (`OnePusherNeedsNone`): that is how the log uses its `q`, under
  the mutex. The queue of asynchronous work may have several; it has 10240 slots.
- *Prompt copy* (`XsLogger!PromptSpec`): the buffer is not reallocated (220) while another
  thread is still copying into it (223), and the log is destroyed only when no thread is inside
  append. Otherwise the copy goes to freed memory.
- *Begun writer* (`XsLogger!OrderedSpec`, used by `BegunMeansOneWriter` only): a thread that a
  push to `q` has created begins (283) before the next buffer is pushed. Otherwise the next push
  creates another (244-248), and the two may write the buffers they have taken in either order.
  The runs do without it, and `LinesInOrder` is about the time in which `q` has had one writer.

One- and two-thread uses of the queue need no assumption: with one producer and one consumer
everything is proved for any schedule. Nor do a pool with one producer, the status of a file
entry and the ownership of its mappings, the counters of the table, and the connection.

`XsConn` has no schedule assumption. `XsPoll` states none, but its accept queue is the FIFO of
`XsQueue`, with a blocking push that waits for room: that is right while one thread at a time
pushes so, as in the scenarios, where one thread holds the listeners; two could claim without
room (`xs_queue.h` 228). Both simplify: `expandlock` is taken and given
back within one step (whoever finds it taken goes on to poll, as it does with nothing to do);
marking all threads in the first loop of a stop is one step, the loop that wakes them another
(with several threads in the pool `xs_pollfd_Clean` may cut the list, 891-896, under the first
loop, and a thread that ends between 329 and 330 makes that loop spin for ever); a thread that
ends closes each socket once, where the code does so in the callback and again at 616-618; a
listener is pushed only when the queue has room to spare (it holds 1023); an `xs_pollfd` whose
thread has ended by itself gives its name to a new one; clients are numbered in the order in
which they come; nothing arrives between the two `recv` one call of `xs_conn_httpread` may make.

## Runs

| run | instance | shows |
|---|---|---|
| `queue_spsc` | 1 producer, 1 consumer, 3 slots, 5 pushes, all modes | `NoSlotRace`, the inductive `IInv` (types and depth included); every published element is delivered; every call returns |
| `queue_lapfree` | 2 producers, 2 consumers, 3 slots, 4 pushes, blocking and not | `FifoOK`, `ClaimedSlotsFree`; the ring implements `XsFifo` |
| `queue_fanin` (violation) | 2 blocking producers | the `continue` of line 228 attempts the claim after "no room" |
| `workers` | 2 producers that do not rely on the same slot (`RoomSpec`), 2 threads, 3 slots, 3 pushes, 1 spurious wake-up, destroy | the inductive `IInv`, every claim has room (`AlwaysRoom`), no lost wake-up (`AsleepMeansDone`), every push processed, destroy ends and leaves nobody inside |
| `file_table` | 3 threads, 2 paths, 1 failing `calloc` | no race on the table, `IInv` (types and counters of the lock included), one creator at a time returns |
| `file_table_assert` (violation) | 2 threads, 1 path, no assumption | the assertion of line 231 fails |
| `file_entry` | start-up thread, 2 servers, 1 clock tick, 1 change | status is a lock, mappings owned, held entries fixed, every call returns |
| `file_entry_unmapped` (violation) | the same | data is unmapped under a thread that holds the lock |
| `logger` | flush thread, 2 appenders, one of which exits; three scenarios: 1-slot queues and destroy; 2-slot queues and 2 writers; 2-slot queues, 3 lines of one appender, destroy | lines whole and in order while `q` has had one writer (`LinesInOrder`), ownership of buffers with full queues and with two writers, callers return, what is handed over is written |
| `conn` | 5 scripts of 2 or 3 messages, cache of 2, buffer of 4, heads of at most 4, close or reset at any moment | the inductive `ConnInv` (types, sizes of buffer and cache, the stream), messages whole and in order (`RequestsIntact`), cached data is waiting for POLLOUT (`CachedIsArmed`), nobody is cut off but in the known cases (`NotCutOff`), the write side implements `XsByteStream`, every message that has arrived is answered |
| `poll` | root and one pool thread, 3 scenarios with up to 4 clients, queue of 2, stop at any moment | tokens lead to their entries (`TokensLead`), a socket is in one place (`SocketsConserved`), every client is served, a stop comes to an end |
| `data` | arrays of 9 over 3 keys; all texts of up to 4 characters, documents three containers deep | the sort sorts and its stack suffices; tags nest, documents are read to their end; both end |

Bounds. Three slots are the smallest ring in which full, empty and partly full differ and the
indexes wrap; with four or five pushes every index wraps. Two threads of a kind are
enough for every race of two; the third thread of `file_table` is one that comes while two are
inside. Two pool threads are what two producers can create before the first has begun
(`qCreated` is never incremented, 246: that, and not the number given to `launchthreads`,
bounds the pool). A clock of two values is young and expired, two versions are old and new.
In `logger` an append under way at the bound of lines still finishes, so one more line than a
scenario names can exist and a buffer that is not empty is enlarged. `FlushCount = 0` makes
every append meet the "large buffer" branch that the code takes after 1000000 bytes. Queues with
one slot are full at once, both of them; with two slots a second buffer can be handed over
before the first is taken, and three lines fill them. While no writer has begun, `q` keeps a
buffer for each, so the spare writers are `space - 1`, here one.

In `conn` every number of the code is scaled down so that each limit is met: a cache of 2 is
filled by an answer and overflows with two; a buffer of 4 must shift and grow; the handler reads
2 at a time, so bodies take several turns; files go out in pieces larger than the cache, as the
code's do (1048576 against 1000000). The scripts have, between them, every kind of message and
every pair the code treats differently: a body before a pipelined request, chunks before a
request, a request that closes, an upgrade followed by text and PING, and a frame with a
continuation. In `poll` the root has room for the listener only, as `xs_async_create` makes it
(`hintsize`), or for one connection; four clients fill the queue of two, the hand of the thread
that accepts, and leave one in the backlog; a pool thread with 4 entries is half full with two. One
pool thread is enough for the interplay of a thread that accepts and one that serves, for a
creation behind a stop and for a thread that ends by itself and is replaced. In `data` nine
elements with a threshold of 4 are split twice, with two segments waiting; the code's threshold
is 8 and its stack 64, here 6, the least that suffices for 9 elements. Three keys give ties
on both sides of a pivot. Four characters reach every branch of `xs_json_next`; the documents,
generated with the tags they must give, have containers in containers in a container.

`CHECK_DEADLOCK FALSE` is said where the program stops: after destroy or exit, after the
assertion, in `file_table` when two upgrading readers wait for each other, when a connection is
closed or idle, when all threads are joined (or a stop was lost), and when sort and reading end.

Fairness. Each thread inside a call keeps being scheduled (weak fairness on its next step):
the spins of the code yield and poll. A mutex that is free again and again is eventually
granted (strong fairness on taking it in `XsWorkers`). A transfer comes to an end (strong
fairness on `SentAll`): the code leaves its loop when all is sent or the write fails. Starting
a call, destroying, ticking and changing files are never assumed to happen, except that
consumers of a ring poll while its counter is not 0, as the poll loop and `exec` do.

In `XsPoll` each thread is scheduled (weak fairness on `Thread(x)`), a thread that was signalled
wakes (a wake-up without signal may happen, but is not counted on), and main goes on once it has
begun to stop; nobody has to connect, quit or stop. In `XsConn` the thread goes on, poll reports
what is readable each time round (strong fairness on `PollRead`, since POLLOUT may be reported
as well), and a peer that stays takes something of what is sent sooner or later (strong fairness on
`PollWrite` emptying the cache and `WriteFile` getting on): TCP promises no more, and a peer that
never reads may keep its answers waiting. The peer may stop sending, close or reset at any time.

## What the code does that one would not expect

- `queue_fanin`, `file_table_assert`, `file_entry_unmapped` above.
- The crash and exit handlers flush the log and abort (`xs_startup.h` 95-96), but a flush only
  hands the buffer to the queue of the writer thread: the process may end before the reason for
  it is in the file.
- Two readers of the table that both have to create an entry wait for each other for ever (133,
  134); `GetReturns` of `XsFileTable` is therefore stated for one creator at a time.
- A refresh without `load_data` (a directory listing) takes over the new modification time and
  keeps the old mapping (281): later calls find nothing changed and serve the old content.
- The same branch forgets `msize`, so the next reload unmaps length 0, which fails: the old
  mapping is leaked. `MappingsOwned` excepts exactly these mappings (`sizeless`).
- The flush thread flushes only if the count changed during its second (198); the last line of
  a burst stays in memory until somebody logs again. Only what is handed over is promised
  (`HandedIsWritten`).
- Destroying the log stops the writer without waiting for buffers in `q` (184-186).
- `q` of the log is launched with one thread (`xs_logger.h` 140), but as `qCreated` is never
  counted up (`xs_queue.h` 246), each buffer handed over before the first writer has begun
  creates another. Two writers may take successive buffers and write them in either order.

Poll layer (`xs_socket.h`); the properties except these behaviours by name (`incidents`):

- Adding a listener copies the entry at the end over the one at the listener's place, instead of
  the other way round (436): a listener added after a connection overlays it (*overlaid*).
- A stop that breaks off a pass (601) after entries have moved leaves `pfdCount` as it was (603):
  one connection stands in two entries and is given up twice (*caught*).
- `xs_pollfd_stop` returns at once if the newest thread is not running (321), also when that
  thread has ended by itself: the others are never stopped and the join hangs (*missed*).
- A thread begins with a plain store to `running` (473), which overwrites a stop (*overwritten*).
- A thread created between the two loops of a stop fails the assertion of line 343 (*outrun*).
- A thread may wait at a stop to push into a full accept queue that nobody empties any more (570);
  the join then hangs (`Blocked`).
- `xs_pollfd_Wake` reads `running` outside the mutex (945): the root, about to sleep when listeners
  are pushed, gets no signal (`Unwoken`). Later pushes wake it.
- With the root ended by itself, `xs_pollfd_Clean` goes on from its `prev`, which is null (893);
  and it deletes an `xs_pollfd` that says it is dead while its thread is still at lines 609-627.

Connection (`xs_connection.h`); excepted by `NotCutOff` where they close a connection:

- The line end after a last chunk is skipped whether it has come or not (820); if it comes in a
  later segment, the next request begins with it and is refused (`SplitTrailer`).
- A 101, PONG or PING that goes to the cache sets `errnum`, which the handler takes for an error:
  the connection is closed (`ControlCached`).
- A continuation frame is always refused: `xs_req_clear` has just cleared the opcode that line
  752 looks at (`BadFrame`).
- Whatever is buffered behind a head counts against the limit of the head (1042), and
  `xs_conn_bufresize` doubles the buffer while a body that is read more slowly than it comes fills
  it (584). So a short request is refused as too large when enough has been pipelined behind it
  (`Crowded`).
- A PONG is answered with a PING (1212), a CLOSE frame not at all.
- When the cache is full, a write goes to the socket although the cache is not empty: bytes
  overtake others. Pieces of a file (1048576) are larger than the cache may be (1000000).
- A connection that closes tries once to send its cache; the rest is lost.
- Methods other than GET and HEAD get no answer. `xs_conn_write_filedata` means to make the
  socket non-blocking again at its end (1637) but passes 0 and leaves it blocking. The masked loop of
  `xs_conn_write_websocket` (797) never moves on in its data, and the mask starts anew at
  each piece that is read (1270).
- Ranges (`xs_server.h` 397-423): the end is taken as exclusive where the header and
  `Content-Range` mean it inclusive, and a suffix range is read as a negative start.

Data:

- JSON (`xs_json.h`): a number just before a closing bracket is read together with it, so `[1]`
  is refused; a key without value, `{"a":}`, is accepted; at a colon EndOfFile is reported; the
  implied object of a permissive text has one pair; the terminating 0 is relied on.
- `xs_ptr_binsearch` computes its midpoint in wrapping arithmetic (`xs_arr.h` 162); it has no caller.
- `load_redirfile` (`webxs.c` 153-183) keeps pointers into the data it has unmapped at its end.

## Proofs

`XsQueueProofs` (assumptions: `QSpace` is a positive number, modes are Boolean):

- `TypeCorrect`: the indexes stay in the ring, for any threads.
- For one producer and one consumer (`SPSC`): `IInvHolds`, and from it `SPSCFifo`,
  `SPSCNoSlotRace`, `SPSCDepth` and the refinement `SPSCImplementsFifo`.

`FifoOK` alone is not inductive: it says nothing of locals. `IInv` adds that what a thread has
loaded is still so (`WriterOK`, `ReaderOK`), that the counter is the distance of the indexes up
to one uncounted and one overcounted element (`DepthOK`), and the contents element by element
(`ContentOK`). Lemmas about `Dist` and `Slot` carry the modular arithmetic; the refinement
splits a step into accept (publication), hand-out (the swap on `qReadInd`) and stutter.

`XsFileTableProofs` (assumption: finitely many threads):

- `CountersAlwaysOK`: under any schedule, `gxs_statread` and `gxs_statwrite` count the threads
  at the places where they are readers and writers, and there is at most one writer. The
  lemma `Recounted` says how both cardinalities change when one thread moves.
- `TableInvariant` (prompt entry), and from it `TableRaceFree` and `OneEntryPerPath`. The
  invariant adds that a drained writer is alone (`Exclusive`) and that a path found missing
  stays missing (`StillMissing`).

`XsDataProofs`, the sort (assumptions: the number of elements is natural, keys are integers, the threshold
is at least 3): `SortInvariant`, and from it `SortSorts`: whatever the array, when the sort
returns 0 every element is there once and in order. `SortedWhenDone` says nothing before the end,
so `IInv` says what the loops keep: the segments on the stack and the current one are disjoint;
two positions that are not together in one of them are in order (`OthersOrdered`); in the
insertion sort all but the element on its way are in order (`BubbleOK`); in the partition what the
scans have passed is on the right side of the pivot (`PartOK`). The argument is that every action
only permutes the current segment, which changes no order between segments (lemmas on `Swap`), so
each action need only be looked at inside it; when the stack is empty and the last segment in
order, nothing is left together. `StackAlwaysSuffices` answers the
question of line 185. Its hypothesis `EnoughStack` is what the code counts on: halving the number
of elements as often as the stack can hold a segment leaves fewer than the threshold (with 64
entries and a threshold of 8, any number an `int` can hold; the instance of the run satisfies it,
which TLC checks as an assumption of `MCXsData`). A second invariant, `StackInv`, bounds each
segment by the number of those put aside before it, and keeps the sums of the sizes behind each
one; `SizesAddUp` shows that these sums are what the recursive function of the property computes.
That the sort ends is liveness and stays with TLC.

`XsDataProofs`, the JSON reader (no assumption, any text): `JsonTagsNest` (`TagsNested`). The
property tells from the tags alone what is open after each of them (`Open`); the invariant relates
that to the reader: its stack holds what is open (`Holds`), and `mstate` is the top of the stack
unless a key has just been read. `CallReturns` sorts what a call of `xs_json_next` can return
into five kinds, and a tag of each kind fits what is open (`Fitting`, `ToldMore`). `Open` is a
recursive function of the tags; the proof needs no induction over them, since the invariant is
about any function that satisfies the recursion, and says there is one.

The shared ring, in `XsQueueProofs` (any number of producers and consumers, under `LapFreeSpec`):
`SharedInvariant`, and from it `SharedFifo`, `SharedClaims` and the refinement
`SharedImplementsFifo`. What a thread has loaded may be stale now, so `SharedInv` says instead
that an index that still has the loaded value has not moved since (this is where a lap would
break it), and that the claims in flight lie between the available and the write index, each
slot claimed once (`ClaimsOK`): a producer that publishes is then the one whose claim is oldest,
and the order of publication is the order of the slots. `UnblockedPushHasRoom` needs neither.

`XsWorkersProofs` (assumptions: finitely many threads, a ring that holds at least one; any number of pushes and of
spurious wake-ups): `WorkersInvariant`, `NoLostWakeup`, `DestroyWaitsForAll` and
`ClaimsHaveRoom` under `RoomSpec`, and `OnePusherNeedsNone`, by which one producer at a time has
`RoomSpec` under any schedule: an element counted is one in the ring or on its way out, so with
`RoomLeft` (elements counted and pushes that have passed the test are fewer than the slots) each
push that claims finds a slot. The protocol reads its counters outside the mutex, so the invariant first says what they are: each is the number of
threads between its increment and its decrement (`CountersOK`), and elements are neither made
nor lost (`Conserved`). `MutexOK` and `OwnerOK` say where threads are while the mutex is held or
the owner destroys. `LookedAfter` is the argument: whenever a push is about to wake nobody, or a
thread about to sleep, the numbers it has read show that somebody else still looks at the ring.
`NoLostWakeup` is about a queue that may have a thread at all (`MaxActive # 0`): one without a
pool has nobody to wake.

`XsFileEntryProofs` (assumption: finitely many threads). Under any schedule:
`OneThreadRefreshes` (`StatusIsLock`) and `MappingsHaveOwners` (`MappingsOwned`), from `LockInv`,
in which the thread that holds the status owns what it has read and mapped. With the prompt lock:
`EntryInvariant`, `ReadersAreCounted` and the action property `HeldEntryStaysFixed`, which is
about the two times of an entry and not its data: that changes under a holder (277). The
invariant adds that a refresh which has seen no readers has the entry for itself (`Drained`);
without it nothing keeps the structure assignment (283) away from a reader.

`XsLoggerProofs` (assumptions: finitely many appending threads and writers, different from each
other and from the flush thread and the owner; any threshold, any room in the queues; the prompt
copy): `LogInvariant`, `ChunksHaveOneOwner` and `LinesStayInOrder`, for any number of writers
that `q` may get, and with begun writers `BegunMeansOneWriter`. The invariant has three parts:
the mutex and `memlock` exclude those who append, copy and hand over; each chunk of memory is
in the log, in one of the two queues or with one thread; and the buffer has the lines that were not handed over. A fourth, `OrderOK`, is
there as long as `q` has had one thread (`OneWriter`): each queued buffer holds the lines that
follow those counted in the buffers before it, so that writing buffer after buffer writes line
after line: `LinesStayInOrder` says no more than that. `BegunMeansOneWriter` adds that a second
thread is never created when each begins before the next push.

`XsConnProofs` (any script of messages, any cut of it into segments, any sizes of buffer, cache,
handler and pieces): `ConnInvariant`, `CachedStaysArmed`, `RequestsStayIntact` (`RequestsIntact`),
`NobodyCutOff` (`NotCutOff`, for orderly scripts) and the refinement `WritesStreamInOrder`;
and about the operators the model is built from, `WriteAccepts` (a call of `xs_conn_write_`
accepts exactly the units it returns) and `HttpReadSound` (a call of `xs_conn_httpread` keeps the
buffer within its size and puts out what it says it has read). `StreamInOrder` says nothing of
the cache, and `ConnInv` relates it: wire and cache together are what was accepted (`StreamOK`).
It also keeps where the last read left its data (`LastReadOK`), without which the handler's
echo could be of anything. The read side goes through the parser branch by branch (`Sound`). The
only assumption on scripts is that each is a sequence of messages of the kinds modelled, with
chunks that are not empty (`ScriptsAssumption`).

`RequestsIntact` is not inductive: which messages have been delivered says nothing of what the
parser will take for the next one. `PlaceInv` adds where the reader is, by a position in the whole
stream and is inductive together with `ConnInv`. It says three things.

- Each message has its place: there are positions `B[i]` such that message `i` stands between
  `B[i]` and `B[i + 1]`, its head first and then its body, or its chunks one after the other
  (`Laid`). That they exist for every script (`StreamTyped`) is an induction over the script, and
  over the chunks of a message; the sizes before a chunk are the recursive function `UpTo`.
- Whatever is buffered is what the stream holds from the reader's position on (`At`). With no
  message begun, the position is the beginning of the next message, or one before it, where the
  line end after a last chunk was skipped before it had come (`Idle`); in a message, it is given
  by `consumed`, and for a chunked one by the chunk whose end `contentlen` is (`Reading`). The
  body put out so far is that of message `i` up to `consumed`.
- Each branch of `xs_conn_httpread` leads from such a place to such a place (`Kept`): the head that
  is found is the head of the next message (`HeadAt`), what is read is the body that follows.
  A head that begins with the late line end is refused, so it delivers nothing that is wrong.

So a message counts as complete only when `consumed` is the length of its body, and the one after it
is the next of the script. Nothing in this is about closing: a reader that has given up delivers
nothing more.

`NobodyCutOff` is about closing. It assumes that scripts are orderly, as a browser's are: frames
come after an upgrade and only then (`Orderly`). For others `NotCutOff` is false, since the server
refuses them. And it assumes that a head may have three units (`MaxHeader >= 3`; the code's limit is
131072 bytes, and a head of the model has two, with perhaps a line end before it). The run checks
both of its instance (`InstanceIsOrderly`). `CutInv` is inductive together with `ConnInv` and
`PlaceInv`:

- `conn->upgrade` says that an upgrade is among the messages read so far (`Agreed`), so the parser
  looks for a frame exactly where the script has one.
- Each call of the reader leaves an `errnum` that has its reason (`Caused`): the socket, for which the
  peer has closed or reset; a message that cannot be parsed, which from its place is a frame with
  an unknown opcode or what follows a late line end (`HeadThere`); or too much in the buffer, in
  which the head of the next message is then there and short. A write blames the socket only
  after a reset (`WriteBlames`).
- From there to the close the reason stands: when `errnum` is set the handler writes nothing more, so
  nothing overwrites it.

`XsPollProofs` (any threads, listeners, clients and scenarios of them, any sizes of the arrays and
of the queue): `PollInvariant`, and from it `TokensAlwaysLead`, `SocketsAlwaysConserved` and
`TypeCorrect`. All of it is about ordinary runs: no listener laid over a connection, no pass cut
short by a stop after entries have moved (`Ordinary`, as in the properties themselves); what
those two do is described above. `TypeCorrect` has this hypothesis although the run checks
`TypeOK` without: after an overlaid listener a token may lead to another entry, a listener's
is emptied, and `listenCount` can then outgrow the arrays. The argument has two parts.

- Each thread's arrays are tidy. `TokensConsistent` is not inductive: adding to arrays with an
  empty free list takes the position `pfdMax` as the new token, and nothing in it says that this
  one is not in use. `Tokens` says which have been given out: the numbers below the length of
  the free list plus the number of entries, each either once in the list or of one entry.
  So with an empty list the entries have the tokens below `pfdCount`, and the next one is new.
  Each operation keeps it (`AddTidy`, `ClearTidy`, `MoveTidy`, `CutTidy`), through lemmas on
  taking a token (`TakeToken`), giving one back (`GiveBack`) and carrying one along.
  In the invariant the free list is a sequence whose members are named one by one; that
  `FreeTokens` of the property has no others is `TidyConsistent`.
- The clients in the entries of each thread, in the queue and in the hands are disjoint, and
  together they are the open ones (`Apart`, `Spread`). Every step moves one client between two of
  these or opens or closes some (`SpreadPopped`, `SpreadPushed`, `SpreadAccepted`,
  `SpreadClosed`); each action is then a lemma of its own, and the steps of the other threads
  leave a thread alone (`StaysOK`).

The pool list is filtered by a recursive function (`Remaining`), of which only its type is needed.
Here, for the sums of the sort and for the stream of a script, an induction is needed: as a theorem with an operator parameter
cannot be cited, it is done with the smallest number of a set (`Every`).

Only model-checked:

- all liveness, and with it every use of fairness and ENABLED, which are beyond the prover;
- `DocumentsRead`, which is about the documents of the run: their tags are given with them.

## Not modelled, and the plan

Memory ordering is sequentially consistent: the code uses full-barrier compare-and-swap and
volatile loads. Statistics counters, wording, console output and Windows code are left out.
Allocation fails only in `XsFileTable`.

Most of the repository's lines are vendored: two copies of miniz, zlib, two mDNS responders,
khash and hash functions, about three quarters of all implementation lines. They are third-party code
with no state of the server in them and are not modelled; the models cover the program's own
concurrent and stateful code. Of that, not modelled are: the client side of connections and
the work queue that only it uses; TLS and compression (wrappers of libraries); processes and
pipes; directory listings, authentication and ranges (text and arithmetic of one response); the
list of servers, of which the program runs one; what a signal interrupts; string, path, URI and
base64 conversions; the epoll variant of the poll thread, which is not built.

What could follow, in order:

1. A theorem on what `xs_json_next` reads of a document given by a grammar.
2. `XsServerList`: the list lock, released by spinning on a swap (`xs_server.h` 715), and stop from
   the signal handler.
3. Reference counts of connections with a client that reads in a callback and works in the pool.
