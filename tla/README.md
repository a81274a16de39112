# A verification development for the sp24f labs

The repository holds a set of systems-programming labs in C. This directory holds TLA+
models of them, the TLC runs that check the models on small instances, and theorems about
them that TLAPS proves for every value of the constants.

1. Inventory of the repository
2. Modules, and how they correspond to the code
3. The runs: questions, bounds, results
4. What is proved
5. Findings
6. What is not modelled, and the assumptions made
7. Plan

## 1. Inventory

Every program is a small single process, except `sigchild` and `handler` (a parent, its
children and signals), the echo pair (two processes and two socket buffers) and `matmul`
(OpenMP threads). What makes the code hard is failure part of the way through an operation,
files and sockets that outlive or outpace a process, and signals.

| component | state | operations | hard behaviour | correct when |
|---|---|---|---|---|
| `kvs_lab` store: `open.c` `close.c` `get.c` `put.c` `skiplist.c` `kvs.h` | skip list: `level`, `forward[]` arrays of different lengths, `malloc`ed keys and values | `open_kvs`, `put`, `get`, `kvs_close`, `createNode`, `randomLevel` | `list->level` grows before `createNode` may fail; NULL entries of `update` while linking; any of 4 allocations may fail; a value is replaced and freed | levels sorted and nested, indices inside the arrays, no block lost or freed twice, the map of `kvs.h` |
| `kvs_lab/main.c` | the position in `query.dat`, the arrays `fscanf` fills | reads `query.dat`, calls the store, writes `answer.dat` | `fscanf` compared with `EOF` only: a line that does not match leaves old arguments, swallows part of the next, or is tried for ever | one answer per `get` line, a malformed line costs no more than itself and the next |
| `kvs_lab_sample` list: `put.c` `get.c` `close.c` `iterator.c` | skip list with inline keys, `items` | `put`, `get`, `kvs_close`, iterator | old value freed before `strdup` is known to have worked | as above, `items` counts the nodes |
| `kvs_lab_sample` persistence: `main.c` `open.c` `do_baseline.c` `do_custom.c` | memory, `./kvs.img`, what of it is durable | `kvs_open`, workload, `do_snapshot`, restart, `do_recovery` | `O_TRUNC` before the new image exists; crash, power failure, short write, failing read; records cut by buffer boundaries | a snapshot reported successful is what every later start recovers |
| `signal_lab/sigchild.c` | `ccount`, children, pending bit of SIGCHLD | fork loop, test and `pause`, handler | merged signals; the handler between test and `pause`; failing `fork` | every child reaped, `main` ends after the last |
| `signal_lab/handler.c` | `pid[]`, `child_status` | fork, kill, wait | pid -1 handed to `kill`; stale status | every child killed and reaped, nobody else killed, each report true |
| `net_lab/echoserver.c`, `echoclient.c` | the buffers of a connection, one `read` or `write` at each end | read/write loop, write loop | the client never reads and closes with the echo unread; short and failing reads and writes; reset, SIGPIPE | all that was sent is read, both ends come to an end |
| `io_lab/mycat.c` | descriptors, buffer, the output file | copy loop, redirection | short write, failing read, a file copied onto itself | the output is the input, descriptors restored |
| `mem_lab/matmul.c` | `A`, `B`, `C` | allocation, fill, blocked, vectorised, parallel loops | block borders, what a vector load of `B` gathers and from which address, entries of `C` zeroed and summed up by different threads, barriers between the loops | `C = A * B` |
| `opt_lab/sum.c` | a vector | unrolled sum | lengths that are not multiples of 4 | the sum of all elements |
| `linking_lab/main.cpp` | none of its own (LevelDB) | one Put, Get, Delete | - | - |
| `arch_lab/dec2hex.c` | none | constants | - | - |

Interactions: `main.c` of both store labs calls its store and nothing else does;
`do_snapshot` reads the list through the iterator and `get`, `do_recovery` writes it through
`put`, and `kvs_open` calls `do_recovery`; the programs otherwise share nothing.
`linking_lab/build` is output of CMake.

## 2. Modules

| module | models | 
|---|---|
| `LevelLists` | the per-level linked lists of a skip list: when a level is one sorted chain, and the splice of a node |
| `MallocHeap` | the live blocks of a C program, and what `free` does to them |
| `LabSkipList` | the store of `kvs_lab`, one step per loop turn, with the heap |
| `KeyValueMap` | abstract: the map `kvs_lab/kvs.h` promises a caller |
| `SampleSkipList` | the list of `kvs_lab_sample` and `do_snapshot`'s walk over it, one step per loop turn, with the heap |
| `SampleMap` | abstract: the map that list is for its callers, with what a failed allocation may do |
| `SnapshotImage` | the text format of `kvs.img`: a record written, an image cut into records by `strtok`, buffer by buffer |
| `SampleStore` | the life of the `kvs_lab_sample` programs (both builds) and of the image they share across restarts, crashes and power failures |
| `SigChild` | `signal_lab/sigchild.c` with the kernel's signal delivery |
| `EchoSession` | one session of `net_lab/echoclient.c` and `echoserver.c` with the socket buffers between them |
| `MyCat` | `io_lab/mycat.c`: the descriptor table, the redirection and the copy loop |
| `QueryDriver` | `kvs_lab/main.c`: `fscanf` over the characters of `query.dat`, the arguments, `answer.dat` |
| `KillWait` | `signal_lab/handler.c`: the fork, kill and wait loops, and the delivery of SIGKILL |
| `BlockedProduct` | `mem_lab/matmul.c`: the OpenMP team in its four loops, and which products an entry of `C` gets |
| `KvsLabProofs` (of `LabSkipList` and of `QueryDriver`), `SampleSkipListProofs`, `SampleStoreProofs`, `SigChildProofs`, `KillWaitProofs`, `EchoSessionProofs`, `MyCatProofs`, `BlockedProductProofs` | lemmas and theorems |
| `MCLabSkipList`, `MCSampleSkipList`, `MCSampleStore`, `MCQueryDriver` | definitions for the small instances |

Operators marked "(mutant)" in a comment are deliberately wrong variants of the definition
after them; nothing of a specification uses them. Each property of a passing run is violated
when one of them takes the place of its original, which shows that the property depends on
that line of the code.

### LabSkipList

`pc` is the place the running call has reached; `op` its arguments; `current`, `i`, `update`
and `newnode` are the locals of the C functions. Each turn of a `while` or `for` loop is an
action (`PutAdvance`, `PutDescend`, `PutLink`, `GetAdvance`, `GetDescend`, `CloseNode`), so
that loop invariants are state invariants. `forward[p][j]` is `p->forward[j]`; `height[p]`
is the last index of that array, as `createNode` allocated it. `heap` is the set of live
blocks, each named by what it holds and by its node. The value of a node may be in either of two
blocks (`ValueBlocks`), and `valueAt[n]` is the one `n->value` points to: `PutReplace` takes a block that is not live for the
copy of the new value, frees the one the pointer is to, and then sets the pointer, as `put.c` does. What is freed must be live: `Freed` of `MallocHeap` leaves
a heap that is broken for good if it is not, so that a block freed twice, or freed and still used, shows
(`WalksLiveNodes`), as one that is never freed does (`HeapExact`). Nothing runs concurrently and a call
that fails in `malloc` changes nothing another step could see in between, so the
allocations of one `createNode` are one step with the number that succeed chosen freely
(`PutCreateFails`, `OpenKvsFails`). Keys are naturals, ordered as `strcmp` orders them.
`createNode` writes NULL into the forward array; `malloc` returns a node whose blocks
are not in use (`Fresh`), and the constant `Malloc` says which of them it may choose.

### SampleSkipList

As `LabSkipList`, with the differences of this code. A node has all its next pointers in
itself (`forward[p][j]` is `p->next[j]`, `MaxLevel` is `MAX_LEVEL - 1`), and neither they nor
`prev_node` are initialised: what nothing has been written to is `Unset`, a value of its own that
no step may follow (`OnlySetPointersRead`). `put` frees the old value before `strdup`
(`PutReplace`, `PutReplaceLoses`), which may therefore get the same block again: the name `"value"` is for the copy if that block is free, and `"value2"`
is what it would be called next to an old value that was not freed (`Strduped`). `put` keeps a new node whose `strdup` failed (`PutCreate` with `v`
NULL), and dies when `malloc` gives no node (`PutDies`); the process is then `"dead"`. `items`
is raised in the last turn of the linking loop. `do_snapshot` is `SnapCall`, then for each node
`SnapNext` (the iterator moves on, a `get` for the key begins) and `SnapWrite`, then `SnapEnd`;
`do_custom.c` may leave the loop at a pair it cannot write (`SnapAbort`). `out` is what was written, as pairs;
the file behind it is `SampleStore`'s. A call that begins a search is `Search`, one that returns
is `Leave`. The puts of `do_recovery` are puts like those of the workload, so `KvsOpen` leaves an empty list behind.

### SampleStore

`store` is the list as a function from keys to values (`SampleSkipList` has its inner structure); `img` is the file as any `read` sees it,
`disk` what a power failure cannot take away. `fsync` copies `img` to `disk`. A value is
`NoValue` when its `strdup` has failed. `written`, `synced` and `promised` are history: the
pairs a snapshot was meant to put into `img` and `disk`, and the pairs of the last snapshot
for which `do_snapshot` returned 0. Both programs of the Makefile are in one module, and either may be
started on the image the other has left (`build` is the one that runs, `Builds` are those of an instance). They
differ in the size of the buffer of `do_recovery` (`Buffer`), in whether a short
write is noticed (`SnapWriteShort`) and in how much of the image a failing read has already
put (`ReadBeforeError`). `holed` is history too: `img` or `disk` lacks part of a record because a short write of `do_baseline.c`
went unnoticed, which is what the properties except. `Fault` lists the kinds of faults of a run, `MaxFaults` bounds them.

### SigChild

`main` takes steps when no handler runs (`MainRuns`); the handler takes its steps in between
any two of them. `Test` and `Pause` are separate steps, since the signal may arrive between
`while (ccount > 0)` and `pause()`. The kernel keeps one pending bit, clears it at delivery
and does not deliver while the handler runs, as `signal()` of glibc and Linux does. `lostWake` is
history: the handler that brought `ccount` to 0 ran between a test and its pause.

### EchoSession

`client` and `server` are the call each program is in, `left` and `out` what its `write` has still to hand
over. The four buffers are counters: `up` and `atServer` on the way to the server, `down` and `unread` on the way back.
`write` and the network move one byte at a time, so that a `read` (`Read`, at most `MAXLINE` bytes at once) finds the stream
cut anywhere. What the bytes are is left out: the server writes `MAXLINE` bytes of its buffer whatever `n` was, and the client never looks.
`fgets` gives a line of 1 to `MAXLINE - 1` bytes (`Gets`).

The kernel is modelled from how the two programs meet it. A `close` with bytes unread resets the connection and drops what
was still to be sent; without, it ends the stream (`ClientCloses`). A byte that reaches a closed socket is
answered by a reset (`AnswerClosed`). A reset leaves an error at the server that its next `read` or `write` is told, once
(`ReadFails`, `ServerWriteFails`); after that `read` answers 0 (`ReadEof`) and `write` raises SIGPIPE (`Killed`), whose
default is death. `ClientGivesUp` and `ServerGivesUp` are a network that fails, noticed by one end;
`broken` is the history of that and of a server whose `accept` fails.

### MyCat

`fds` is the descriptor table: each entry refers to an open file (`"in"`, `"out"`, or `"start"`, what descriptor 1 was), and `open` and `dup` take the lowest
free entry (`Lowest`). `args` is what the arguments ask for; both branches of `main` copy by the same loop, so there is one
`Prepare`, `Read` and `Write`. `CallFails` is the error return of any call but `dup2`: it closes and restores what has been set by then.
`content` holds each file's bytes; the source starts as `1, 2, ..., InSize`, so that a byte that is lost or out of
place shows. `same` is a target that names the source, `start1` a descriptor 1 that was a terminal, the source (`mycat f >> f`) or
closed. `Grow` is somebody else who appends to the source.

### QueryDriver

`text` is `query.dat` as a sequence of characters, `pos` how far the stream has been read. A
conversion of `fscanf` is a step (`Convert`, `ConvertFails`); the call ends with the first that
fails, with `EOF` only if the file ends before the first. `args` keeps what earlier calls have put into
`command`, `key` and `value`, and starts with anything, a command included. `"set"`, `"get"`, the comma and the newline
are one character each, all others are letters; what matters of a command is whether it is whole. The store
is the map that `Implements` of `KvsLabProofs` shows `LabSkipList` to be; `put` may fail, which `main` does
not notice (`lost`). Files that cannot be opened are used all the same (`Dies`). `start` and `obeyed` are history: where a
call began, and which lines were taken field by field as they are. A line is any sequence of one to three fields of which the last may hold
commas (`LineAssumption`), which is what a line without its newline is; `Short` is one that fits `value` as a whole, commas included. Names begin with `main` or `Main` where
`LabSkipList` has its own, since `KvsLabProofs` extends both modules.

### KillWait

`proc` is what has become of each process: `"running"`, `"dying"` (SIGKILL is pending), `"zombie"`, `"reaped"`; `Other`
are further processes of the same user, which `kill(-1, SIGKILL)` meets as well. The caller itself is spared by Linux. `Turn` is
the head of each of the three `for` loops. `wait` answers any zombie, sleeps while children live and fails
when there are none (`WaitFails`); `child_status` is then printed as it is. `signal(SIGKILL, ...)` always
fails, so `sig_int_handler` never runs.

### BlockedProduct

`todo[t]` are the turns of the current parallel loop that thread `t` has still to make, in the order of the loop nest
(`Turn`); a loop without a schedule clause is dealt out in consecutive runs (`Share`), as the default of the runtime is. A thread multiplies
(`Multiply`) and adds (`Add`, the atomic statement) in two steps, between which the others go on; the next loop begins when all have come
to its barrier (`NextLoop`). A number is the pair of places its factors come from and an entry of `C` the bag of the products added to it, so that a
product used twice, not at all, or of the wrong places shows. `aligned` is a property of the build: a compiler that folds the loads of
`B` into arithmetic, as in the binary beside the source, does not need the alignment `_mm256_load_ps` promises; one that keeps them as moves faults (`Fault`). The
generator of random numbers and the rounding of additions are left out.

## 3. The runs

| run | cfg | question | states |
|---|---|---|---|
| `lab_skiplist` | `LabSkipList.cfg` | Do any sequence of calls, any heights and any failing allocation keep the levels sorted, the indices in bounds and the heap exact, replaced values and `kvs_close` included, and is only what is live used and freed; does the list implement `KeyValueMap`, and does every call end? | 863 837 |
| `sample_skiplist` | `SampleSkipList.cfg` | Do any calls, any levels, any failing `strdup` and an interrupted snapshot keep the levels sorted, every node wholly linked, `items` right, unset pointers unread, the snapshot exact and the heap free of losses; does the list implement `SampleMap`, and does every call end? | 695 911 |
| `sample_store` | `SampleStore.cfg` | What do a successful and an interrupted snapshot leave, to either program, under crash, power failure, full disk, failing `strdup`, `open`, `fsync`, `read`? | 644 866 |
| `sample_baseline_disk_full` | `SampleBaselineFull.cfg` | Is a snapshot reported complete complete? (no) | |
| `sample_custom_two_buffers` | `SampleCustomChunk.cfg` | Does a recovery reported successful restore the image? (no) | |
| `sigchild` | `SigChild.cfg` | Is every zombie reaped, and when does `main` hang? | 3 025 |
| `echo_session` | `EchoSession.cfg` | What does the server read of what the client sends, what is lost and when, when do the two wait for each other, and do both come to an end otherwise? | 56 583 |
| `mycat` | `MyCat.cfg` | What is copied when any call fails, writes are short, the file grows or is copied into itself; when does 0 hide a loss, and which descriptors are left? | 3 565 |
| `product` | `BlockedProduct.cfg` | Do the threads read only what has been filled, is each part of a row of `A` used once for each entry, and how does the program end? | 1 267 |
| `product_exact` | `BlockedProductExact.cfg` | Is an entry of `C` the product of its row and its column? (no) | |
| `driver` | `QueryDriver.cfg` | Are the answers right for a file of proper lines, how much does a malformed line cost, and when does `main` never end? | 281 772 |
| `kill_wait` | `KillWait.cfg` | Whom does SIGKILL meet, which reports are true, and is every child reaped in the end, whichever forks fail? | 1 574 |

Bounds.

* `lab_skiplist`: three keys, three nodes, three levels, two values. Three levels are needed for a
  list that grows by more than one level at once (NULL entries of `update`) with a level
  below to descend to, three nodes for an insertion between two others at one level and at the end at
  another, two values for a replacement that shows. `malloc` has a node of its own for each key, and hands out any other if that is taken (`MCMalloc`): what a node is called has no meaning, and as
  no node is freed before `kvs_close`, a key has one node at most; so every behaviour with other choices is one of these under
  other names. The theorems of section 4 remove the bounds for
  the invariants and the refinement.
* `sample_skiplist`: the same, for the same reasons.
* `sample_store` and the two after it: two keys, one of them the beginning of the other (`"a"`, `"ab"`), and two values, one with a
  comma, which is where the text format could confuse records. Two faults reach every pair, such as
  a crash in a snapshot followed by a failing read at the next start, or a power failure after an
  unsynced snapshot was recovered, and by then both programs can have run several times. In `sample_store` the image fits one buffer (`Chunk` = 64 bytes: a
  hole an unnoticed short write leaves can join records into longer ones, of which there may be several); `sample_custom_two_buffers` has the image that does not.
* `sigchild`: `NUM` = 4 where the source has 8. Merged exits, exits during the handler and a lost
  wake-up need two or three children; the safety theorems of section 4 hold for every `NUM`.
* `echo_session`: `MAXLINE` = 3, so that a read can be empty, short or full; send buffers of 2 and receive buffers of 4 bytes, so that
  a write does not fit into one and a receive buffer holds more than a read takes; five lines, with which the two can fill
  all four buffers and wait for each other, already at the least input `DeadlockNeedsInput` admits. The real buffers hold many lines; section 4 has any sizes.

* `mycat`: three bytes, a buffer of two for a file `fstat` says is empty (a full and a short read), room for two more (growth
  before, during and after the copy, and a disk that fills up in `mycat f >> f`).
* `product`: matrices of 3x6 and 6x3 in blocks of 2x2 and 4 steps, with two lanes: a block that hangs over the border in every dimension, a
  vector loop that is cut off by the end of the row, and loads of `B` that run over the end of a row; three threads for four blocks, so that one makes two. In the
  source `BK` and `K` are multiples of 8 (`VectorAssumption`), and the remainder loop makes no turn, here as there; for a `K` that is not, the remainder loop would leave out
  products, since it starts behind the block's last vector and not behind the row's.
* `product_exact`: two rows, two columns, two lanes, the least with a product in it.
* `driver`: three lines, each of four proper and nine malformed ones (a field missing, empty or too long), so that a malformed line can stand before and behind
  proper ones; with and without a newline at the end. Widths of 3 and 14 characters stand for 9 and 99: a command can be cut, and two short lines
  fit a key or a value. `MaxAnswers` cuts off `answer.dat` when the same line is answered for ever. Section 4 has any lines, any number of them and any widths.
* `kill_wait`: `NUM` = 4 as in the source, and one process that is no child.

Deadlock is checked everywhere but in `sigchild`, `echo_session` and `kill_wait`, where the programs really end or hang:
`EndsOrStuck`, `WritesReturn` with `ServerEnds`, and `EndsClean` say which. In the skip lists the end of `main.c` (or of a killed process), and in `MyCat`,
`BlockedProduct` and `QueryDriver` that of `main`, is the stuttering step `Ended` (`MainEnded`).

Fairness. `CallsReturn` assumes weak fairness of `Step`, the steps a call takes by itself: a
running process goes on; nothing is assumed of callers. `SigChild` assumes weak fairness
of `main`, of the handler, of signal delivery and of each child's exit: the scheduler runs
every process, `sleep(2)` ends, and an unblocked pending signal is delivered. Each is a
separate agent of the system. `EchoSession` assumes it of the client in a `write`, of the server, and of each kind of delivery (both kernels
retransmit until they give up); not of `fgets`, for nobody has to type, nor of failures. `KillWait` assumes it of `main` and of
the delivery of SIGKILL to each process, `BlockedProduct` of each thread of the team, `QueryDriver` of the one process. No strong fairness is used.

## 4. What is proved

`KvsLabProofs` proves of the store, for any set of keys, any values, any pool of nodes and any `MaxLevel`:

* `Inductive`: `Spec => []IInv`;
* `TypeCorrect`, `SortedLevels`, `NestedLevels` (with `HeightsCover`), `HeapAccounted`, `ArraysInBounds`,
  `LiveWalks`: the invariants of `lab_skiplist`, and with `TypeOK` and `LevelsNested` two that are proved and need no run.

The argument. That a level stays sorted when a node is spliced in needs that the predecessor
stored in `update[j]` is still the last node before the key (`LinkInv`), which the descent
has established (`SearchInv`); that a descent may go on from a node found one level up needs
`LevelsNested`; that a node stays nested while only some of its levels are linked needs that the NULL entries
of `update` are the uppermost ones (`LinkInv`: `update[j] # NULL` implies the same of every lower entry). The heap part needs that the nodes `kvs_close` has passed are
exactly those with smaller keys (`Passed`), which follows from the order of level 0. That each `free` is of live blocks (`ReplaceHeap`,
`CloseHeap`, `CreateFailsHeap`, `OpenFailsHeap`) comes from the same: an open store has in the heap the blocks of its linked nodes, each with the value block
`valueAt` says (`OpenHeap`, `FoundLive`), and a store that is being closed those of the nodes not yet passed (`PassingLive`); so `Freed` takes away those blocks and nothing else. "Sorted"
is stated through pointers and `Linked` (`IsNext`), without a recursive walk, so that one
splice can be reasoned about locally. Those lemmas come first in the module, and again in `SampleSkipListProofs`, since the two lists are separate specifications;
`InsertAfterSorted` is the central one. The assumptions are the named ones of `LevelLists`
and `LabSkipList`: keys are naturals, the header is no node and NULL is neither, `MaxLevel` is a natural, NULL
is no value, and `malloc` chooses among the nodes that are free.

It also proves `Implements`: `Spec => ImplementsMap`, the list of `kvs_lab` implements
`KeyValueMap` under the mapping `map <- Contents`, `stage <- Stage`, `req <- op`. `Contents` is rewritten as a function of
the settled nodes (level 0 without the node `put` is linking), their keys and their values (`MapOf`). Two lemmas about `MapOf`
carry the argument: it does not change when those nodes do not (`MapOfSame`), and a node that
gets a value, new or not, changes it at its key only (`MapOfStored`). There is one lemma for each kind of step, from `IInv`:
a replaced value and the last turn of the linking loop are `PutStores`; the other turns stutter,
for the new node stays invisible until `put` returns (`LinkStutters`). That the new node is on level 0 by then needs `LinkInv`.

Of the driver `KvsLabProofs` proves `AnswersCorrect` and `OneLineLost`, the two invariants of `driver`, for any characters, any lines, any number of them and any widths; and `DriverTypeCorrect`.
The assumptions are those named in `QueryDriver`: what a line is, that each conversion has a width, and that the model keeps as many answers as there are lines.

The argument. The text is put together from the lines by `FlattenSeq`, and what the lines mean (`Meant`) adds up from the first to the last. Both are recursive functions; that they exist is shown
by the least length for which they would not (`FlattenExists`, `MeantIs`, from `LeastNat`), and the same serves for what holds of all their values (`FlattenLaw`, `PrefixExtends`, `MeantType`, `MeantGrows`). From then on
the file is `Layout`: line `n` begins at `Start(n)`, its characters follow, a newline is behind it, and the next line begins there (`LayoutInit`). A conversion ends before its first stop character, or after its width (`TakenIs`); so
one that stands at a field of a proper line takes that field and no more (`FieldIs`, `TakesField`), and the newline of the format leads to the next line (`SkippedToNext`).

`AnswersRight` follows from `AnswersInv`: of a file of proper lines some number `n` has been carried out, the store and the answers are what `Meant` says after `n`, and `fscanf` is reading line `n + 1`, stands at one of its fields and has the fields before it in
`args` (`Reading`); or the file is at its end. `OnlyNextLineLost` is about files with anything in them. Its strengthening says where the stream may stand in a short proper line (`InsideInv`): not beyond its first comma, unless a conversion has come to the second
or the third field by the one before. For a conversion that comes into such a line from before stops at the comma if it is of the command or the key, and one of the value takes the line up to its end, whichever field it
begins in (`ConvertInside`). So no conversion runs through a short proper line into the next, and the line behind it is ahead, is being read from its start, or has been read as it is (`PromisedInv`, `AheadConvert`). At the end of the file no line is ahead (`PromisesFollow`). That the line before is short is needed:
behind a longer one the value ends with its width, in the middle of a line.

`SampleSkipListProofs` proves for any keys, values, pool of nodes and `MAX_LEVEL` `TypeCorrect`, `SortedLevels`, `PointersReadAreSet`, `WhollyLinkedAlways`,
`SnapshotComplete` and `HeapAccounted`, the invariants of `sample_skiplist`, and `Implements`. Here a pointer may be one nothing has been written to. `Seen` puts NULL in the place of these, and since a walk along a level meets
none (`AllSet`), the lemmas about `LevelLists` carry over (`RawLinks`, `RawSorted`). The strengthening: a node is on a level exactly if its pointer of that level is set, and then on
all levels below (`ListInv`), which is what lets a descent go on; the entries of `prev_node` from `i` to `top` are the last nodes before the key, the header on the new levels (`LinkInv`);
the iterator stands right behind the node whose key `do_snapshot` looks up (`SnapInv`), so that the search of `get` ends on that node and the pairs written are those of
the nodes passed; and, as above, the nodes `kvs_close` has passed are those with smaller keys (`HeapInv`). That `malloc` hands out no linked node needs `HeapExact`,
so the heap is part of the induction and no addition to it; and that `put`, `do_snapshot` and `kvs_close` free live blocks only needs it too (`ReplaceHeap`, `SnapHeap`, `CloseHeap`). Keys are told apart by uniqueness on level 0, the last conjunct of `ListInv`. `Implements` says that the list implements
`SampleMap`, under `map <- Contents`, `stage <- Stage`, `req <- Request`, with the same two lemmas about `MapOf`: here a step may also store NULL, and every step of `do_snapshot` stutters. The assumptions are those of `LevelLists`, that NULL is no value, and that
the mark of an unwritten pointer is neither an address nor NULL.

`KillWaitProofs` proves for any number of children and any set of other processes `TypeCorrect`, `OnlyChildrenKilled` and `ReportsAreTrue`. The
strengthening: `pid[c]` is `c`, -1 or not yet set, and the child is there exactly in the first case (`PidInv`); reports that name a child name a reaped
one, each once, and a wait fails only when no child is left (`ReportInv`); the reports are as many as the turns of the third loop (`LoopInv`) and as the reaped children
and the failed waits together (`CountInv`), so that at the end the failed waits are as many as the failed forks (`BlindAtEnd`). The assumptions are that there is a child and that a pid is
not the number of another process.

`SigChildProofs` proves for any number of children `TypeCorrect` (`ccount` never goes below
0), `ZombiesSeen`, `ReturnsAfterAll` and `OnlyTwoWaysToHang`. The strengthening: `ccount` is `NUM` less the
number of reaped children (`Counted`), the children from `i` on have not been forked
(`ForkInv`), and a `main` that sleeps has a child to wait for, a handler still to return, or
has lost its wake-up (`SleepInv`).

`EchoSessionProofs` proves for any buffer sizes and any input `TypeCorrect`, `DeadlockBound`, `ReadsAll`, `LossBehindAnswer` and
`ServerStays`. The strengthening: every byte sent has been read or is in a buffer until a reset or a failure
(`BytesInv`); the bytes on the way back and still to be written are at most `MAXLINE` for each byte read
(`AnswerInv`), which is why a deadlock, with both buffers on that way full, needs input, and why a close with an unread
answer comes after a read; and a reset, an error at the server or an end of stream comes only from a client that has closed, or a
failure (`EndsInv`). The assumptions are that `MAXLINE` and the buffers have at least a byte.

`MyCatProofs` proves for files, buffers and disks of any size `TypeCorrect`, `CopyInOrder`, `DescriptorsKept` and `LossHasACause`, the four invariants
of the run. The strengthening: the descriptor table entry by entry at each point of `main` (`FdInv`), from what `open` and `dup` answer in a
table of which 0 and 2 are taken (`FirstFree`, `ThirdFree`); the source is never cut short but by `O_TRUNC` on itself, is read within its length,
and the target is written exactly up to its end (`ContentInv`), so that every write appends; and a loop that ends without a failed read has read all of it, with
nothing left in the buffer (`EndInv`). The `Seq` facts these need (`PrefixStays`, `ReadStays`, `OverwrittenIs`) are lemmas over the library's. The assumption is
that the source fits on the disk and the buffer has at least a byte.

`SampleStoreProofs` proves for any keys, values, programs, faults and number of faults `TypeCorrect` and `NothingIsForgotten`; `PromiseIsKept` and `TailIsTorn`,
the two invariants of `sample_store`, in every state in which the images fit the buffer of `do_custom.c` (`ImageFits`); and for `do_baseline.c` by itself
`BaselinePromise` and `BaselineTail`, without that condition. The condition is needed: `sample_custom_two_buffers` is what happens without it. It is a condition
on the state and not on the behaviour, so an image that once was too long does no lasting harm.

The argument. An image is described by where the line of each key starts (`Layout`): the keys that have a line are the first ones in the order of `strcmp`, the lines
lie one behind the other without gaps, and each byte of the image is the byte of its line. `Whole` is an image with all of those lines complete,
`Begun` one in which the last may be cut off. Three lemmas say how such an image comes about: the empty file is one (`NothingWritten`), the line of the next key, or a beginning of it,
continues one (`LineAppended`), and any prefix of one is `Begun` (`PrefixBegun`), which is the torn write of a crash and of a power failure. Two say what `do_recovery` makes of it: `RecoveredWhole`
and `RecoveredTorn`, from where `strtok` finds its tokens (`StartsOfLines`, `TokenOfLine`: a newline is nowhere but at the end of a line) and `strchr` the comma
(`RecordOfLine`; a record without its comma is passed over, `NoRecordYet`). That `do_snapshot` always finds a next key, and one before all that are left, is `FirstKey`: `strcmp` is a strict order of
all strings, and a finite set of strings has a least one. The strengthening `IInv` then says what the files are: as long as no short write went
unnoticed, `img` and `disk` are beginnings of images of `written` and `synced` (`FileInv`); during a snapshot `img` is whole
up to the keys in `rest`, which come behind all others (`SnapInv`); after a snapshot that succeeded `img` and `disk` are the same, and whole, until the next `O_TRUNC`
(`PromiseInv`); and what the last recovery left in the store are the pairs of `img`, but for values a `strdup` has lost (`LoadInv`). No induction over strings is needed: a least element of a set of positions takes its place (`LeastNat`).
The assumptions: what the workload puts are strings without a NUL, a newline or a CR, and keys without a comma (`StringAssumption`); there is a program; `MAX_BUFFER_SIZE` is positive; and no string is `NoFile`.

`BlockedProductProofs` proves for matrices, blocks, vector registers and teams of any size, so also for those of the source, `OnlyFilledRead` and `RowsUsedOnce`,
the two invariants of `product`. The assumptions are that all sizes are positive and that `K` and `BK` are multiples of the register. First, what the loops cover: a quotient
and a remainder are the only ones (`DivUnique`), so the shares of the threads cover a loop (`SharesCover`), the blocks of a nest meet every place (`BlocksIs`, `InBlock`),
and each turn of the multiplication is one thread's (`TurnsIs`). The vector steps of a block of `K` cover its span once, the cut-off one at the end of the row included (`VectorIs`, `SpanCovered`),
and the remainder loop makes no turn (`NoRest`); so the products of a turn (`PartIs`) take each place of the span once, and those of two turns are apart (`PartsApart`), for the spans partition the
row (`SpansPartition`). A vector load of `B` may run into the next row, but not out of `B`, since it begins at least `W` - 1 rows above the last (`PartIs`). The strengthening `IInv`: the turns a thread still has are of its share (`TodoInv`), what
the earlier loops had to fill is filled (`FillInv`, `ZeroInv`), what a thread holds are the products of its next turn (`TurnInv`; there is always a next one, `FirstTurn`), and an entry has had exactly the products of those of its steps that no
thread has still to add (`SumInv`), which is what the interleaving of additions leaves alone. `RowUsedOnce` says "once" of each product and each place, without the cardinality of a bag, which is recursive.

Only model-checked: the liveness properties (`CallsReturn`, `EndsOrStuck` of `SigChild` and of `QueryDriver`, `EveryChildReaped`, `WritesReturn`, `ServerEnds`, `EndsClean`, `Outcome`), which are outside what the prover handles. Every invariant and every action property of a passing run has its theorem.

What some properties except. Where the code is known to go wrong, a property that holds says how far it goes: `StuckOnlyIf` and `EndsOrStuck` name the lost wake-up, the failed
fork and the endless retry at a comma; `OthersSpared` excepts runs with a failed fork, `QuietLossOnlyIf`, `InOrder` and `DescriptorsRestored` the short write, the failed read, the file copied into itself, a failing `dup` and a
closed descriptor 1; `NothingForgotten` excepts a recovery that failed, `PromiseKept` the pairs a later snapshot has begun to overwrite, and `Outcome` lets the
`free` of an unset pointer end either way. These properties do not flag those faults: they show that there are no others. The hazards in `PROJECT.json` say so one by one.

## 5. Findings

Shown by a run:

* `do_baseline.c` ignores the result of `dprintf`: on a full disk an incomplete image is reported successful (`sample_baseline_disk_full`).
* `do_custom.c` cuts each buffer into records by itself: in an image longer than 8192 bytes a record across
  the boundary is lost or cut, and the recovery is reported successful (`sample_custom_two_buffers`).
* `matmul.c` loads eight neighbours of a row of `B` where the product needs eight of a column, so that it does not compute the product of
  `A` and `B` (`product_exact`). `RowUsedOnce` shows that the blocking itself is right. The same loads are from aligned addresses for every eighth column only: `Outcome`
  says what that does to a build that relies on it.

Disagreements between a comment or a message and the code, without a run of their own:

* `kvs.h:28` says that `kvs_close` frees all memory; it leaves every key string and forward array, and `HeapExact` that nothing else is left.
* `put.c:53` sets the new `update` entries to NULL where its comment says the header;
  the node is then not linked at the levels the list grows by. The list stays correct, but those levels start out empty.
* `kvs_open` (`kvs_lab_sample/open.c:38`) reports every failure of `do_recovery` as "No snapshot found"; the next `do_snapshot`
  then truncates the image it could not read.

## 6. Not modelled, and assumptions

* `get` hands out the stored pointer, which the next `put` of the key frees (`kvs_lab/get.c:37`); both `main.c` print it before they call anything else (`Get` of `QueryDriver`), and there is no other caller.
* A power failure leaves, of a file that was truncated and written since its last `fsync`, the old contents or a
  prefix of the new. That is what journalling file systems give for one appending writer;
  a file system may do worse.
* The workload of `SampleStore` has lines of three fields, as `cluster004.trc` has: keys without commas or newlines,
  values without white space, neither with a NUL or a CR (`StringAssumption`). `get` lines change nothing and are left out.
* When `read` fills the buffer of `do_custom.c`, the terminating 0 is written one byte past the array (`do_custom.c:80`),
  and a record longer than the buffer makes `write` read past it (`do_custom.c:38`); what is in that memory is not modelled.
* `child_handlerl` of `sigchild.c` is installed nowhere; it appears as the mutant of the handler.
* The contents of the echo: the server sends `MAXLINE` bytes of its buffer for any `n`, the rest of it from earlier reads or never set.
  Timed-out deliveries are `ClientGivesUp` and `ServerGivesUp`; a second client waits in the listen queue for ever, since the server serves one.
* `kill` of a pid that the kernel has given to another process cannot happen in `handler.c`, since nothing is reaped before the last `kill` (`OthersSpared`).
* The random numbers of `matmul.c`, rounding, and what `free` does with a pointer that `posix_memalign` has not set: the process goes on or dies (`AllocFails`).
* `sum.c` adds up an array of `MAX_NUM` elements in one loop unrolled by four, each element behind its own test; the rest of it allocates and prints. `TurnsOf` and `RestSteps` of `BlockedProduct` have the harder loops of the same kind.
* `dec2hex.c` and `main.cpp` keep no state and take one path. Makefiles, editor settings and `linking_lab/build` only build.

## 7. Plan

Order of work, the most important first.

1. Done: `LevelLists`, `LabSkipList`, `KeyValueMap`, `SampleSkipList`, `SampleMap` with their runs, proofs and the refinement theorems;
   `SnapshotImage` and `SampleStore` with proofs that what a snapshot promises survives every fault; `SigChild`, `KillWait`, `EchoSession`, `MyCat`,
   `BlockedProduct` and `QueryDriver` with proofs.
2. Open: `LoadedMap`, that the `store` of `SampleStore` is `Contents` of `SampleSkipList`, step for step, for the workload
   and the recovery; and `QueryDriver` over `KeyValueMap` as its store.
