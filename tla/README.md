# Verification of the system-programming labs

The repository holds five independent C programs. This directory models them in
TLA+, checks the models with TLC and proves theorems about them with TLAPS.
Every definition that stands for code is listed with its file and lines under
`map` in `PROJECT.json`.

## 1. Inventory

### Tiny shell (`src/shlab/shlab/tsh.c`)

- **State.** `jobs[MAXJOBS]` (pid, jid, state, command line per slot; a slot is
  free when its pid is 0), `nextjid`, the signal mask, the locals of `eval`,
  `do_bgfg` and `waitfg`, and the frames of handlers that are running.
- **Operations.** The read/eval loop starts programs (`eval`), runs the
  built-ins `quit`, `jobs`, `bg`, `fg` (`builtin_cmd`, `do_bgfg`) and waits for
  a foreground job by polling (`waitfg`). `sigchld_handler` collects children
  and updates the list; `sigint_handler` and `sigtstp_handler` pass ctrl-c and
  ctrl-z on to the foreground job; `sigquit_handler` ends the shell.
- **Interaction.** Main and the handlers share `jobs` and `nextjid`. A handler
  may interrupt main, or another handler, at any instruction; only its own
  signal is blocked meanwhile. The kernel shows the children through `fork`,
  `waitpid`, `kill` and one pending bit per signal.
- **Hard.** Signals merge; children end, stop and are continued at any moment;
  a pointer into the list is kept across steps in which the slot may be cleared;
  `addjob` fills a slot in several stores; `fork` may fail.
- **Correct means.** The list agrees with the children that exist; at most one
  job is in the foreground and it is the one the shell waits for; ctrl-c and
  ctrl-z reach that job and no other; waiting ends.

### Caching proxy (`src/proxylab/proxylab/`)

- **State.** A doubly linked list of cached objects (`head`, `tail`,
  `total_size`, `num_CachedItem` in `cache.c`), the semaphores `mutex` and `w`
  and the counter `readcnt`; per connection thread its socket, request and
  buffers; per socket the `rio_t` buffer of `csapp.c`.
- **Operations.** `main` accepts and starts a detached thread per connection;
  `handle_client` reads a request, answers from the cache (`get_from_cache`, a
  reader) or fetches, forwards and inserts (`get_from_server`, a writer);
  `find_cache`, `move_to_end`, `insert_cache`, `remove_LRU` work on the list.
- **Hard.** Threads interleave; a reader changes the list (`move_to_end`); the
  decision to fetch is made long before the insertion; any failing wrapper of
  `csapp.c` ends the process.
- **Correct means.** Nobody changes the list while somebody else uses it; the
  list is well linked, within its size limit, in order of use, without
  duplicates; an object served is the object fetched for that request.

### Dynamic memory allocator (`src/malloclab/malloclab/src/`)

- **State.** A heap of blocks with boundary tags, eleven segregated free lists
  threaded through the free blocks, the break of the simulated memory
  (`memlib.c`); in the checker (`mdriver.c`) the ranges handed out.
- **Operations.** `mm_init`, `mm_malloc`, `mm_free`, `mm_realloc` over
  `find_fit`, `place`, `coalesce`, `extend_heap`, `insert_free_block`,
  `delete_free_block`; `mem_sbrk`; `add_range`, `remove_range`.
- **Hard.** Sequential, but long sequences of legal calls matter: six cases of
  `mm_realloc`, unsigned differences that wrap, out of memory.
- **Correct means.** Blocks tile the heap, free blocks are exactly the list
  members, no two are adjacent (`mm_check`), payloads never overlap
  (`add_range`), a realloc keeps its data.

### Memory tracer (`src/linklab/linklab/`)

- **State.** The sorted list of blocks with their counters (`utils/memlist.c`)
  and the totals of `memtrace.c`.
- **Operations.** The interposed `malloc`, `calloc`, `realloc`, `free` in four
  variants (`part1` to `part3`, `bonus`), `init` and `fini`.
- **Hard.** Freeing twice, freeing a foreign pointer, reuse of an address by the
  real allocator, `realloc` that moves, fails or is given `NULL`.
- **Correct means.** The counter of a block is 1 exactly while it is allocated;
  the totals are the bytes asked for and given back; misuse is reported.

### Kernel modules (`src/kernellab/kernellab/`)

- **State.** `ptree`: a global list of messages, `total_len`, `curr`. `paddr`:
  nothing that lives across calls.
- **Operations.** Writing a pid to `input` and reading `ptree`; reading
  `output` for the physical address of a virtual one.
- **Hard.** Two openers share the list without a lock; partial reads.
- **Correct means.** A read returns the ancestry of the pid written last.

## 2. Modules and plan

| module | models | state |
|---|---|---|
| `JobTable` | the job list and its helper routines, as pure operators | done |
| `JobControl` | abstract: what job control promises of each process | done |
| `Shell` | main, handlers, children and kernel of the tiny shell | done |
| `ShellProof` | theorems about `Shell` | done |
| `MCShell` | model-checking definitions for `Shell` | done |
| `ReadersWriter` | abstract: readers together, a writer alone | done |
| `Proxy`, `MCProxy` | connection threads of the proxy and the lock around its cache | done |
| `ProxyProof` | theorems about `Proxy` | done |
| `Recency` | abstract: what a lookup may rely on | done |
| `CacheList`, `MCCacheList` | the linked list of `cache.c` and its totals | done |
| `CacheListProof` | theorems about `CacheList` | done |
| `Relay`, `MCRelay` | one proxy connection byte by byte: the robust I/O of `csapp.c`, header, answer, descriptors | done |
| `RelayProof` | theorems about `Relay` | done |
| `Heap` | the allocator `mm.c` and the memory of `memlib.c`, as operators on a heap | done |
| `Driver`, `MCDriver` | `mdriver.c` running traces on it | done |
| `DriverProof` | what each routine of `Heap` does to a heap in order; theorems about `Driver` | done |
| `MemList` | the block list of the memory tracer, as operators | done |
| `MemTrace`, `MCMemTrace` | the interposed functions of its three variants | done |
| `MemTraceProof` | what `alloc`, `dealloc` and `find` do to a list; theorems about `MemTrace` | done |
| `ListLemmas` | lemmas the proofs share: sequences with an item put in or taken out, pieces joined into one sequence, least and greatest elements, sums over finite sets | done |
| `PTree`, `MCPTree` | the two versions of the `ptree` kernel module | done |
| `PTreeProof` | theorems about `PTree` | done |

Composition: `Shell` uses `JobTable` and implements `JobControl`; `Proxy`
implements `ReadersWriter`; `CacheList` implements `Recency`; `Driver` runs
`Heap`; `MemTrace` keeps a `MemList`. `Proxy` (who is where), `CacheList` (what
the list holds) and `Relay` (what one thread reads and writes) cut the proxy
along the lock: what one of them leaves open is a nondeterministic choice there.

Left of the plan, in this order:

- `ProxyCache`, the composition of `Proxy` and `CacheList` with every store of
  `move_to_end` a step, for readers that relink the list at once;
- the tokens of `parseline`.

## 3. The shell model

`JobTable` holds the list `jobs` and the routines on it. Searches are the sets
of slots that match (`slotsOfPid` for `getjobpid`, `slotsOfJid` for
`getjobjid`), and `Lowest` picks the slot the scan would return. A slot keeps
its `state` when only `state` is written to it, which matters for a slot that
is free.

`Shell` has one variable per part of the program: `main` (program counter and
locals of the main thread), `stack` (frames of handlers, the top one runs),
`jobs`, `nextjid`, `chldBlocked` (the signal mask), and for the kernel
`pending` (one bit per signal) and `proc` (each child).

| action | code |
|---|---|
| `Fork`, `ForkFails` | `eval` up to `fork`, SIGCHLD blocked before |
| `AddPid`, `AddState` | `addjob`: the store of the pid, then the rest |
| `Unblock`, `PrintLaunched` | end of `eval` |
| `WaitfgReturns` | the loop of `waitfg` ends |
| `BlankLine`, `Quit` | `builtin_cmd` for a line without words, and for quit |
| `BgfgJid`, `BgfgPid`, `BgfgLookup`, `BgfgCheck`, `BgfgWrite`, `BgfgCont` | `do_bgfg`: the two lookups, the test, the store of the state, the SIGCONT |
| `Keyboard`, `Deliver`, `SigQuit` | terminal and signal delivery |
| `SigchldNothing`, `SigchldWaitpid`, `SigchldUpdate` | `sigchld_handler` |
| `SigkeyFind`, `SigintKill`, `SigtstpKill` | `sigint_handler`, `sigtstp_handler` |
| `ChildSetpgid`, `ChildExecs`, `ChildExits`, `ChildKilled`, `ChildStops` | the child, before and after `execve` |

Decisions a reader should know:

- A step is the code between two accesses to something another party may
  change. `addjob` is two steps because `fgpid`, in a handler, reads a slot
  whose pid is stored and whose state is not.
- A signal is pending or not: two children that end before SIGCHLD is delivered
  are one signal. A handler is delivered when its signal is neither masked nor
  already being handled; it may interrupt main and other handlers.
- `sigint_handler` sends SIGKILL, as the code does; `sigtstp_handler` SIGTSTP.
  A SIGTSTP that arrives before `execve` finds the handler that the child
  inherited and does nothing. `kill(-pid, ...)` before `setpgid` finds no group.
- SIGCONT withdraws a stop that was not reported and notifies the shell. A stop
  takes effect when it is sent.
- `exited` and `killed` are kept apart because `sigchld_handler` has a branch for each,
  although both unlist the job. A child's group is the child alone; only the
  shell signals it, besides itself.
- A dereference of NULL is a state of its own (`segv_*`), and nothing happens
  after it.
- Left out: `cmdline`, all output, `jobs` and the `bg`/`fg` lines that only
  print a message (they change nothing), `printf` inside handlers.

`JobControl` is the abstract specification: each process is no job, in the
foreground, in the background or stopped, and seven steps change that; a job
comes to the foreground only when there is none. `Shell` implements it under
the mapping `Shown`: the state of the slot that holds the pid, or "none".

### Runs

All runs use sets of children that are symmetric where no liveness is checked.
`MaxJid` bounds the only counter, `nextjid`: a launch needs `nextjid <= MaxJid`.

| run | bounds | shows |
|---|---|---|
| `shell_safety` | 2 slots, 2 children, ctrl-c and ctrl-z | the seven safety properties |
| `shell_waitfg` | 2 slots, 2 children, fair | `waitfg` returns; the refinement of `JobControl` |
| `shell_ctrlc` | 1 slot, ctrl-c and SIGQUIT, fair | ctrl-c makes `waitfg` return: the job is killed, collected and unlisted, and main goes on |

Two children and two slots are enough for a background job beside a foreground
job, a slot used again, a list that is full (in `shell_ctrlc`, one slot), nested
handlers of all three signals, and merged SIGCHLDs. A third child adds nothing
that the second, forked again after it was reaped, does not; the proofs do not
depend on the number. The refinement is checked without keys, where children stop
and end by themselves (with keys TLC takes long over it), and proved for all. `WaitfgEnds`
is checked in the same run; what a key does to the wait is `CtrlCEndsWait`, in
`shell_ctrlc`.

Properties of `shell_safety`: `ListedOnce`, `JobsAreChildren` and
`ChildrenAreJobs` tie the list to the kernel's children (the reason for blocking
SIGCHLD around `fork`); `ForegroundOwnsShell` ties the FG mark to what main
waits for; `StopsAreListed` says that a stop that has been reported is shown, in
spite of `fg` and `bg` writing the state from main; `KeysSpareBackground` says
that the handlers of ctrl-c and ctrl-z, between their lookup and their `kill`,
never hold a job that is in the background by then.

Fairness: main and each handler get on (strong, since each interruption disables
them and the user may press keys for ever); a pending signal is delivered
(strong for SIGCHLD, which `eval` masks again and again); a new child reaches
`execve`. Nothing makes a program end, or the user type. `WaitfgEnds` and
`CtrlCEndsWait` are conditional on the three ways the code can lose a signal,
each of which has a run or a note of its own: reports that pile up (`OneReport`:
`sigchld_handler` collects one child for each SIGCHLD, although its comment at
tsh.c:345 says all zombies), a failed `fork` that leaves SIGCHLD masked (`Unmasked`), and
the leftover FG mark (`NoGhost`, run `shell_fgpid`).

One run ends in a violation of what `tsh.c` says of itself: `shell_fgpid`. A job
that ends while `fg` is between its lookup and its store leaves an FG mark in a
freed slot; `fgpid` then misses the foreground job. In such a slot a new
background job is, until `addjob` has stored its state, taken for the foreground
job and hit by ctrl-c. `KeysSpareBackground` does not see that, because it goes
by the state the list shows.

Dereferences of NULL are in the model, as states `segv_*`: `fg` and `bg` when the
job ends between the two lookups (tsh.c:314), a blank line (`argv[0]` is NULL, tsh.c:261), `fg PID` and `bg
PID` (the second lookup is by jid, which is 0, tsh.c:305), a background launch
into a full list, and one whose job ends before its message is printed (both
tsh.c:193).

### Proofs

`ShellProof` proves, for every number of slots, every set of children, every set
of keys and every `MaxJid`, assuming only `JobTableAssumption` (at least one
slot, 0 is no pid) and `ShellAssumption` (the kinds of keys; a pid is a `pid_t`,
so that there are finitely many):

- `TypeCorrect`: `Spec => []TypeOK`;
- `Inductive`: `Spec => []IndInv`, the conjunction below;
- `ListUnique`, `ListFaithful`, `ForegroundOwned`, `StopsListed`, `BackgroundSpared`: the
  properties of `shell_safety` other than the next one;
- `ChildrenListed`: `ChildrenAreJobs`, on top of `IndInv`;
- `Refinement`: `Spec => RefinesJobControl`.

None of the properties is inductive alone. `IndInv` adds four facts.
`FramesHold`: a SIGCHLD frame past its `waitpid` holds the report of a child
that, unless it is a stop, no longer exists (nothing forks below a handler, so
the pid is not used again). `LaunchShielded`: from `fork` to the end of
`addjob`, SIGCHLD is masked and not being handled, so the new child cannot have
been collected; this is what makes `JobsAreChildren` survive `AddPid`.
`SlotsNamed`: only the slot that `addjob` is filling has a pid and no jid, so
the other properties may exclude exactly that slot. `ForegroundOwnsLaunch`:
`ForegroundOwnsShell` with the command that made the job foreground, without
which `AddState` and `BgfgWrite` of a background command could not be told from
those of a foreground one. Each action has its step in the proof, and each
conjunct it can disturb a step below that.

`ChildrenAreJobs` is about a list that is large enough, and its proof counts:
`RoomForChild` is the pigeonhole by which a child that is not listed finds a free
slot when no child is listed twice (`ListedOnce`). The other lemmas say that
nothing but `fork` makes a child, in front of `addjob` (`OnlyForkCreates`), that
a child between the two stays with the main thread (`LaunchStays`), and that
only the collection of a child's end takes it off the list (`ListedStays`).

Model-checked only: liveness (`WaitfgEnds`, `CtrlCEndsWait`) and the violated
statements.

## 4. The proxy models

### Threads and lock (`Proxy`)

`at[t]` is the place of thread `t`; the places are those at which it waits for
a semaphore or a peer, or holds something. `mutex`, `w` and `readcnt` are the
variables of `cache.c`, `P` and `V` the calls of `csapp.c`. `EnterReader` to
`ReturnFromCache` are the stretches of `get_from_cache` between semaphore
operations, `ClaimCache` and `InsertObject` those of `get_from_server`.
`WrapperFails` ends the process: every wrapper of `csapp.c` calls `exit` on an
error, also when one client goes away. Whether a lookup finds its object is left
open in this module. A thread identity is used again after its thread ended.

| run | bounds | shows |
|---|---|---|
| `proxy_lock` | 4 threads, fair | `CacheExclusion`: an inserting thread is alone in the cache; the semaphores stay binary (`TypeOK`); the lock implements `ReadersWriter`; every thread ends (`ThreadsEnd`) |

Four threads allow two readers, one of them first or last, a third that arrives
or leaves meanwhile, and a writer.

Fairness: `Scheduled` gives each thread weak fairness for the steps that wait
for semaphores or for nothing, since `sem_wait` promises no order; `PeersAnswer`
is an assumption on clients and servers, without which a client that does not
read keeps its thread in the cache as a reader for ever. `ThreadsEnd` assumes
in its antecedent that connections stop coming. It is not true without: readers
that keep overlapping never give `w` back, and a writer starves.

### The list (`CacheList`)

`cache` is a record of what `cache.c` keeps: `head`, `tail`, the links, names
and sizes of the nodes, the two totals; `segv` says that NULL was dereferenced,
after which nothing happens. The routines are functions on that record and the
actions are critical sections: `Lookup`, and for an insertion `CreateItem`, the
loop `MakeRoom`, and `InsertItem`. An insertion may come at any time, since
threads that missed the same object insert it each. A name stands for what
`isSame` compares: host and path without regard to case, and not the port.

| run | bounds | shows |
|---|---|---|
| `cache_list` | 4 nodes, 3 names, sizes 1 to 3, at most 2 per object and 3 in all, fair | `Accounted`: the totals are exact, also for items dropped from the list; `WellLinked`: walks end, touch no freed node, links agree in both directions, `head` is on the list; the limit is kept (`TypeOK`); the list implements `Recency`: searched in order of last use, forgotten from the old end only; making room ends (`InsertEnds`) |
| `cache_keeps` | 5 nodes, at most 4 in all | violated: a lookup loses items or fails |

Three items at once give a first, a middle and a last one; one node more is
allocated for the new item while the list is full. Size 3 is an object that
`insert_cache` refuses. The cause of the violation is that `move_to_end` does not
move `head` when it moves the first item; for the same reason the item that
`remove_LRU` evicts need not be the oldest. That `WellLinked`, `Accounted`
and `Recency` hold in spite of it says how far the damage goes while critical
sections do not overlap: no freed node is reached, but items are lost from the
list and still counted, until an eviction or a lookup dereferences NULL.

### One connection, byte by byte (`Relay`)

`at` is the place of the one thread that is followed, `sent`/`fromClient` and
`answer`/`fromServer` what its peers send and what of it is not read yet,
`rio_buf` the unread part of the internal buffer, `line` and `piece` what
`rio_readlineb` and `rio_readn` have put together, `out` what `rio_writen` has
still to write. `Refill` and `ReadPiece` are reads of any length, `rio_writen`
is a write of any length, `TakeByte` is one turn of the loop of
`rio_readlineb`; the code between two calls belongs to the step before it. An
interrupted call is repeated and changes nothing. `EndOfFile` is what
`rio_read` makes of a client that closed: the callers do not look at the
result and take the line before (or whatever the stack holds) for the next one.
`Collected` tests the limit as the code does, with the number of readers.
`create_CI` takes the collected bytes for a string: what is cached ends at the
first NUL, or goes on into what the stack holds behind the answer. A text that
is longer than its array ends in the place `overrun`, after which nothing is
said. Bytes of a request stand for words as far as the code looks at them.

| run | bounds | shows |
|---|---|---|
| `relay` | `MAXLINE` 9, buffer of 4, objects up to 20, 3 descriptors; 8 requests, 5 answers; fair | `HeaderForwarded`: the server is sent exactly the header that follows from the request, computed by cutting the request at its newlines; `AnswerRelayed`: the client gets the answer in order and whole, the cache its text; `RequestServed`: a request and an answer there is room for end with all sockets closed, but for those of refused connections, or with the process |

The requests include a header that fills `header` to the last byte, one that is
one byte too long, bytes behind the header, a line longer than a buffer (whose
rest is taken for a line of its own), a request broken off after a line that is
kept and after one that is dropped (the loop then never ends), and nothing. The
answers: empty, shorter than a piece, one with a NUL, as long as the limit, and
one byte longer, which overruns `data`. Two readers beside the thread are fewer
than the limit leaves behind the last full piece, as in the code, where 4097
readers would be needed to skip a piece. Three descriptors let refused
connections, which are never closed, use them up.

Fairness: the thread is scheduled, the client sends its request, the server
answers and closes (`WF` of `Serve`). That a client closes its side is not
assumed.

### Proofs (`ProxyProof`)

For every set of threads, finite or not, and without assumptions: `LockInvariant`
(`Spec => []IndInv`), and from it `TypeCorrect`, `CountCorrect`, `Exclusion` and
`LockRefinement` (`Spec => RefinesReadersWriter`). The inductive invariant says
who holds what: `MutexHeld` (a thread past `P(mutex)` is the only one, and
`mutex` is 0), `WHeld` (readers share `w` from the first one's `P` to the last
one's `V`, a writer has it alone), and `FirstAndLast` (at `P(w)` the first
reader is the only one counted, at `V(w)` nobody is). The last is what carries
the test of `readcnt` over to `w`; it needs `CountsReaders`, that is, the
cardinality of the counted threads, which four lemmas on joining and leaving
provide. `ThreadsEnd` is model-checked only.

### Proofs (`CacheListProof`, on `ListLemmas`)

For every finite set of nodes, all names and sizes and every limit, assuming
`CacheListAssumption` (NULL is no node and no name; an object has a byte at
least; an object may be as large as the cache): `Invariant`, and from it
`TypeCorrect`, `TotalsExact` (`Accounted`), `AlwaysLinked` (`WellLinked`) and
`Recent` (the refinement of `Recency`).

The properties speak of walks along pointers; the invariant speaks of the
sequence that the pointers stand for. `Chained(cache, C)` says that `C` lists
distinct nodes, that `tail` is its first, that `prev` and `next` lead along it,
and that `head` is on it, though not always its last. `move_to_end` then is one
of three operations on `C`, among them the one that cuts `C` short where the
first item of the list was moved without `head`. What is cut off is still
allocated, so the totals cannot be a sum along `C`: `Totals` gives `total_size`
as the value, at the allocated nodes, of a function that sums the sizes of every
set of nodes (`Sums`), and the lemmas of `ListLemmas` say how it changes when
one node changes. `IInv` quantifies over `C` and over that function, which TLC
cannot enumerate; what follows from it are the invariants of `cache_list`.
`InsertEnds` is model-checked only.

### Proofs (`RelayProof`, on `ListLemmas`)

For every size of the buffers, all requests and all answers: `Invariant`,
`TypeCorrect` (no array holds more than its size before the thread has gone to
`overrun`), `Relays` (`AnswerRelayed`), `FitsOrOverruns` (only a header of
`MAXLINE` bytes or an answer above the limit overruns an array) and
`SocketsClosed` (between two connections the sockets open are those of refused
connections). `RelayAssumption` has the sizes above 0, `MAXLINE` above 2 (a line
has room for its end), and a number of readers with which the test of
`get_from_server` still lets in every piece there is room for. With the sizes
of `csapp.h` and `cache.h` that holds up to 4096 readers, each with a socket of
its own; with one more, the last full piece of an answer may be left out of what
is cached.

`IInv` follows the bytes. `Moved` says for each place where the bytes of the
answer are: those sent to the client, those in `piece` or `out` and those still
at the server are the answer in this order. `Gathered` says what of them `data`
has: all, until there is no room, and the pieces before are whole, which is what
the test of the limit needs. `Hits` carries the text that was cached to the
client of a later request. `Sockets` counts the descriptors that each place
stands for. TLC checked `IInv` on the instance of the run before it was proved.

`Forwards` (`HeaderForwarded`) compares the header, built line by line while
lines arrive in bits, with a definition that cuts the whole request at its
newlines at once: `Passing(sent, i)` is what the newline at byte `i` lets
through, and the expected header their concatenation. `HInv` relates the two.
`InOrder` says that `sent` is what has been parsed, then `line`, `rio_buf` and
`fromClient`, with no newline inside `line`, so that the next newline is where
the search of the definition finds it (`LineFound`). `AtLine` says that `header`
is the concatenation up to the bytes parsed (`Sofar`) and that `isHost` tells
whether one of those lines names a host; `LineParsed` takes one line from the
one side of this to the other, by `SofarStep`, and `HeaderEnds` is the empty
line. `HeaderBuilt` carries the result through the writes. The lemmas on
concatenation (`FlattenConcat`, `FlattenUpto` of `ListLemmas`) replace an
induction over the request. TLC checked `HInv` on the run before it was proved.
`RequestServed` is model-checked only.

## 5. The allocator and its driver

`Heap` writes `mm.c` as operators from the heap a routine finds to the heap it
leaves. The heap is a record: the break, the headers, the footers, the eleven
lists, one payload byte per double word, and `wrapped`. Sizes are in double
words, requests in bytes; a word inside a block reads `NoTag`, so that a routine
that follows a stale tag goes astray in the model too. `Difference` is the
subtraction of `size_t`. All six cases of `mm_realloc` are there, with the order
in which `memmove`, tags and list operations happen, and `mm_check`.

`Driver` is `mdriver.c`: `eval_mm_valid` with its ranges and its test that data
survive a realloc, then `eval_mm_util`, then `eval_mm_speed`, each on a fresh
heap. Each action is one request, with `mm.c`'s routine whole. Requests follow
the rule of the trace files: an index is allocated when free, and reallocated
or freed when allocated. `Seen` forgets bytes nobody looks at again.

| run | bounds | shows |
|---|---|---|
| `malloc` | a memory of 26 double words of which 12 are for blocks, chunks of 4, 3 indices, requests of 8, 12, 24 and 40 bytes | `Tiled`, `ListsExact`: what `mm_check` would test, and more, after every request; `FindFitIsBest`: the segregated search is a best fit; `BlocksOwned`: no block is leaked or handed out twice; `RejectsOnlyFull`: `eval_mm_valid` complains of nothing but full memory; `UtilAtMostOne`; `RefusalKeepsHeap`: a request is refused only when neither a free block nor the memory has room for it, and leaves the heap as it was; `ContiguousOnlyByMove`: free neighbours arise only where a realloc moves its block down |
| `malloc_realloc` | the same with requests of 8 and 48 bytes | violated: payloads do not overlap (the comment of `add_range`) |

Three blocks give one with both neighbours free, allocated, or one of each,
which are the cases of `coalesce` and `mm_realloc`; the sizes give the smallest
block, one with padding, splits whose rest is a block and splits whose rest is
too small, three levels of lists, and a memory that is used up.

In `mm_realloc` the test whether block and free neighbour suffice is a
difference of unsigned numbers: when they do not suffice by enough it wraps and
the test passes. The payload handed out then encloses its neighbour, and
`add_range`, which tests the two ends of a payload only, does not notice. That
is run `malloc_realloc`; the other properties are stated up to the first such
request (`wrapped`), after which the model does not follow the heap.

### Proofs (`DriverProof`, on `ListLemmas`)

For every size of the memory and of a chunk, all indices and all request sizes
of type `int`: `Invariant`, and from it `TypeCorrect`, `AlwaysTiled` (`Tiled`),
`AlwaysListed` (`ListsExact`), `BestFit` (`FindFitIsBest`), `Ownership`
(`BlocksOwned`), `OnlyFullIsRejected` (`RejectsOnlyFull`), `Utilization`
(`UtilAtMostOne`), `RefusedIsHarmless` (`RefusalKeepsHeap`) and `OnlyMovesLeavePairs` (`ContiguousOnlyByMove`). `HeapAssumption` is what `config.h` and `mm.c` fix: the memory
has room for the first chunk, so that `mm_init` succeeds, and is smaller than
2^32 bytes. `DriverAssumption` is that the trace asks for sizes between 1 and
`INT_MAX`.

Its first part has a lemma for each routine of `mm.c`. A heap is `Sound` when its blocks tile
it (`Tiling`: said of neighbours only, a header where the block before ends and a
footer equal to the header) and its lists hold the free blocks, each in the list
of its level and in ascending order (`Holds`). `Refill` is the one way the
routines rewrite tags: a span from one block edge to another is given new blocks
and the rest stays. `RefillTiles` says that this keeps the tiling, and `place`,
`coalesce`, `extend_heap`, `mm_free` and the six cases of `mm_realloc` are each
shown to be such rewritings between operations on the lists. `Becomes(h, g, gone,
new)` is what a caller hears of a routine: `g` is sound, the allocated blocks in
`gone` are no more, those in `new` are there, and all others keep size and data.
`FindFit` is that the first block not smaller, level by level, is a best fit;
it rests on the order of the lists. `mm_realloc` ends in `Outcome`: a reallocated
block with its data, or `Misled`, the wrapped difference of the run
`malloc_realloc`.

In the second part `IInv` says that the heap is sound and that the driver's
`blocks` are the allocated blocks, one each, with room for what was asked
(`Owned`); that `ranges` are their payloads; that the bytes written into them are
there; and that `total_size` counts the bytes asked for. The last is a sum over
the indices: `Asked` is the set of the bytes, and `total_size` its cardinality.
The invariants of the run that walk from block to block (`Blocks`) follow by
`BlocksAre`, which needs the walk to end and therefore the tiling.

`ContiguousOnlyByMove` does not say that free blocks never lie side by side, for
they do after a block moved down, and so it cannot rest on an invariant. Each
routine has a second conclusion instead: `StaysCoalesced(h, g)`, if no two free
blocks of `h` are neighbours then none of `g` are. In between, while a block is
free and not yet coalesced, `Alone(h, S)` names the blocks `S` that may have a
free neighbour; `CoalesceAlone` is that `coalesce` empties that set. `mm_realloc`
keeps `StaysCoalesced` unless it returns a smaller address than it was given,
which only the two cases that take in the previous block do. `ReportsPairs`
relates that to what `mm_check` reports, and the driver's own writes change no
tag (`NoNewPair`).

## 6. The memory tracer

`MemList` is `memlist.c`: items in ascending order of addresses, never removed,
each with a size and a counter. `MemTrace` has an action for each interposed
function of each variant (part 1; part 2, of which part 3 has the same file; the
bonus part, which checks before it frees), over a C library that may fail, move
a block, hand a freed address out again, or do anything once it is given what
it did not allocate (`undefined`). `fini` divides by the number of calls
(`sigfpe` for none) and `free` in part 2 follows NULL for an address without
item (`segv`), `free(NULL)` included.

| run | bounds | shows |
|---|---|---|
| `memtrace` | 3 addresses, sizes 0 and 1, `MaxCalls` 4 allocating calls, counters not below `-MaxDrops` = -1 | `ListOrdered`: on which the search of `find` relies; `CountersAreBlocks`: an item counts 1 exactly for a block of its size in use; `Balanced`: the totals differ by the bytes in use; `MisuseStopped`: in the bonus part no misuse reaches the library; `MisuseReported`: it reports exactly the frees of what is not allocated |

Four calls on three addresses reuse an address, move a block onto another's
former address and fail in between. `Balanced`, `MisuseReported` and the second
half of `CountersAreBlocks` are stated for as long as no call returned NULL
(`NoNull`): a failed call is listed under
NULL and counted, and a failed realloc counts a block as freed that is not.

### Proofs (`MemTraceProof`, on `ListLemmas`)

For all sets of addresses and sizes and every bound on calls and counters,
assuming only `TraceAssumption` (addresses are numbers above 0, and finitely
many): `TypeCorrect`, `Ordered`, `CountersFaithful`, `TotalsBalance`,
`MisuseKept` and `ReportsRight`, that is, all properties of the run.

The first half says what the routines do to a list in order: `FindIsPlace` (the
search that stops at the first address not below finds what a search of the
whole list finds), `AllocResult` and `DeallocResult` (the list stays in order,
and only the item of the address changes), and the same by address in
`AllocView` and `DeallocView`. `CountersAreBlocks` is not inductive: it says
nothing of counters at 0 and below, from which the next call may come back to 1.
`IInv` carries `Agrees` (no address counts more than 1, and a counter at 1 has a
block of its size) through every call, failed ones included, `Covers` (every
block counts, nothing is below 0) until a call returns NULL, and `NonNegative`
through all calls of the bonus part, whose checks are what keeps it. One lemma
each for a step that allocates, reallocates or frees; `NextIInv` has one step
per function and variant.

`Balanced` compares the totals with a fold over the blocks, of which nothing can
be proved by induction over the set. `BInv` says instead that there is a function
that sums the bytes in use of every set of addresses (`Sums` of `ListLemmas`) and
that its value at all addresses is `n_allocb - n_freeb`. A call changes one
address or none, and `UseChanges` gives the function of the new blocks from that
of the old. `BalanceIs` ties the function to the fold.

## 7. The kernel module `ptree`

`PTree` has both versions, `dbfs_ptree.c` (a list that a read empties) and
`.dbfs_ptree_2.c` (one string). A write walks from a pid to init and may run out
of memory at every step; `simple_read_from_buffer` is modelled as it is used.

| run | bounds | shows |
|---|---|---|
| `ptree` | 4 processes in a tree of depth 3 with lines of 1 and 2 characters, `LENGTH_MAX` 4, 2 descriptors, counts 2 and 7, total of the list at most `MaxLen` 7 | `ReadsBranch`: the first read after a write starts with the branch of the pid written, whatever was left in the list, and the string version returns it at every position, up to where its string ends; `TypeOK`: the total covers the text, so that the buffer of a read is large enough, and the string has as much of it as fits |

A string of 4 holds the shorter branches whole and cuts the one of depth 3,
whose lines have 4 characters and need a fifth byte for the NUL. The total then
counts what `snprintf` cut off (`.dbfs_ptree_2.c:60`, where the comment at 29
says "total length of the output"), and a read goes on behind the string, over
its NUL and past the array (`Stray`); `ReadsBranch` is stated up to there. In the code the
string has 1000 bytes, which is a branch of some 50 processes. Counts of 2 and 7
split a branch and ask for more than there is; a total of 7 lets two branches
lie in the list.

A read of the list version copies its text to an array of `total_len` + 1 bytes
on the kernel stack (`dbfs_ptree.c:64`). The model bounds the total and lets
every such read succeed; the code never resets `total_len`, so that after enough
writes the array is larger than the stack.

Calls come one after the other. No lock keeps two openers apart, so that a write
beside a read may walk freed nodes; there is no order to model in which the code
would be right. A pid that does not exist makes the list version follow NULL
(`oops`).

### Proofs (`PTreeProof`, on `ListLemmas`)

For every tree of processes, all lengths of their lines, every `LENGTH_MAX`, all
descriptors and counts: `Invariant`, `TypeCorrect` (`TypeOK`) and `Reads`
(`ReadsBranch`). `PTreeAssumption` says that the processes are a tree: every set
of them has one whose parent is not in it. That is what lets the walk of the
code end, and the proofs use it in place of induction: `branchOf`, which recurs
on the way up, is defined everywhere because the processes for which it is not
would be a set without such a member (`UpTheTree`). A line is shorter than the
string, as the 15 characters of a name and a pid are.

`IInv` says that while nobody has read since the last write that ended, the list
is the branch of its pid followed by anything (`ListAsWritten`), and that
`total_len` is at least the length of all of it; and that the string is the
branch of the last write cut to its array, the total that of the branch before
the cut (`StringAsWritten`). The lemmas on concatenated lines then give what
`simple_read_from_buffer` copies.

## 8. Deadlock, and what is only model-checked

Deadlock is not checked by TLC in any run, because every one of these programs
really stops: the shell exits or fails, the proxy's process ends with the first
failing call, the list is dead after a NULL dereference. That no thread waits
for ever while the process runs is `ThreadsEnd`, `WaitfgEnds` and `InsertEnds`.

`Relay` ends when the process does or an array is overrun, the driver when
`app_error` ends it, a traced program when it ends, the kernel module when it is
removed: there, too, a state without successor is the end of a program.

What the theorems leave to TLC:

- liveness (`WaitfgEnds`, `CtrlCEndsWait`, `ThreadsEnd`, `InsertEnds`,
  `RequestServed`), which is beyond the prover;
- the statements that are violated.

They hold for the instances above.

## 9. Not modelled, and why

- Output and formatting everywhere. `parseline` beyond the blank line, and the
  fields of a request that `parse_uri` cuts out of the uri: in both, what is
  left out is text.
- The test driver and programs of the shell (`sdriver.pl`, the trace files,
  `my*.c`): they use the system and keep no state of it.
- Timing (`fcyc.c`, `clock.c`, `ftimer.c`, `fsecs.c`), the reader of trace files,
  the tables and points of `mdriver.c`, and its runs of the C library's malloc:
  measurements of a clock, file input and output.
- In `csapp.c` the wrappers of calls that the proxy does not make, and
  `rio_readnb`, which nothing calls.
- In the tracer, the log (`memlog.c`) and the lookup of call sites
  (`callinfo.c`, which walks the stack with libunwind).
- The size of the kernel stack, which the array of a read in `ptree` may exceed.
- `paddr`, which reads page tables of the kernel and keeps nothing; calls of
  `ptree` at the same time.
- The heap after `mm_realloc` was misled by a wrapped size.
- Threads that relink the list of the cache at the same time (planned).
- Known of the shell and not stated as a property: with four slots or more,
  `nextjid` wraps to 1 while job 1 may still exist, so two jobs can share a jid.
