# Verification of the CSE 506 operating-systems projects

The repository holds five kernel and systems projects. This directory models the
programs among them that have state worth checking, in TLA+, checks the models
with TLC on small instances, and proves the main safety properties with TLAPS.

## 1. Inventory

| Part | Source | State | Operations | What is hard | What makes it correct |
|---|---|---|---|---|---|
| s2dsm, the MSI protocol | `Assignment 3 .../Part 3/s2dsm.c` | `msi_array`, the mapped pages, two TCP streams | `r`, `w`; the responder; the userfaultfd thread | three threads per process without a lock, two processes, raw reads without framing, peers that end | copies agree, one owner, replies match requests, commands end |
| s2dsm, pairing | the same `main` (Part 1-2 has it too) | sockets, roles, `len`, `addr` | listen, connect, accept, exchange of the mapping | order of the calls of two processes, one stream for two uses | one first process, the same mapping on both sides, it ends |
| s2dsm Part 1-2, after pairing | `.../Part 1-2/s2dsm.c` | local pages | `r`, `w`, fault handler | every first access waits for another thread; strings inside a page | pages read as last written, commands end |
| userfaultfd demonstration | `.../Part 1-2/uffd/uffd.c` | one mapping, the handler's counter | eight passes over the memory, two `madvise` | the handler's thread against the main thread | each pass prints what its comment says, it ends |
| perftop, Part 2 | `Assignment 4 .../Part 2/perftop.c` | hash table of start times, red-black tree of totals, three counters, the probe's recycled instances | kretprobe entry and return handlers, `/proc/perftop`, load and unload | handlers on several CPUs and a reader, the table has no lock, switches that are not recorded, unloading under them | totals are CPU time that was had, the largest are shown, nothing is used after it is freed |
| perftop, Part 1 | `.../Part 1/perftop.c` | counters | the same handlers without the tables | `NULL` and `RETRY_TASK` | the counters agree |
| s2fs | `Assignment 5 .../s2fs.c` | dentries and inodes with reference counts, file offsets | mount, unmount, open, read, write | allocation failures half-way | nothing leaks, nothing is put twice, reads are in order |
| kds | `Assignment 2 .../kds.c` | `int_array`, six containers | parse, insert, look up, tag, remove | loops that use a node they have freed, repeated numbers | no dangling node, no leak, lookups find |
| s2_encrypt and its runner | `Assignment 1 .../syscall.patch`, `runner.c` | one kernel buffer | one system call | error paths, a string that changes under the call | - |
| socket client and server | `Assignment 1 .../code-socket` | listen queue, one accepted connection | connect, accept, one message each way | more clients than the server serves, processes that are killed | one client is served, in exchange; nobody waits for ever |
| printk patch, hello module | `printk.patch`, `syscall/kds.c` | none | a message | - | - |

How they interact: the two s2dsm processes over two connections, each from a main
thread to the peer's responder; inside a process the three threads through
`msi_array` and the pages, and the kernel through page faults. perftop's handlers
interact on different CPUs through the table and the tree, with the reader of
`/proc/perftop` through `my_lock`, and with loading and unloading through the probe
and the file. The demonstration's main thread and its fault handler interact
through the kernel. Clients and server share a listen queue and a connection. The
other programs stand alone.

## 2. Modules

| Module | What it is |
|---|---|
| `S2dsm` | the command loop, the protocol, the responder, the fault thread, and processes that end |
| `SharedMemory` | abstract specification: one memory that processes read and write |
| `S2dsmRefinement` | the mapping under which `S2dsm` implements `SharedMemory` |
| `S2dsmProofs` | theorems about `S2dsm`, whatever the users do |
| `S2dsmSerialProofs` | theorems about `S2dsm` for users that take turns, the refinement among them |
| `Pairing`, `PairingProofs` | how two processes find each other; theorems about it |
| `Perftop`, `MCPerftop`, `PerftopProofs` | both parts of the profiler; their symmetry set for TLC; theorems about them |
| `Userfault`, `UserfaultProofs` | the demonstration, and s2dsm Part 1-2 after pairing; theorems about both |
| `S2fs`, `S2fsProofs` | mount, unmount and readers of the file system; theorems about it |
| `Kds`, `MCKds`, `KdsProofs` | the data-structure module; its parameters for TLC; theorems about it |
| `Sockets`, `SocketsProofs` | the socket server and its clients; theorems about them |

A definition that a comment calls a mutant is a plausible bug in the definition
that follows it. Putting it in the place of that definition makes TLC report the
property that it is listed with in `PROJECT.json`.

### S2dsm

A page is abstracted to the string it holds: `Absent` (unmapped, the next access
faults), `Empty` (zeros), a message, or `Torn` while the copy loop of
`updatePageContents` is in the middle. `pc` places the main thread between two
accesses to shared state: `touch` (the first read of a page, line 70), `status`
(the test of `msi_array`), `fetch` and `ack` (blocked in the `read` of
`communicateWithPeer`), `copy` and `copyRest` (the copy loop), `mark` and `send`
(`transitionStateOnWrite`), `print`. `rpc` does the same for the responder. Every
access of `msi_array`, every page access that can fault, every send and every
read is a step of its own, so the threads interleave wherever they share state.
`req[n]` and `rsp[n]` are the two directions of the connection from n's main
thread to the peer's responder. A reply of zero bytes puts nothing on the wire.

Two constants say what the users do. `Serial = TRUE`: a command starts only when
the peer is at its prompt; the assignment says that two users do not act at once. `Serial = FALSE`: no restriction. `MayExit` is the set
of processes that may be killed at any step; the survivor then sees end of file,
an error or SIGPIPE (`ReceiveEof`, `PeerLost`).

### Pairing

`connect` succeeds exactly when the peer listens, with no help of the peer
(backlog). The wire from the first process carries the pairing message and later
its requests; the one `read` of the second process takes everything that is
there, and bytes behind the address garble it (`ParsedAddr`). The first commands
are included because they share that wire; they may be typed at any time. A request
is followed up to the `read` of the peer's responder, a thread of its own
(`ResponderReads`); what the responder then does is in `S2dsm`.

### Perftop

`part` chooses the program. `plan` is what is left of the calls of `perftop_init` and
`perftop_exit`; the module is loaded for as long as one likes between them, and a
failed registration ends the plan with `/proc/perftop` still there.

Each CPU runs, calls the entry handler, and, if it asked for it, the return
handler, whose steps are the `rdtsc`, the lookup of prev's start time, its removal,
the accounting in the tree (one step, because `my_lock` is held) and the insertion of
next's start time. The table has no lock: the handlers of the other CPUs interleave
with each of these steps. Where two of them are inside the table for one pid and one
changes it, the machine may stop (`OopsAtTable`), or the calls take effect in one of
the two orders. `sum + curr - old` is computed modulo `Word`, as the unsigned 64 bits of
the code are.
A reader holds `my_lock` from its first to its last entry. `free` is the list of
free kretprobe instances: the entry handler of Part 2 does not write `data->prev`
when its argument is NULL, so that the task of the instance's last user is found
there. The scheduler is external: it picks any task that no CPU runs or switches
to, and, as `Paths` allows, returns NULL before going idle, calls the function with
NULL (`null`, its slow path), or returns `RETRY_TASK`, where the handler follows an
invalid pointer and the model stops (`oops`). `used`, `credited`, `unrecorded` (the
tasks that were switched out by a call that the return handler did not take for a
switch from them) and `raced` (those whose start time one handler changed while
another was between its `rdtsc` and its use of it) are not in the code and no guard
reads them.

### Userfault

Memory is a row of cells, `PageCells` to a page: 1024 bytes each for the
demonstration, which looks at nothing smaller, one byte each for s2dsm. An access to
a missing page is a step that sets `fault`; only the handler's copy clears it. `seen`
is what the passes have printed.

### Sockets

`connect` succeeds as soon as the queue has room (`Backlog` + 1, as Linux counts it),
accepted or not. When the server ends, the accepted connection is closed and the
queued ones are reset; `link` keeps what a client then gets from `send` and `read`.

### S2fs

A mount is six allocations, each of which may fail (`MayFail`). `dcount` and
`icount` are kept the way the dcache keeps them: a dentry holds a reference to
its parent and, after `d_add`, to its inode. `kill_litter_super` is external.
When `d_make_root` fails it has already dropped the inode, and `out_iput` drops it
again: that is the state `oops`. A read that fails in `copy_to_user`, and every
write, changes nothing.

### Kds

The loops of the six `run_` functions in the order of `lkp_init` (`Plan`), one
step per iteration, with an operator for what each container does with a node. A node is named by the position of its number, and `heap`
holds the allocated nodes. `remove_hash_table` and `remove_rb_tree` go on from a
node they have freed: `hash_del` clears the link and `rb_erase` leaves it, and the
allocator of the kernel the projects are built for (5.8, see the table in
`syscall.patch`) stores its own pointer in the middle of a free object and not
over these links, so the model continues with the link as it was.

The code stores outside of two arrays. `Count` is what `lkp_init` makes room for, and
the parser stores a number behind it when the parameter ends with a space; the gang
lookup by tag stores up to `Limit` (100) results in `Slots` (10) places. `overran` records
both. After such a store the kernel may die at any step (`Oops`) or go on unharmed.

## 3. Runs

| Run | Instance | Checks | Shows |
|---|---|---|---|
| `dsm_serial` | 2 pages, 2 messages, users take turns | `TypeOK` `Coherent` `NullShownOnlyIfBothInvalid` `OpCompletes` `ImplementsSharedMemory` | the protocol is a shared memory |
| `dsm_concurrent` | 1 page, 1 message, users act at once, one may be killed | `Lockstep` `ReplyMatchesRequest` `SingleOwner` `WaitsEnd` | what survives when they do not take turns: messages stay in step, and a reply comes, or the end of the peer, unless the peer's page was emptied |
| `dsm_null_text` | a user may type `NULL` | `NullShownOnlyIfBothInvalid` | violated: the text is taken for "page is invalid" |
| `pairing` | any order of the calls, commands typed at any time | `TypeOK` `Agreement` `AtMostOneFirst` `FirstPairs` `RequestArrives` | pairing works once somebody is first; the one request that can be lost is the one that the read of the pairing message swallows |
| `pairing_race` | the same | `PairedOrGone` | violated: both listen, both connects succeed, both wait |
| `perftop` | both parts, 2 CPUs, 2 tasks, 1 kernel thread, every path, loaded and unloaded, a reader | `TypeOK` `OvercountsExplained` `StartOnlyInTurn` `CountersAgree` `ShowsMostScheduled` `UnusedWhenFreed` | what is credited too much is due to switches the handler does not see or to handlers that race for one start time in the table without a lock (section 5); the listing and unloading are sound |
| `perftop_idle` | 1 CPU, 2 tasks, with idle | `TotalAtMostUsed` | violated: sleeping time is added to the total |
| `perftop_tie` | 1 CPU, 2 tasks | `TotalIsSum` | violated: a task whose total equals another's disappears |
| `userfault` | up to 3 pages of 3 cells, 2 letters, messages of 1 or 2 characters | `TypeOK` `PassesAsCommented` `FaultsOncePerPage` `ReadsLastWrite` `Completes` | the handler's thread serves every access once |
| `s2fs` | 2 readers, buffers 0 to 4, text of 3, any failure | `TypeOK` `NothingLeft` `MountedTreeWhole` `ReadsPrefix` | reference counts balance on every path that returns (a failing `d_make_root` ends in an oops), and a mounted tree is whole |
| `kds` | every parameter of up to 3 words over 0 to 3, empty words included, and 4 longer ones; room for 2 results, a limit of 3 | `TypeOK` `NoDangling` `LookupsFind` `TaggedAreOdd` `ResultsOverrun` `LeaksOnlyDuplicates` `Loads` | the containers, with repeated numbers; when the results are overrun |
| `sockets` | 4 clients, a queue of 2, the server and 2 clients may be killed | `TypeOK` `ServedInExchange` `AcceptedIsServed` `EveryoneEnds` | one exchange, and everybody ends |

Bounds. Two pages show whether an operation on one page, or on all (-1), disturbs
another; pages do not interact otherwise, since every request names one. With
users that act at once one page is where they meet. Two messages tell an old text
from a new one; the code never looks at the text except for `NULL`. `Answers` for
the number of pages includes 0, where `mmap` fails; page size 2 tells bytes from
pages. Two tasks and a kernel thread on two CPUs let one wait and move between
CPUs; `Limit` stands for 10 (the loop condition compares with `Limit - 2`, as the
code compares with 8), and with `Limit` 1 and two tasks one is left out. `MaxTime`
and `MaxCalls` bound the time stamp counter and the entry handler: 4 calls are what
it takes for a recycled instance to charge a task that has run meanwhile on the
other CPU, and for two CPUs to race for its start time. `Word` is 16: times stay
below it, and a difference that is negative wraps to more than any task had. Two
letters for the demonstration's 20 make them repeat, and 3 pages make the second round start with another letter than the first; 3 cells hold an empty, a
short and a longest message. Four clients are one accepted, two queued and one that
finds the queue full. A text of 3 bytes has a shorter, equal and longer buffer. Three words give
every arrangement of equal, smaller and larger numbers that an insertion tells
apart; the longer parameters have as many odd numbers as there are results, one more
and two more, with and without repetitions.

Deadlock is checked in `dsm_serial`: the users can always start a command. It is
not checked where the system may stop: users that act at once can leave a reader
without a reply (a valid page that holds the empty string is answered with zero
bytes), killed processes and failed pairings are gone, the bounds of Perftop end
a run, an oops ends `s2fs`, and loading `kds`, the demonstration and the socket
programs end.

Fairness. `S2dsm` and `Pairing` assume weak fairness of each thread: a thread that
can run is scheduled. Users need not type commands, and nobody need exit; in
`Pairing` the question for the number of pages is answered. TCP delivers what is
sent, so a message that is on the wire stays readable and weak fairness is enough.
`Kds` assumes that loading runs on, `Userfault` that both threads do, and `Sockets`
that every process does and that the key each waits for is pressed in the end;
nobody need kill a process. `Perftop` and `S2fs` are checked for safety only.

`WaitsEnd` and not `OpCompletes` is checked for users that act at once, because weak
fairness does not give the latter: a peer that keeps writing can drop the page again
each time between the fault handler's copy and the retried store, and the copy loop
does not advance.

## 4. Proofs

Every safety invariant that a passing run checks is also a theorem, for every
value of the constants that the modules' assumptions allow, and so is the
refinement.

Assumptions on constants, named in the module that declares them:

* S2dsm and Pairing: two different processes; 1 to 99 pages, because
  `fillWithInvalid` also writes slot `num_pages` of 100 (`NumPagesAssumption`);
  messages that differ from the other contents a page or a reply can have.
* Perftop: finitely many tasks, and at most 20 CPUs (`CpuAssumption`): the probe's
  `maxactive` is 20, and on more CPUs an entry could find no free instance, which
  the model does not contain. The time stamp counter itself does not wrap
  (`WordAssumption`).
* Userfault: pages of at least two cells (a message and its `'\0'`), at most 26
  letters. Sockets: any backlog. S2fs: any readers, buffer sizes and failing
  allocations. Kds: any parameter of digits and spaces (`InputAssumption`), and
  fewer places than the gang lookup asks for (`SlotsAssumption`: 10 and 100).

Some theorems have a hypothesis about the users or the scheduler, because they are
false without it and a run or section 5 shows why:

* `TakeTurns` (the three of S2dsmSerialProofs): users take turns, as the assignment says, nobody
  is killed, and nobody types `NULL`. The run `dsm_null_text` is the counterexample
  for the last part, `dsm_concurrent` satisfies only weaker properties.
* `Plain` (`PlainPathsNeverOvercount`): the scheduler neither goes idle nor calls the
  function with NULL. The run `perftop_idle` is the counterexample.

The constants of the run `dsm_serial` satisfy the first, so the theorems are about the
system that this run explores.

### S2dsm, whatever the users do

* `TypeCorrect`: `TypeOK` is inductive only together with `ReplyFormatted`: a
  responder about to send holds a text and no longer the page's address, otherwise
  an address could reach the wire.
* `LockstepHolds`, `ReplyMatchesRequestHolds`: from `ConnInv`. Its part `WireInv`
  says where the one message of a connection is: while the main thread waits, at
  most one of request, responder and reply has it, and otherwise none. `MatchInv`
  says that what is there belongs to the command: an invalidation to a write, a
  read request to a read, and that only an acknowledgement can be `Success`.
  `Lockstep` alone is not inductive, because it does not say that a thread that is
  not waiting has nothing in flight. Both hold when users act at once and when
  processes end.
* `SingleOwnerHolds`: page by page (`Owner(p)`), from `ConnInv`: a main thread that
  waits for its acknowledgement has its invalidation in the request, in the
  responder, or done, and the peer's copy was `m` after that only by a write whose
  own invalidation is then on its way.

### S2dsm, users that take turns

* `CoherentHolds`, `NullShownHolds`: from `SerialInv`. `Coherent` speaks of the
  moments between commands only; the invariant has to say what every step of a
  command leaves. For each process: one command at a time (`Turn`), what the copy of
  the page at hand is at each place (`BusyCopy`), that the request, the responder and
  the reply of a fetch are about that page and the reply is what the peer holds
  (`Fetching`), that the peer still holds it while it is stored (`Storing`), that an
  invalidation once done has made the peer's copy invalid (`Invalidating`), and that
  a write over all pages has modified those behind it (`Modified`). For each page:
  valid copies agree unless a write is going on (`Agree`), and a copy that nobody
  works on holds a message, or is unmapped (`Copy`).
* `SharedMemoryImplemented`: under the mapping of `S2dsmRefinement`, a write takes
  effect with the first store of its copy loop, a read when it goes on to print; all
  other steps, except the end of a print, stutter. Those steps are the content of the proof:
  dropping a page, fetching and invalidating must leave the abstract memory alone,
  which is what `Agree` and `Storing` say. What a read prints is the abstract value by
  `Printing`.

### Pairing

* `AtMostOneFirstHolds`: from `PairInv`: a process that misses its peer's port does
  so before the peer listens, and the peer connects only after that to a port that
  is open, and stays open until the peer is past its first connect.
* `TypeCorrect`, `AgreementHolds`: from `AgreeInv`: only a first process asks for the
  pages (`Roles`); while it is at the prompt alone, its pairing message is unread and
  in front of everything else it sent (`Announced`). A request that the same read
  takes is gone from the wire while its sender waits, which is the exception that
  `Agreement` makes (`Swallowed`). The division by the page size
  that the second process does gives back the number of pages (`PagesOfLen`).

### Perftop

* `PInv` gives `TypeCorrect`, `UnusedWhenFreedHolds` and, with the counters,
  `CountersAgreeHolds`. It follows the module through loading and unloading (`LoadInv`:
  what is registered and who can be inside, by the calls that are left), relates the
  free instances to the CPUs that are outside a probed call (`FreeInv`), and says which
  locals of a handler mean something at each place (`HandlerInv`).
* `ShowsMostScheduledHolds`: the tree has one entry for a total and for a pid
  (`TreeInv`), and what a reader has printed goes down to its last entry with nothing
  left out above it (`ShowInv`). The tree does not change under the reader because
  accounting needs the lock that it holds.
* `OvercountsExplainedHolds`, `StartOnlyInTurnHolds`: from `TimeInv`. Sums of elapsed
  times do not tell which time they stand for, so the invariant cuts time into units:
  there are, for each task, the set of units it had and the set of units its total
  stands for (`TimeParts`), the first of the size of `used` (`UsedInv`), the second at
  least as large as the total and a part of the first (`TotalInv`), for every task that
  was neither switched out unseen nor raced for (`Seen`). A task is on one CPU
  (`Exclusive`); `TurnInv` and `LeaveInv` follow its turn from the start time to the
  handler that ends it; the units from a start time on are the task's (`SpanInv`);
  everything that was charged, or is about to be, lies before the start time
  (`StartInv`); no unit is charged twice, also not by two handlers that are both about
  to charge the task (`ChargeInv`); and what a handler has looked up is still the start
  time when it removes it (`LookInv`). The last one is where the missing lock matters: it
  holds for `Seen` because a handler that changes a start time another one is at puts
  the task in `raced`.
* `PlainPathsNeverOvercount`: without those paths no task is ever unrecorded and every
  handler's prev is the task that its CPU runs, so that none is raced for either; hence
  no total exceeds the time had.

### Userfault

* `TypeCorrect`: with `Waiting`: while a fault is pending the main thread stays at the
  access that caused it, and the page stays absent.
* `PassesAsCommentedHolds`, `FaultsOncePerPageHolds`: from `DemoInv`: the pages that a
  pass has touched (`Touched`), what memory holds behind and in front of it
  (`Contents`), and one printed character per cell visited (`Progress`).
* `ReadsLastWriteHolds`: from `TextInv`: every page holds its last message followed by
  a zero (`Holds`), so that the first zero ends it whatever is behind.

### S2fs

* `TypeCorrect` and `ReadsPrefixHolds`: a file was not read yet, or its offset is at or
  past the end of the text (`ReadInv`), so that only the first read returns
  anything.
* `NothingLeftHolds`, `MountedTreeWholeHolds`: from `RefInv`, which gives every reference
  count in terms of the phase, the tree and the open files. `NothingLeft` alone says
  nothing about a mounted file system.

### Kds

All from `KdsInv`, for parameters of any length. `Kept`: what is allocated is linked
in the current container, or was leaked for a repeated number. `LoopInv`: what each
kind of loop has done so far and what it found. The hash table keeps equal numbers
and each removal takes one of them; `EnoughRemovals` counts that as many removals of a
number are to come as nodes of it are left. The other containers have at most
one node per number. `ResultsOverrunHolds`: from `RoomInv`: the radix tree holds a number
once, so that its tagged nodes are as many as there are different odd numbers.

### Sockets

`TypeCorrect` needs that a connection is there once the server waits for its key.
`ServedInExchangeHolds`, `AcceptedIsServedHolds`: from `ExchangeInv`: while the server
lives nothing has been answered and no client has read anything
(`NothingReadYet`), and what it has read is its client's message unless the client
was killed (`ReadFromClient`).

### Model-checked only

Liveness (`OpCompletes`, `WaitsEnd`, `FirstPairs`, `RequestArrives`, `Loads`, `Completes`,
`EveryoneEnds`), which needs ENABLED and is out of the prover's reach. The properties
of the runs that expect a violation have no theorem, except under the hypotheses
above that exclude the counterexample.

## 5. What the models leave out, and deviations no run states

* s2dsm: the `v` command and other printing; page numbers outside the mapping,
  messages longer than a page, and 100 or more pages, which the code does not
  check; socket calls that fail for other reasons than a missing listener.
  `communicateWithPeer` returns the address of a local array (line 61); the model
  takes the text as it was.
* s2dsm, users at once: a reader may keep an old text as valid, when the peer
  writes after it has sent the page and before the reader stores `s`; and the
  `madvise` of the responder may hit the middle of the copy loop. The model
  contains both. The project text excludes such users.
* Pairing: a command typed in the first process before the second one has read the
  pairing message is swallowed by that read and garbles the address. This is in the
  model, and `Agreement` and `RequestArrives` name it as the one exception.
* Perftop, the table without a lock: two handlers can credit the same time twice.
  CPU c switches from t2 to t1, which sets t1's start time; a call on c that picks t1
  again leaves t1 in its instance; CPU d, which runs t2, calls with NULL, takes that
  instance and so has t1 as prev; c switches from t1 to a kernel thread; c and d both
  look the start time up before either removes it. Each switch from t1 was seen, and a
  lock around lookup and removal would prevent it. Likewise another CPU may insert a
  later start time between d's `rdtsc` and its lookup: `sum + curr - old` is then
  negative and wraps. Both are in the model (`raced`), and TLC finds them when
  `OvercountsExplained` does not except `raced`. Races inside a bucket between different
  pids, and the walk over nodes that another CPU frees, are below the model, so nothing
  here shows that the table is sound without a lock.
* Perftop: the module is loaded once, and what opening `/proc/perftop` does after a
  failed load, when its code is gone, is left open; `remove_hash_table_all` visits one
  bucket and leaks the others (in the model); failing `kmalloc`. Reading `/proc/perftop` of Part 1 changes nothing and is
  left out.
* Userfault: errors that exit, lengths from 2 GiB on (`int l` against `unsigned long
  len`), messages of a page or more (the announced truncation does not happen) and
  page numbers outside the mapping.
* Sockets: partial reads, and calls that fail for other reasons than the peer.
* s2fs: the offset moves by the length of the text, so a reader with a shorter
  buffer never gets the rest; a mount succeeds without foo or bar when their
  allocation fails. Both are in the model.
* kds: a parameter that is empty or ends with a space makes the parser store behind
  `int_array` (line 422); more than 10 different odd numbers overrun `results` (line
  281). Both are in the model, up to what the store destroys: it ends the kernel or
  does no harm. The bitmap holds binary digits, as the code does
  it, where the project text asks for one bit per number. Failing `kmalloc` is not
  modelled.
* Not modelled: `s2_encrypt`, one sequential system call that keeps nothing between
  calls (its error returns after `kmalloc` leak the buffer), its runner, the hello
  module and the printk patch, which only print.

## 6. Plan

Modelled: `S2dsm` with `SharedMemory` and the refinement, `Pairing`, `Perftop` with
loading and unloading, `S2fs`, `Kds`, `Userfault`, `Sockets`. What is left of the
system (`s2_encrypt`, messages) has no state that outlives a call.

Proved: the safety invariants of all passing runs and the refinement.

Still worth stating and proving: what a killed process leaves of `Coherent` for the
survivor, and the part of `Coherent` that holds for users that act at once;
that the tree never changes while a reader prints, as an action property.
