# Verification of COS24

The repository holds three independent C programs: a multithreaded web server
(`multiThreadedWebServer/`), a `malloc` on a heap shared by processes
(`sharedMalloc/`) and a shell (`myShell/`). This directory holds TLA+ modules
that model them, TLC configurations that check the modules on small instances,
and TLAPS proofs for instances of any size.

## 1. Inventory

| Component | Source | State | Operations |
|---|---|---|---|
| request queue | `server.c`, `request.h` | `queue[nbuffer]`, `head`, `tail`, `count` | fill and publish slot `tail`; search a target (FIFO, SFF, RFF); remove it, shifting if it is not at `head` |
| thread pool | `server.c` | semaphores `empty`, `fill`, `mutex`; one main thread, `nthreads` workers | `main` (accept, `queue_put`), `thread_handle` |
| request handling | `request.c` | nothing shared; the files, the CGI children | `requestReadhdrs`, `requestParseURI`, `requestHandle`, `requestServeStatic`, `requestServeDynamic`, `requestError` |
| I/O wrappers | `blg312e.c` | `rio_t` buffers | `rio_read`, `rio_readlineb`, `rio_readnb`, `rio_writen`; every capitalised wrapper calls `exit(0)` on an error |
| client, CGI program | `client.c`, `output.c` | one connection per thread; the descriptors it inherited | send a request and read until the connection ends; spin, print and end |
| free list | `freeList.c/.h` | `head`, `nextFreeBlock`, a `Node` in front of each block | four searches, `split`, `findPrevNode`, `coalesceFreeList` |
| heap allocator | `heapAllocator.c/.h` | the mapping, the shared `FreeList` and the mutex inside it | `InitMyMalloc`, `MyMalloc`, `MyFree`, `unInitMyMalloc`, `DumpFreeList` |
| allocator test | `main.c` | 4 children that share the heap | `forkTest`, `invalidPointerTest` and others |
| shell | `hw1.c`, `queue.c/.h` | `output_buffer`, block flags, `child_pids`, history | `executeLine`, `executeCommand`, `waitForAllChildProcesses`, batch and shell mode |

How they interact. In the server, main and the workers share the queue; the
semaphores order them. A connection's descriptor passes from `accept` in main
through a slot to one worker, which closes it. `queue_put` reads the request
from the socket *while it holds the mutex*. A worker forks CGI programs, which
inherit all open descriptors, and reaps *any* child. All threads share the fate
of the process: any wrapper's error ends it. In the allocator, callers share
the list through one mutex that lies in the heap. The shell and its children
meet in one pipe per line and in `waitpid`.

Hard behaviours, per part: the interleaving of main and workers around the
semaphores; the wrap-around of the ring together with removals out of order;
slots that keep the fields of earlier requests; clients that stop in the middle
of a request or leave before the answer; files that change between `stat` and
`open`; CGI children reaped by another worker; the sequence of frees that
disturbs the order of the free list; `nextFreeBlock` through splits and merges;
headers left behind, at any offset, that `MyFree` still looks at;
a mutex used across processes; children of a block that write to one pipe while
the shell goes on; block flags and a buffer that outlive a block and a line; a
pipe that holds less than is written, or nothing; a stream that is cut into
reads and lines at different places; CGI programs that keep other clients'
connections open. `PROJECT.json` lists each as a hazard at its
line with the properties that cover it.

What makes each part correct: see section 4.

## 2. Modules

```
RequestQueue <- ThreadPool <-------------- WebServer <--------- ClientProgram
                 |      ^                      ^                      ^
     implements  v      |                      |                      |
        ServicePool  ThreadPoolProofs <- WebServerProofs <- ClientProgramProofs

FreeList <- HeapAllocator <----------------- SharedHeap
   ^             |      ^      implements        ^
   |  implements v      |                        |
   |    AbstractHeap    |                        |
FreeListProofs <- HeapAllocatorProofs <- SharedHeapProofs
                          (an instance of it)

CommandLine <- Shell <- ShellProofs          Rio <- RioProofs
      ^          |                            |
      |          v  implements                v  implements
      +------ Pipeline                   LineStream
```

**RequestQueue** is the array and its indices. `IsTarget` is the search loop of
`thread_handle` under each policy (first of the best, from `-1` and
`LONG_MAX`), `RemoveSlot` the vacating of a slot with `ShiftQueueLeft`,
`FillTail` and `PublishTail` what `queue_put` does to the slot. A request's
fields other than `connfd` are one value with the two sort keys, so the ring
does not depend on what else a request holds.

**ThreadPool** adds the threads. A program counter names the call a thread makes
next; there is one action for each semaphore operation and for each access to
shared state. Inside the mutex, `Take` is one step, because no other thread can
see its parts (`MutualExclusion` says so). `ProcessExit` is the `exit(0)` of a
wrapper. `ReadLine` takes any value for the request; `Handle` says nothing of
what `requestHandle` does. `PC` labels correspond to `server.c` as follows:
`accept` 222, `wait_empty` 169, `wait_mutex` 170 and 96, `read_line` 172-181,
`read_headers` 183, `publish` 185-189, `post_mutex` 191 and 153, `post_fill` 192,
`wait_fill` 95, `take` 98-150, `post_empty` 154, `handle` 156, `close` 157.

**ServicePool** is the promise: a bounded sequence of waiting requests, from
which a free worker takes one that the policy allows. `ThreadPool` implements
it under the mapping `pending <- Pending` (the slots from `head` on) and
`serving <- job`.

**WebServer** extends ThreadPool: each of its actions is an action of ThreadPool
with more said about it, or leaves ThreadPool's variables alone. It adds what a
client sends and whether it stays, the file system and its changes, the stages
of `requestHandle` (`start`, `open`, `send`, `run`, `wait`), the answer each
connection got, and the CGI children as two counts (`running`, `exited`).
`Parsed` is `sscanf`, `requestParseURI` and `stat` on the slot as it is,
including what they leave from the slot's last request.

**FreeList** has the functions of `freeList.c` as operators on a heap value:
`head`, `nextFree`, and per offset the `size` and `next` of the node there and
its `mark`, which is what `MyFree` makes of the `magicNumber` and `isFreed` found
there. Nodes lie at any offset, and nothing aligns them, so a new header may lie
over part of an old one: `Overwritten` says what becomes of every mark in the
mapping when bytes are written, `Stamped` when a magic number is. `Split` writes
the size and next of a remainder and no mark of its own; where they cover the
`isFreed` of an old header but not its magic number, the pointer there is
acceptable again, as in the code. List traversal is the recursive function
`Walk`. Sizes and links of headers that are neither used nor listed are dropped
(`Forget`), because nothing reads them before they are written again; during one
`MyFree` they are kept, because `MyFree` does read them. Marks are never dropped.

**HeapAllocator** has one action per call of `heapAllocator.c`, atomic under the
mutex. `InitMyMalloc` carves the shared `FreeList` and the mutex out of the heap
with `firstFit`, as the code does. `Accepts` is what `MyFree` checks of a
pointer, and `Insert` is `MyFree` after its checks; it says whether the call
follows a NULL pointer, which sets `up` to FALSE. `Write` is a caller that writes
a byte of a block it was given.

**AbstractHeap** is its promise: a set of free blocks and a set of live ones.
An allocation takes a block that is large enough, whole or cut (that it is the
one its strategy asks for is `SearchComplete`, which speaks of `HeapAllocator`);
a release may merge the block with its neighbours, *and may end the program*:
that much weaker is what the code promises than its comments.

**SharedHeap** opens the mutex up: lock, read the heap, write the heap, unlock,
with what glibc does for a mutex that is not process-shared (a plain store in a
process of one thread; sleeping and waking within one process only). A call of
`MyFree` that is refused (`Refuse`) goes on to unlock. What callers write in
their blocks is left to HeapAllocator.

**ClientProgram** composes WebServer with the threads of `client.c` and with CGI
programs as processes that hold connections. `Spawn` is `RunCgi` with the copy
of every open descriptor that `fork` makes; `Hangup` is a thread that reads end
of file, which it does once neither the server nor any program has its
connection open.

**CommandLine** is what a user types, as a sequence of commands that end with
`;`, `|` or the end of the line, and the block flags of `executeLine` as
operators on it.

**Shell** is `hw1.c`: the shell's own calls (`pc`: `prompt` 352-379 and 430-454,
`command` 295-332, `wait` 79-91, `read` 172-179, `quit` 214-218), its table of
children, the pipe of the line as a sequence of bytes, `output_buffer`, and the
children that run meanwhile: `filling` (line 249, `copyBufferToProcessInput`),
`running`, `ended`. A byte is `a`, `b` or `nul`, because the buffer is handed on
with `strlen`, up to the first zero byte (`Text`).

**Pipeline** is the shell's promise: blocks run one after the other, each
command of a block but the first is given the very bytes that the block before
has written, zero bytes included, and the shell leaves nothing running unless it
fails. It has neither pipes nor children nor `strlen`, and `ImplementsPipeline`
maps the table to jobs, the pipe to what the block has written so far, and the
buffer to the input. The shell keeps this promise for commands that write text
(`TextOnly`) and for no others (section 6).

**Rio** is one direction of a connection with `rio_writen` at one end and the
buffered reader at the other. A `write` or a `read` moves any number of bytes
that there is room for; `rio_readlineb` and `rio_readnb` share the buffer.

**LineStream** is its promise: a sequence of bytes of which each call returns
the next line, the next `n`, or at its end nothing.

`MCThreadPool`, `MCWebServer`, `MCSharedHeap`, `MCClientProgram`, `MCShell` and
`MCRio` give the constants values.

## 3. Assumptions and abstractions

- A semaphore or mutex operation is atomic and sequentially consistent.
- `sem_wait` is not interrupted by a signal; `pthread_create` succeeds, as the
  code assumes by not checking.
- A client's whole behaviour is fixed when it connects: request line (whole,
  without words, or end of file), headers (complete, ending at once, or cut),
  and whether it stays. A slow client is one whose step is taken late.
- At end of file `requestReadhdrs` compares an uninitialised buffer the first
  time. What it holds is what the stack held, so the model lets the call return
  or loop.
- When the RFF search finds nothing the worker uses `queue[-1]`; the process is
  taken to end there, which is what the build does.
- The transient descriptor of `requestServeStatic` and failures of `fork` are
  not counted against the descriptor limit.
- Request values and file contents are small records; texts of headers and
  pages are left out.
- Heap sizes and offsets are in units that a field of a `Node` fits into. The
  fields that a stale header is judged by lie at `MagicAt` and `FreedAt`: in the
  runs a header has three units, for size and next, the magic number and
  `isFreed`; in the module, any layout with these at the end.
- What a write leaves of a field is taken at its worst: a magic number that is
  hit is gone, an `isFreed` that is hit is no longer 1.
- Callers write what they like in their own blocks, but not a magic number at a
  place where a pointer would find it. They pass `MyFree` what they hold, or a
  pointer that it refuses; one that it would wrongly accept (section 6), the
  allocator's own two blocks, or an address outside the mapping they never pass.
- A mutex without `PTHREAD_PROCESS_SHARED` that is used by several processes is
  undefined in POSIX; the model has the outcomes that glibc produces.

- Client threads ask for different uris, so that a connection is named by its
  uri; a call that the server has not accepted yet waits, as in the backlog.
- A CGI program runs for a while and ends; what it prints goes to the socket
  directly. It is not told apart which worker's child it is, except by what it
  holds open, since `wait(NULL)` does not tell either.
- In the shell, a program writes a finite output and ends, whether or not it
  reads; `copy` stands for one that writes what it reads, and in the first block
  for one that finds its input empty. The children keep the read end of the
  line's pipe open, so that no write fails.
- `PipeSize` is at most the size of `output_buffer`: then one `read` empties the
  pipe, as on Linux, where it holds 64 KiB of the buffer's 1 MiB. The listing by
  `history` is one write, smaller than a buffer of stdio: lost in a pipe, because
  `_exit` does not flush, and written line by line on a terminal.
- A caller of the buffered reader makes no further call after it got 0. A system
  call that is interrupted is made again and changes nothing.

**Fairness.** `ThreadPool` and `WebServer` assume weak fairness of each thread's
enabled steps: the kernel schedules every runnable thread, and a semaphore
posted often enough is not refused for ever to a thread that waits (in the
model a step is weakly fair while it stays enabled). Reading from a client is
fair under the assumption that a client that connects sends its request or
closes; accepting is not fair, since nobody has to connect. `CgiExits` is fair:
a CGI program ends. `SharedHeap` assumes weak fairness of the threads only. `ClientProgram` has the
server's fairness, that of each client thread, and that a program ends; there
accepting is fair too, since its clients do call. `Shell` assumes that the shell
runs on while it is in a line (nobody has to type one) and each child while it
can; `Rio` that the peer sends or closes and the reader reads.

## 4. Runs

| Run | Instance | What it shows |
|---|---|---|
| `pool_sff` | SFF, 3 slots, 2 workers, 4 descriptors, files of size 0, 1 and `LONG_MAX`, symmetry | `TypeOK`, `MutualExclusion`, `SemaphoresAccount`, `Contiguous`, `NoOverwrite`, `TargetFound`, `OwnedOnce`, `ImplementsServicePool` |
| `pool_fifo` | FIFO, 2 slots, 2 workers, 6 descriptors, fair | `DescriptorBound`, `EveryRequestServed`, `AcceptedIsQueued` |
| `server_hostile` | RFF, 1 slot, 2 workers, 3 descriptors; clients of five kinds; the page is removed, shortened, dated before 1970, put back, the program loses its permission; symmetry | `ServerTypeOK`, `AnswersOwnRequest`, `ChildrenMatchWaits`, `ClosedAnswered` |
| `clients` | FIFO, 1 slot, 2 workers, 4 descriptors; three client threads, one for a page, two for programs; fair | `StaysUp`, `AnswerWhole`, `EveryThreadJoins` |
| `server_borrowed` | a client sends an empty line | **violation** of `NothingBorrowed` |
| `server_hangup` | 2 slots; a client hangs up within its headers; fair | **violation** of `EveryClientAnswered` |
| `heap` | 24 units, 16 of them for callers, headers of 3; sizes 0, 1, 4; all strategies | `TypeOK`, `Tiled`, `ListSound`, `InUseAccepted`, `DoubleFreeRefused`, `OrderedUpToLast`, `SearchComplete`, `ImplementsAbstractHeap` |
| `heap_null` | the same | **violation** of `FreeReturns` |
| `heap_threads` | 3 threads of one process, 1 call each, `MyFree(NULL)` among them; 18 units, blocks of 2; fair | `Exclusion`, `NothingStale`, `ImplementsHeapAllocator`, `EveryCallReturns` |
| `shell` | 3 lines of text out of eight, a pipe of 4 bytes, a table of 5; fair | `TypeOK`, `InputFits`, `NoneLeftBehind`, `PipeDrained`, `ImplementsPipeline`, `LineFinishesOrBlocks` |
| `shell_silent` | the line `true \| cat`; fair | **violation** of `LineFinishes` |
| `rio` | every stream of up to 5 bytes; lines of 3, reads of 2, a socket and a buffer of 2 bytes; fair | `TypeOK`, `ImplementsLineStream`, `ReaderIsDone` |

What the less obvious properties say. `ClosedAnswered`: no worker closes the
connection of a client that sent a request line and stayed before it has an
answer. `AnswerWhole`: a client that has read the end of its connection has all
of its program's output, although the worker that waits may have reaped another
worker's program and closed the connection early; the inherited copy in the
program itself is what keeps it open. `EveryThreadJoins`: nevertheless, every
copy is closed in the end. `InUseAccepted`: `MyFree` takes back every block in
use, whatever headers were written around it or lie left behind where its own
came to lie. `DoubleFreeRefused`: a pointer is refused just after it was freed,
and from then on while its block is on the free list; both speak of the marks at
their offsets in bytes, and neither of a pointer whose block was merged, for
which it is false. `EveryCallReturns` speaks of every way out of a call, the
refusals of `MyFree` included. `OrderedUpToLast`: `MyFree` puts a block above the
last free one in front of it, so the list is not sorted; but the disorder never
goes beyond the last node, and whatever is left unmerged is left with it.
`InputFits`: a child writes its input into its own pipe before anybody reads
there, and yet never waits. `PipeDrained`: no byte of one line reaches the next.
`LineFinishesOrBlocks`: only two things stop a shell within a line, a block that
wrote nothing before a `|` and one that wrote more than a pipe holds.

Why the bounds are enough. Three slots and two workers let a request be removed
from the head, the middle and the end of a ring that has wrapped, while the
other worker is between its two posts. Main, the slots and the workers can hold
one descriptor each (`DescriptorBound`): 6 in `pool_sff`, which has 4 so that
`accept` also fails; 5 in `pool_fifo`, which has 6 so that the bound means
something. In `clients` three connections cannot use up four descriptors:
there `StaysUp` is about workers that reap each other's children, not about
`accept`, which `DescriptorBound` and the theorem `NothingStops` are about. The
clients of that run stay and its files are not empty; what happens otherwise is
in section 6. The file of size `LONG_MAX` is one the SFF search never
finds, alone or next to others (`TakeNothing`); so is a file dated before 1970
for RFF. One slot is enough for what a slot keeps of its last occupant: every
request goes through it. Two workers can each have a CGI child, and reap the
other's; with a third thread for a page there is a connection that both children
inherit. Sixteen units hold five of the smallest blocks, the least that
shows a block freed between two free blocks it does not touch, with pairs of
sizes at, below and above the split boundary; blocks that differ by one or two
units put new headers over each part of an old one. With three threads, one waiter is woken
while another sleeps. In `server_hangup` there are two slots, so that one
request waits while main reads the other connection. The eight lines of `shell`
have one, two and three blocks, up to five commands, blocks that write nothing,
less than, exactly and more than what a pipe holds, two different letters, and each
built-in alone, beside others and between pipes; three lines let what the first
leaves behind meet every second and third. Streams of five bytes are longer than
a line, a read, the socket and the buffer, which end at different places in
them.

`server_hangup` and `server_hostile` turn the deadlock check off, because the
system does stop there: a main thread that reads end of file for ever keeps the
mutex. `clients` ends when all threads are done, `shell` when the shell exits or
waits for itself, `rio` at the end of the stream. In every other run, finding no
deadlock is part of the result.

Bounds in the guards: `MaxCalls` in SharedHeap (calls per thread; glibc's mutex
is not fair, so liveness holds for callers that stop calling), `MaxLines` in
Shell (lines typed). Everything else is finite by its constants.

## 5. Proofs

`ThreadPoolProofs` proves, for any number of slots, any finite set of workers,
any descriptors, any requests and each policy, with `QueueAssumption` and
`WorkersAssumption` only:

- `TypeCorrect`, `MutualExclusionHolds`, `SemaphoresAccountHolds`: from
  `ControlInv`, which adds to the type invariant the two equations of
  `SemaphoresAccount`, `mutex` as the number of threads inside it, and what a
  thread's program counter says of its locals. The equations are needed for the
  types: `count <= NBuffer` holds because `empty` is never negative.
- `ContiguousHolds`, `NoOverwriteHolds`, `OwnedOnceHolds`: from `PoolInv`, which
  is `ControlInv`, `Contiguous` and the ownership of descriptors. `Contiguous`
  is needed for ownership, since a slot's removal shifts exactly the filled
  ones; ownership is needed so that `Close` closes an open descriptor.
- `TargetFoundHolds`: a worker inside the mutex has a request waiting, by the
  two equations; and if one waiting file is in the range of the search, a slot
  is found, since a non-empty finite set of keys has a best one
  (`BestExists`).
- `ImplementsPool`: each step maps to a step of `ServicePool` or a stutter.

Positions in the ring are handled by two constant-level operators, `At(h, p)`
and `Pos(h, i)`, with lemmas that they are inverse to each other and how they
move with `head`; that keeps `%` out of every other proof.

`WebServerProofs` proves, for any clients, files and edits too, with
`ServerAssumption` besides:

- `ServerImplementsPool`: `ServerSpec => Spec`, so everything above holds of the
  server. It needs a type invariant of the files and clients, since `ReadLine`
  takes members of `Requests` only (`ParsedRequest`).
- `ChildrenMatchWaitsHolds`, `ServerTypeCorrect`: from `ServerInv`, which says
  that a worker outside `handle` is at stage `start` and that `running + exited`
  is the number of workers that wait. The bound on both counts follows.
- `AnswersOwnRequestHolds`: from `AskInv`, which follows a request from the
  client's descriptor through slot `tail`, the filled slots and the worker's
  copy. It rests on `OwnedOnce`: only because no two holders have the same
  descriptor does a new connection not disturb what an old one asked.

`DescriptorBoundHolds` (in ThreadPoolProofs) adds to the ownership of descriptors
that a union of singletons over a finite set is no larger than the set.
`ClosedAnsweredHolds` (in WebServerProofs) is from `AskInv` and `DoneInv`, which
says for each stage of `requestHandle` whether an answer is still to come.

`ShellProofs` proves, for any lines, any size of a pipe and a table as large as
the longest line (`ShellAssumption`):

- `ShellTypeCorrect`, `InputFitsHolds`, `NoneLeftBehindHolds`,
  `PipeDrainedHolds`: from `ShellInv`, which adds to them where in a line the
  shell waits and reads (`PositionInv`), and that the children are those of the
  block at `pos`, so that in the last block all write to the terminal and the
  pipe is empty (`OutputInv`). `TextBounds` says that `strlen` never makes a
  buffer longer.
- `ShellImplementsPipeline`: each step of the shell maps to one of the promise;
  a child that fills its pipe or ends is a stutter. It needs `OutputInv`: whether
  a child writes to the pipe was decided when it was forked, the promise looks
  at the block whose turn it is. Its hypothesis is `TextOnly`; `TextInv` follows
  from it, that nothing in the pipe, the buffer or a child has a zero byte, and
  so what `strlen` measures is all there is. The assumption `LinesAreText` in
  MCShell says that the lines of the run satisfy it.

`RioProofs` proves, for any stream and any sizes (`RioAssumption`):

- `RioTypeCorrect`: from `RioInv`, which adds that a call starts with an empty
  buffer and has met no newline before its last byte.
- `RioImplementsLineStream`: what lies in the caller's buffer, the `rio_t`, the
  kernel and the peer, put together, is what is ahead; a system call or a copy
  moves the front of one to the end of the next and changes nothing of it
  (`Moved`), a return takes the front off.

`ClientProgramProofs` proves, for any number of client threads, workers, slots
and descriptors:

- `ProgramIsServer`: `ProgramSpec => ServerSpec`, so what is proved of the
  server holds when CGI programs hold copies of its connections.
- `AnswerWholeHolds`: from `ClientInv` (open connections belong to different
  threads, none of which has hung up) and `HolderInv` (a program holds the
  connection it answers, and a worker that still has that connection open is the
  one that started the program and is past it). The second is needed because two
  workers reap each other's programs: which program a worker's `Wait` returned
  for is not known, so the connection is kept open by the program alone.
- `NothingStops`: `Servable => (ProgramSpec => []StaysUp)`. A server that any
  client uses can be brought down (section 6); one that `client.c` uses cannot,
  if the pages asked for are not empty, no file is out of the range of the
  search, and there is a descriptor for each slot, each worker and main. These
  hypotheses are `Servable`; the assumption `ServableInstance` in
  MCClientProgram says that the instance of `clients` satisfies them. `FilesInv`
  says that a slot, whatever it held before, and a worker's copy of it agree
  with the file that is asked for; so neither a stale size nor a stale mode is
  used.

`FreeListProofs` proves what the operators of FreeList do, for any heap. `Walk`
is a recursive function: that it exists (`Iteration`) and what it meets on a
list (`ListWalk`) are proved from the least counterexample of a set of numbers
(`Least`, `Induction`), which is induction without a theorem that takes an
operator. `IsList(h, f, n)` says that the list of `h` is `f[0], ..., f[n - 1]`
without repetition. Each search is shown to find what it promises (`Finds`, and
`SearchFinds` for all four), with the true predecessor on the list; the unlinking of
a node, its replacement by a remainder, the insertion of a freed block and each
of the merges are shown to turn one list into another.

`HeapAllocatorProofs` proves, for any capacity that holds the allocator's own
blocks, any layout of a header, any sizes asked for and any order of calls
(`HeapAssumption`, `AllocatorAssumption`):

- `TypesOK`, `TilingCorrect`, `ListCorrect`, `MarksCorrect`, `OrderCorrect`,
  `SearchCorrect`: from `HeapInv`. It says that every block in use has the mark
  of one, and nothing of the marks elsewhere, since headers left behind keep
  theirs; and that there is a list whose nodes, with the blocks in use, tile the
  mapping (`Tiling`), are in order up to the last one (`Ascending`) and are no more than
  `Capacity`. The tiling is needed for nearly everything else: a remainder lies
  inside the block it is cut from, where no other header is (`RemainderFits`); a
  block that is freed is not on the list, so the list stays free of repetition;
  and the bound on the length of the list is what makes `Steps` long enough for
  `Walk`. The marks need the tiling too: what is written is another header or
  another block's bytes, and these do not overlap the header of a block in use.
  `InsertSound` follows `MyFree` through each way to merge.
- `DoubleFreeCorrect`: a free block's header is covered by nothing either as long
  as it is on the list, so what `MyFree` refuses there it goes on refusing.
- `ImplementsHeap`: an allocation takes one block away and puts its remainder in
  (`AllocBlocks`), a release takes away what it merges and puts in the result
  (`ReleaseBlocks`); a block is its address *and* its size, so the refinement
  also says that no other block changes its size.

`SharedHeapProofs` proves, for any threads and any heap, under the hypothesis
that all threads are of one process (`OneProcessOnly`; without it two calls can
be between lock and unlock at once, section 6):

- `ExclusionHolds` and `NothingStaleHolds`: from `MutexInv`. The word is not 0
  while a thread is inside, and a thread that locks with a plain store is the
  only one there is, since only a thread that is not in a call creates another.
- `ImplementsHeapAllocatorHolds`: from `SharedInv`, which is `MutexInv`, `HeapInv`
  and `CallInv` (a free that has not written yet has a block that is held, or is
  NULL, which gets no further than the refusal, and no other call has the same
  block). The write of a call is the whole call of
  HeapAllocator, because what it found is what it would find now; `HeapInv`
  is needed because `MyFree` takes only marked blocks, and the held ones are
  marked. A step of SharedHeap is a step of HeapAllocator, and so `HeapInv` holds
  after it: the module is an instance of HeapAllocatorProofs, and the lemmas
  `Same...` say that the operators mean the same under each name.
- `ThreadsShareNoByte`: therefore the threads' heap is tiled and implements
  AbstractHeap.

Only model-checked is all liveness, which is out of the prover's reach:
`EveryRequestServed`, `AcceptedIsQueued`, `EveryThreadJoins`, `EveryCallReturns`,
`LineFinishesOrBlocks`, `ReaderIsDone`. Every invariant of a passing run and
every refinement is proved. What is proved is proved of the modules: where they
abstract the code, section 3 says how.

## 6. Disagreements found

Four runs end in a violation, each of a statement in the repository; the
`findings` of `PROJECT.json` quote them. In short: an empty request line is
answered with another client's file; a client that hangs up within its headers
stops the server for ever; `MyFree` follows NULL; a block that writes nothing
before a pipe leaves the shell waiting for itself.

Four more statements are contradicted by the code; no run is kept for them, and
no property that holds claims them.

- *A freed pointer is accepted again.* `heapAllocator.c:163` says "check if block
  is a valid block". After `InitMyMalloc(4096)`, `p1 = MyMalloc(10, FIRST_FIT)`,
  `p2 = MyMalloc(10, FIRST_FIT)`, `MyFree(p2)`, `MyFree(p1)` and
  `MyMalloc(30, FIRST_FIT)`, the old header of `p2` is at offset 138 of the
  mapping, inside the new block, with `isFreed` at 158; the remainder begins at
  158, and `split` writes its size, 3914, there. The magic number at 154 stays
  until the last bytes of the new block are written. So `MyFree(p2)` passes the
  check at line 164 and puts a piece of a block in use on the list; a caller that
  writes in its own block over an old `isFreed` has the same effect. In
  HeapAllocator the mark of such a header goes from `freed` to `valid`
  (`Overwritten`). Hence nothing says that `Accepts` holds of blocks in use
  only; `InUseAccepted` says that it holds of those, `DoubleFreeRefused` for how
  long a freed pointer is refused, and callers of the model do not pass the ones
  in between.
- *The mutex does not exclude processes.* `heapAllocator.c:100` says "mutex lock
  to prevent different processes from accessing the shared free list at the same
  time". It is a private mutex: a process of one thread, like each child of
  `forkTest`, locks it with a plain store, so two can find the word 0 and both go
  on; and a process that sleeps on it is not woken by another's unlock
  (`SingleThreaded`, `Store`, `Wake` of SharedHeap with more than one process in
  `ProcessOf`). `Exclusion` and all that is checked and proved of SharedHeap is
  of threads of one process, the case of `src/README.md:17`, "thread safe".
- *Output with a zero byte is cut.* `src/README.md:11` says of concurrent
  commands that "their outputs will be piped", and `hw1.c:155` "Copies the
  contents of the buffer to the write end of the pipe"; `hw1.c:161` writes
  `strlen(buffer)` bytes. With a command that writes a zero byte before a pipe
  among the lines, TLC finds `ImplementsPipeline` violated where the next block
  starts. `shell` and `ShellImplementsPipeline` are of text for that reason.
- *A file that changed ends the server.* `src/README.md:21` says "capable of
  handling multiple client requests concurrently". A file that is gone or
  unreadable between `stat` and `open`, or is empty, makes a wrapper exit
  (`OpenFails` in WebServer), one that got shorter a write from beyond its end
  (`SendFails`); a client that leaves while its answer is written does the same.
  `ClosedAnswered` holds then, since nothing is closed by a worker: it does not
  say that the server goes on. `NothingStops` does, and names what it needs
  (`Servable`).

More behaviours of this kind are in the models:

- A search over files that are all older than 1970 (RFF) or as large as
  `LONG_MAX` (SFF) leaves index -1 (`TakeNothing`).
- A block above the last free one is not merged with it; `OrderedUpToLast` says
  how far that goes.
- A block that writes more than a pipe holds before a `|` leaves the shell
  waiting for a child that waits for the shell (`Flooded`).
- `cd` to no such directory, or a line whose pipe cannot be made, ends the shell
  and leaves the children of its block (`ExecuteFails`, `PipeFails`).

## 7. Plan

1. Done: all modules of section 2, with a theorem for each invariant of a
   passing run and for each refinement.
2. `NothingStops` for clients that send whole requests and stay, but for files
   that may be edited: which edits are harmless between `stat` and `open`.
3. What a strategy promises beyond `SearchComplete`: that `nextFit` resumes where
   the last call left off.
4. What holds of the heap when `MyFree` takes a pointer that it should refuse:
   which blocks a caller can lose to it.
5. The client's side of errors: `unix_error` in one thread ends them all.

## 8. Not modelled, and why

- `printQueue`, `DumpFreeList` and `getHeapAddress` change no state. Header
  texts, file types and HTML bodies are layout.
- The characters of a shell's line: `trim`, `parseCommand` and the words of a
  command. So the tail of a line longer than 250 characters, which is executed
  as a line of its own, is a hazard without a property.
- `rio_readn`, which nothing calls, and the wrappers of calls without state.
- `gethostbyname`, `Open_listenfd`, the checks of the arguments and start-up
  failures end a process before the first request.
- Errors that end the client.
- Sizes beyond 2^31 (`filesize` is an `int`) and pointers outside the mapping are
  listed as hazards without a property; so are files and clients that end the
  server, which are modelled (section 6).
- The tests of `main.c` are sequences of the calls that HeapAllocator makes in
  every order, with two exceptions: the processes of `forkTest`, which no run has
  (section 6), and the pointer into the middle of a block that
  `invalidPointerTest` passes, which is refused because no magic number is in
  front of it and is one of those that `MyFreeFails` stands for.
- Callers that free what is not theirs, and are not refused.
