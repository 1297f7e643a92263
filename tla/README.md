# A verification of MyFramework

MyFramework is a C++ framework for TCP servers: an I/O library (`iolib/`) with
one event loop per processor thread, and an example server on top of it
(`src/`).  This directory holds TLA+ models of it, the TLC runs that check them
on small instances, and TLAPS proofs for every value of their constants.
`PROJECT.json` maps every definition to the lines it models and lists runs,
mutants, hazards, findings and theorems.

    tlc -workers 2 -config MCDispatchKick.cfg MCDispatch.tla
    tlapm DispatchProofs.tla

## 1. Inventory

    clients ─TCP─> Acceptor (one per Processor, SO_REUSEPORT)
                      │ NetConnection::HandleNewConnection, RecvConnection
                      v
    Processor thread: FDEpoll ─> NetConnection::HandleEvent ─> IOBuffer::Read ─> BufferPool
        ^   NetKicker                       │                         │
        │                                   v                         v
    ProcessorManager (dispatch)        TcpSocket             ClientSM (messages)

| Component | State | Operations | Hard behaviour | What makes it correct |
|---|---|---|---|---|
| BufferPool (`bufferPool.cc`) | free list threaded through `mFreeListPtr`, `mFreePagesCount` | Creat, Get, Reclaim, Destroy | long sequences; the last page; no check of who returns what | the list is a chain of the free pages; no page handed out twice; a bounded loss |
| Processor (`processor.cc`) | `mPendingConnectionList[2]`, `mUsing`, `mFilling`, epoll, pool | MainLoop, AddToPendingConnectionList, AddConnectionToEpoll, DeleteFromEpoll, RecliamNetConnection | two threads, two queues, no lock; events handled from a copied batch | every connection registered once, by its processor, eventually |
| NetKicker (`netKicker.cc`) | pipe, `mWritten`, mutex | Kick, Drain | a kick during a drain; `pipe()` failing | no kick is lost |
| ProcessorManager (`processorManager.cc`) | processors, `mCurrentProcessorIndex` | Init, DispatchConnectionToProcessor, MainLoop | the index grows without bound | round robin |
| NetConnection (`netConnection.cc`) | socket, IOBuffer, processor, callback | HandleEvent and its handlers, Write, Close | several closes for one event; a missing return; `errno` of an older call | only its own descriptor is closed, once; ends and resets close it; it is deleted |
| Acceptor, TcpSocket | descriptor | Listen, Accept, RecvConnection, Read, Write, Close | numbers are reused by other threads | a number belongs to one connection |
| FDEpoll (`fdEpoll.cc`) | epoll descriptor, batch of events | Add, Mod, Del, EpollWait, Next | the batch is older than the handlers that run from it | no event for a closed connection |
| IOBuffer (`ioBuffer.cc`) | queues of pages in and out, offsets | Read, GetReadData, Append, Write | page boundaries, an empty pool, partial writes | the bytes come out as they went in; pages go back to the pool once |
| ClientSM (`src/clientSM.cc`) | none but its connection | HandleRequest | a head whose body has not arrived | messages are framed as they were sent |
| ClientManager, MyServer, main | port, processor count | Init, Start, CreateKfsCallbackObj | none: sequential start-up | a missing port or log stops it |
| EventManager, Timeout | epoll | MainLoop | nothing is registered | none |
| Mutex, CondVar, Semaphore (`mutex.cc`) | lock count, owner | Lock, TryLock, Unlock, Wait, Notify | timeouts | count and owner say who holds the mutex |
| ThreadPool, CPU, Counter | threads; load per CPU; wrapping counters | Start, Join; Bind, Release; Add, Get...AfterPrev | partial start; wrap | joins what it started; loads never negative; differences exact |
| Queue\<T\>, BufferPoolQueue | linked list | Push, Pop | none (unused) | FIFO |
| Config, commonFuncation | key/value map | InitConfig, GetValue | malformed lines | the values of the file |
| MsgLogger, FileLengthRollingFileAppender | log file | _append, rollOver | two rolls in one second | no line lost |

In the server as built, every processor accepts its own connections.  The
dispatch path (`ProcessorManager::HandleEvent`, the pending queues and the
kicker) is library API: its queues are exchanged and drained on every turn of
every loop, its caller is commented out (`acceptor.cc:96`).

## 2. The modules

| Module | Models |
|---|---|
| `PagePool` | abstract: pages that are free, held, or lost |
| `BufferPool` | Creat, Get and Reclaim; refines `PagePool` |
| `BufferPoolProofs` | its theorems |
| `Handoff` | abstract: a connection given to a processor is registered by it, once, eventually |
| `Dispatch` | dispatcher thread, queues, exchange, kicker, sleeping and waking; refines `Handoff` |
| `DispatchProofs` | its theorems, and the safety half of the refinement |
| `NetServer` | accept, read, error, close and delete, over descriptors and pages, by several processor threads |
| `NetServerProofs` | its theorems: whose descriptor is open, watched, reported and closed; pages are counted |
| `ReadBuffer` | one connection's bytes: IOBuffer::Read, GetReadData, and the framing of ClientSM |
| `ReadBufferProofs` | its theorems: the bytes stay in order, bodies are whole and in their turn, own pages are given back |
| `WriteBuffer` | one connection's answers: NetConnection::Write, IOBuffer::Append and Write, EPOLLOUT |
| `WriteBufferProofs` | its theorems: the bytes are counted, watched and sent in order |
| `Locks` | Mutex and CondVar, with their timed calls, step by step |
| `LocksProofs` | its theorems |
| `Startup` | configuration, construction of the processors, their threads and the binding to CPUs |
| `StartupProofs` | its theorems: the file is obeyed, and threads are bound evenly |
| `RollingLog` | the log file and its rolls, across processes |
| `RollingLogProofs` | its theorems: no record lost or moved, files bounded |
| `MC...` | extend a module; their cfg files give the constants |

Definitions named "Mutant of ..." are plausible bugs, used by no specification;
each property is shown to notice one of them.

### BufferPool
One action per operation.  `mFreeListPtr` and `mFreePagesCount` are the code's;
`held` and `lost` are history.  Get of an empty pool returns NULL and changes
nothing, so it has no action.  Reclaim takes an address, not a page, because
its callers hold a position inside the page; that callers return only pages
they hold is its guard, and the one assumption of the module: `GivesBackOwn` of
`ReadBuffer` says where IOBuffer keeps it, and the one place where it does not
(a page read exactly to its end).  Sizes are
naturals: `Processor` asks for 4096*4096 bytes in pages of 4096, far from the
range of `unsigned`.

### Dispatch
`dpc` is the dispatcher's place in `DispatchConnectionToProcessor`:
ChooseProcessor loads `mFilling`, PushPending pushes on the queue loaded before,
GivePool sets the pool (after the push, when MainLoop may already have
registered the connection), Kick kicks.  `ppc` is each MainLoop's place: the
three assignments of the exchange (SwapUsing, SwapFilling, SwapUsing), front and
registration, pop, epoll_wait, Drain and the events.  A step is one access to
shared state.  Kick and Drain are one step each because NetKicker's mutex makes
them so (`Locks`).  Left out: the reallocation of std::queue's
node map, where the unlocked push and pop could do worse than reorder, the
round-robin index wrapping, and `epoll_ctl` refusing the kicker's descriptor
(a refused connection is modelled, and so is a `pipe()` that failed).

A connection is *late* if it was pushed on a queue that was no longer the one
being filled: the dispatcher had loaded `mFilling` before the exchange.  Late
connections are the one thing that goes wrong here: they may be overtaken, and
without any later event or timeout they stay listed.  The properties say
exactly that, and that nothing else goes wrong.

### NetServer
Descriptors are the one thing processor threads share, so HandleCloseEvent is
three steps: DeleteFromEpoll, `close`, `mSockFD = -1`; each call of
`socket->Read` is a step of the loop in IOBuffer::Read; the rest of a handler
is seen by its own thread only.  The kernel is modelled from how the code uses
it: accept gives the lowest free number, close frees it and ends its
registrations, level-triggered epoll reports IN for bytes or an end, and ERR
for a reset.  `Ops` merges EPOLLERR and EPOLLHUP, as HandleEvent does.

- `IOBuffer::Read` returning -3 without touching the socket leaves `errno` as
  it was: ReadStarved goes on or closes, either way.
- HandleEvent ends without a return on its usual path.  The built code leaves
  there `op & (EPOLLERR|EPOLLHUP)` or part of an aligned address, never
  EVENT_NET_CLOSE; only the branch for a closed socket deletes.
- ClientSM may give back any number of pages but the last of its queue; the
  pool may refuse one of them.  Which page goes back, and which bytes are read,
  is the subject of `ReadBuffer`.
- The server writes nothing to its clients, so EPOLLOUT does not occur;
  `WriteBuffer` has it.

### ReadBuffer
The same reading as in `NetServer`, seen from one connection, with every byte.
A byte is its position in the client's stream, so that order, gaps and mixed-up
pages show.  One turn of the loop in IOBuffer::Read is one action, chosen by
what the socket holds: ReadPartial returns the bytes, ReadFull takes the next
page, ReadNothing and ReadStarved return -1 or the end.  GetReadData computes
what is at the pointer it returns (`Content`), which pages it pops (`Popped`)
and which ones the pool is told of (`Reclaimed`): three things the code derives
separately from its offsets.  HandleRequest takes a head, and then the body the
head announces.  The other connections of the thread show in HandleReadEvent
as pages that come and go between two events.

What goes wrong is named in three history variables, and the properties say that
nothing else does:

- `split`: bytes taken across pages are copied behind the length of the
  previous piece alone and the pointer is the last piece's (`ioBuffer.cc:55-79`),
  or a body was incomplete when its head was taken (`clientSM.cc:93-97`).
- `exact`: a page read exactly to its end stays at the front, and what is
  reclaimed later is the page behind it (`ioBuffer.cc:71`).  From there two
  connections own a page and the behaviour is not followed further.
- `heldBack`: bytes that filled their page exactly are followed by an error in
  the same call, so that ClientSM is not told; a message with an empty body ends
  HandleRequest; the pool ran dry.

### WriteBuffer
NetConnection::Write gives the socket what it can take and the rest to Append;
HandleWriteEvent sends that when EPOLLOUT is reported.  A byte is its position
in what was passed to Write.  Append has four outcomes: the bytes fit, there is
no page and none is had, they cross the page (no second page is added, `buf`
does not advance), or they cross with no page at all, where `back()` of an empty
queue is written to: the model stops there.  `overtaken` and `damage` name what
may disturb the order, and the properties that nothing else does.  After an
append that crossed, the comment of IOBuffer::Write that 0 means everything was
written (`ioBuffer.cc:134-135`) does not hold either: `WaitingIsWatched` excepts
just that case.  No handler of the repository calls NetConnection::Write yet;
the module is of the library as it stands.  A failed `epoll_ctl` is only logged
by the code, and left out.

### Locks
One step per access to what threads share: the pthread mutex, and the count and
owner beside it.  `mLockCnt++` is a load and a store, compared with 0 as it was
loaded (`loaded`); `--mLockCnt` is a load and a store, and loaded again for its
comparison, as the makefile's build without optimisation does it; the owner is
written after that.  `pc` is where a thread is in a call; in "out" and "held" it
may begin one.  Lock, TryLock and Wait go on with Locked ("count", "add", "own");
Unlock and both Waits begin with Unlocked ("take", "test", "disown"), and which
of them it was shows in the step after "release".  A default pthread mutex is
assumed: it does not recurse, and unlocks for anybody who asks.  A holder does
not Lock again, since it would wait for itself.  The timed Lock and a timed Wait
that runs out do not call Locked(), so that the next Unlock takes one off the
count; a deadline in the past can make `tv_nsec` negative, which pthread refuses
and the code takes for success.  These two are `uncounted` and `deceived`.

Until a thread is deceived the mutex protects the count, and that it does is
what the properties say.  After that the deceived thread's Unlock frees a mutex
another holds: two threads change the count at once, an update is lost, and the
next Locked can raise the count to two and more.  `TypeOK` gives the count the
upper bound 1 only before that.  Because NetKicker's Kick and Drain use plain
locks only, exclusion here is what makes them one step in `Dispatch`.

### Startup
From the configuration file to serving threads.  Lines are records of two words,
`NoWord` for a word that is absent, because `key` and `value` are declared outside the
loop of InitConfig and keep what an earlier line left.  A conversion is what
`>>` into a short does: a clamp, and an uninitialized short for an empty string
(`Garbage`).  The port passes from a short to an unsigned short (`GetPort`).
The threads bind themselves under the mutex of CPU while main constructs the
next processor, so the two interleave; listening, watching, starting a thread
and binding may each be refused by the system, and nothing stops for it.
GetAvailableCPU looks for the smallest load below 1024 (`cpu.cc:37`) and takes
CPU 0 if there is none; `Crowd` stands for that 1024.

### RollingLog
One record at a time, each call to the system a step, and the process may die
before any of them.  Local time may be set back.  The first record of a process
rolls whatever file it finds, because `Start_process` is set by the constructor;
the modification time that the constructor reads is overwritten before it is
used.  A file is the numbers of its records and its length.  The header speaks of
files per day (`fileLengthRollingFileAppender.h:24`); the code rolls by size only.  What log4cpp does is taken from how the appender
uses it.

## 3. The runs

| Run | Instance | States | Shows |
|---|---|---|---|
| `buffer_pool` | 8 bytes in pages of 2: 5 pages | 3 217 | chain, counts, loss of the last page only, no double hand-out, refinement |
| `dispatch_kick` | 1 processor, 4 connections, woken by kicks only | 169 054 | nothing lost or doubled; only late ones strand or are overtaken; the rest registered promptly |
| `dispatch_handoff` | 2 processors, 2 connections, with the timeout | 320 484 | refinement of `Handoff`, liveness included |
| `net_server` | 2 threads, 3 connections, 2 descriptors, 1 page each | 2.7 million | descriptors owned, watched by their owner, closed by their owner; events only for open connections |
| `net_server_live` | 2 threads, 2 connections, 1 descriptor, 2 pages each | 50 217 | data read, ends close, unless there is no first page; a NULL page closes, and a reset in any case |
| `net_server_reclaim` | 2 threads, 1 connection | 267 | violated: a closed connection is never deleted |
| `read_buffer` | pages of 4, heads of 2, 3 pages, 2 messages with bodies of 0, 1, 2 or 7 | 428 378 | bytes stay in order; messages framed and handled but for the named cases; own pages given back |
| `read_returns` | the same | until violated | violated: Read returns an error although it read bytes |
| `write_buffer` | pages of 3, writes of 1, 2 and 4, 8 bytes in all | 455 180 | no byte uncounted; what waits is watched, sent, and in order but for the named cases |
| `locks` | 4 threads, symmetric, a count from -2 to 3 | 1.5 million | exclusion; true owner and count until a timed call |
| `startup` | every file of up to 3 of 11 lines, 2 CPUs, up to 3 processors | 1.2 million | a sound file is run as it says; threads spread evenly |
| `rolling_log` | 4 records of 1 or 2, files of 2, 3 seconds | 5.0 million | no record lost or moved, files bounded, but for the named cases |

Why the bounds are enough: five pages allow every order of three and more free
pages, with several addresses in each page, and the last page; four connections
put two in each queue of one processor across an exchange; two processors and
two connections interleave one dispatcher with two loops; three connections on
two descriptors, or two on one, make one thread's closed number the other
thread's new one while both are in the middle of closing; one or two pages make
the pool run dry before and after the first page of a connection.  In
`ReadBuffer` a message may lie inside a page, end on its last byte, cross into
the next, or cover three, and two of them follow each other in every one of
these ways; `WildLens` is what a length may be once bytes that are no head are
taken for one, small enough to be there or too long.  In `WriteBuffer` writes of
1, 2 and 4 fit a page of 3, fill it exactly, cross it and cover it twice.  Four
threads are one inside, one late, and two asleep.  Three lines give a key twice
and blanks between, or the log, the port and the count.  `Crowd` is 1 there, not
1024, so that three threads on two CPUs meet the crowded case of `cpu.cc:37`; the
theorem about it is for every value.  Four records of sizes up to
a full file roll three times, so that with three seconds a name is used twice,
in order and out of it.

The bounds are `MaxConns` (connections in a behaviour), `MaxFd`, `MaxPages` and
one waiting client per listener; `MaxMsgs`; `MaxBytes`; `MaxSkew` (how far the
count of a mutex gets below 0 and above 1); `MaxCpus` and
the files; `MaxRecords` and `MaxClock`.  Deadlock is not checked where the
system may stop: once the bounded clients are gone, all bytes have been written,
start-up is over, or every thread sleeps in a Wait that nobody is left to notify.

**Fairness.**  Every processor thread is scheduled (`WF` of its own steps), and
a dispatch under way is finished.  Nobody is obliged to dispatch, connect, send
or close.  `KickSpec` gives `epoll_wait` no timeout; `Spec` does
(`EPOLLTIMEOUT`, 2000 s).  In `NetServer` a processor with a ready event is
fair; the clients are not.  In `ReadBuffer` the thread of the connection is
fair, the client is not.  `WF_vars(Flush)` of `WriteBuffer` says that a client
goes on reading, so that there is room again, and that the thread handles the
event; a client that stops reading is not promised anything.  `Locks`,
`Startup` and `RollingLog` are checked for safety and state no fairness.

**Findings.**  `processor.cc:69` says the NetConnection object is deleted "after
a little seconds".  `RecliamNetConnection` is empty, its call commented out,
and the `delete` in MainLoop waits for an event on a descriptor that was just
removed from the epoll: `net_server_reclaim` shows a closed connection that is
never deleted.  With it stay its callback and the pages in its buffer.

`ioBuffer.cc:82-84` says of IOBuffer::Read "return <0: read error", "return >0:
read succ".  When a burst fills its pages exactly, the next read in the same
call finds nothing and its -1 (or 0, at the end of the stream) is returned
(`ioBuffer.cc:117-128`): `read_returns` shows bytes read and buffered that
ClientSM is not told of.

## 4. The proofs

Every theorem is for every value of the constants, under the assumptions named
in the modules (`...Assumption`), and from `Init /\ [][Next]_vars`: none needs
fairness.  In each proof module the invariant whose name ends in `Inv` is the
inductive one; its parts are the properties of the run and what they need to be
kept by a step.

**`BufferPoolProofs`** (pool size a natural, page size a positive one).
`PoolInv` is TypeOK, FreeListIsChain, Conservation and OnlyLastPageLost.  A
chain is a sequence of pages that the links follow; Get replaces it by its tail,
Reclaim by the page followed by it.  Conservation is needed because IsEmpty and
IsFull are tests of a count: a Get must find a chain that is not empty, and
IsFull must not refuse a page somebody holds.  `PageOfAddress` shows that the
division in Reclaim recovers the page from any address in it.  From `PoolInv`:
the chain, the types, the count, the bounded loss, no double hand-out, and that
every step is a step of `PagePool`.

**`DispatchProofs`** (at least one processor, any number of connections).
`DispatchInv` adds to TypeOK and KickRemembered: how the two indices are related
at each step of the exchange (they name different queues except inside it, where
`mUsing` holds an exclusive or); that the front a loop is popping exists; that
once a loop has passed its drain, what is left on its queue is late; and that a
connection that is fresh, pushed on the queue being filled, has a kick in the
pipe or on the way.  The last two give `OnlyLateStranded`.

`DeliveryInv`, next to it, is about what is on the queues.  Connections are
pushed in order, so a queue ascends (QueuesAscend); a connection is on one queue
of its own processor from its push until it is taken off, and it is taken off
after its registration (OneQueue, ListedUntilRegistered, PoppedOnceRegistered).
These give `DeliveredOnce`.  The order across the two queues of a processor is
what `RegisteredInOrder` needs and neither queue shows: an earlier connection
that is not late is on the other queue than a later one only while its queue is
the one being drained (EarlierDrainedFirst).  A push keeps that because, outside
the drain, the other queue has late ones only (OldQueueLate), and because a
dispatcher whose `mFilling` went stale between load and push finds only late
ones on the queue it does not push on (LatePassesLate).

The refinement of `Handoff` is proved step by step: PushPending is Give of
the connection, RegisterFront is Register, every other step stutters
(`ImplementsHandoffSafely`, for Handoff's initial states and next-state
relation).  Its fairness is left to the run.

**`NetServerProofs`** (at least one processor, any number of connections,
descriptors and pages).  What has to be shown is that a number closed by one thread while
another is given it by accept is never closed, watched or reported for the wrong
connection.  `ConnInv`: a thread is in HandleEvent of its own connections only
(HandlesOwn), so nobody else closes the one it is closing; until `close()` the
number is open for that connection; between `close()` and `mSockFD = -1`, when
the number may be another's, no descriptor is open for this one
(ClosedBeforeReset); and a batch has one event for a connection
(OneEventEach), so that what a handler closes has no event left.  From it:
`DescriptorsOwned`, `WatchedByOwner`, `EventsOnlyForOpen`, and the action
property `NoForeignClose`.  TypeOK bounds the pages of each buffer, which rests
on a bound for the processor: `PagesCounted`, next to `ConnInv`, says that the
pages in the buffers of its connections and its free ones are no more than its
pool has.  They are counted as the cardinality of a set of pairs of a connection
and a number, so that a step compares two sets instead of two sums.

**`WriteBufferProofs`** (any page size, any set of lengths).
`BufferInv` says that the slots that wait end at `mRightOfWriteBuffer` as long as
nothing was damaged (EndsAtRight), which is what makes the next Append put its
bytes right behind; and that without a page nothing waits (EmptyIsDone), so that
EPOLLOUT is never given up too early.  `RestOfCrossing` is the arithmetic of an
append that crosses the page.  From it: the types, `BytesCounted`,
`WaitingIsWatched` and `SentInOrderUnless`.

**`ReadBufferProofs`** (any page size and pool, a head no longer than a page,
any lengths of bodies).  `ReadInv` says that offsets and number of pages
determine each other (EndsAtRight), so that byte n is in page
`(left + n) \div PageSize`; that the pages are different ones and none is free
(OwnPages), so that neither filling the last page nor giving back the first ones
changes a byte that waits; and that ClientSM is called with a byte in the last
page (LastPageUsed), so that taking everything leaves one page.  The offsets are
quotients and remainders by a constant of any value, which the provers do not do
by themselves: the lemmas under "Division" are about those.  From it:
`BufferedInOrder`, and the action property `GivesBackOwn`, which is what
`BufferPool` assumes of its callers.

`FrameInv`, next to it, is about the framing: unless bytes were split or a page
misgiven, the bytes taken out end where a message ends, or where the head of one
does while its body is awaited, and every body before that with a byte in it was
handled (Framed).  A piece that lies in one page and misses no byte is the bytes that come
next (ContentIsNext).  Where message k ends is a sum over the lengths before it;
that the sums exist, add up and ascend is proved by induction on k, as the
absence of a least counterexample (`LeastNumber`).  Heads are then
different bytes (HeadsDiffer), so that the head taken is the one of the message
in turn and announces its length.  From it: `FramedUnlessSplit` and TypeOK.

**`LocksProofs`** (any number of threads, any `MaxSkew`).  `LocksInv` says,
as long as no thread was deceived: a thread inside holds the mutex
(`OneInside`); the count it has loaded is still the count (`LoadedIsTrue`), for
nobody else changes it; an owner holds the mutex and has the only count, or has
just taken it off, and without an owner no count is left, but that of a thread
about to write itself down (`OwnerCounted`); and if no timed call succeeded,
whoever is outside of every call with the mutex is its owner (`AllCounted`).
`OwnerCounted` is what makes the invariant inductive: `InsideIsHolder` alone
does not exclude a count that the next Locked() would raise to two.  From it:
`InsideIsHolder`, `CountedUnlessTimed`, and the upper bound 1 of the count in
TypeOK.  Where a thread was deceived nothing of this is left but the bounds of
the model (`Bounds`).

**`StartupProofs`** (any number of CPUs, threads and `Crowd`, any file).
`BindInv`: who has picked a CPU holds the mutex of CPU, alone, and no load
changes until it has counted, so that what it picked is still the least loaded
one (OnePicks).  From it, `BoundEvenly`: the loads are the numbers of threads
bound, no CPU is ahead by more than one of one that is not crowded, only CPU 0
passes the limit, and with every CPU online nobody who serves is unbound.

`StartInv`, next to it, leads from the file to the processors.  `Parse` folds
the file line by line; by induction on the lines read, the map has the last
value of each key and no key without a line, if no line misses a value
(`ParseKeepsLast`: a blank line repeats the line before it and changes
nothing).  What main asked for is what Config keeps of the file (Configured), of a sound
file what it says (`AsksAsSaid`); every Processor constructed has it or was
refused it, but for the thread of the last one until that is started
(HasOrRefused), and there are as many in the end as were asked for (CountedUp).
From both: `RunsAsConfigured`, and TypeOK, where the counts of threads are
bounded because no more are bound than there are Processors.  A file is assumed
to be a list of lines, of which one without a key has no value: `>>` reads the
key first (`config.cc:41-42`).

**`RollingLogProofs`** (any limit, lengths, number of records, and times).
`LogInv`: outside of a roll the process has a descriptor unless an open failed
(HasFile), so that a record written is in the file; no record is in two places
(KeptOnce); what is written to was found below the limit or is empty
(BelowLimit).  A rename moves every place of the current file to the name of the
second, which is later than every other name unless time was set back, and free
unless a second is shared; a write adds the highest number behind all others.
From it: the types, `KeptInOrder` and `SizeBounded`.

**Only model-checked**, and why: every invariant and every action property of the
passing runs is a theorem, and so is the safety of both refinements.  What is left needs
fairness, and the prover does not handle liveness under fairness:
`PromptUnlessLate`, the `WF` of `ImplementsHandoff`, `DataIsRead`, `EndCloses`,
`ResetCloses`, `HandledUnlessHeldBack`, `WaitingIsSent`.

No proof uses the library's induction theorems, which take an operator.  Where
a recursive function or a fold is reasoned about (the ends of messages, the
lines of a file), the induction is over a number and first-order: of the numbers
for which the fact fails there is a least one (`LeastNumber`, from the theorem
that < is well-founded on Nat), and there is none.

## 5. The plan

1. Done: the modules of section 2 and the proofs of section 4.
2. Proofs: the safety part of the liveness properties, as invariants that say why a step
   that must come is always enabled (that `WaitingIsSent` never waits without
   EPOLLOUT is `WaitingIsWatched` already).
3. Modules: the unused containers (Counter, Queue\<T\>) if a caller appears.

## 6. Not modelled

- Code without a caller: Counter, Queue\<T\> and BufferPoolQueue, Semaphore,
  BufferPool::Destroy, `ReleaseCPUAffinity`, ThreadPool::Join, Append with type
  0, AddNetConnectionToListen, TcpSocket::Connect, ClientManager::StartAcceptor,
  `deletLog` (its thread is commented out).  EventManager is an older copy of
  ProcessorManager that nobody constructs, and no Timeout is ever driven.
- The wrap of the round-robin index after 2^31 dispatches: its one caller is
  commented out.
- Options of sockets (SetupSocket), the buffer of epoll events, mmap and mlock
  failing at start.
- Clock and string helpers (commonFuncation), the text of log records, log4cpp
  itself, and the build and install scripts.
