------------------------------ MODULE Dispatch ------------------------------
(***************************************************************************)
(* Handing connections to the processors: one thread calls                 *)
(* DispatchConnectionToProcessor (iolib/processorManager.cc), every        *)
(* Processor runs MainLoop in a thread of its own (iolib/processor.cc).    *)
(* They share two queues per processor and no lock: the dispatcher pushes  *)
(* on the queue mFilling, the processor exchanges mUsing and mFilling and  *)
(* then empties the queue mUsing.  NetKicker (iolib/netKicker.cc) wakes a  *)
(* processor that sleeps in epoll_wait.                                    *)
(*                                                                         *)
(* One step is one access to state the two threads share.  Kick and Drain  *)
(* are one step each: NetKicker's mutex makes them so.  A push is one step *)
(* and so is a pop: the unoptimised std::queue the makefile builds moves   *)
(* its end after it has stored the element, and its start apart from its   *)
(* end; the reallocation of its node map, where the race of a late push    *)
(* and a pop could do more, is left out.                                   *)
(*                                                                         *)
(* Connections are named by the order in which they are dispatched, and    *)
(* processors by their index.                                              *)
(***************************************************************************)
EXTENDS Integers, Sequences

CONSTANTS
    ProcessorCount,   \* number of processors
    MaxConns          \* bound: number of connections dispatched in a behaviour

ASSUME ProcessorCountAssumption == ProcessorCount \in Nat \ {0}
ASSUME MaxConnsAssumption == MaxConns \in Nat

Procs == 0 .. ProcessorCount - 1
Conns == 0 .. MaxConns - 1
NoProc == -1

\* Steps of the dispatcher, and of MainLoop in the order they are taken.
DispatcherSteps == {"idle", "push", "pool", "kick"}
LoopSteps == {"start", "swap1", "swap2", "swap3", "drain", "pop", "wait", "unkick"}

VARIABLES
    mCurrentProcessorIndex,  \* number of connections dispatched so far
    dpc,                     \* step the dispatcher is at
    dlist,                   \* value of mFilling the dispatcher loaded
    ppc,                     \* step each MainLoop is at
    mUsing, mFilling,        \* per processor: index of the queue in use and being filled
    pendingList,             \* per processor: mPendingConnectionList[0] and [1]
    mWritten,                \* per processor: bytes NetKicker believes are in its pipe
    pipe,                    \* per processor: bytes in the pipe
    pipeOk,                  \* per processor: whether pipe() gave NetKicker descriptors
    watched,                 \* per processor: connections epoll_ctl accepted
    mBufferPool, mProcessor, \* per connection: processor whose pool, and which, it was given
    late                     \* history: connections pushed on a queue no longer being filled

dispatcherVars == <<mCurrentProcessorIndex, dpc, dlist>>
swapVars == <<mUsing, mFilling>>
kickVars == <<mWritten, pipe, pipeOk>>
connVars == <<watched, mBufferPool, mProcessor>>
vars == <<dispatcherVars, ppc, swapVars, pendingList, kickVars, connVars, late>>

Init ==
    /\ mCurrentProcessorIndex = 0
    /\ dpc = "idle"
    /\ dlist = 0
    /\ ppc = [p \in Procs |-> "start"]
    /\ mUsing = [p \in Procs |-> 0]
    /\ mFilling = [p \in Procs |-> 1]
    /\ pendingList = [p \in Procs |-> [l \in 0 .. 1 |-> <<>>]]
    /\ mWritten = [p \in Procs |-> 0]
    /\ pipe = [p \in Procs |-> 0]
    /\ pipeOk \in [Procs -> BOOLEAN]
    /\ watched = [p \in Procs |-> {}]
    /\ mBufferPool = [c \in Conns |-> NoProc]
    /\ mProcessor = [c \in Conns |-> NoProc]
    /\ late = {}

-----------------------------------------------------------------------------
(* The dispatcher: DispatchConnectionToProcessor, AddToPendingConnectionList *)

\* Round robin: the c-th connection goes to processor c % count.
Target(c) == c % ProcessorCount

\* The connection and the processor of the call under way.
dconn == mCurrentProcessorIndex - 1
dproc == Target(dconn)

\* Pick the processor and load its mFilling.
ChooseProcessor ==
    /\ dpc = "idle"
    /\ mCurrentProcessorIndex < MaxConns
    /\ mCurrentProcessorIndex' = mCurrentProcessorIndex + 1
    /\ dlist' = mFilling[Target(mCurrentProcessorIndex)]
    /\ dpc' = "push"
    /\ UNCHANGED <<ppc, swapVars, pendingList, kickVars, connVars, late>>

\* Mutant of PushPending: the connection goes to the front of the queue.
PushPendingInFront ==
    /\ dpc = "push"
    /\ pendingList' = [pendingList EXCEPT ![dproc][dlist] = <<dconn>> \o @]
    /\ late' = IF dlist = mFilling[dproc] THEN late ELSE late \cup {dconn}
    /\ dpc' = "pool"
    /\ UNCHANGED <<mCurrentProcessorIndex, dlist, ppc, swapVars, kickVars, connVars>>

\* Push on the queue loaded before; MainLoop may have exchanged them since.
PushPending ==
    /\ dpc = "push"
    /\ pendingList' = [pendingList EXCEPT ![dproc][dlist] = Append(@, dconn)]
    /\ late' = IF dlist = mFilling[dproc] THEN late ELSE late \cup {dconn}
    /\ dpc' = "pool"
    /\ UNCHANGED <<mCurrentProcessorIndex, dlist, ppc, swapVars, kickVars, connVars>>

\* Mutant of GivePool: the kick is forgotten.
GivePoolNoKick ==
    /\ dpc = "pool"
    /\ mBufferPool' = [mBufferPool EXCEPT ![dconn] = dproc]
    /\ dpc' = "idle"
    /\ UNCHANGED <<mCurrentProcessorIndex, dlist, ppc, swapVars, pendingList, kickVars,
                   watched, mProcessor, late>>

\* The pool is set after the push, when MainLoop may already have set it.
GivePool ==
    /\ dpc = "pool"
    /\ mBufferPool' = [mBufferPool EXCEPT ![dconn] = dproc]
    /\ dpc' = "kick"
    /\ UNCHANGED <<mCurrentProcessorIndex, dlist, ppc, swapVars, pendingList, kickVars,
                   watched, mProcessor, late>>

\* Mutant of KickByte: it writes whether or not a byte is there.
KickByteAlways(p) ==
    /\ mWritten' = [mWritten EXCEPT ![p] = @ + 1]
    /\ pipe' = IF pipeOk[p] THEN [pipe EXCEPT ![p] = @ + 1] ELSE pipe

\* NetKicker::Kick writes one byte unless it believes one is there.
KickByte(p) ==
    IF mWritten[p] <= 0
    THEN /\ mWritten' = [mWritten EXCEPT ![p] = @ + 1]
         /\ pipe' = IF pipeOk[p] THEN [pipe EXCEPT ![p] = @ + 1] ELSE pipe
    ELSE UNCHANGED <<mWritten, pipe>>

Kick ==
    /\ dpc = "kick"
    /\ KickByte(dproc)
    /\ dpc' = "idle"
    /\ UNCHANGED <<mCurrentProcessorIndex, dlist, ppc, swapVars, pendingList, pipeOk,
                   connVars, late>>

Dispatcher == ChooseProcessor \/ PushPending \/ GivePool \/ Kick

-----------------------------------------------------------------------------
(* MainLoop of processor p *)

LoopTo(p, step) == ppc' = [ppc EXCEPT ![p] = step]

\* The kicker's descriptor goes to epoll before the first turn of the loop; if
\* there is a pipe, epoll_ctl is taken to accept it.
StartLoop(p) ==
    /\ ppc[p] = "start"
    /\ LoopTo(p, "swap1")
    /\ UNCHANGED <<dispatcherVars, swapVars, pendingList, kickVars, connVars, late>>

Xor(a, b) == (a + b) % 2

\* The exchange is three assignments, and the dispatcher may load mFilling
\* between any two of them.
SwapUsing(p, from, to) ==
    /\ ppc[p] = from
    /\ mUsing' = [mUsing EXCEPT ![p] = Xor(mUsing[p], mFilling[p])]
    /\ LoopTo(p, to)
    /\ UNCHANGED <<dispatcherVars, mFilling, pendingList, kickVars, connVars, late>>

SwapFillingKept(p) ==   \* mutant: mFilling keeps its value
    /\ ppc[p] = "swap2"
    /\ LoopTo(p, "swap3")
    /\ UNCHANGED <<dispatcherVars, swapVars, pendingList, kickVars, connVars, late>>

SwapFilling(p) ==
    /\ ppc[p] = "swap2"
    /\ mFilling' = [mFilling EXCEPT ![p] = Xor(mFilling[p], mUsing[p])]
    /\ LoopTo(p, "swap3")
    /\ UNCHANGED <<dispatcherVars, mUsing, pendingList, kickVars, connVars, late>>

Swap(p) ==
    \/ SwapUsing(p, "swap1", "swap2")
    \/ SwapFilling(p)
    \/ SwapUsing(p, "swap3", "drain")

UsedList(p) == pendingList[p][mUsing[p]]

\* AddConnectionToEpoll: a refusal by epoll_ctl is logged and nothing more.
AddConnectionToEpoll(p, c) ==
    /\ watched' \in {watched, [watched EXCEPT ![p] = @ \cup {c}]}
    /\ mBufferPool' = [mBufferPool EXCEPT ![c] = p]
    /\ mProcessor' = [mProcessor EXCEPT ![c] = p]

RegisterFrontNoPop(p) ==   \* mutant: the front is not taken off
    /\ ppc[p] = "drain"
    /\ UsedList(p) # <<>>
    /\ AddConnectionToEpoll(p, Head(UsedList(p)))
    /\ LoopTo(p, "wait")
    /\ UNCHANGED <<dispatcherVars, swapVars, pendingList, kickVars, late>>

RegisterFront(p) ==
    /\ ppc[p] = "drain"
    /\ UsedList(p) # <<>>
    /\ AddConnectionToEpoll(p, Head(UsedList(p)))
    /\ LoopTo(p, "pop")
    /\ UNCHANGED <<dispatcherVars, swapVars, pendingList, kickVars, late>>

PopFront(p) ==
    /\ ppc[p] = "pop"
    /\ pendingList' = [pendingList EXCEPT ![p][mUsing[p]] = Tail(@)]
    /\ LoopTo(p, "drain")
    /\ UNCHANGED <<dispatcherVars, swapVars, kickVars, connVars, late>>

ListEmptied(p) ==
    /\ ppc[p] = "drain"
    /\ UsedList(p) = <<>>
    /\ LoopTo(p, "wait")
    /\ UNCHANGED <<dispatcherVars, swapVars, pendingList, kickVars, connVars, late>>

\* epoll_wait returns because of a byte in the pipe ...
WakeKicked(p) ==
    /\ ppc[p] = "wait"
    /\ pipe[p] > 0
    /\ LoopTo(p, "unkick")
    /\ UNCHANGED <<dispatcherVars, swapVars, pendingList, kickVars, connVars, late>>

\* ... or because of an event of the listener or of a connection it watches,
\* or after EPOLLTIMEOUT, which may be at any moment.
WakeOther(p) ==
    /\ ppc[p] = "wait"
    /\ LoopTo(p, "unkick")
    /\ UNCHANGED <<dispatcherVars, swapVars, pendingList, kickVars, connVars, late>>

\* Mutant of DrainKicks: the pipe is read and mWritten keeps its value.
DrainKicksUncounted(p) ==
    /\ ppc[p] = "unkick"
    /\ pipe' = [pipe EXCEPT ![p] = IF mWritten[p] > 0 THEN 0 ELSE @]
    /\ LoopTo(p, "swap1")
    /\ UNCHANGED <<dispatcherVars, swapVars, pendingList, mWritten, pipeOk, connVars, late>>

\* NetKicker::Drain reads what the pipe holds, up to 64 bytes; the events are
\* then handled, which changes nothing here, and the loop starts over.
DrainKicks(p) ==
    /\ ppc[p] = "unkick"
    /\ mWritten' = [mWritten EXCEPT ![p] = IF @ >= pipe[p] THEN @ - pipe[p] ELSE 0]
    /\ pipe' = [pipe EXCEPT ![p] = IF mWritten[p] > 0 THEN 0 ELSE @]
    /\ LoopTo(p, "swap1")
    /\ UNCHANGED <<dispatcherVars, swapVars, pendingList, pipeOk, connVars, late>>

\* The steps the thread takes by itself once it is not asleep.
AwakeLoop(p) ==
    \/ StartLoop(p)
    \/ Swap(p)
    \/ RegisterFront(p)
    \/ PopFront(p)
    \/ ListEmptied(p)
    \/ WakeKicked(p)
    \/ DrainKicks(p)

MainLoop(p) == AwakeLoop(p) \/ WakeOther(p)

Next == Dispatcher \/ \E p \in Procs : MainLoop(p)

\* The threads are scheduled fairly; a call under way ends.  Nothing obliges
\* anybody to dispatch a connection.
ThreadFairness ==
    /\ WF_vars(PushPending \/ GivePool \/ Kick)
    /\ \A p \in Procs : WF_vars(AwakeLoop(p))

\* epoll_wait returns, at the latest after EPOLLTIMEOUT (2000 s).
TimeoutFairness == \A p \in Procs : WF_vars(MainLoop(p))

\* A processor that nothing wakes but kicks ...
KickSpec == Init /\ [][Next]_vars /\ ThreadFairness

\* ... and one whose epoll_wait also times out.
Spec == Init /\ [][Next]_vars /\ ThreadFairness /\ TimeoutFairness

-----------------------------------------------------------------------------
(* Properties *)

\* The state variables have their types; the kicker's count is 0 or 1.
TypeOK ==
    /\ mCurrentProcessorIndex \in 0 .. MaxConns
    /\ dpc \in DispatcherSteps
    /\ dpc # "idle" => mCurrentProcessorIndex > 0
    /\ dlist \in 0 .. 1
    /\ ppc \in [Procs -> LoopSteps]
    /\ mUsing \in [Procs -> 0 .. 1]
    /\ mFilling \in [Procs -> 0 .. 1]
    /\ pendingList \in [Procs -> [0 .. 1 -> Seq(Conns)]]
    /\ mWritten \in [Procs -> 0 .. 1]
    /\ pipe \in [Procs -> 0 .. 1]
    /\ pipeOk \in [Procs -> BOOLEAN]
    /\ watched \in [Procs -> SUBSET Conns]
    /\ mBufferPool \in [Conns -> Procs \cup {NoProc}]
    /\ mProcessor \in [Conns -> Procs \cup {NoProc}]
    /\ late \subseteq Conns

\* The places a connection is listed at: processor, queue, position.
Places(c) ==
    {q \in Procs \X (0 .. 1) \X (1 .. MaxConns) :
        LET list == pendingList[q[1]][q[2]]
        IN  q[3] <= Len(list) /\ list[q[3]] = c}

\* A connection that was pushed.
Given(c) == c < mCurrentProcessorIndex /\ ~(dpc = "push" /\ c = dconn)

Registered(c) == mProcessor[c] # NoProc

\* Processor p has registered c and not taken it off its queue yet.
BeingPopped(p, c) ==
    /\ ppc[p] = "pop"
    /\ UsedList(p) # <<>>
    /\ Head(UsedList(p)) = c

\* However the push and the exchange interleave, a connection that was pushed
\* is neither lost nor registered twice: it is on one queue of its processor
\* until that processor registers it, and on none once it is taken off
\* (processor.cc:78, 94-102).
DeliveredOnce ==
    \A c \in Conns :
        /\ \A q \in Places(c) : Places(c) = {q} /\ q[1] = Target(c)
        /\ mProcessor[c] \in {NoProc, Target(c)}
        /\ \A p \in Procs : c \in watched[p] => mProcessor[c] = p
        /\ Places(c) # {} <=>
               Given(c) /\ (Registered(c) => BeingPopped(Target(c), c))

\* The byte in the pipe is the byte NetKicker remembers, so no kick is lost;
\* when pipe() failed the count stays where the first kick put it
\* (netKicker.cc:28-32, 38-46).
KickRemembered ==
    \A p \in Procs : IF pipeOk[p] THEN pipe[p] = mWritten[p] ELSE pipe[p] = 0

\* The dispatcher has pushed for p and has not kicked it yet.
KickUnderWay(p) == dpc \in {"pool", "kick"} /\ dproc = p

Listed(p) == {c \in Conns : \E q \in Places(c) : q[1] = p}

\* A processor asleep with an empty pipe and no kick on the way has no
\* connection left on its queues but the ones pushed on the queue it had just
\* taken out of filling (processor.cc:78, 83, 94-104).
OnlyLateStranded ==
    \A p \in Procs :
        (ppc[p] = "wait" /\ pipeOk[p] /\ pipe[p] = 0 /\ ~KickUnderWay(p))
            => Listed(p) \subseteq late

\* A processor registers its connections in the order they were dispatched,
\* but for a late one, which later ones may pass (processor.cc:98-102).
RegisteredInOrder ==
    \A c, d \in Conns :
        (c < d /\ Target(c) = Target(d) /\ Registered(d))
            => Registered(c) \/ c \in late

\* Without any timeout or event, a connection pushed on the right queue of a
\* processor that can be kicked is registered (processor.cc:75-104).
PromptUnlessLate ==
    \A c \in Conns :
        Given(c) /\ pipeOk[Target(c)] ~> Registered(c) \/ c \in late

\* With the timeout every connection reaches its processor once: the queues
\* implement the abstract hand-over.
Abstract == INSTANCE Handoff WITH
                given <- {c \in Conns : Given(c) /\ ~Registered(c)},
                taken <- [p \in Procs |-> {c \in Conns : mProcessor[c] = p}]

ImplementsHandoff == Abstract!HandoffSpec
=============================================================================
