------------------------------ MODULE NetServer ------------------------------
(***************************************************************************)
(* The life of the server's connections.  Every Processor runs MainLoop    *)
(* (iolib/processor.cc) in a thread of its own, with its own epoll, its    *)
(* own listener on the shared port (iolib/acceptor.cc) and its own page    *)
(* pool; NetConnection (iolib/netConnection.cc) handles the events of one  *)
(* socket.  The processors share nothing but the process's descriptors:    *)
(* a number one thread closes is the next one another thread is given by   *)
(* accept, so closing is several steps here, and the rest of a handler,    *)
(* which only its own thread sees, is as few as that allows.               *)
(*                                                                         *)
(* Of an IOBuffer the pages in its queue are kept, and whether the last of *)
(* them is NULL; which bytes are where is not.                             *)
(* The server writes nothing to its clients, so EPOLLOUT does not occur.   *)
(* The kernel (descriptors, epoll, TCP) is modelled from how the code uses *)
(* it.  epoll_wait has room for 10000 events and returns all there are.    *)
(***************************************************************************)
EXTENDS Integers, FiniteSets

CONSTANTS
    ProcessorCount, \* number of processors
    MaxConns,       \* bound: connections accepted in a behaviour
    MaxFd,          \* descriptors left to the process for connections
    MaxPages        \* pages of each processor's pool

ASSUME NetServerAssumption ==
    /\ ProcessorCount \in Nat \ {0}
    /\ MaxConns \in Nat /\ MaxFd \in Nat /\ MaxPages \in Nat

Procs == 1 .. ProcessorCount
Conns == 1 .. MaxConns
Fds == 1 .. MaxFd
NoFd == -1
NoConn == 0
NoProc == 0
Listener == -1   \* the listener's NetConnection

VARIABLES
    (* of the connections *)
    mSockFD,      \* TcpSocket::mSockFD
    mProcessor,   \* the processor that accepted it
    pages,        \* pages in mInBufferQueue of its IOBuffer
    nullBack,     \* NULL is at the back of that queue
    deleted,      \* connections whose object was deleted
    accepted,     \* number of connections accepted so far
    (* of the processors *)
    pc,           \* the step of MainLoop
    batch,        \* events epoll_wait returned that Next has not: connection -> operations
    cur, op,      \* the connection in HandleEvent, and the operations left for it
    freePages,    \* free pages of the pool
    (* of the kernel and the clients *)
    fdTable,      \* descriptor -> the connection it is open for
    epoll,        \* processor -> {<<descriptor, connection>>} registered
    backlog,      \* clients waiting in the accept queue of a processor's listener
    unread,       \* bytes have arrived that were not read
    peer          \* what the client did last: "open", "fin" or "rst"

bufferVars == <<pages, nullBack>>
connVars == <<mSockFD, mProcessor, bufferVars, deleted, accepted>>
loopVars == <<pc, batch, cur, op>>
netVars == <<backlog, unread, peer>>
vars == <<connVars, loopVars, freePages, fdTable, epoll, netVars>>

Init ==
    /\ mSockFD = [c \in Conns |-> NoFd]
    /\ mProcessor = [c \in Conns |-> NoProc]
    /\ pages = [c \in Conns |-> 0]
    /\ nullBack = [c \in Conns |-> FALSE]
    /\ deleted = {}
    /\ accepted = 0
    /\ pc = [p \in Procs |-> "wait"]
    /\ batch = [p \in Procs |-> {}]
    /\ cur = [p \in Procs |-> NoConn]
    /\ op = [p \in Procs |-> {}]
    /\ freePages = [p \in Procs |-> MaxPages]
    /\ fdTable = [f \in Fds |-> NoConn]
    /\ epoll = [p \in Procs |-> {}]
    /\ backlog = [p \in Procs |-> FALSE]
    /\ unread = [c \in Conns |-> FALSE]
    /\ peer = [c \in Conns |-> "open"]

IsGood(c) == mSockFD[c] > 0

-----------------------------------------------------------------------------
(* The clients *)

\* Clients that connected, accepted or not: MaxConns bounds them.
Arrived == accepted + Cardinality({p \in Procs : backlog[p]})

\* A client connects; the kernel gives it to one of the listeners.
ClientConnects(p) ==
    /\ ~backlog[p]
    /\ Arrived < MaxConns
    /\ backlog' = [backlog EXCEPT ![p] = TRUE]
    /\ UNCHANGED <<connVars, loopVars, freePages, fdTable, epoll, unread, peer>>

Connected(c) == \E f \in Fds : fdTable[f] = c

ClientSends(c) ==
    /\ Connected(c) /\ peer[c] = "open" /\ ~unread[c]
    /\ unread' = [unread EXCEPT ![c] = TRUE]
    /\ UNCHANGED <<connVars, loopVars, freePages, fdTable, epoll, backlog, peer>>

ClientCloses(c) ==
    /\ Connected(c) /\ peer[c] = "open"
    /\ peer' = [peer EXCEPT ![c] = "fin"]
    /\ UNCHANGED <<connVars, loopVars, freePages, fdTable, epoll, backlog, unread>>

\* A reset discards what was not read.
ClientResets(c) ==
    /\ Connected(c) /\ peer[c] # "rst"
    /\ peer' = [peer EXCEPT ![c] = "rst"]
    /\ unread' = [unread EXCEPT ![c] = FALSE]
    /\ UNCHANGED <<connVars, loopVars, freePages, fdTable, epoll, backlog>>

Client ==
    \/ \E p \in Procs : ClientConnects(p)
    \/ \E c \in Conns : ClientSends(c) \/ ClientCloses(c) \/ ClientResets(c)

-----------------------------------------------------------------------------
(* MainLoop: wait for events, handle them one after the other *)

\* The operations level-triggered epoll reports for a connection: a close by
\* the peer is a readable end of file, a reset is an error and a hangup too.
Ops(c) ==
    (IF unread[c] \/ peer[c] # "open" THEN {"IN"} ELSE {})
        \cup (IF peer[c] = "rst" THEN {"ERR"} ELSE {})

ReadyEvents(p) ==
    {<<e[2], Ops(e[2])>> : e \in {x \in epoll[p] : Ops(x[2]) # {}}}
        \cup (IF backlog[p] THEN {<<Listener, {"IN"}>>} ELSE {})

EpollWait(p) ==
    /\ pc[p] = "wait"
    /\ ReadyEvents(p) # {}
    /\ batch' = [batch EXCEPT ![p] = ReadyEvents(p)]
    /\ pc' = [pc EXCEPT ![p] = "next"]
    /\ UNCHANGED <<connVars, cur, op, freePages, fdTable, epoll, netVars>>

\* The batch is used up: the next turn of the loop begins.
EndOfBatch(p) ==
    /\ pc[p] = "next"
    /\ batch[p] = {}
    /\ pc' = [pc EXCEPT ![p] = "wait"]
    /\ UNCHANGED <<connVars, batch, cur, op, freePages, fdTable, epoll, netVars>>

\* Mutant of NextEvent: the event is not taken out of the batch.
NextEventAgain(p) ==
    /\ pc[p] = "next"
    /\ \E e \in batch[p] :
        /\ e[1] # Listener
        /\ cur' = [cur EXCEPT ![p] = e[1]]
        /\ op' = [op EXCEPT ![p] = IF IsGood(e[1]) THEN e[2] ELSE {"CLOSE"}]
        /\ pc' = [pc EXCEPT ![p] = "handle"]
    /\ UNCHANGED <<connVars, batch, freePages, fdTable, epoll, netVars>>

\* Next and the test at the top of NetConnection::HandleEvent: a connection
\* whose socket is closed is closed again and then deleted.
NextEvent(p) ==
    /\ pc[p] = "next"
    /\ \E e \in batch[p] :
        /\ e[1] # Listener
        /\ batch' = [batch EXCEPT ![p] = @ \ {e}]
        /\ cur' = [cur EXCEPT ![p] = e[1]]
        /\ op' = [op EXCEPT ![p] = IF IsGood(e[1]) THEN e[2] ELSE {"CLOSE"}]
        /\ pc' = [pc EXCEPT ![p] = "handle"]
    /\ UNCHANGED <<connVars, freePages, fdTable, epoll, netVars>>

-----------------------------------------------------------------------------
(* NetConnection::HandleNewConnection and Acceptor::RecvConnection *)

FreeFds == {f \in Fds : fdTable[f] = NoConn}

\* Mutant of AcceptConnection: SetProcessor is not called.
AcceptNoProcessor(p) ==
    LET c == accepted + 1
    IN  \E f \in FreeFds :
            /\ \A g \in FreeFds : f <= g
            /\ backlog' = [backlog EXCEPT ![p] = FALSE]
            /\ accepted' = c
            /\ fdTable' = [fdTable EXCEPT ![f] = c]
            /\ mSockFD' = [mSockFD EXCEPT ![c] = f]
            /\ epoll' \in {epoll, [epoll EXCEPT ![p] = @ \cup {<<f, c>>}]}
            /\ UNCHANGED mProcessor

\* accept takes the lowest free descriptor, the new NetConnection is given its
\* ClientSM and AddConnectionToEpoll registers it; if epoll_ctl refuses, that
\* is logged and the connection stays open, unwatched.
AcceptConnection(p) ==
    LET c == accepted + 1
    IN  \E f \in FreeFds :
            /\ \A g \in FreeFds : f <= g
            /\ backlog' = [backlog EXCEPT ![p] = FALSE]
            /\ accepted' = c
            /\ fdTable' = [fdTable EXCEPT ![f] = c]
            /\ mSockFD' = [mSockFD EXCEPT ![c] = f]
            /\ mProcessor' = [mProcessor EXCEPT ![c] = p]
            /\ epoll' \in {epoll, [epoll EXCEPT ![p] = @ \cup {<<f, c>>}]}

\* accept fails for want of a descriptor: logged, the client keeps waiting.
AcceptFails ==
    /\ FreeFds = {}
    /\ UNCHANGED <<accepted, mSockFD, mProcessor, fdTable, epoll, backlog>>

HandleNewConnection(p) ==
    /\ pc[p] = "next"
    /\ \E e \in batch[p] :
        /\ e[1] = Listener
        /\ batch' = [batch EXCEPT ![p] = @ \ {e}]
    /\ AcceptConnection(p) \/ AcceptFails
    /\ UNCHANGED <<bufferVars, deleted, pc, cur, op, freePages, unread, peer>>

-----------------------------------------------------------------------------
(* NetConnection::HandleEvent: read, then error, then return *)

\* HandleCloseEvent is entered, and what is left of the event comes after it.
CloseNext(p, done) ==
    /\ pc' = [pc EXCEPT ![p] = "del"]
    /\ op' = [op EXCEPT ![p] = @ \ done]

GoOn(p, done) ==
    /\ op' = [op EXCEPT ![p] = @ \ done]
    /\ UNCHANGED pc

\* IOBuffer::Read has no page and gets none: it returns -3 without reading the
\* socket, and errno is what an earlier call left there, EAGAIN or not.
ReadStarved(p, c) ==
    /\ pages[c] = 0 /\ freePages[p] = 0
    /\ GoOn(p, {"IN"}) \/ CloseNext(p, {"IN"})
    /\ UNCHANGED <<bufferVars, freePages, unread>>

\* Read finds a page in the queue, or the pool has one for an empty queue.
HasPage(p, c) == pages[c] > 0 \/ freePages[p] > 0
FirstPage(c) == IF pages[c] = 0 THEN 1 ELSE 0

\* Mutant of TakePages: a page is taken though the queue has one.
TakePagesAlways(p, c, more) ==
    /\ HasPage(p, c)
    /\ pages' = [pages EXCEPT ![c] = @ + FirstPage(c) + more]
    /\ freePages' = [freePages EXCEPT ![p] = @ - 1 - more]

\* The page of an empty queue, taken before the socket is read, and more (0 or
\* 1) pages after that.
TakePages(p, c, more) ==
    /\ HasPage(p, c)
    /\ pages' = [pages EXCEPT ![c] = @ + FirstPage(c) + more]
    /\ freePages' = [freePages EXCEPT ![p] = @ - FirstPage(c) - more]

\* The bytes leave room in the page: ClientSM gets them, and its answer is not
\* looked at.  GetReadData gives back a page when what it reads crosses into
\* the next one; of those the pool may refuse its last page.
ReadData(p, c) ==
    /\ unread[c] /\ peer[c] # "rst" /\ ~nullBack[c]
    /\ HasPage(p, c)
    /\ \E back \in 0 .. pages[c] + FirstPage(c) - 1, refused \in 0 .. 1 :
        /\ refused <= back
        /\ pages' = [pages EXCEPT ![c] = @ + FirstPage(c) - back]
        /\ freePages' = [freePages EXCEPT ![p] = @ - FirstPage(c) + back - refused]
    /\ unread' = [unread EXCEPT ![c] = FALSE]
    /\ GoOn(p, {"IN"})
    /\ UNCHANGED nullBack

\* The bytes fill the page: Read pushes what Get returns, a page or NULL, and
\* reads on; more bytes may be there.
ReadFillsPage(p, c) ==
    LET left == freePages[p] - FirstPage(c)
        more == IF left > 0 THEN 1 ELSE 0
    IN  /\ unread[c] /\ peer[c] # "rst" /\ ~nullBack[c]
        /\ TakePages(p, c, more)
        /\ nullBack' = [nullBack EXCEPT ![c] = more = 0]
        /\ unread' \in {unread, [unread EXCEPT ![c] = FALSE]}
        /\ GoOn(p, {})

\* Nothing more is there (EAGAIN): Read returns the -1, and ClientSM does not
\* hear of the pages that were filled.
ReadNothing(p, c) ==
    /\ ~unread[c] /\ peer[c] = "open"
    /\ GoOn(p, {"IN"})
    /\ UNCHANGED <<bufferVars, freePages, unread>>

\* Mutant of ReadIntoNull: the error is not acted on.
ReadIntoNullKept(p, c) ==
    /\ unread[c] /\ peer[c] # "rst" /\ nullBack[c]
    /\ GoOn(p, {"IN"})
    /\ UNCHANGED <<bufferVars, freePages, unread>>

\* Bytes are there and NULL is where they should go (EFAULT): HandleErrorEvent.
ReadIntoNull(p, c) ==
    /\ unread[c] /\ peer[c] # "rst" /\ nullBack[c]
    /\ CloseNext(p, {"IN"})
    /\ UNCHANGED <<bufferVars, freePages, unread>>

\* Mutant of ReadEnds: the end of file is not acted on.
ReadEndsIgnored(p, c) ==
    /\ ~unread[c] /\ peer[c] # "open"
    /\ TakePages(p, c, 0)
    /\ GoOn(p, {"IN"})
    /\ UNCHANGED <<nullBack, unread>>

\* read returns 0, or fails with ECONNRESET: HandleCloseEvent, at once or by
\* way of HandleErrorEvent.
ReadEnds(p, c) ==
    /\ ~unread[c] /\ peer[c] # "open"
    /\ TakePages(p, c, 0)
    /\ CloseNext(p, {"IN"})
    /\ UNCHANGED <<nullBack, unread>>

Read(p, c) ==
    \/ ReadStarved(p, c)
    \/ ReadData(p, c)
    \/ ReadFillsPage(p, c)
    \/ ReadNothing(p, c)
    \/ ReadIntoNull(p, c)
    \/ ReadEnds(p, c)

HandleRead(p) ==
    /\ pc[p] = "handle"
    /\ "IN" \in op[p]
    /\ Read(p, cur[p])
    /\ UNCHANGED <<mSockFD, mProcessor, deleted, accepted, batch, cur, fdTable, epoll,
                   backlog, peer>>

\* Mutant of HandleErrorOrClose: the error is only logged.
HandleErrorLogged(p) ==
    /\ pc[p] = "handle"
    /\ "IN" \notin op[p]
    /\ op[p] \cap {"ERR", "CLOSE"} # {}
    /\ GoOn(p, {"ERR"})
    /\ UNCHANGED <<connVars, batch, cur, freePages, fdTable, epoll, netVars>>

\* HandleErrorEvent after the read, and the branch for a closed socket, both
\* come down to HandleCloseEvent.
HandleErrorOrClose(p) ==
    /\ pc[p] = "handle"
    /\ "IN" \notin op[p]
    /\ op[p] \cap {"ERR", "CLOSE"} # {}
    /\ CloseNext(p, {"ERR"})
    /\ UNCHANGED <<connVars, batch, cur, freePages, fdTable, epoll, netVars>>

\* HandleEvent returns to MainLoop.  Only the branch for a closed socket returns
\* EVENT_NET_CLOSE; the other ends without a return, and what the build leaves
\* in the register there is op & (EPOLLERR|EPOLLHUP) or half of an aligned
\* address, which is not EVENT_NET_CLOSE.
HandleEventReturns(p) ==
    /\ pc[p] = "handle"
    /\ op[p] \subseteq {"CLOSED"}
    /\ deleted' = IF "CLOSED" \in op[p] THEN deleted \cup {cur[p]} ELSE deleted
    /\ pc' = [pc EXCEPT ![p] = "next"]
    /\ cur' = [cur EXCEPT ![p] = NoConn]
    /\ op' = [op EXCEPT ![p] = {}]
    /\ UNCHANGED <<mSockFD, mProcessor, bufferVars, accepted, batch, freePages, fdTable, epoll,
                   netVars>>

-----------------------------------------------------------------------------
(* NetConnection::HandleCloseEvent: DeleteFromEpoll, then TcpSocket::Close *)

\* epoll_ctl for the descriptor GetSockFD returns; for -1 it only fails.
DeleteFromEpoll(p) ==
    /\ pc[p] = "del"
    /\ epoll' = [epoll EXCEPT ![p] = {e \in @ : e[1] # mSockFD[cur[p]]}]
    /\ pc' = [pc EXCEPT ![p] = "close"]
    /\ UNCHANGED <<connVars, batch, cur, op, freePages, fdTable, netVars>>

\* Mutant of CloseFd: the descriptor is not closed.
CloseFdForgotten(p) ==
    /\ pc[p] = "close"
    /\ pc' = [pc EXCEPT ![p] = "reset"]
    /\ UNCHANGED <<connVars, batch, cur, op, freePages, fdTable, epoll, netVars>>

\* close(mSockFD), if it is a descriptor: the number is free for any thread, and
\* the kernel forgets its registrations.
CloseFd(p) ==
    LET f == mSockFD[cur[p]]
    IN  /\ pc[p] = "close"
        /\ fdTable' = IF f > 0 THEN [fdTable EXCEPT ![f] = NoConn] ELSE fdTable
        /\ epoll' = IF f > 0 /\ fdTable[f] # NoConn
                    THEN [q \in Procs |-> epoll[q] \ {<<f, fdTable[f]>>}]
                    ELSE epoll
        /\ pc' = [pc EXCEPT ![p] = "reset"]
        /\ UNCHANGED <<connVars, batch, cur, op, freePages, netVars>>

\* Mutant of ResetFd: mSockFD keeps the closed number.
ResetFdForgotten(p) ==
    /\ pc[p] = "reset"
    /\ pc' = [pc EXCEPT ![p] = "handle"]
    /\ op' = [op EXCEPT ![p] = IF "CLOSE" \in @ THEN {"CLOSED"} ELSE @]
    /\ UNCHANGED <<connVars, batch, cur, freePages, fdTable, epoll, netVars>>

\* mSockFD = -1.
ResetFd(p) ==
    /\ pc[p] = "reset"
    /\ mSockFD' = [mSockFD EXCEPT ![cur[p]] = NoFd]
    /\ pc' = [pc EXCEPT ![p] = "handle"]
    /\ op' = [op EXCEPT ![p] = IF "CLOSE" \in @ THEN {"CLOSED"} ELSE @]
    /\ UNCHANGED <<mProcessor, bufferVars, deleted, accepted, batch, cur, freePages, fdTable,
                   epoll, netVars>>

HandleCloseEvent(p) == DeleteFromEpoll(p) \/ CloseFd(p) \/ ResetFd(p)

MainLoop(p) ==
    \/ EpollWait(p)
    \/ NextEvent(p)
    \/ HandleNewConnection(p)
    \/ HandleRead(p)
    \/ HandleErrorOrClose(p)
    \/ HandleCloseEvent(p)
    \/ HandleEventReturns(p)
    \/ EndOfBatch(p)

Next == Client \/ \E p \in Procs : MainLoop(p)

\* Every processor thread is scheduled; the clients do as they like.
Fairness == \A p \in Procs : WF_vars(MainLoop(p))

Spec == Init /\ [][Next]_vars /\ Fairness

-----------------------------------------------------------------------------
(* Properties *)

\* The state variables have their types.
TypeOK ==
    /\ mSockFD \in [Conns -> Fds \cup {NoFd}]
    /\ mProcessor \in [Conns -> Procs \cup {NoProc}]
    /\ pages \in [Conns -> 0 .. MaxPages]
    /\ nullBack \in [Conns -> BOOLEAN]
    /\ deleted \subseteq Conns
    /\ accepted \in 0 .. MaxConns
    /\ pc \in [Procs -> {"wait", "next", "handle", "del", "close", "reset"}]
    /\ \A p \in Procs : batch[p] \subseteq (Conns \cup {Listener}) \X SUBSET {"IN", "ERR"}
    /\ cur \in [Procs -> Conns \cup {NoConn}]
    /\ op \in [Procs -> SUBSET {"IN", "ERR", "CLOSE", "CLOSED"}]
    /\ freePages \in [Procs -> 0 .. MaxPages]
    /\ fdTable \in [Fds -> Conns \cup {NoConn}]
    /\ \A p \in Procs : epoll[p] \subseteq Fds \X Conns
    /\ backlog \in [Procs -> BOOLEAN]
    /\ unread \in [Conns -> BOOLEAN]
    /\ peer \in [Conns -> {"open", "fin", "rst"}]

\* The thread of c is between close() and mSockFD = -1.
Closing(c) == \E p \in Procs : pc[p] = "reset" /\ cur[p] = c

\* A connection's mSockFD is the descriptor that is open for it and for nobody
\* else, and no descriptor stays open without a connection that knows it; only
\* between close() and mSockFD = -1 does the connection hold a number that may
\* already be another's (netConnection.cc:124-133, tcpSocket.cc:138-143).
DescriptorsOwned ==
    \A c \in Conns, f \in Fds :
        IF fdTable[f] = c THEN mSockFD[c] = f ELSE mSockFD[c] = f => Closing(c)

\* An open descriptor is closed only by the thread that is closing the very
\* connection it is open for, although two branches of one event can both
\* close a connection and its number may be in use again by then
\* (netConnection.cc:28-40, 99-100, 135-139).
NoForeignClose ==
    [][\A f \in Fds :
           fdTable[f] # NoConn /\ fdTable'[f] # fdTable[f]
               => \E p \in Procs : pc[p] = "close" /\ cur[p] = fdTable[f]]_vars

\* Whatever is registered in a processor's epoll is an open connection of that
\* processor, under its own descriptor (processor.cc:10-28, 52-66): HandleCloseEvent
\* finds the epoll to remove it from.
WatchedByOwner ==
    \A p \in Procs : \A e \in epoll[p] :
        fdTable[e[1]] = e[2] /\ mSockFD[e[2]] = e[1] /\ mProcessor[e[2]] = p

\* The events still to be handled are for open connections of this processor,
\* whatever the events handled before them closed (processor.cc:110-119): no
\* event reaches a closed connection.
EventsOnlyForOpen ==
    \A p \in Procs : \A e \in batch[p] :
        e[1] # Listener => IsGood(e[1]) /\ mProcessor[e[1]] = p

\* The connection has no page and its processor's pool has none left.
Starved(c) == mProcessor[c] \in Procs /\ pages[c] = 0 /\ freePages[mProcessor[c]] = 0

Watched(c) == \E p \in Procs, f \in Fds : <<f, c>> \in epoll[p]

Closed(c) == c <= accepted /\ mSockFD[c] = NoFd

\* Bytes that arrive at a watched connection are read, unless there is no page for the
\* first of them.  Where the pool had none for the next, Read goes on with NULL, and
\* bytes that follow close the connection (netConnection.cc:78-94, ioBuffer.cc:97-122).
DataIsRead ==
    \A c \in Conns : Watched(c) /\ unread[c] ~>
        \/ ~unread[c]
        \/ Starved(c)
        \/ nullBack[c] /\ Closed(c)

\* The end of the peer's stream closes a watched connection, also one that reads into
\* NULL, unless there is no page for it: Read then returns before it looks at the
\* socket (netConnection.cc:95-101, ioBuffer.cc:98-101).
EndCloses == \A c \in Conns : Watched(c) /\ peer[c] = "fin" ~> Closed(c) \/ Starved(c)

\* A reset closes a watched connection even if the pool has run dry: the error
\* branch does what the read could not (netConnection.cc:37-41).
ResetCloses == \A c \in Conns : Watched(c) /\ peer[c] = "rst" ~> Closed(c)

\* "delete the NetConnection obj after a little seconds" (processor.cc:68-70):
\* a connection that was closed is deleted.
ClosedIsDeleted == \A c \in Conns : Closed(c) ~> c \in deleted
=============================================================================
