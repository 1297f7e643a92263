------------------------------ MODULE WriteBuffer ------------------------------
(***************************************************************************)
(* How a connection answers its client: NetConnection::Write tries the     *)
(* socket and leaves what it does not take to IOBuffer::Append, and        *)
(* HandleWriteEvent sends that with IOBuffer::Write when the socket has    *)
(* room again (iolib/netConnection.cc, iolib/ioBuffer.cc).  All of it runs *)
(* in the processor's thread.  A byte is its position in what the handlers *)
(* passed to Write; no handler in the sources calls Write yet.             *)
(***************************************************************************)
EXTENDS Integers, Sequences, SequencesExt

CONSTANTS
    PageSize,   \* BUFFERPOOLPAGESIZE
    Lens,       \* lengths passed to Write
    MaxBytes    \* bound: bytes passed to Write

ASSUME WriteBufferAssumption ==
    /\ PageSize \in Nat \ {0}
    /\ Lens \subseteq Nat \ {0}
    /\ MaxBytes \in Nat

VARIABLES
    mOutBufferQueue,    \* the pages, each as its content
    mNeedWrite, mLeftOfWriteBuffer, mRightOfWriteBuffer,
    written,    \* bytes handlers passed to Write
    dropped,    \* bytes of those Append refused
    wire,       \* the bytes the socket took, in order
    watched,    \* EPOLLOUT is registered
    pc,         \* "idle", "out" in IOBuffer::Write, "failed" after it, "closed" or "wild"
    (* history *)
    overtaken,  \* the socket took bytes while earlier ones were buffered
    damage      \* what Append did to bytes: "dropped", "stale", "crossed"

bufferVars == <<mOutBufferQueue, mNeedWrite, mLeftOfWriteBuffer, mRightOfWriteBuffer>>
vars == <<bufferVars, written, dropped, wire, watched, pc, overtaken, damage>>

Junk == 0   \* content of a new page
Bytes(first, len) == [i \in 1 .. len |-> first + i - 1]

Init ==
    /\ mOutBufferQueue = <<>>
    /\ mNeedWrite = 0 /\ mLeftOfWriteBuffer = 0 /\ mRightOfWriteBuffer = 0
    /\ written = 0 /\ dropped = 0 /\ wire = <<>>
    /\ watched = FALSE /\ pc = "idle"
    /\ overtaken = FALSE /\ damage = {}

-----------------------------------------------------------------------------
(* IOBuffer::Append of the bytes from first on *)

\* Mutant of Crosses: a byte too many fits.
CrossesLate(len) == mRightOfWriteBuffer + len > PageSize + 1

Crosses(len) == mRightOfWriteBuffer + len > PageSize

\* The last page with the bytes from first on in its slots from at on.
Put(page, at, first, len) ==
    [i \in DOMAIN page |-> IF i \in at .. at + len - 1 THEN first + i - at ELSE page[i]]

NewPage == [i \in 0 .. PageSize - 1 |-> Junk]
BackPage == IF mOutBufferQueue = <<>> THEN NewPage ELSE Last(mOutBufferQueue)

\* A page is needed and the pool has none: what is said of it is only logged.
AppendRefused(len) ==
    /\ mOutBufferQueue = <<>>
    /\ ~Crosses(len) \/ mRightOfWriteBuffer = PageSize
    /\ dropped' = dropped + len
    /\ damage' = damage \cup {"dropped"}
    /\ UNCHANGED <<bufferVars, pc>>

\* The bytes go behind mRightOfWriteBuffer of the last page, which may be a new
\* one whose beginning then stays junk.
AppendIn(first, len, right) ==
    /\ ~Crosses(len)
    /\ mOutBufferQueue' = <<Put(BackPage, mRightOfWriteBuffer, first, len)>>
    /\ mRightOfWriteBuffer' = right
    /\ damage' = IF mOutBufferQueue = <<>> /\ mRightOfWriteBuffer > 0
                 THEN damage \cup {"stale"} ELSE damage
    /\ mNeedWrite' = mNeedWrite + len
    /\ UNCHANGED <<mLeftOfWriteBuffer, dropped, pc>>

\* Mutant of AppendFits: the end of the data does not move.
AppendFitsNoMove(first, len) == AppendIn(first, len, mRightOfWriteBuffer)

AppendFits(first, len) == AppendIn(first, len, mRightOfWriteBuffer + len)

\* The bytes reach past the page.  The end of the page takes the first of them,
\* no page is added, and its beginning takes the same first bytes again, as often
\* as the length asks for.
AppendCrosses(first, len) ==
    LET end == mRightOfWriteBuffer + len
        rest == ((end - 1) % PageSize) + 1
        tail == Put(BackPage, mRightOfWriteBuffer, first, PageSize - mRightOfWriteBuffer)
        full == IF end > 2 * PageSize THEN Put(tail, 0, first, PageSize) ELSE tail
    IN  /\ Crosses(len)
        /\ mOutBufferQueue # <<>> \/ mRightOfWriteBuffer = PageSize
        /\ mOutBufferQueue' = <<Put(full, 0, first, rest)>>
        /\ mRightOfWriteBuffer' = rest
        /\ damage' = IF mOutBufferQueue = <<>> /\ end <= 2 * PageSize
                     THEN damage ELSE damage \cup {"crossed"}
        /\ mNeedWrite' = mNeedWrite + len
        /\ UNCHANGED <<mLeftOfWriteBuffer, dropped, pc>>

\* They do and there is no page: back() of an empty queue is written to, and
\* nothing can be said of the process from there on.
AppendWild(len) ==
    /\ Crosses(len) /\ mOutBufferQueue = <<>> /\ mRightOfWriteBuffer < PageSize
    /\ pc' = "wild"
    /\ UNCHANGED <<bufferVars, dropped, damage>>

\* Append(buf, len), and its result is not looked at.
AppendOut(first, len) ==
    AppendRefused(len) \/ AppendFits(first, len) \/ AppendCrosses(first, len) \/ AppendWild(len)

-----------------------------------------------------------------------------
(* NetConnection::Write, called by a handler *)

\* EPOLLOUT is registered beside EPOLLIN, or not; the system is taken to accept it.
ModConnectionToEpoll(out) == watched' = out

\* The socket takes n of len bytes at once, whether earlier ones are buffered or not.
SocketTakes(len, n) ==
    /\ pc = "idle" /\ written + len <= MaxBytes
    /\ written' = written + len
    /\ wire' = wire \o Bytes(written + 1, n)
    /\ overtaken' = (overtaken \/ (n > 0 /\ mNeedWrite > 0))

WriteAll(len) ==
    /\ SocketTakes(len, len)
    /\ UNCHANGED <<bufferVars, dropped, watched, pc, damage>>

\* Mutant of WriteRest: nobody waits for room in the socket.
WriteRestUnwatched(len, n) ==
    /\ SocketTakes(len, n)
    /\ AppendOut(written + n + 1, len - n)
    /\ UNCHANGED watched

\* Less than all, nothing with EAGAIN: the rest is appended and EPOLLOUT registered.
WriteRest(len, n) ==
    /\ SocketTakes(len, n)
    /\ AppendOut(written + n + 1, len - n)
    /\ ModConnectionToEpoll(TRUE)

Write(len) == WriteAll(len) \/ \E n \in 0 .. len - 1 : WriteRest(len, n)

\* Any other error of the socket, or of the connection: HandleErrorEvent closes it.
HandleErrorEvent(at) ==
    /\ pc = at
    /\ pc' = "closed"
    /\ watched' = FALSE
    /\ UNCHANGED <<bufferVars, written, dropped, wire, overtaken, damage>>

-----------------------------------------------------------------------------
(* NetConnection::HandleWriteEvent and IOBuffer::Write *)

\* EPOLLOUT is reported: the socket has room.
HandleWriteEvent ==
    /\ pc = "idle" /\ watched
    /\ IF mNeedWrite = 0
       THEN ModConnectionToEpoll(FALSE) /\ UNCHANGED pc
       ELSE pc' = "out" /\ UNCHANGED watched
    /\ UNCHANGED <<bufferVars, written, dropped, wire, overtaken, damage>>

\* What is tried next: what the first page holds from mLeftOfWriteBuffer on.
ToSend ==
    IF mNeedWrite + mLeftOfWriteBuffer < PageSize THEN mNeedWrite
    ELSE PageSize - mLeftOfWriteBuffer

Sent(n) == wire \o [i \in 1 .. n |-> Head(mOutBufferQueue)[mLeftOfWriteBuffer + i - 1]]

\* The page is sent and reclaimed; the end of the data is not reset.
SendAll ==
    /\ pc = "out" /\ mOutBufferQueue # <<>>
    /\ wire' = Sent(ToSend)
    /\ mNeedWrite' = mNeedWrite - ToSend
    /\ mLeftOfWriteBuffer' = 0
    /\ mOutBufferQueue' = Tail(mOutBufferQueue)
    /\ UNCHANGED <<mRightOfWriteBuffer, written, dropped, watched, pc, overtaken, damage>>

\* The socket takes n bytes of the page, left is what mNeedWrite becomes.
SendPart(n, left) ==
    /\ pc = "out" /\ mOutBufferQueue # <<>>
    /\ wire' = Sent(n)
    /\ mNeedWrite' = left
    /\ mLeftOfWriteBuffer' = mLeftOfWriteBuffer + n
    /\ pc' = "idle"
    /\ UNCHANGED <<mOutBufferQueue, mRightOfWriteBuffer, written, dropped, watched, overtaken,
                   damage>>

\* Mutant of SendSome: mNeedWrite still counts the bytes sent.
SendSomeUncounted == \E n \in 1 .. ToSend - 1 : SendPart(n, mNeedWrite)

\* The socket takes less than the page holds: Write returns -1, the next event goes on.
SendSome == \E n \in 1 .. ToSend - 1 : SendPart(n, mNeedWrite - n)

\* An error is only logged; the error branch of HandleEvent comes after it.
SendFails ==
    /\ pc = "out" /\ mOutBufferQueue # <<>>
    /\ pc' = "failed"
    /\ UNCHANGED <<bufferVars, written, dropped, wire, watched, overtaken, damage>>

\* No page is left: Write returns 0 and EPOLLOUT is no longer wanted.
AllSent ==
    /\ pc = "out" /\ mOutBufferQueue = <<>>
    /\ pc' = "idle"
    /\ ModConnectionToEpoll(FALSE)
    /\ UNCHANGED <<bufferVars, written, dropped, wire, overtaken, damage>>

Flush == HandleWriteEvent \/ SendAll \/ SendSome \/ SendFails \/ AllSent \/ HandleErrorEvent("failed")

Next == (\E len \in Lens : Write(len)) \/ HandleErrorEvent("idle") \/ Flush

\* The client keeps reading, so that room comes again, and the thread handles it.
Spec == Init /\ [][Next]_vars /\ WF_vars(Flush)

-----------------------------------------------------------------------------
(* Properties *)

\* The state variables have their types; the queue never holds a second page.
TypeOK ==
    /\ Len(mOutBufferQueue) <= 1
    /\ BackPage \in [0 .. PageSize - 1 -> 0 .. written]
    /\ mNeedWrite \in 0 .. MaxBytes
    /\ mLeftOfWriteBuffer \in 0 .. PageSize - 1
    /\ mRightOfWriteBuffer \in 0 .. PageSize
    /\ written \in 0 .. MaxBytes /\ dropped \in 0 .. MaxBytes
    /\ wire \in Seq(0 .. MaxBytes)
    /\ watched \in BOOLEAN
    /\ pc \in {"idle", "out", "failed", "closed", "wild"}
    /\ overtaken \in BOOLEAN /\ damage \subseteq {"dropped", "stale", "crossed"}

\* Every byte passed to Write was taken by the socket, waits in mNeedWrite, or was
\* dropped by Append for want of a page, once, however sends and appends follow
\* each other; even when other bytes are sent in its place (netConnection.cc:146-175,
\* ioBuffer.cc:137-168, 173-212).
BytesCounted == pc # "wild" => written = Len(wire) + mNeedWrite + dropped

\* While bytes wait there is a page that holds them and EPOLLOUT is registered, so
\* that somebody will send them, unless an append crossed the page: then Write
\* returns 0 and EPOLLOUT is given up with bytes left (ioBuffer.cc:143-167,
\* netConnection.cc:104-115).
WaitingIsWatched ==
    pc \in {"idle", "out"} /\ mNeedWrite > 0 /\ "crossed" \notin damage
        => mOutBufferQueue # <<>> /\ watched

\* The client receives the bytes passed to Write, in order and without a gap, unless
\* a write went past buffered bytes, a page was taken into use after mRightOfWriteBuffer
\* had moved, an append crossed its page, or bytes were dropped (ioBuffer.cc:143-165,
\* 178-212, netConnection.cc:152-174).
SentInOrderUnless == ~overtaken /\ damage = {} => IsPrefix(wire, Bytes(1, written))

\* Bytes that wait are all sent as long as the client reads and the connection stays
\* open, unless an append crossed its page or wrote without one (netConnection.cc:104-121).
WaitingIsSent ==
    mNeedWrite > 0 ~> mNeedWrite = 0 \/ pc \in {"closed", "wild"} \/ "crossed" \in damage
=============================================================================
