------------------------------ MODULE ReadBuffer ------------------------------
(***************************************************************************)
(* How the bytes of one connection become messages: IOBuffer::Read fills   *)
(* the pages of mInBufferQueue from the socket, GetReadData takes bytes    *)
(* out again (iolib/ioBuffer.cc), and ClientSM::HandleRequest              *)
(* (src/clientSM.cc) asks it for a head and then for the body the head     *)
(* announces.  A byte is its position in the client's stream.  The page    *)
(* pool is the one BufferPool describes: Get returns any free page, and    *)
(* Reclaim works on whatever address it is given.                          *)
(***************************************************************************)
EXTENDS Integers, Sequences, FiniteSets, SequencesExt

CONSTANTS
    PageSize,   \* BUFFERPOOLPAGESIZE
    HeadLen,    \* sizeof(Head)
    PoolPages,  \* pages of the processor's pool
    MaxMsgs,    \* bound: messages the client has to send
    BodyLens,   \* lengths of their bodies
    WildLens    \* what mBodyLen may be when no head is there

ASSUME ReadBufferAssumption ==
    /\ PageSize \in Nat \ {0} /\ HeadLen \in 1 .. PageSize
    /\ PoolPages \in Nat \ {0} /\ MaxMsgs \in Nat
    /\ BodyLens \subseteq Nat /\ WildLens \subseteq Nat

Pages == 1 .. PoolPages
NULL == 0      \* what Get returns from an empty pool
NoByte == 0    \* content of memory nobody wrote for this stream
Blank == [i \in 0 .. PageSize - 1 |-> NoByte]

VARIABLES
    (* of the client and the socket *)
    msgs,       \* the lengths of the bodies the client sends, never changed
    arrived,    \* bytes that reached the socket
    taken,      \* bytes the server read from it
    fin,        \* the client closed
    (* of the IOBuffer *)
    mInBufferQueue, mLeftOfReadBuffer, mRightOfReadBuffer, mReadBufferLen,
    (* of the pool *)
    mem,        \* content of the pages
    free,       \* pages Get can return
    (* of the thread *)
    pc,         \* "wait", "read", "head", "body" or "closed"
    readed,     \* bytes read by this call of Read
    mBodyLen,   \* of the head in use
    handled,    \* bodies ClientSM was given until the first split, as the bytes it finds
    (* history *)
    split,      \* a head or a body was taken across pages, or before it was complete
    exact,      \* a page was read to its last byte while more was buffered: "no",
                \* "atEnd", or "misgiven" once Reclaim was told of the page behind it;
                \* that page then has two owners, and no further event is followed
    heldBack    \* why buffered bytes may wait: "no", "untold", "emptyBody", "starved"

socketVars == <<msgs, arrived, fin>>
rangeVars == <<mLeftOfReadBuffer, mRightOfReadBuffer, mReadBufferLen>>
bufferVars == <<mInBufferQueue, rangeVars>>
poolVars == <<mem, free>>
historyVars == <<split, exact, heldBack>>
vars == <<socketVars, taken, bufferVars, poolVars, pc, readed, mBodyLen, handled,
          historyVars>>

\* Position of the last byte of message k.
MsgEnd == LET e[k \in 0 .. MaxMsgs] == IF k = 0 THEN 0 ELSE e[k - 1] + HeadLen + msgs[k]
          IN  e
StreamLen == MsgEnd[MaxMsgs]

Bytes(first, len) == [i \in 1 .. len |-> first + i - 1]
HeadBytes(k) == Bytes(MsgEnd[k - 1] + 1, HeadLen)
BodyBytes(k) == Bytes(MsgEnd[k - 1] + HeadLen + 1, msgs[k])

Init ==
    /\ msgs \in [1 .. MaxMsgs -> BodyLens]
    /\ arrived = 0 /\ taken = 0 /\ fin = FALSE
    /\ mInBufferQueue = <<>>
    /\ mLeftOfReadBuffer = 0 /\ mRightOfReadBuffer = 0 /\ mReadBufferLen = 0
    /\ mem = [p \in Pages |-> Blank]
    /\ free \in SUBSET Pages
    /\ pc = "wait" /\ readed = 0 /\ mBodyLen = 0
    /\ handled = <<>>
    /\ split = FALSE /\ exact = "no" /\ heldBack = "no"

-----------------------------------------------------------------------------
(* The client *)

\* While ClientSM works nothing looks at the socket, so what arrives then may
\* as well arrive just after.
ClientSends ==
    /\ pc \in {"wait", "read"} /\ ~fin
    /\ \E n \in arrived + 1 .. StreamLen : arrived' = n
    /\ UNCHANGED <<msgs, taken, fin, bufferVars, poolVars, pc, readed, mBodyLen, handled,
                   historyVars>>

ClientCloses ==
    /\ pc \in {"wait", "read"} /\ ~fin
    /\ fin' = TRUE
    /\ UNCHANGED <<msgs, arrived, taken, bufferVars, poolVars, pc, readed, mBodyLen, handled,
                   historyVars>>

-----------------------------------------------------------------------------
(* IOBuffer::Read, called by NetConnection::HandleReadEvent *)

\* Since its last event the same thread served other connections, which took
\* pages and gave some back; the pool does not take its last page back.
HandleReadEvent ==
    /\ pc = "wait" /\ exact # "misgiven"
    /\ arrived > taken \/ fin
    /\ free' \in SUBSET (Pages \ ToSet(mInBufferQueue))
    /\ PoolPages \in free' => PoolPages \in free
    /\ pc' = "read"
    /\ UNCHANGED <<socketVars, taken, bufferVars, mem, readed, mBodyLen, handled, historyVars>>

Back == Last(mInBufferQueue)
ReadLen == PageSize - mRightOfReadBuffer
Unread == arrived - taken

ReadFirstPage ==
    /\ pc = "read"
    /\ mInBufferQueue = <<>>
    /\ \E p \in free : mInBufferQueue' = <<p>> /\ free' = free \ {p}
    /\ UNCHANGED <<socketVars, taken, rangeVars, mem, pc, readed, mBodyLen, handled,
                   historyVars>>

\* Read returns no number of bytes, and ClientSM is not called: the connection
\* waits for its next event or is closed.
ReadReturns(next, why) ==
    /\ pc' \in next
    /\ heldBack' = why
    /\ readed' = 0
    /\ UNCHANGED <<socketVars, taken, bufferVars, poolVars, mBodyLen, handled, split, exact>>

\* No page for an empty queue; errno is an older call's, EAGAIN or not.
ReadStarved ==
    /\ pc = "read"
    /\ mInBufferQueue = <<>> /\ free = {}
    /\ ReadReturns({"wait", "closed"}, "starved")

\* What the bytes read by this call become when it returns an error or the end.
Untold == IF readed > 0 THEN "untold" ELSE heldBack

\* Nothing more is there: EAGAIN, or the end of the stream.
ReadNothing ==
    /\ pc = "read"
    /\ mInBufferQueue # <<>> /\ Unread = 0
    /\ IF fin THEN ReadReturns({"closed"}, Untold) ELSE ReadReturns({"wait"}, Untold)

\* read(fd, NULL, ...) fails with EFAULT.
ReadIntoNull ==
    /\ pc = "read"
    /\ mInBufferQueue # <<>> /\ Unread > 0 /\ Back = NULL
    /\ ReadReturns({"closed"}, "starved")

\* n bytes of the stream go behind mRightOfReadBuffer of the last page.
CopyIn(n) ==
    /\ mem' = [mem EXCEPT ![Back] =
           [i \in DOMAIN @ |-> IF i \in mRightOfReadBuffer .. mRightOfReadBuffer + n - 1
                               THEN taken + 1 + i - mRightOfReadBuffer ELSE @[i]]]
    /\ taken' = taken + n
    /\ mReadBufferLen' = mReadBufferLen + n

\* Read returns the bytes it has, and ClientSM is called.
ReturnBytes(n) ==
    /\ pc = "read"
    /\ mInBufferQueue # <<>> /\ Unread > 0 /\ Unread <= n /\ Back # NULL
    /\ CopyIn(Unread)
    /\ mRightOfReadBuffer' = mRightOfReadBuffer + Unread
    /\ readed' = 0
    /\ heldBack' = "no"
    /\ pc' = "head"
    /\ UNCHANGED <<socketVars, mInBufferQueue, mLeftOfReadBuffer, free, mBodyLen, handled, split,
                   exact>>

\* Mutant of ReadPartial: bytes that fill the page are taken for the last ones.
ReadPartialOrFull == ReturnBytes(ReadLen)

\* The bytes leave room in the page.
ReadPartial == ReturnBytes(ReadLen - 1)

\* What Get returns is pushed, and right is where the next bytes go.
FillPage(right) ==
    /\ pc = "read"
    /\ mInBufferQueue # <<>> /\ Unread >= ReadLen /\ Back # NULL
    /\ CopyIn(ReadLen)
    /\ readed' = readed + ReadLen
    /\ \E p \in IF free = {} THEN {NULL} ELSE free :
        mInBufferQueue' = Append(mInBufferQueue, p) /\ free' = free \ {p}
    /\ mRightOfReadBuffer' = right
    /\ UNCHANGED <<socketVars, mLeftOfReadBuffer, pc, mBodyLen, handled, historyVars>>

\* Mutant of ReadFull: the new page is filled from where the old one was.
ReadFullNoReset == FillPage(mRightOfReadBuffer)

\* The bytes fill the page: Read goes on with the next one.
ReadFull == FillPage(0)

-----------------------------------------------------------------------------
(* IOBuffer::GetReadData *)

\* GetReadData answers NULL.
Refuses(len) == len <= 0 \/ mInBufferQueue = <<>> \/ mReadBufferLen < len

InPage(len) == len <= PageSize - mLeftOfReadBuffer

\* The buffered byte n after the first one, and the offset len bytes further.
Buffered(n) ==
    LET at == mLeftOfReadBuffer + n
    IN  mem[mInBufferQueue[at \div PageSize + 1]][at % PageSize]
EndOf(len) == mLeftOfReadBuffer + len

\* What is at the pointer returned.  A piece per page is copied to mInBuffer,
\* each behind the length of the piece before it alone, and the pointer is the
\* last piece's; only with nothing to take from the first of two pages is that
\* the whole.
Content(len) ==
    LET lastPiece == IF InPage(len) THEN len ELSE ((EndOf(len) - 1) % PageSize) + 1
    IN  [i \in 1 .. len |-> IF i <= lastPiece THEN Buffered(len - lastPiece + i - 1) ELSE NoByte]

\* The pages popped: those read to their end by this call, as long as bytes remain.
Popped(len) ==
    IF InPage(len) THEN 0
    ELSE (IF len = mReadBufferLen THEN EndOf(len) - 1 ELSE EndOf(len)) \div PageSize

\* The pages Reclaim is told of, found from the address reading began at: for a
\* front page that was already read to its end that is the page after it.
Reclaimed(len) ==
    {IF n = 1 /\ mLeftOfReadBuffer = PageSize THEN mInBufferQueue[1] + 1 ELSE mInBufferQueue[n] :
        n \in 1 .. Popped(len)}
\* BufferPool::Reclaim takes back every page but the last and what is behind it.
TakenBack(len) == Reclaimed(len) \cap (1 .. PoolPages - 1)

\* len bytes leave the buffer; queue and right are what becomes of the others.
TakeOut(len, queue, right) ==
    /\ mInBufferQueue' = queue
    /\ mReadBufferLen' = mReadBufferLen - len
    /\ mLeftOfReadBuffer' = IF len = mReadBufferLen THEN 0 ELSE EndOf(len) - Popped(len) * PageSize
    /\ mRightOfReadBuffer' = right
    /\ free' = free \cup TakenBack(len)
    /\ mem' = [p \in Pages |-> IF p \in TakenBack(len) THEN Blank ELSE mem[p]]
    /\ split' = (split \/ NoByte \in ToSet(Content(len)))
    /\ exact' = IF exact = "misgiven" \/ mLeftOfReadBuffer = PageSize THEN "misgiven"
                ELSE IF InPage(len) /\ EndOf(len) = PageSize /\ len < mReadBufferLen THEN "atEnd"
                ELSE exact

AfterPop(len) == SubSeq(mInBufferQueue, Popped(len) + 1, Len(mInBufferQueue))
RightAfter(len) == IF len = mReadBufferLen THEN 0 ELSE mRightOfReadBuffer

\* Mutant of GetReadData: taking the last byte does not reset the end of the data.
GetReadDataNoReset(len) == TakeOut(len, AfterPop(len), mRightOfReadBuffer)

\* Mutant of GetReadData: the pages reclaimed stay in the queue.
GetReadDataNoPop(len) == TakeOut(len, mInBufferQueue, RightAfter(len))

GetReadData(len) == TakeOut(len, AfterPop(len), RightAfter(len))

-----------------------------------------------------------------------------
(* ClientSM::HandleRequest *)

\* No head in the buffer: HandleRequest returns, nothing was taken.
NoHead ==
    /\ pc = "head" /\ Refuses(HeadLen)
    /\ pc' = "wait"
    /\ UNCHANGED <<socketVars, taken, bufferVars, poolVars, readed, mBodyLen, handled,
                   historyVars>>

\* What mBodyLen may be in the bytes taken for a head.
BodyLenIn(content) ==
    LET ks == {k \in 1 .. MaxMsgs : HeadBytes(k) = content}
    IN  IF ks = {} THEN WildLens ELSE {msgs[k] : k \in ks}

\* A head that announces an empty body ends HandleRequest, whatever follows it.
TakeHead ==
    /\ pc = "head" /\ ~Refuses(HeadLen)
    /\ \E n \in BodyLenIn(Content(HeadLen)) :
        /\ mBodyLen' = n
        /\ IF n = 0
           THEN pc' = "wait" /\ heldBack' = "emptyBody"
           ELSE pc' = "body" /\ UNCHANGED heldBack
    /\ GetReadData(HeadLen)
    /\ UNCHANGED <<socketVars, taken, readed, handled>>

\* The body is not complete: HandleRequest returns, and its head is gone.
NoBody ==
    /\ pc = "body" /\ Refuses(mBodyLen)
    /\ split' = TRUE
    /\ mBodyLen' = 0
    /\ pc' = "wait"
    /\ UNCHANGED <<socketVars, taken, bufferVars, poolVars, readed, handled, exact, heldBack>>

\* The body is handled, and next is where ClientSM goes on.
HandleBody(next) ==
    /\ pc = "body" /\ ~Refuses(mBodyLen)
    /\ handled' = IF split THEN handled ELSE Append(handled, Content(mBodyLen))
    /\ mBodyLen' = 0
    /\ pc' = next
    /\ GetReadData(mBodyLen)
    /\ UNCHANGED <<socketVars, taken, readed, heldBack>>

\* Mutant of TakeBody: one message an event.
TakeBodyOnce == HandleBody("wait")

\* The message is handled, and the next head is looked for.
TakeBody == HandleBody("head")

Read ==
    \/ ReadFirstPage \/ ReadStarved \/ ReadNothing \/ ReadIntoNull \/ ReadPartial \/ ReadFull

HandleRequest == NoHead \/ TakeHead \/ NoBody \/ TakeBody

Server == HandleReadEvent \/ Read \/ HandleRequest

Next == ClientSends \/ ClientCloses \/ Server

\* The processor's thread runs; the client does as it likes.
Spec == Init /\ [][Next]_vars /\ WF_vars(Server)

-----------------------------------------------------------------------------
(* Properties *)

\* The state variables have their types; no page is filled to its end, so Read
\* never asks the socket for no bytes (ioBuffer.cc:117).
TypeOK ==
    /\ msgs \in [1 .. MaxMsgs -> BodyLens]
    /\ arrived \in 0 .. StreamLen /\ taken \in 0 .. arrived /\ fin \in BOOLEAN
    /\ mInBufferQueue \in Seq(Pages \cup {NULL})
    /\ mLeftOfReadBuffer \in 0 .. PageSize
    /\ mRightOfReadBuffer \in 0 .. PageSize - 1
    /\ mReadBufferLen \in 0 .. taken
    /\ mem \in [Pages -> [0 .. PageSize - 1 -> Nat]]
    /\ free \subseteq Pages
    /\ pc \in {"wait", "read", "head", "body", "closed"}
    /\ readed \in 0 .. taken
    /\ mBodyLen \in BodyLens \cup WildLens \cup {0}
    /\ handled \in Seq(Seq(Nat))
    /\ split \in BOOLEAN /\ exact \in {"no", "atEnd", "misgiven"}
    /\ heldBack \in {"no", "untold", "emptyBody", "starved"}

\* Between mLeftOfReadBuffer of the first page and mRightOfReadBuffer of the last
\* lie the mReadBufferLen bytes read last, in order, whatever mixture of full and
\* partial reads, whole and interrupted messages came before, until Reclaim was
\* told of a wrong page (ioBuffer.cc:32-79, 107-125).
BufferedInOrder ==
    exact # "misgiven" =>
    /\ mInBufferQueue # <<>> =>
           EndOf(mReadBufferLen) = (Len(mInBufferQueue) - 1) * PageSize + mRightOfReadBuffer
    /\ \A n \in 0 .. mReadBufferLen - 1 : Buffered(n) = taken - mReadBufferLen + 1 + n

\* The messages up to k whose bodies are not empty.
WithBody(k) == {j \in 1 .. k : msgs[j] > 0}

\* ClientSM is given the bodies the client sent, whole and in order, unless one
\* of them or its head lay across two pages, a body came later than its head, or
\* Reclaim was told of a wrong page (clientSM.cc:80-108, ioBuffer.cc:55-79): body i
\* that it is given is the i-th one that is not empty.
FramedUnlessSplit ==
    split \/ exact = "misgiven" \/
        \A i \in DOMAIN handled : \E k \in WithBody(MaxMsgs) :
            Cardinality(WithBody(k)) = i /\ handled[i] = BodyBytes(k)

\* Taking bytes out gives back the pages this connection pops and no others, which
\* the pool does not check, unless a page was read exactly to its end
\* (ioBuffer.cc:72-76, bufferPool.cc:51-65).
GivesBackOwn ==
    [][exact = "no" /\ pc \in {"head", "body"}
           => free' \ free \subseteq ToSet(mInBufferQueue) \ ToSet(mInBufferQueue')]_vars

\* Once all the bytes have come every message is handled, unless the framing was
\* lost, Reclaim was told of a wrong page, or what is buffered waits for a reason
\* of the code: bytes that filled their page exactly are not told to ClientSM, an
\* empty body ends HandleRequest, the pool ran dry (ioBuffer.cc:98-128,
\* clientSM.cc:89-92, netConnection.cc:78-102).
HandledUnlessHeldBack ==
    arrived = StreamLen ~>
        \/ Len(handled) = Cardinality(WithBody(MaxMsgs))
        \/ split \/ exact = "misgiven" \/ heldBack # "no"

\* "return <0: read error, return >0: read succ" (ioBuffer.cc:82-84): a call that
\* read bytes returns their number, and ClientSM is called.
ReadTellsWhatItRead == [][pc = "read" /\ pc' \in {"wait", "closed"} => readed = 0]_vars
=============================================================================
