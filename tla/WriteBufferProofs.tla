--------------------------- MODULE WriteBufferProofs ---------------------------
(***************************************************************************)
(* Proofs about WriteBuffer, for every page size and every set of lengths: *)
(* no byte is lost in silence, bytes that wait have a page and EPOLLOUT,   *)
(* and the client receives them in order unless a write overtook buffered  *)
(* bytes or Append damaged some.                                           *)
(*                                                                         *)
(* The argument: mLeftOfWriteBuffer and mNeedWrite say which slots of the  *)
(* page wait, and they end at mRightOfWriteBuffer as long as nothing was   *)
(* damaged (EndsAtRight), so that the next Append puts its bytes right     *)
(* behind them; without a page nothing waits (EmptyIsDone), so that a send *)
(* never gives up EPOLLOUT too early.                                      *)
(***************************************************************************)
EXTENDS WriteBuffer, SequenceTheorems, TLAPS

\* The bytes of a write, in order.
LEMMA BytesSeq ==
  ASSUME NEW first \in Nat, NEW len \in Nat, NEW b \in Nat, first + len <= b + 1
  PROVE  /\ Bytes(first, len) \in Seq(0 .. b)
         /\ Len(Bytes(first, len)) = len
         /\ \A i \in 1 .. len : Bytes(first, len)[i] = first + i - 1
<1> DEFINE B == Bytes(first, len)
<1>1. B \in [1 .. len -> 0 .. b]
  BY DEF Bytes
<1>2. B \in Seq(0 .. b) 
  BY <1>1
<1>3. Len(B) = len
  BY <1>1, <1>2
<1> QED
  BY <1>2, <1>3 DEF Bytes

\* The bytes at the beginning of the page after an append that crosses it
\* (ioBuffer.cc:195-210).
LEMMA RestOfCrossing ==
  ASSUME NEW P \in Nat \ {0}, NEW end \in Nat, end > P
  PROVE  /\ ((end - 1) % P) + 1 \in 1 .. P
         /\ end <= 2 * P => ((end - 1) % P) + 1 = end - P
<1>1. (end - 1) % P \in 0 .. P - 1
  OBVIOUS
<1>2. ASSUME end <= 2 * P PROVE (end - 1) % P = end - 1 - P
  <2> DEFINE a == end - 1
  <2>1. a = P * (a \div P) + (a % P) /\ a \div P \in Nat
    OBVIOUS
  <2>2. PICK q \in Nat : a = P * q + (a % P)
    BY <2>1
  <2>3. q # 0
    BY <1>1, <1>2, <2>2
  <2>4. ASSUME q >= 2 PROVE FALSE
    <3>1. P * q >= P * 2
      BY <2>4
    <3> QED
      BY <1>1, <1>2, <2>2, <3>1
  <2> QED
    BY <2>2, <2>3, <2>4
<1> QED
  BY <1>1, <1>2

-----------------------------------------------------------------------------
(* The inductive invariant *)

Slots == 0 .. PageSize - 1
Damages == {"dropped", "stale", "crossed"}

\* The queue is empty or has one page, with bytes of up to b.
HoldsPage(queue, b) ==
    queue = <<>> \/ (queue = <<queue[1]>> /\ queue[1] \in [Slots -> 0 .. b])

Types ==
    /\ HoldsPage(mOutBufferQueue, written)
    /\ mNeedWrite \in Nat
    /\ mLeftOfWriteBuffer \in 0 .. PageSize - 1
    /\ mRightOfWriteBuffer \in 0 .. PageSize
    /\ written \in 0 .. MaxBytes /\ dropped \in Nat
    /\ wire \in Seq(0 .. written)
    /\ pc \in {"idle", "out", "failed", "closed", "wild"}
    /\ damage \subseteq Damages

Flags == watched \in BOOLEAN /\ overtaken \in BOOLEAN

\* Without a page nothing is left of one, and no byte waits.
EmptyIsDone ==
    mOutBufferQueue = <<>> =>
        mLeftOfWriteBuffer = 0 /\ ("crossed" \notin damage => mNeedWrite = 0)

\* The bytes that wait end before mRightOfWriteBuffer, and there if nothing was damaged.
EndsAtRight ==
    mOutBufferQueue # <<>> /\ "crossed" \notin damage =>
        /\ mLeftOfWriteBuffer + mNeedWrite <= mRightOfWriteBuffer
        /\ damage = {} => mLeftOfWriteBuffer + mNeedWrite = mRightOfWriteBuffer

\* Nothing is dropped unsaid, and no byte is counted that was not written.
Counted ==
    /\ "dropped" \notin damage => dropped = 0
    /\ Len(wire) + mNeedWrite + dropped <= written

\* Undamaged, the socket took the first bytes and the page has those that follow.
InOrder ==
    ~overtaken /\ damage = {} =>
        /\ \A i \in 1 .. Len(wire) : wire[i] = i
        /\ \A j \in 0 .. mNeedWrite - 1 :
               mOutBufferQueue[1][mLeftOfWriteBuffer + j] = Len(wire) + 1 + j

BufferInv ==
    /\ Types /\ Flags
    /\ EmptyIsDone /\ EndsAtRight
    /\ Counted /\ BytesCounted
    /\ WaitingIsWatched
    /\ InOrder

-----------------------------------------------------------------------------
(* IOBuffer::Append *)

\* What Append copies lands in its slots, and nothing else changes (ioBuffer.cc:190-196).
LEMMA PutAt ==
  ASSUME NEW c \in Nat, NEW page \in [Slots -> 0 .. c],
         NEW at \in Nat, NEW first \in Nat, NEW len \in Nat, first + len <= c + 1,
         NEW i \in Slots
  PROVE  /\ i \in Nat
         /\ at <= i /\ i < at + len => Put(page, at, first, len)[i] = first + (i - at)
         /\ ~(at <= i /\ i < at + len) => Put(page, at, first, len)[i] = page[i]
         /\ Put(page, at, first, len)[i] \in 0 .. c
<1>1. DOMAIN page = Slots /\ i \in Nat /\ page[i] \in 0 .. c
  BY WriteBufferAssumption DEF Slots
<1>2. i \in at .. at + len - 1 <=> at <= i /\ i < at + len
  BY <1>1
<1>3. Put(page, at, first, len)[i] = IF i \in at .. at + len - 1 THEN first + i - at ELSE page[i]
  BY <1>1 DEF Put
<1> QED
  BY <1>1, <1>2, <1>3

\* The slots copied to.
LEMMA PutInside ==
  ASSUME NEW c \in Nat, NEW page \in [Slots -> 0 .. c],
         NEW at \in Nat, NEW first \in Nat, NEW len \in Nat, first + len <= c + 1,
         NEW i \in Slots, at <= i, i < at + len
  PROVE  Put(page, at, first, len)[i] = first + (i - at)
BY PutAt

\* The slots before them.
LEMMA PutBefore ==
  ASSUME NEW c \in Nat, NEW page \in [Slots -> 0 .. c],
         NEW at \in Nat, NEW first \in Nat, NEW len \in Nat, first + len <= c + 1,
         NEW i \in Slots, i < at
  PROVE  Put(page, at, first, len)[i] = page[i]
BY PutAt

\* A copy to the beginning of the page.
LEMMA PutFromStart ==
  ASSUME NEW c \in Nat, NEW page \in [Slots -> 0 .. c],
         NEW first \in Nat, NEW len \in Nat, first + len <= c + 1,
         NEW i \in Slots, i < len
  PROVE  Put(page, 0, first, len)[i] = first + i
<1>1. DOMAIN page = Slots /\ i \in 0 .. 0 + len - 1
  BY WriteBufferAssumption DEF Slots
<1>2. Put(page, 0, first, len)[i] = first + i - 0
  BY <1>1 DEF Put
<1> QED
  BY <1>1, <1>2

\* The page stays one.
LEMMA PutType ==
  ASSUME NEW c \in Nat, NEW page \in [Slots -> 0 .. c],
         NEW at \in Nat, NEW first \in Nat, NEW len \in Nat, first + len <= c + 1
  PROVE  Put(page, at, first, len) \in [Slots -> 0 .. c]
<1>1. \A i \in Slots : Put(page, at, first, len)[i] \in 0 .. c
  BY PutAt
<1>2. DOMAIN page = Slots
  OBVIOUS
<1> QED
  BY <1>1, <1>2 DEF Put

\* Append writes to a page of the queue, or to a new one.
LEMMA BackPageType ==
  ASSUME Types
  PROVE  /\ \A c \in Nat : written <= c => BackPage \in [Slots -> 0 .. c]
         /\ mOutBufferQueue # <<>> => BackPage = mOutBufferQueue[1]
<1>1. BackPage \in [Slots -> 0 .. written]
  BY WriteBufferAssumption DEF Types, HoldsPage, BackPage, Last, NewPage, Junk, Slots
<1>2. \A c \in Nat : written <= c => 0 .. written \subseteq 0 .. c
  BY WriteBufferAssumption DEF Types
<1>3. mOutBufferQueue # <<>> => BackPage = mOutBufferQueue[1]
  BY DEF Types, HoldsPage, BackPage, Last
<1> QED
  BY <1>1, <1>2, <1>3

\* What every way through Append keeps, c being the last byte written.
Appended(c, first, len) ==
    /\ HoldsPage(mOutBufferQueue', c)
    /\ mNeedWrite' \in Nat /\ dropped' \in Nat
    /\ mLeftOfWriteBuffer' = mLeftOfWriteBuffer
    /\ mRightOfWriteBuffer' \in 0 .. PageSize
    /\ damage \subseteq damage' /\ damage' \subseteq Damages
    /\ \/ pc' = "wild" /\ mNeedWrite' + dropped' = mNeedWrite + dropped
       \/ pc' = pc /\ mNeedWrite' + dropped' = mNeedWrite + dropped + len
    /\ "dropped" \notin damage' => dropped' = dropped
    /\ EmptyIsDone' /\ EndsAtRight'
    /\ damage' = {} =>
        /\ \A j \in 0 .. mNeedWrite - 1 :
               mOutBufferQueue'[1][mLeftOfWriteBuffer + j] = mOutBufferQueue[1][mLeftOfWriteBuffer + j]
        /\ \A j \in mNeedWrite .. mNeedWrite' - 1 :
               mOutBufferQueue'[1][mLeftOfWriteBuffer + j] = first + j - mNeedWrite

\* Each of the four ways through Append (ioBuffer.cc:173-212).
LEMMA AppendKeeps ==
  ASSUME Types, EmptyIsDone, EndsAtRight,
         NEW c \in Nat, written <= c,
         NEW first \in Nat, NEW len \in Nat \ {0}, first + len <= c + 1,
         AppendOut(first, len)
  PROVE  Appended(c, first, len)
<1> USE WriteBufferAssumption
<1> DEFINE q == mOutBufferQueue
           need == mNeedWrite
           left == mLeftOfWriteBuffer
           right == mRightOfWriteBuffer
<1>0. /\ need \in Nat /\ dropped \in Nat /\ written \in Nat
      /\ left \in 0 .. PageSize - 1 /\ right \in 0 .. PageSize
      /\ PageSize \in Nat \ {0}
      /\ damage \subseteq Damages
      /\ HoldsPage(q, c)
  <2>1. \A page \in [Slots -> 0 .. written] : page \in [Slots -> 0 .. c]
    BY DEF Types
  <2> QED
    BY <2>1 DEF Types, HoldsPage
<1>1. CASE AppendRefused(len)
  BY <1>0, <1>1 DEF AppendRefused, bufferVars, Appended, EmptyIsDone, EndsAtRight, Damages
<1>2. CASE AppendWild(len)
  BY <1>0, <1>2 DEF AppendWild, bufferVars, Appended, EmptyIsDone, EndsAtRight
<1>3. CASE AppendFits(first, len)
  <2> DEFINE page == Put(BackPage, right, first, len)
  <2>1. right + len <= PageSize
    BY <1>0, <1>3 DEF AppendFits, AppendIn, Crosses
  <2>2. /\ q' = <<page>> /\ mRightOfWriteBuffer' = right + len
        /\ mNeedWrite' = need + len /\ mLeftOfWriteBuffer' = left
        /\ dropped' = dropped /\ pc' = pc
        /\ damage' = IF q = <<>> /\ right > 0 THEN damage \cup {"stale"} ELSE damage
    BY <1>3 DEF AppendFits, AppendIn
  <2> HIDE DEF page
  <2>3. /\ right \in Nat /\ len \in Nat /\ BackPage \in [Slots -> 0 .. c]
        /\ page \in [Slots -> 0 .. c]
    <3>1. right \in Nat /\ len \in Nat /\ BackPage \in [Slots -> 0 .. c]
      BY <1>0, BackPageType
    <3> QED
      BY <3>1, PutType DEF page
  <2>4. q' # <<>> /\ q'[1] = page /\ HoldsPage(q', c)
    BY <2>2, <2>3 DEF HoldsPage
  <2>5. damage \subseteq damage' /\ damage' \subseteq Damages
    BY <1>0, <2>2 DEF Damages
  <2>6. "crossed" \notin damage' => left + need <= right
    BY <1>0, <2>2 DEF EmptyIsDone, EndsAtRight
  <2>7. damage' = {} => left + need = right
    BY <1>0, <2>2 DEF EmptyIsDone, EndsAtRight
  <2>8. EmptyIsDone' /\ EndsAtRight'
    BY <1>0, <2>2, <2>4, <2>5, <2>6, <2>7 DEF EmptyIsDone, EndsAtRight
  <2>9. ASSUME damage' = {}, NEW j \in 0 .. need - 1
        PROVE  page[left + j] = q[1][left + j]
    <3>1. q # <<>> /\ BackPage = q[1]
      BY <1>0, <2>2, <2>9, BackPageType DEF EmptyIsDone
    <3>2. PICK i \in Slots : i = left + j /\ i < right
      BY <1>0, <2>7, <2>9 DEF Slots
    <3>3. page[i] = BackPage[i]
      BY <2>3, <3>2, PutBefore DEF page
    <3> QED
      BY <3>1, <3>2, <3>3
  <2>10. ASSUME damage' = {}, NEW j \in need .. need + len - 1
         PROVE  page[left + j] = first + j - need
    <3>1. left + j \in Slots /\ right <= left + j /\ left + j < right + len
      BY <1>0, <2>1, <2>7, <2>10 DEF Slots
    <3>2. page[left + j] = first + ((left + j) - right)
      BY <2>3, <3>1, PutInside DEF page
    <3> QED
      BY <1>0, <2>7, <2>10, <3>2
  <2>11. damage' = {} =>
        /\ \A j \in 0 .. need - 1 : q'[1][left + j] = q[1][left + j]
        /\ \A j \in need .. mNeedWrite' - 1 : q'[1][left + j] = first + j - need
    <3>1. ASSUME damage' = {}, NEW j \in need .. mNeedWrite' - 1
          PROVE  q'[1][left + j] = first + j - need
      <4>1. PICK more \in Nat : mNeedWrite' = more /\ more = need + len
        BY <1>0, <2>2
      <4>2. j \in need .. need + len - 1
        BY <1>0, <3>1, <4>1
      <4> QED
        BY <2>4, <2>10, <3>1, <4>2
    <3> QED
      BY <2>4, <2>9, <3>1
  <2>12. /\ mNeedWrite' \in Nat /\ dropped' \in Nat /\ mRightOfWriteBuffer' \in 0 .. PageSize
         /\ mNeedWrite' + dropped' = need + dropped + len
    BY <1>0, <2>1, <2>2
  <2> QED
    BY <2>2, <2>4, <2>5, <2>8, <2>11, <2>12 DEF Appended
<1>4. CASE AppendCrosses(first, len)
  <2> DEFINE end == right + len
             rest == ((end - 1) % PageSize) + 1
             tail == Put(BackPage, right, first, PageSize - right)
             full == IF end > 2 * PageSize THEN Put(tail, 0, first, PageSize) ELSE tail
             page == Put(full, 0, first, rest)
  <2>1. end \in Nat /\ end > PageSize
    BY <1>0, <1>4 DEF AppendCrosses, Crosses
  <2>2. rest \in 1 .. PageSize /\ (end <= 2 * PageSize => rest = end - PageSize)
    BY <1>0, <2>1, RestOfCrossing
  <2>3. /\ q # <<>> \/ right = PageSize
        /\ q' = <<page>> /\ mRightOfWriteBuffer' = rest
        /\ mNeedWrite' = need + len /\ mLeftOfWriteBuffer' = left
        /\ dropped' = dropped /\ pc' = pc
        /\ damage' = IF q = <<>> /\ end <= 2 * PageSize THEN damage ELSE damage \cup {"crossed"}
    BY <1>4 DEF AppendCrosses
  <2> HIDE DEF rest
  <2>4. tail \in [Slots -> 0 .. c]
    <3>1. /\ right \in Nat /\ PageSize - right \in Nat /\ first + (PageSize - right) <= c + 1
          /\ BackPage \in [Slots -> 0 .. c]
      BY <1>0, <2>1, BackPageType
    <3> QED
      BY <3>1, PutType
  <2>5. full \in [Slots -> 0 .. c]
    <3>1. CASE end > 2 * PageSize
      <4>1. first + PageSize <= c + 1
        BY <1>0, <3>1
      <4>2. Put(tail, 0, first, PageSize) \in [Slots -> 0 .. c]
        BY <1>0, <2>4, <4>1, 0 \in Nat, PageSize \in Nat, PutType
      <4> QED
        BY <3>1, <4>2
    <3>2. CASE ~(end > 2 * PageSize)
      BY <2>4, <3>2
    <3> QED
      BY <3>1, <3>2
  <2> HIDE DEF full
  <2>6. first + rest <= c + 1
    BY <1>0, <2>1, <2>2
  <2> HIDE DEF page
  <2>7. rest \in Nat /\ 0 \in Nat /\ page \in [Slots -> 0 .. c]
    <3>1. rest \in Nat /\ 0 \in Nat
      BY <2>2
    <3> QED
      BY <2>5, <2>6, <3>1, PutType DEF page
  <2>8. q' # <<>> /\ q'[1] = page /\ HoldsPage(q', c)
    BY <2>3, <2>7 DEF HoldsPage
  <2>9. damage \subseteq damage' /\ damage' \subseteq Damages
    BY <1>0, <2>3 DEF Damages
  <2>10. ASSUME "crossed" \notin damage'
         PROVE  need = 0 /\ left = 0 /\ rest = len
    BY <1>0, <2>2, <2>3, <2>10 DEF EmptyIsDone
  <2>11. EmptyIsDone' /\ EndsAtRight'
    BY <1>0, <2>3, <2>8, <2>10 DEF EmptyIsDone, EndsAtRight
  <2>12. ASSUME damage' = {}, NEW j \in need .. need + len - 1
         PROVE  page[left + j] = first + j - need
    <3>1. left = 0 /\ need = 0 /\ rest = len
      BY <2>10, <2>12
    <3>2. PICK i \in Slots : i = j /\ i < rest
      BY <2>2, <2>12, <3>1 DEF Slots
    <3>3. page[i] = first + i
      BY <2>5, <2>6, <2>7, <3>2, PutFromStart DEF page
    <3>4. j \in Nat /\ left + j = j
      BY <2>12, <3>1
    <3> QED
      BY <3>1, <3>2, <3>3, <3>4
  <2>13. damage' = {} =>
        /\ \A j \in 0 .. need - 1 : q'[1][left + j] = q[1][left + j]
        /\ \A j \in need .. mNeedWrite' - 1 : q'[1][left + j] = first + j - need
    <3>1. ASSUME damage' = {}, NEW j \in need .. mNeedWrite' - 1
          PROVE  q'[1][left + j] = first + j - need
      <4>1. PICK more \in Nat : mNeedWrite' = more /\ more = need + len
        BY <1>0, <2>3
      <4>2. j \in need .. need + len - 1
        BY <1>0, <3>1, <4>1
      <4> QED
        BY <2>8, <2>12, <3>1, <4>2
    <3>2. ASSUME damage' = {}, NEW j \in 0 .. need - 1 PROVE FALSE
      BY <2>10, <3>2
    <3> QED
      BY <3>1, <3>2
  <2>14. /\ mNeedWrite' \in Nat /\ dropped' \in Nat /\ mRightOfWriteBuffer' \in 0 .. PageSize
         /\ mNeedWrite' + dropped' = need + dropped + len
    BY <1>0, <2>2, <2>3
  <2> QED
    BY <2>3, <2>8, <2>9, <2>11, <2>13, <2>14 DEF Appended
<1> QED
  BY <1>1, <1>2, <1>3, <1>4 DEF AppendOut

-----------------------------------------------------------------------------
(* The actions *)

\* A new buffer is empty (ioBuffer.h:12-23).
LEMMA InitInv == Init => BufferInv
<1> SUFFICES ASSUME Init PROVE BufferInv
  OBVIOUS
<1> USE WriteBufferAssumption
<1>1. wire \in Seq(0 .. written) /\ Len(wire) = 0
  BY EmptySeq DEF Init
<1>2. Types
  BY <1>1 DEF Init, Types, HoldsPage, Damages
<1>3. Flags
  BY Zenon DEF Init, Flags
<1>4. EmptyIsDone /\ EndsAtRight /\ WaitingIsWatched
  BY DEF Init, EmptyIsDone, EndsAtRight, WaitingIsWatched
<1>5. Counted /\ BytesCounted /\ InOrder
  BY <1>1 DEF Init, Counted, BytesCounted, InOrder
<1> QED
  BY <1>2, <1>3, <1>4, <1>5 DEF BufferInv

\* The wire after the socket took more of it.
LEMMA WireGrows ==
  ASSUME NEW b \in Nat, NEW c \in Nat, b <= c,
         NEW w \in Seq(0 .. b), NEW more \in Seq(0 .. c)
  PROVE  /\ w \o more \in Seq(0 .. c)
         /\ Len(w) \in Nat /\ Len(more) \in Nat
         /\ Len(w \o more) = Len(w) + Len(more)
         /\ \A i \in 1 .. Len(w) + Len(more) :
                (w \o more)[i] = IF i <= Len(w) THEN w[i] ELSE more[i - Len(w)]
<1>1. w \in Seq(0 .. c)
  <2>1. 0 .. b \subseteq 0 .. c
    OBVIOUS
  <2> QED
    BY <2>1, SeqMonotonic
<1> QED
  BY <1>1, ConcatProperties, LenProperties

\* What a call of Write does to the wire, whatever becomes of the rest.
LEMMA SocketTakesWhat ==
  ASSUME BufferInv, NEW len \in Lens, NEW n \in 0 .. len, SocketTakes(len, n)
  PROVE  /\ pc = "idle"
         /\ written + len \in 0 .. MaxBytes /\ written' = written + len
         /\ wire' \in Seq(0 .. written + len)
         /\ Len(wire') = Len(wire) + n
         /\ written = Len(wire) + mNeedWrite + dropped
         /\ overtaken' \in BOOLEAN
         /\ ~overtaken' => ~overtaken /\ (n = 0 \/ mNeedWrite = 0)
         /\ ~overtaken' /\ damage = {} => \A i \in 1 .. Len(wire') : wire'[i] = i
<1> USE WriteBufferAssumption
<1> DEFINE more == Bytes(written + 1, n)
<1>0. /\ written \in Nat /\ len \in Nat \ {0} /\ n \in Nat /\ n <= len
      /\ mNeedWrite \in Nat /\ dropped \in Nat
      /\ wire \in Seq(0 .. written) /\ Len(wire) \in Nat
  BY LenProperties DEF BufferInv, Types
<1>1. pc = "idle" /\ written + len <= MaxBytes /\ written' = written + len /\ wire' = wire \o more
  BY DEF SocketTakes
<1>2. /\ more \in Seq(0 .. written + len)
      /\ Len(more) = n
      /\ \A i \in 1 .. n : more[i] = written + 1 + i - 1
  <2>1. written + 1 \in Nat /\ written + len \in Nat /\ (written + 1) + n <= (written + len) + 1
    BY <1>0
  <2> HIDE DEF more
  <2> QED
    BY <1>0, <2>1, BytesSeq DEF more
<1> HIDE DEF more
<1>3. /\ wire' \in Seq(0 .. written + len)
      /\ Len(wire') = Len(wire) + n
      /\ \A i \in 1 .. Len(wire) + n :
             wire'[i] = IF i <= Len(wire) THEN wire[i] ELSE more[i - Len(wire)]
  <2>1. PICK c \in Nat : c = written + len /\ written <= c
    BY <1>0
  <2>2. more \in Seq(0 .. c)
    BY <1>2, <2>1
  <2>3. /\ wire \o more \in Seq(0 .. c)
        /\ Len(wire \o more) = Len(wire) + Len(more)
        /\ \A i \in 1 .. Len(wire) + Len(more) :
               (wire \o more)[i] = IF i <= Len(wire) THEN wire[i] ELSE more[i - Len(wire)]
    BY <1>0, <2>1, <2>2, WireGrows
  <2> QED
    BY <1>1, <1>2, <2>1, <2>3
<1>4. written = Len(wire) + mNeedWrite + dropped
  BY <1>1 DEF BufferInv, BytesCounted
<1>5. overtaken' \in BOOLEAN
  BY Zenon DEF SocketTakes, BufferInv, Flags
<1>6. ~overtaken' => ~overtaken /\ (n = 0 \/ mNeedWrite = 0)
  <2>1. ~overtaken' => ~overtaken /\ ~(n > 0 /\ mNeedWrite > 0)
    BY Zenon DEF SocketTakes
  <2>2. ~(n > 0 /\ mNeedWrite > 0) => n = 0 \/ mNeedWrite = 0
    BY <1>0
  <2> QED
    BY <2>1, <2>2, Zenon
<1>7. ASSUME ~overtaken', damage = {}, NEW i \in 1 .. Len(wire) + n
      PROVE  wire'[i] = i
  <2>1. \A k \in 1 .. Len(wire) : wire[k] = k
    BY <1>6, <1>7, Zenon DEF BufferInv, InOrder
  <2>2. CASE i <= Len(wire)
    <3>1. i \in 1 .. Len(wire)
      BY <1>0, <2>2
    <3>2. wire'[i] = wire[i]
      BY <1>3, <2>2
    <3> QED
      BY <2>1, <3>1, <3>2
  <2>3. CASE ~(i <= Len(wire))
    <3>1. mNeedWrite = 0 /\ dropped = 0
      <4>1. dropped = 0
        BY <1>7 DEF BufferInv, Counted
      <4>2. n # 0
        BY <1>0, <2>3
      <4> QED
        BY <1>6, <1>7, <4>1, <4>2, Zenon
    <3>2. PICK k \in 1 .. n : k = i - Len(wire)
      BY <1>0, <2>3
    <3>3. wire'[i] = more[k]
      BY <1>3, <2>3, <3>2
    <3> QED
      BY <1>0, <1>2, <1>4, <3>1, <3>2, <3>3
  <2> QED
    BY <2>2, <2>3
<1>8. ~overtaken' /\ damage = {} => \A i \in 1 .. Len(wire') : wire'[i] = i
  <2>1. Len(wire') = Len(wire) + n
    BY <1>3
  <2>2. ~overtaken' /\ damage = {} => \A i \in 1 .. Len(wire) + n : wire'[i] = i
    BY <1>7, Zenon
  <2> QED
    BY <2>1, <2>2, Zenon
<1>9. written + len \in 0 .. MaxBytes
  BY <1>0, <1>1
<1> QED
  BY <1>1, <1>3, <1>4, <1>5, <1>6, <1>8, <1>9, Zenon

\* Later writes do not change what the page holds.
LEMMA HoldsMore ==
  ASSUME NEW b \in Nat, NEW c \in Nat, b <= c, NEW queue, HoldsPage(queue, b)
  PROVE  HoldsPage(queue, c)
<1>1. \A page \in [Slots -> 0 .. b] : page \in [Slots -> 0 .. c]
  OBVIOUS
<1> QED
  BY <1>1 DEF HoldsPage

\* The socket takes everything (netConnection.cc:152-154).
LEMMA WriteAllKeeps ==
  ASSUME BufferInv, NEW len \in Lens, WriteAll(len)
  PROVE  BufferInv'
<1> USE WriteBufferAssumption
<1>0. /\ UNCHANGED <<bufferVars, dropped, watched, pc, damage>>
      /\ len \in Nat \ {0} /\ written \in Nat /\ mNeedWrite \in Nat /\ dropped \in Nat
      /\ Len(wire) \in Nat
  BY LenProperties DEF WriteAll, BufferInv, Types
<1>1. /\ pc = "idle"
      /\ written + len \in 0 .. MaxBytes /\ written' = written + len
      /\ wire' \in Seq(0 .. written + len)
      /\ Len(wire') = Len(wire) + len
      /\ written = Len(wire) + mNeedWrite + dropped
      /\ overtaken' \in BOOLEAN
      /\ ~overtaken' => ~overtaken /\ (len = 0 \/ mNeedWrite = 0)
      /\ ~overtaken' /\ damage = {} => \A i \in 1 .. Len(wire') : wire'[i] = i
  <2>1. len \in 0 .. len /\ SocketTakes(len, len)
    BY <1>0 DEF WriteAll
  <2> QED
    BY <2>1, SocketTakesWhat
<1>2. Types'
  <2>1. HoldsPage(mOutBufferQueue, written + len)
    BY <1>0, HoldsMore DEF BufferInv, Types
  <2> QED
    BY <1>0, <1>1, <2>1 DEF BufferInv, Types, bufferVars
<1>3. Flags'
  <2>1. watched' \in BOOLEAN
    BY <1>0, Zenon DEF BufferInv, Flags
  <2> QED
    BY <1>1, <2>1 DEF Flags
<1>4. EmptyIsDone' /\ EndsAtRight' /\ WaitingIsWatched'
  BY <1>0 DEF BufferInv, bufferVars, EmptyIsDone, EndsAtRight, WaitingIsWatched
<1>5. Counted' /\ BytesCounted'
  BY <1>0, <1>1 DEF BufferInv, bufferVars, Counted, BytesCounted
<1>6. InOrder'
  <2> SUFFICES ASSUME ~overtaken', damage = {} PROVE InOrder'
    BY <1>0 DEF InOrder
  <2>1. \A i \in 1 .. Len(wire') : wire'[i] = i
    BY <1>1
  <2>2. mNeedWrite' = 0
    BY <1>0, <1>1 DEF bufferVars
  <2> QED
    BY <2>1, <2>2 DEF InOrder
<1> QED
  BY <1>2, <1>3, <1>4, <1>5, <1>6 DEF BufferInv

\* The rest is appended behind what waits, or without a page in the place of it
\* (netConnection.cc:160-174).
LEMMA WriteRestKeeps ==
  ASSUME BufferInv, NEW len \in Lens, NEW n \in 0 .. len - 1, WriteRest(len, n)
  PROVE  BufferInv'
<1> USE WriteBufferAssumption
<1> DEFINE c == written + len
           first == written + n + 1
<1>0. /\ len \in Nat \ {0} /\ n \in Nat /\ n < len /\ written \in Nat
      /\ mNeedWrite \in Nat /\ dropped \in Nat /\ Len(wire) \in Nat
      /\ mLeftOfWriteBuffer \in 0 .. PageSize - 1
  BY LenProperties DEF BufferInv, Types
<1>1. /\ pc = "idle"
      /\ c \in 0 .. MaxBytes /\ written' = c
      /\ wire' \in Seq(0 .. c)
      /\ Len(wire') = Len(wire) + n
      /\ written = Len(wire) + mNeedWrite + dropped
      /\ overtaken' \in BOOLEAN
      /\ ~overtaken' => ~overtaken /\ (n = 0 \/ mNeedWrite = 0)
      /\ ~overtaken' /\ damage = {} => \A i \in 1 .. Len(wire') : wire'[i] = i
  <2>1. n \in 0 .. len /\ SocketTakes(len, n)
    BY <1>0 DEF WriteRest
  <2> QED
    BY <2>1, SocketTakesWhat
<1>2. Appended(c, first, len - n)
  <2>1. /\ c \in Nat /\ written <= c /\ first \in Nat /\ len - n \in Nat \ {0}
        /\ first + (len - n) <= c + 1
    BY <1>0
  <2>2. AppendOut(first, len - n)
    BY DEF WriteRest
  <2> HIDE DEF c, first
  <2> QED
    BY <2>1, <2>2, AppendKeeps DEF BufferInv
<1>3. watched' = TRUE
  BY DEF WriteRest, ModConnectionToEpoll
<1> HIDE DEF c
<1>4. Types'
  BY <1>0, <1>1, <1>2 DEF Appended, Types
<1>5. Flags'
  BY <1>1, <1>3, Zenon DEF Flags
<1>6. EmptyIsDone' /\ EndsAtRight'
  BY <1>2 DEF Appended
<1>7. PICK need \in Nat, drop \in Nat : mNeedWrite' = need /\ dropped' = drop
  BY <1>2 DEF Appended
<1>8. Counted' /\ BytesCounted'
  <2>1. \/ pc' = "wild" /\ need + drop = mNeedWrite + dropped
        \/ pc' = pc /\ need + drop = mNeedWrite + dropped + (len - n)
    BY <1>2, <1>7 DEF Appended
  <2>2. Len(wire') + need + drop <= c /\ (pc' # "wild" => c = Len(wire') + need + drop)
    <3>1. PICK sent \in Nat : Len(wire') = sent /\ sent = Len(wire) + n
      BY <1>0, <1>1
    <3>2. sent + need + drop <= c /\ (pc' # "wild" => c = sent + need + drop)
      BY <1>0, <1>1, <2>1, <3>1 DEF c
    <3> QED
      BY <3>1, <3>2
  <2>3. "dropped" \notin damage' => dropped' = 0
    BY <1>2 DEF Appended, BufferInv, Counted
  <2> QED
    BY <1>1, <1>7, <2>2, <2>3 DEF Counted, BytesCounted
<1>9. WaitingIsWatched'
  BY <1>3, <1>6 DEF EmptyIsDone, WaitingIsWatched
<1>10. InOrder'
  <2> SUFFICES ASSUME ~overtaken', damage' = {}
               PROVE  /\ \A i \in 1 .. Len(wire') : wire'[i] = i
                      /\ \A j \in 0 .. need - 1 :
                             mOutBufferQueue'[1][mLeftOfWriteBuffer + j] = Len(wire') + 1 + j
    BY <1>2, <1>7 DEF InOrder, Appended
  <2>1. damage = {} /\ dropped = 0 /\ ~overtaken
    BY <1>1, <1>2 DEF Appended, BufferInv, Counted
  <2>2. ASSUME NEW j \in 0 .. need - 1
        PROVE  mOutBufferQueue'[1][mLeftOfWriteBuffer + j] = Len(wire') + 1 + j
    <3>1. CASE j < mNeedWrite
      <4>1. n = 0 /\ j \in 0 .. mNeedWrite - 1
        BY <1>0, <1>1, <3>1
      <4>2. mOutBufferQueue'[1][mLeftOfWriteBuffer + j] = mOutBufferQueue[1][mLeftOfWriteBuffer + j]
        BY <1>2, <4>1 DEF Appended
      <4>3. mOutBufferQueue[1][mLeftOfWriteBuffer + j] = Len(wire) + 1 + j
        BY <2>1, <4>1 DEF BufferInv, InOrder
      <4> QED
        BY <1>0, <1>1, <4>1, <4>2, <4>3
    <3>2. CASE ~(j < mNeedWrite)
      <4>1. j \in mNeedWrite .. mNeedWrite' - 1
        BY <1>0, <1>7, <3>2
      <4>2. mOutBufferQueue'[1][mLeftOfWriteBuffer + j] = first + j - mNeedWrite
        BY <1>2, <4>1 DEF Appended
      <4>3. PICK sent \in Nat : Len(wire') = sent /\ sent = Len(wire) + n
        BY <1>0, <1>1
      <4>4. first + j - mNeedWrite = sent + 1 + j
        BY <1>0, <1>1, <2>1, <4>3
      <4> QED
        BY <4>2, <4>3, <4>4
    <3> QED
      BY <3>1, <3>2
  <2> QED
    BY <1>1, <2>1, <2>2
<1> QED
  BY <1>4, <1>5, <1>6, <1>8, <1>9, <1>10 DEF BufferInv

\* What is tried next waits and is in the page; undamaged, it is all that waits
\* (ioBuffer.cc:145-149).
LEMMA ToSendWhat ==
  ASSUME BufferInv, mOutBufferQueue # <<>>
  PROVE  /\ ToSend \in Nat /\ ToSend <= mNeedWrite
         /\ mLeftOfWriteBuffer + ToSend <= PageSize
         /\ "crossed" \notin damage => ToSend = mNeedWrite
  BY WriteBufferAssumption DEF BufferInv, Types, EndsAtRight, ToSend

\* The bytes the socket takes of the page, n of those it is offered.
LEMMA SentWhat ==
  ASSUME BufferInv, mOutBufferQueue # <<>>, NEW n \in Nat, n <= ToSend
  PROVE  /\ Sent(n) \in Seq(0 .. written)
         /\ Len(Sent(n)) = Len(wire) + n
         /\ ~overtaken /\ damage = {} => \A i \in 1 .. Len(wire) + n : Sent(n)[i] = i
<1> USE WriteBufferAssumption
<1> DEFINE page == mOutBufferQueue[1]
           left == mLeftOfWriteBuffer
           more == [i \in 1 .. n |-> page[left + i - 1]]
<1>0. /\ written \in Nat /\ mNeedWrite \in Nat /\ left \in 0 .. PageSize - 1
      /\ wire \in Seq(0 .. written) /\ Len(wire) \in Nat
      /\ page \in [Slots -> 0 .. written]
      /\ n \in Nat /\ n <= mNeedWrite /\ left + n <= PageSize
      /\ PageSize \in Nat /\ written <= written
  BY ToSendWhat, LenProperties DEF BufferInv, Types, HoldsPage
<1>1. Sent(n) = wire \o more
  <2>1. Head(mOutBufferQueue) = page
    BY DEF BufferInv, Types, HoldsPage
  <2> QED
    BY <2>1 DEF Sent
<1>2. /\ more \in Seq(0 .. written) /\ Len(more) = n
      /\ \A i \in 1 .. n : more[i] = page[left + i - 1]
  <2>1. ASSUME NEW i \in 1 .. n PROVE page[left + i - 1] \in 0 .. written
    <3>1. PICK k \in Slots : k = left + i - 1
      BY <1>0, <2>1 DEF Slots
    <3> QED
      BY <1>0, <3>1
  <2>2. more \in [1 .. n -> 0 .. written]
    BY <2>1
  <2>3. more \in Seq(0 .. written)
    BY <2>2
  <2>4. Len(more) = n
    BY <2>2, <2>3
  <2> QED
    BY <2>3, <2>4
<1> HIDE DEF more
<1>3. /\ Sent(n) \in Seq(0 .. written)
      /\ Len(Sent(n)) = Len(wire) + n
      /\ \A i \in 1 .. Len(wire) + n :
             Sent(n)[i] = IF i <= Len(wire) THEN wire[i] ELSE more[i - Len(wire)]
  <2>1. /\ wire \o more \in Seq(0 .. written)
        /\ Len(wire \o more) = Len(wire) + Len(more)
        /\ \A i \in 1 .. Len(wire) + Len(more) :
               (wire \o more)[i] = IF i <= Len(wire) THEN wire[i] ELSE more[i - Len(wire)]
    BY <1>0, <1>2, ConcatProperties
  <2> QED
    BY <1>1, <1>2, <2>1
<1>4. ASSUME ~overtaken, damage = {}, NEW i \in 1 .. Len(wire) + n
      PROVE  Sent(n)[i] = i
  <2>1. /\ \A k \in 1 .. Len(wire) : wire[k] = k
        /\ \A j \in 0 .. mNeedWrite - 1 : page[left + j] = Len(wire) + 1 + j
    BY <1>4 DEF BufferInv, InOrder
  <2>2. CASE i <= Len(wire)
    <3>1. i \in 1 .. Len(wire)
      BY <1>0, <2>2
    <3>2. Sent(n)[i] = wire[i]
      BY <1>3, <2>2
    <3> QED
      BY <2>1, <3>1, <3>2
  <2>3. CASE ~(i <= Len(wire))
    <3>1. PICK k \in 1 .. n : k = i - Len(wire)
      BY <1>0, <2>3
    <3>2. Sent(n)[i] = more[k]
      BY <1>3, <2>3, <3>1
    <3>3. PICK j \in 0 .. mNeedWrite - 1 : j = k - 1
      <4>1. k - 1 \in 0 .. mNeedWrite - 1
        BY <1>0
      <4> QED
        BY <4>1
    <3>4. left + k - 1 = left + j
      BY <1>0, <3>3
    <3>5. more[k] = page[left + j]
      BY <1>2, <3>4
    <3>6. Len(wire) + 1 + j = i
      BY <1>0, <3>1, <3>3
    <3> QED
      BY <2>1, <3>2, <3>5, <3>6
  <2> QED
    BY <2>2, <2>3
<1> QED
  BY <1>3, <1>4

\* The page is sent to its end; undamaged, nothing waits then (ioBuffer.cc:151-156).
LEMMA SendAllKeeps ==
  ASSUME BufferInv, SendAll
  PROVE  BufferInv'
<1> USE WriteBufferAssumption
<1>1. /\ pc = "out" /\ mOutBufferQueue # <<>>
      /\ wire' = Sent(ToSend)
      /\ mNeedWrite' = mNeedWrite - ToSend
      /\ mLeftOfWriteBuffer' = 0
      /\ mOutBufferQueue' = Tail(mOutBufferQueue)
      /\ UNCHANGED <<mRightOfWriteBuffer, written, dropped, watched, pc, overtaken, damage>>
  BY DEF SendAll
<1>2. /\ ToSend \in Nat /\ ToSend <= mNeedWrite
      /\ "crossed" \notin damage => ToSend = mNeedWrite
  BY <1>1, ToSendWhat
<1>3. /\ wire' \in Seq(0 .. written)
      /\ Len(wire') = Len(wire) + ToSend
      /\ ~overtaken /\ damage = {} => \A i \in 1 .. Len(wire) + ToSend : wire'[i] = i
  <2>1. PICK n \in Nat : n = ToSend /\ n <= ToSend
    BY <1>2
  <2>2. /\ Sent(n) \in Seq(0 .. written)
        /\ Len(Sent(n)) = Len(wire) + n
        /\ ~overtaken /\ damage = {} => \A i \in 1 .. Len(wire) + n : Sent(n)[i] = i
    BY <1>1, <2>1, SentWhat
  <2> QED
    BY <1>1, <2>1, <2>2
<1>4. mOutBufferQueue' = <<>>
  <2>1. PICK page \in [Slots -> 0 .. written] : mOutBufferQueue = <<page>>
    BY <1>1 DEF BufferInv, Types, HoldsPage
  <2> QED
    BY <1>1, <2>1
<1>5. Len(wire) \in Nat /\ mNeedWrite \in Nat /\ dropped \in Nat /\ written \in Nat
  BY LenProperties DEF BufferInv, Types
<1>6. PICK need \in Nat, sent \in Nat : /\ mNeedWrite' = need /\ need = mNeedWrite - ToSend
                                        /\ Len(wire') = sent /\ sent = Len(wire) + ToSend
  <2>1. \E need \in Nat : mNeedWrite' = need /\ need = mNeedWrite - ToSend
    BY <1>1, <1>2, <1>5
  <2>2. \E sent \in Nat : Len(wire') = sent /\ sent = Len(wire) + ToSend
    BY <1>2, <1>3, <1>5
  <2> QED
    BY <2>1, <2>2
<1>7. Types'
  BY <1>1, <1>3, <1>4, <1>6 DEF BufferInv, Types, HoldsPage
<1>8. Flags'
  BY <1>1, Zenon DEF BufferInv, Flags
<1>9. "crossed" \notin damage => need = 0
  BY <1>2, <1>5, <1>6
<1>10. EmptyIsDone' /\ EndsAtRight' /\ WaitingIsWatched'
  BY <1>1, <1>4, <1>6, <1>9 DEF EmptyIsDone, EndsAtRight, WaitingIsWatched
<1>11. Counted' /\ BytesCounted'
  <2>1. sent + need = Len(wire) + mNeedWrite
    BY <1>2, <1>5, <1>6
  <2>2. sent + need + dropped <= written /\ written = sent + need + dropped
    BY <1>1, <1>5, <2>1 DEF BufferInv, BytesCounted
  <2>3. "dropped" \notin damage => dropped = 0
    BY DEF BufferInv, Counted
  <2> QED
    BY <1>1, <1>6, <2>2, <2>3 DEF Counted, BytesCounted
<1>12. InOrder'
  <2> SUFFICES ASSUME ~overtaken', damage' = {} PROVE InOrder'
    BY DEF InOrder
  <2>1. ~overtaken /\ damage = {}
    BY <1>1
  <2>2. \A i \in 1 .. sent : wire'[i] = i
    BY <1>3, <1>6, <2>1
  <2>3. need = 0
    BY <1>9, <2>1
  <2> QED
    BY <1>6, <2>2, <2>3 DEF InOrder
<1> QED
  BY <1>7, <1>8, <1>10, <1>11, <1>12 DEF BufferInv

\* A part of the page is sent (ioBuffer.cc:160-164).
LEMMA SendSomeKeeps ==
  ASSUME BufferInv, SendSome
  PROVE  BufferInv'
<1> USE WriteBufferAssumption
<1>0. PICK n \in 1 .. ToSend - 1 : SendPart(n, mNeedWrite - n)
  BY DEF SendSome
<1>1. /\ pc = "out" /\ mOutBufferQueue # <<>>
      /\ wire' = Sent(n)
      /\ mNeedWrite' = mNeedWrite - n
      /\ mLeftOfWriteBuffer' = mLeftOfWriteBuffer + n
      /\ pc' = "idle"
      /\ UNCHANGED <<mOutBufferQueue, mRightOfWriteBuffer, written, dropped, watched, overtaken,
                     damage>>
  BY <1>0 DEF SendPart
<1>2. /\ ToSend \in Nat /\ ToSend <= mNeedWrite
      /\ mLeftOfWriteBuffer + ToSend <= PageSize
  BY <1>1, ToSendWhat
<1>3. /\ wire' \in Seq(0 .. written)
      /\ Len(wire') = Len(wire) + n
      /\ ~overtaken /\ damage = {} => \A i \in 1 .. Len(wire) + n : wire'[i] = i
  <2>1. n \in Nat /\ n <= ToSend
    BY <1>2
  <2> QED
    BY <1>1, <2>1, SentWhat
<1>5. /\ Len(wire) \in Nat /\ mNeedWrite \in Nat /\ dropped \in Nat /\ written \in Nat
      /\ mLeftOfWriteBuffer \in 0 .. PageSize - 1
  BY LenProperties DEF BufferInv, Types
<1>6. PICK need \in Nat, sent \in Nat, left \in Nat :
          /\ mNeedWrite' = need /\ need = mNeedWrite - n
          /\ Len(wire') = sent /\ sent = Len(wire) + n
          /\ mLeftOfWriteBuffer' = left /\ left = mLeftOfWriteBuffer + n
  <2>1. \E need \in Nat : mNeedWrite' = need /\ need = mNeedWrite - n
    BY <1>1, <1>2, <1>5
  <2>2. \E sent \in Nat : Len(wire') = sent /\ sent = Len(wire) + n
    BY <1>2, <1>3, <1>5
  <2>3. \E left \in Nat : mLeftOfWriteBuffer' = left /\ left = mLeftOfWriteBuffer + n
    BY <1>1, <1>2, <1>5
  <2> QED
    BY <2>1, <2>2, <2>3
<1>7. Types'
  <2>1. left \in 0 .. PageSize - 1
    BY <1>2, <1>5, <1>6
  <2> QED
    BY <1>1, <1>3, <1>6, <2>1 DEF BufferInv, Types
<1>8. Flags'
  BY <1>1, Zenon DEF BufferInv, Flags
<1>9. left + need = mLeftOfWriteBuffer + mNeedWrite
  BY <1>5, <1>6
<1>10. EmptyIsDone' /\ EndsAtRight'
  BY <1>1, <1>6, <1>9 DEF BufferInv, EmptyIsDone, EndsAtRight
<1>11. WaitingIsWatched'
  <2>1. mNeedWrite > 0
    BY <1>2, <1>5
  <2> QED
    BY <1>1, <2>1 DEF BufferInv, WaitingIsWatched
<1>12. Counted' /\ BytesCounted'
  <2>1. sent + need = Len(wire) + mNeedWrite
    BY <1>5, <1>6
  <2>2. sent + need + dropped <= written /\ written = sent + need + dropped
    BY <1>1, <1>5, <2>1 DEF BufferInv, BytesCounted
  <2>3. "dropped" \notin damage => dropped = 0
    BY DEF BufferInv, Counted
  <2> QED
    BY <1>1, <1>6, <2>2, <2>3 DEF Counted, BytesCounted
<1>13. InOrder'
  <2> SUFFICES ASSUME ~overtaken', damage' = {}
               PROVE  /\ \A i \in 1 .. sent : wire'[i] = i
                      /\ \A j \in 0 .. need - 1 : mOutBufferQueue[1][left + j] = sent + 1 + j
    BY <1>1, <1>6 DEF InOrder
  <2>1. ~overtaken /\ damage = {}
    BY <1>1
  <2>2. \A i \in 1 .. sent : wire'[i] = i
    BY <1>3, <1>6, <2>1
  <2>3. ASSUME NEW j \in 0 .. need - 1
        PROVE  mOutBufferQueue[1][left + j] = sent + 1 + j
    <3>1. PICK k \in 0 .. mNeedWrite - 1 : k = n + j
      BY <1>5, <1>6
    <3>2. mOutBufferQueue[1][mLeftOfWriteBuffer + k] = Len(wire) + 1 + k
      BY <2>1 DEF BufferInv, InOrder
    <3>3. mLeftOfWriteBuffer + k = left + j /\ Len(wire) + 1 + k = sent + 1 + j
      BY <1>5, <1>6, <3>1
    <3> QED
      BY <3>2, <3>3
  <2> QED
    BY <2>2, <2>3
<1> QED
  BY <1>7, <1>8, <1>10, <1>11, <1>12, <1>13 DEF BufferInv

\* The steps that move no byte.
LEMMA OtherStepsKeep ==
  ASSUME BufferInv,
         \/ HandleErrorEvent("idle") \/ HandleErrorEvent("failed")
         \/ HandleWriteEvent \/ SendFails \/ AllSent \/ UNCHANGED vars
  PROVE  BufferInv'
<1>1. UNCHANGED <<bufferVars, written, dropped, wire, overtaken, damage>>
  BY DEF HandleErrorEvent, HandleWriteEvent, SendFails, AllSent, vars
<1>2. /\ pc' \in {"idle", "out", "failed", "closed", "wild"}
      /\ pc' # "wild" => pc # "wild"
  BY DEF HandleErrorEvent, HandleWriteEvent, SendFails, AllSent, vars, BufferInv, Types
<1>3. Types'
  BY <1>1, <1>2 DEF BufferInv, Types, bufferVars
<1>4. Flags'
  <2>1. watched' \in {TRUE, FALSE} \/ watched' = watched
    BY Zenon DEF HandleErrorEvent, HandleWriteEvent, SendFails, AllSent, ModConnectionToEpoll, vars
  <2> QED
    BY <1>1, <2>1, Zenon DEF BufferInv, Flags
<1>5. EmptyIsDone' /\ EndsAtRight' /\ Counted' /\ BytesCounted' /\ InOrder'
  BY <1>1, <1>2
     DEF BufferInv, bufferVars, EmptyIsDone, EndsAtRight, Counted, BytesCounted, InOrder
<1>6. WaitingIsWatched'
  <2>1. CASE HandleErrorEvent("idle") \/ HandleErrorEvent("failed") \/ SendFails
    BY <2>1 DEF HandleErrorEvent, SendFails, WaitingIsWatched
  <2>2. CASE HandleWriteEvent
    <3>1. mNeedWrite' = mNeedWrite /\ mOutBufferQueue' = mOutBufferQueue /\ damage' = damage
      BY <1>1 DEF bufferVars
    <3>2. CASE mNeedWrite = 0
      BY <3>1, <3>2 DEF WaitingIsWatched
    <3>3. CASE mNeedWrite # 0
      <4>1. pc = "idle" /\ watched' = watched
        BY <2>2, <3>3, Zenon DEF HandleWriteEvent
      <4>2. pc \in {"idle", "out"}
        BY <4>1
      <4> QED
        BY <3>1, <4>1, <4>2, Zenon DEF BufferInv, WaitingIsWatched
    <3> QED
      BY <3>2, <3>3
  <2>3. CASE AllSent
    BY <1>1, <2>3 DEF AllSent, BufferInv, Types, EmptyIsDone, WaitingIsWatched, bufferVars
  <2>4. CASE UNCHANGED vars
    BY <1>1, <2>4 DEF vars, BufferInv, WaitingIsWatched, bufferVars
  <2> QED
    BY <2>1, <2>2, <2>3, <2>4
<1> QED
  BY <1>3, <1>4, <1>5, <1>6 DEF BufferInv

\* Every step of the connection.
LEMMA StepInv == BufferInv /\ [Next]_vars => BufferInv'
<1> SUFFICES ASSUME BufferInv, [Next]_vars PROVE BufferInv'
  OBVIOUS
<1>1. ASSUME NEW len \in Lens, Write(len) PROVE BufferInv'
  BY <1>1, WriteAllKeeps, WriteRestKeeps DEF Write
<1>2. ASSUME Flush PROVE BufferInv'
  BY <1>2, SendAllKeeps, SendSomeKeeps, OtherStepsKeep DEF Flush
<1> QED
  BY <1>1, <1>2, OtherStepsKeep DEF Next

-----------------------------------------------------------------------------
(* The theorems *)

\* Whatever is written and sent, the page and the counts keep to BufferInv
\* (ioBuffer.cc:137-212, netConnection.cc:104-174).
THEOREM BufferInvariant == Init /\ [][Next]_vars => []BufferInv
<1>1. Init => BufferInv
  BY InitInv
<1>2. BufferInv /\ [Next]_vars => BufferInv'
  BY StepInv
<1> QED
  BY <1>1, <1>2, PTL

\* The state variables have their types for pages of any size; the queue never holds a
\* second page (ioBuffer.cc:180-209).
THEOREM WriteBufferTypes == Spec => []TypeOK
<1>1. BufferInv => TypeOK
  <2> SUFFICES ASSUME BufferInv PROVE TypeOK
    OBVIOUS
  <2>1. Len(mOutBufferQueue) <= 1
    <3>1. mOutBufferQueue = <<>> \/ \E page \in [Slots -> 0 .. written] : mOutBufferQueue = <<page>>
      BY DEF BufferInv, Types, HoldsPage
    <3> QED
      BY <3>1
  <2>2. written \in 0 .. MaxBytes /\ wire \in Seq(0 .. written) /\ Len(wire) \in Nat
    BY LenProperties DEF BufferInv, Types
  <2>3. wire \in Seq(0 .. MaxBytes)
    BY <2>2, SeqMonotonic, WriteBufferAssumption
  <2>4. BackPage \in [0 .. PageSize - 1 -> 0 .. written]
    BY <2>2, BackPageType DEF BufferInv, Slots
  <2>5. mNeedWrite \in 0 .. MaxBytes /\ dropped \in 0 .. MaxBytes
    BY <2>2, WriteBufferAssumption DEF BufferInv, Types, Counted
  <2>6. watched \in BOOLEAN /\ overtaken \in BOOLEAN
    BY Zenon DEF BufferInv, Flags
  <2> QED
    BY <2>1, <2>2, <2>3, <2>4, <2>5, <2>6 DEF BufferInv, Types, Damages, TypeOK
<1> QED
  BY <1>1, BufferInvariant, PTL DEF Spec

\* No byte is lost or counted twice in silence (netConnection.cc:146-175, ioBuffer.cc:137-212).
THEOREM BytesAlwaysCounted == Spec => []BytesCounted
<1>1. BufferInv => BytesCounted
  BY DEF BufferInv
<1> QED
  BY <1>1, BufferInvariant, PTL DEF Spec

\* Bytes that wait have a page and EPOLLOUT, unless an append crossed the page
\* (ioBuffer.cc:143-167, netConnection.cc:104-115).
THEOREM WaitingAlwaysWatched == Spec => []WaitingIsWatched
<1>1. BufferInv => WaitingIsWatched
  BY DEF BufferInv
<1> QED
  BY <1>1, BufferInvariant, PTL DEF Spec

\* Nothing but overtaking and the three kinds of damage can disturb what the client
\* receives (ioBuffer.cc:143-165, 178-212, netConnection.cc:152-174).
THEOREM SentInOrderOrDamaged == Spec => []SentInOrderUnless
<1>1. BufferInv => SentInOrderUnless
  <2> SUFFICES ASSUME BufferInv, ~overtaken, damage = {}
               PROVE  IsPrefix(wire, Bytes(1, written))
    BY DEF SentInOrderUnless
  <2> DEFINE all == Bytes(1, written)
  <2>1. /\ written \in Nat /\ wire \in Seq(0 .. written) /\ Len(wire) \in Nat
        /\ Len(wire) <= written
        /\ \A i \in 1 .. Len(wire) : wire[i] = i
    BY LenProperties DEF BufferInv, Types, Counted, InOrder
  <2>2. /\ all \in Seq(0 .. written) /\ Len(all) = written
        /\ \A i \in 1 .. written : all[i] = 1 + i - 1
    <3>1. 1 \in Nat /\ 1 + written <= written + 1
      BY <2>1
    <3> QED
      BY <2>1, <3>1, BytesSeq
  <2> HIDE DEF all
  <2>3. \A i \in 1 .. Len(wire) : wire[i] = all[i]
    BY <2>1, <2>2
  <2>4. SubSeq(wire, 1, Len(wire)) = SubSeq(all, 1, Len(wire))
    BY <2>1, <2>2, <2>3
  <2> QED
    BY <2>1, <2>2, <2>4 DEF IsPrefix, all
<1> QED
  BY <1>1, BufferInvariant, PTL DEF Spec
=============================================================================
