---------------------------- MODULE ReadBufferProofs ----------------------------
(***************************************************************************)
(* Proofs about ReadBuffer, for every page size, head size and pool, and   *)
(* whatever the client sends: the buffer holds the bytes read last, in     *)
(* order, and gives back no page of another connection, until a page that  *)
(* was read exactly to its end is left at the front.                       *)
(*                                                                         *)
(* The argument: the offsets and the number of pages determine each other  *)
(* (EndsAtRight), so that byte n is in page (left + n) \div PageSize; the  *)
(* pages are different ones and none is free (OwnPages), so that neither   *)
(* filling the last page nor giving back the first ones changes a byte     *)
(* that waits; and ClientSM is only called with a byte in the last page    *)
(* (LastPageUsed), so that taking everything leaves one page.              *)
(*                                                                         *)
(* ClientSM is given whole bodies in their turn until bytes lay across     *)
(* pages or came late: what it has taken ends where a message ends, or     *)
(* where the head of one does while it waits for the body (Framed).  A     *)
(* piece of one page without a missing byte is the bytes that come next    *)
(* (ContentIsNext); where messages end is a sum of their lengths, by       *)
(* induction on their number (MessageEnds, EndsAscend), so that heads are  *)
(* different bytes (HeadsDiffer) and name the body that follows them.      *)
(***************************************************************************)
EXTENDS ReadBuffer, SequenceTheorems, FiniteSetTheorems, WellFoundedInduction, TLAPS

\* The parts of the state the properties are about have their types.
Types ==
    /\ arrived \in Nat /\ taken \in 0 .. arrived
    /\ mInBufferQueue \in Seq(Pages \cup {NULL})
    /\ mLeftOfReadBuffer \in 0 .. PageSize
    /\ mRightOfReadBuffer \in 0 .. PageSize - 1
    /\ mReadBufferLen \in 0 .. taken
    /\ mem \in [Pages -> [0 .. PageSize - 1 -> Nat]]
    /\ free \subseteq Pages
    /\ mBodyLen \in Nat
    /\ msgs \in [1 .. MaxMsgs -> BodyLens]

\* The pages of the queue are different ones, and none can be had from the pool.
OwnPages ==
    exact # "misgiven" =>
        /\ \A i, j \in 1 .. Len(mInBufferQueue) : mInBufferQueue[i] = mInBufferQueue[j] => i = j
        /\ \A i \in 1 .. Len(mInBufferQueue) : mInBufferQueue[i] \notin free

\* Only the last page can be one the pool did not have; nothing was read into it.
OnlyLastMissing ==
    \A i \in 1 .. Len(mInBufferQueue) :
        mInBufferQueue[i] = NULL => i = Len(mInBufferQueue) /\ mRightOfReadBuffer = 0

\* The bytes that wait end in the last page, at mRightOfReadBuffer.
EndsAtRight ==
    IF mInBufferQueue = <<>>
    THEN mReadBufferLen = 0 /\ mRightOfReadBuffer = 0
    ELSE EndOf(mReadBufferLen) = (Len(mInBufferQueue) - 1) * PageSize + mRightOfReadBuffer

\* With nothing to read, reading begins at the beginning of the page.
NothingLeft == mReadBufferLen = 0 => mLeftOfReadBuffer = 0

\* ClientSM is called after a read that left room in the last page.
LastPageUsed == pc \in {"head", "body"} /\ mReadBufferLen > 0 => mRightOfReadBuffer > 0

\* A page read to its end stays at the front only when that was noted.
EndIsExact == mLeftOfReadBuffer = PageSize => exact # "no"

\* Nothing is read once a page has two owners.
ReadsOwnPages == pc = "read" => exact # "misgiven"

\* The strengthening that is inductive.
ReadInv ==
    /\ Types
    /\ OwnPages
    /\ OnlyLastMissing
    /\ EndsAtRight
    /\ NothingLeft
    /\ LastPageUsed
    /\ EndIsExact
    /\ ReadsOwnPages
    /\ BufferedInOrder

-----------------------------------------------------------------------------
(* Division *)

\* Quotient and remainder.
LEMMA Division ==
  ASSUME NEW a \in Nat, NEW P \in Nat \ {0}
  PROVE  a \div P \in Nat /\ a % P \in 0 .. P - 1 /\ a = P * (a \div P) + (a % P)
OBVIOUS

\* Position a is offset r of the page k pages behind the first.
IsAt(a, P, k, r) == a = P * k + r

\* There is no other quotient and remainder.
LEMMA DivisionUnique ==
  ASSUME NEW P \in Nat \ {0}, NEW k \in Nat, NEW r \in 0 .. P - 1,
         NEW a \in Nat, IsAt(a, P, k, r)
  PROVE  a \div P = k /\ a % P = r
<1>1. PICK d \in Nat : d = a \div P
  BY Division
<1>2. PICK m \in 0 .. P - 1 : m = a % P
  BY Division
<1>3. P * d + m = P * k + r
  BY <1>1, <1>2, Division DEF IsAt
<1>4. ASSUME d < k PROVE FALSE
  <2>1. P * (d + 1) <= P * k
    BY <1>4
  <2> QED
    BY <1>3, <2>1
<1>5. ASSUME k < d PROVE FALSE
  <2>1. P * (k + 1) <= P * d
    BY <1>5
  <2> QED
    BY <1>3, <2>1
<1>6. d = k
  BY <1>4, <1>5
<1> QED
  BY <1>1, <1>2, <1>3, <1>6

\* Less than k pages and a rest: the page is one of the first k + 1.
LEMMA QuotientBound ==
  ASSUME NEW P \in Nat \ {0}, NEW a \in Nat, NEW k \in Nat, NEW r \in 0 .. P - 1,
         a < P * k + r
  PROVE  a \div P \in 0 .. k /\ (a \div P = k => a % P < r)
<1>1. PICK d \in Nat : d = a \div P
  BY Division
<1>2. PICK m \in 0 .. P - 1 : m = a % P
  BY Division
<1>3. a = P * d + m
  BY <1>1, <1>2, Division
<1>4. ASSUME k < d PROVE FALSE
  <2>1. P * (k + 1) <= P * d
    BY <1>4
  <2> QED
    BY <1>3, <2>1
<1>5. d <= k
  BY <1>4
<1>6. d = k => m < r
  BY <1>3
<1> QED
  BY <1>1, <1>2, <1>5, <1>6

-----------------------------------------------------------------------------
(* Reading from the socket *)

LEMMA Sizes == PageSize \in Nat \ {0} /\ NULL \notin Pages /\ HeadLen \in Nat
BY ReadBufferAssumption DEF Pages, NULL

\* Nothing is buffered to begin with.
LEMMA InitInv == Init => ReadInv
<1> SUFFICES ASSUME Init PROVE ReadInv
  OBVIOUS
<1>1. Types
  <2>1. mInBufferQueue \in Seq(Pages \cup {NULL})
    BY EmptySeq DEF Init
  <2>2. mem \in [Pages -> [0 .. PageSize - 1 -> Nat]]
    BY DEF Init, Blank, NoByte
  <2> QED
    BY Sizes, <2>1, <2>2 DEF Init, Types
<1>2. mInBufferQueue = <<>> /\ Len(mInBufferQueue) = 0
  BY DEF Init
<1>3. /\ mReadBufferLen = 0 /\ mRightOfReadBuffer = 0 /\ mLeftOfReadBuffer = 0
      /\ exact = "no" /\ pc = "wait"
  BY DEF Init
<1>4. EndIsExact
  BY Sizes, <1>3 DEF EndIsExact
<1>5. BufferedInOrder
  BY <1>2, <1>3 DEF BufferedInOrder
<1> QED
  BY <1>1, <1>2, <1>3, <1>4, <1>5
  DEF ReadInv, OwnPages, OnlyLastMissing, EndsAtRight, NothingLeft, LastPageUsed,
      ReadsOwnPages

\* Steps that touch neither the buffer nor the pool.
LEMMA SameBuffer ==
  ASSUME ReadInv, UNCHANGED <<bufferVars, mem, taken, msgs>>,
         arrived' \in Nat, arrived <= arrived', mBodyLen' \in Nat, exact' = exact,
         free' \subseteq Pages,
         exact # "misgiven" => \A i \in 1 .. Len(mInBufferQueue) : mInBufferQueue[i] \notin free',
         pc' \in {"head", "body"} => pc \in {"head", "body"},
         pc' = "read" => exact # "misgiven"
  PROVE  ReadInv'
<1>1. UNCHANGED <<mInBufferQueue, mLeftOfReadBuffer, mRightOfReadBuffer, mReadBufferLen>>
  BY DEF bufferVars, rangeVars
<1>2. Types'
  BY <1>1 DEF ReadInv, Types
<1>3. /\ OwnPages' /\ OnlyLastMissing' /\ EndsAtRight' /\ NothingLeft'
      /\ LastPageUsed' /\ EndIsExact' /\ ReadsOwnPages'
  BY <1>1
  DEF ReadInv, OwnPages, OnlyLastMissing, EndsAtRight, EndOf, NothingLeft, LastPageUsed, EndIsExact,
      ReadsOwnPages
<1>4. BufferedInOrder'
  BY <1>1 DEF ReadInv, BufferedInOrder, EndOf, Buffered
<1> QED
  BY <1>2, <1>3, <1>4 DEF ReadInv

\* Where byte n is: in one of the pages, and in the last one before right.
LEMMA WhereBuffered ==
  ASSUME ReadInv, mInBufferQueue # <<>>, NEW n \in 0 .. mReadBufferLen - 1
  PROVE  LET i == (mLeftOfReadBuffer + n) \div PageSize + 1
             o == (mLeftOfReadBuffer + n) % PageSize
         IN  /\ i \in 1 .. Len(mInBufferQueue) /\ o \in 0 .. PageSize - 1
             /\ i = Len(mInBufferQueue) => o < mRightOfReadBuffer
             /\ mInBufferQueue[i] \in Pages
             /\ Buffered(n) = mem[mInBufferQueue[i]][o]
<1>1. /\ PageSize \in Nat \ {0}
      /\ mLeftOfReadBuffer \in 0 .. PageSize /\ mRightOfReadBuffer \in 0 .. PageSize - 1
      /\ mReadBufferLen \in Nat
      /\ mInBufferQueue \in Seq(Pages \cup {NULL})
  BY Sizes DEF ReadInv, Types
<1>2. PICK len \in Nat \ {0} : len = Len(mInBufferQueue)
  BY <1>1, EmptySeq
<1>3. PICK k \in Nat : k = len - 1
  BY <1>2
<1>4. mLeftOfReadBuffer + mReadBufferLen = k * PageSize + mRightOfReadBuffer
  BY <1>2, <1>3 DEF ReadInv, EndsAtRight, EndOf
<1>5. PICK at \in Nat : at = mLeftOfReadBuffer + n
  BY <1>1
<1>6. at < PageSize * k + mRightOfReadBuffer
  BY <1>1, <1>4, <1>5
<1>7. PICK d \in 0 .. k : d = at \div PageSize
  BY <1>1, <1>6, QuotientBound
<1>8. PICK o \in 0 .. PageSize - 1 : o = at % PageSize
  BY <1>1, Division
<1>9. d = k => o < mRightOfReadBuffer
  BY <1>1, <1>6, <1>7, <1>8, QuotientBound
<1>10. d + 1 \in 1 .. len /\ (d + 1 = len => d = k)
  BY <1>2, <1>3
<1>11. mInBufferQueue[d + 1] \in Pages \cup {NULL}
  BY <1>1, <1>2, <1>10, ElementOfSeq
<1>12. mInBufferQueue[d + 1] # NULL
  BY <1>1, <1>2, <1>8, <1>9, <1>10 DEF ReadInv, OnlyLastMissing
<1> QED
  BY <1>2, <1>5, <1>7, <1>8, <1>9, <1>10, <1>11, <1>12 DEF Buffered

\* The bytes just read are behind those that were buffered, which stay as they are
\* (ioBuffer.cc:107-112).
LEMMA CopyInAppends ==
  ASSUME ReadInv, exact # "misgiven", mInBufferQueue # <<>>, Back # NULL,
         NEW n \in 1 .. ReadLen, CopyIn(n)
  PROVE  /\ mem' \in [Pages -> [0 .. PageSize - 1 -> Nat]]
         /\ taken' = taken + n /\ mReadBufferLen' = mReadBufferLen + n
         /\ \A m \in 0 .. mReadBufferLen + n - 1 :
                LET i == (mLeftOfReadBuffer + m) \div PageSize + 1
                    o == (mLeftOfReadBuffer + m) % PageSize
                IN  /\ i \in 1 .. Len(mInBufferQueue)
                    /\ mem'[mInBufferQueue[i]][o] = taken - mReadBufferLen + 1 + m
<1>1. /\ PageSize \in Nat \ {0}
      /\ mLeftOfReadBuffer \in 0 .. PageSize /\ mRightOfReadBuffer \in 0 .. PageSize - 1
      /\ mReadBufferLen \in Nat /\ taken \in Nat
      /\ mInBufferQueue \in Seq(Pages \cup {NULL})
      /\ mem \in [Pages -> [0 .. PageSize - 1 -> Nat]]
  BY Sizes DEF ReadInv, Types
<1>2. PICK len \in Nat \ {0} : len = Len(mInBufferQueue)
  BY <1>1, EmptySeq
<1>3. Back = mInBufferQueue[len] /\ Back \in Pages
  <2>1. mInBufferQueue[len] \in Pages \cup {NULL}
    BY <1>1, <1>2, ElementOfSeq
  <2> QED
    BY <1>2, <2>1 DEF Back, Last
<1>4. n \in Nat \ {0} /\ mRightOfReadBuffer + n <= PageSize
  BY <1>1 DEF ReadLen
<1>5. /\ taken' = taken + n /\ mReadBufferLen' = mReadBufferLen + n
      /\ mem' = [mem EXCEPT ![Back] =
             [i \in 0 .. PageSize - 1 |->
                 IF i \in mRightOfReadBuffer .. mRightOfReadBuffer + n - 1
                 THEN taken + 1 + i - mRightOfReadBuffer ELSE mem[Back][i]]]
  <2>1. DOMAIN mem[Back] = 0 .. PageSize - 1
    BY <1>1, <1>3
  <2> QED
    BY <2>1 DEF CopyIn
<1>6. /\ \A p \in Pages : p # Back => mem'[p] = mem[p]
      /\ \A i \in 0 .. PageSize - 1 :
             mem'[Back][i] = IF i \in mRightOfReadBuffer .. mRightOfReadBuffer + n - 1
                             THEN taken + 1 + i - mRightOfReadBuffer ELSE mem[Back][i]
  BY <1>1, <1>3, <1>5
<1>7. mem' \in [Pages -> [0 .. PageSize - 1 -> Nat]]
  <2> DEFINE page == [i \in 0 .. PageSize - 1 |->
                         IF i \in mRightOfReadBuffer .. mRightOfReadBuffer + n - 1
                         THEN taken + 1 + i - mRightOfReadBuffer ELSE mem[Back][i]]
  <2>1. page \in [0 .. PageSize - 1 -> Nat]
    <3> SUFFICES ASSUME NEW i \in 0 .. PageSize - 1
                 PROVE  (IF i \in mRightOfReadBuffer .. mRightOfReadBuffer + n - 1
                         THEN taken + 1 + i - mRightOfReadBuffer ELSE mem[Back][i]) \in Nat
      OBVIOUS
    <3>1. mem[Back][i] \in Nat
      BY <1>1, <1>3
    <3> QED
      BY <1>1, <1>4, <3>1
  <2>2. mem' = [mem EXCEPT ![Back] = page]
    BY <1>5
  <2> HIDE DEF page
  <2> QED
    BY <1>1, <2>1, <2>2
<1>8. ASSUME NEW m \in 0 .. mReadBufferLen + n - 1
      PROVE  LET i == (mLeftOfReadBuffer + m) \div PageSize + 1
                 o == (mLeftOfReadBuffer + m) % PageSize
             IN  /\ i \in 1 .. Len(mInBufferQueue)
                 /\ mem'[mInBufferQueue[i]][o] = taken - mReadBufferLen + 1 + m
  <2>1. CASE m < mReadBufferLen
    <3>1. m \in 0 .. mReadBufferLen - 1
      BY <1>1, <2>1
    <3>2. PICK i \in 1 .. len : i = (mLeftOfReadBuffer + m) \div PageSize + 1
      BY <1>2, <3>1, WhereBuffered
    <3>3. PICK o \in 0 .. PageSize - 1 : o = (mLeftOfReadBuffer + m) % PageSize
      BY <3>1, WhereBuffered
    <3>4. /\ i = len => o < mRightOfReadBuffer
          /\ mInBufferQueue[i] \in Pages
          /\ Buffered(m) = mem[mInBufferQueue[i]][o]
      BY <1>2, <3>1, <3>2, <3>3, WhereBuffered
    <3>5. Buffered(m) = taken - mReadBufferLen + 1 + m
      BY <3>1 DEF ReadInv, BufferedInOrder
    <3>6. mem'[mInBufferQueue[i]][o] = mem[mInBufferQueue[i]][o]
      <4>1. CASE i = len
        BY <1>1, <1>3, <1>6, <3>3, <3>4, <4>1
      <4>2. CASE i # len
        <5>1. mInBufferQueue[i] # Back
          BY <1>2, <1>3, <4>2 DEF ReadInv, OwnPages
        <5> QED
          BY <1>6, <3>4, <5>1
      <4> QED
        BY <4>1, <4>2
    <3> QED
      BY <1>2, <3>2, <3>3, <3>4, <3>5, <3>6
  <2>2. CASE ~(m < mReadBufferLen)
    <3>1. PICK j \in 0 .. n - 1 : m = mReadBufferLen + j
      BY <1>1, <1>4, <2>2
    <3>2. PICK k \in Nat : k = len - 1
      BY <1>2
    <3>3. mLeftOfReadBuffer + mReadBufferLen = k * PageSize + mRightOfReadBuffer
      BY <1>2, <3>2 DEF ReadInv, EndsAtRight, EndOf
    <3>4. PICK at \in Nat : at = mLeftOfReadBuffer + m
      BY <1>1, <1>4
    <3>5. PICK o \in 0 .. PageSize - 1 : o = mRightOfReadBuffer + j
      BY <1>1, <1>4, <3>1
    <3>6. IsAt(at, PageSize, k, o)
      BY <1>1, <3>1, <3>3, <3>4, <3>5 DEF IsAt
    <3>7. at \div PageSize = k /\ at % PageSize = o
      BY <1>1, <3>6, DivisionUnique
    <3>8. k + 1 = len
      BY <1>2, <3>2
    <3>9. mem'[Back][o] = taken + 1 + o - mRightOfReadBuffer
      BY <1>1, <1>4, <1>6, <3>1, <3>5
    <3>10. mem'[Back][o] = taken - mReadBufferLen + 1 + m
      BY <1>1, <3>1, <3>5, <3>9
    <3> QED
      BY <1>2, <1>3, <3>4, <3>7, <3>8, <3>10
  <2> QED
    BY <2>1, <2>2
<1> QED
  BY <1>5, <1>7, <1>8

\* The first page of an empty queue; nothing is in it yet (ioBuffer.cc:88-105).
LEMMA ReadFirstPageKeeps ==
  ASSUME ReadInv, ReadFirstPage
  PROVE  ReadInv'
<1>1. PICK p \in free : mInBufferQueue' = <<p>> /\ free' = free \ {p}
  BY DEF ReadFirstPage
<1>2. /\ mInBufferQueue = <<>> /\ pc = "read" /\ pc' = "read"
      /\ UNCHANGED <<msgs, arrived, taken, mLeftOfReadBuffer, mRightOfReadBuffer, mReadBufferLen,
                     mem, mBodyLen, exact>>
  BY DEF ReadFirstPage, socketVars, rangeVars, historyVars
<1>3. mReadBufferLen = 0 /\ mRightOfReadBuffer = 0 /\ mLeftOfReadBuffer = 0
  BY <1>2 DEF ReadInv, EndsAtRight, NothingLeft
<1>4. p \in Pages /\ Len(<<p>>) = 1 /\ <<p>> \in Seq(Pages \cup {NULL})
  BY <1>1 DEF ReadInv, Types
<1>5. Types'
  BY <1>1, <1>2, <1>4 DEF ReadInv, Types
<1>6. OwnPages'
  BY <1>1, <1>4 DEF OwnPages
<1>7. OnlyLastMissing'
  BY <1>1, <1>4, Sizes DEF OnlyLastMissing
<1>8. EndsAtRight'
  BY <1>1, <1>2, <1>3, <1>4, Sizes DEF EndsAtRight, EndOf
<1>9. NothingLeft' /\ LastPageUsed' /\ EndIsExact' /\ ReadsOwnPages'
  BY <1>2, <1>3 DEF ReadInv, NothingLeft, LastPageUsed, EndIsExact, ReadsOwnPages
<1>10. BufferedInOrder'
  BY <1>1, <1>2, <1>3, <1>4, Sizes DEF BufferedInOrder, EndOf
<1> QED
  BY <1>5, <1>6, <1>7, <1>8, <1>9, <1>10 DEF ReadInv

\* Bytes that leave room in the last page (ioBuffer.cc:107-125).
LEMMA ReadPartialKeeps ==
  ASSUME ReadInv, ReadPartial
  PROVE  ReadInv'
<1>1. /\ pc = "read" /\ mInBufferQueue # <<>> /\ Back # NULL
      /\ Unread > 0 /\ Unread <= ReadLen - 1
      /\ CopyIn(Unread)
      /\ mRightOfReadBuffer' = mRightOfReadBuffer + Unread
      /\ pc' = "head"
      /\ UNCHANGED <<msgs, arrived, mInBufferQueue, mLeftOfReadBuffer, free, mBodyLen, exact>>
  BY DEF ReadPartial, ReturnBytes, socketVars
<1>2. /\ PageSize \in Nat \ {0}
      /\ mLeftOfReadBuffer \in 0 .. PageSize /\ mRightOfReadBuffer \in 0 .. PageSize - 1
      /\ taken \in Nat /\ arrived \in Nat /\ mReadBufferLen \in 0 .. taken
  BY Sizes DEF ReadInv, Types
<1>3. exact # "misgiven"
  BY <1>1 DEF ReadInv, ReadsOwnPages
<1>4. PICK n \in 1 .. ReadLen : n = Unread
  BY <1>1, <1>2 DEF Unread, ReadLen
<1>5. n \in Nat \ {0} /\ n <= PageSize - mRightOfReadBuffer - 1 /\ n = arrived - taken
  BY <1>1, <1>2, <1>4 DEF Unread, ReadLen
<1>6. /\ mem' \in [Pages -> [0 .. PageSize - 1 -> Nat]]
      /\ taken' = taken + n /\ mReadBufferLen' = mReadBufferLen + n
      /\ mRightOfReadBuffer' = mRightOfReadBuffer + n
      /\ \A m \in 0 .. mReadBufferLen + n - 1 :
             mem'[mInBufferQueue[(mLeftOfReadBuffer + m) \div PageSize + 1]]
                 [(mLeftOfReadBuffer + m) % PageSize] = taken - mReadBufferLen + 1 + m
  <2>1. CopyIn(n)
    BY <1>1, <1>4
  <2> QED
    BY <1>1, <1>3, <1>4, <2>1, CopyInAppends
<1>7. Types'
  <2>1. taken' \in 0 .. arrived' /\ mReadBufferLen' \in 0 .. taken'
    BY <1>1, <1>2, <1>5, <1>6
  <2>2. mRightOfReadBuffer' \in 0 .. PageSize - 1
    BY <1>2, <1>5, <1>6
  <2> QED
    BY <1>1, <1>6, <2>1, <2>2 DEF ReadInv, Types
<1>8. OwnPages'
  BY <1>1 DEF ReadInv, OwnPages
<1>9. OnlyLastMissing'
  <2>1. Len(mInBufferQueue) \in Nat
    BY LenProperties DEF ReadInv, Types
  <2> QED
    BY <1>1, <2>1 DEF ReadInv, OnlyLastMissing, Back, Last
<1>10. EndsAtRight'
  <2>1. PICK len \in Nat : len = Len(mInBufferQueue)
    BY LenProperties DEF ReadInv, Types
  <2>2. mLeftOfReadBuffer + mReadBufferLen = (len - 1) * PageSize + mRightOfReadBuffer
    BY <1>1, <2>1 DEF ReadInv, EndsAtRight, EndOf
  <2>3. mLeftOfReadBuffer + (mReadBufferLen + n)
         = (len - 1) * PageSize + (mRightOfReadBuffer + n)
    BY <1>2, <1>5, <2>1, <2>2
  <2> QED
    BY <1>1, <1>2, <1>5, <1>6, <2>1, <2>3 DEF EndsAtRight, EndOf
<1>11. NothingLeft' /\ LastPageUsed' /\ EndIsExact' /\ ReadsOwnPages'
  BY <1>1, <1>2, <1>3, <1>5, <1>6 DEF ReadInv, NothingLeft, LastPageUsed, EndIsExact, ReadsOwnPages
<1>12. BufferedInOrder'
  <2>1. PICK t \in Nat : t = taken' /\ t = taken + n
    BY <1>2, <1>5, <1>6
  <2>2. PICK r \in Nat : r = mReadBufferLen' /\ r = mReadBufferLen + n
    BY <1>2, <1>5, <1>6
  <2>3. ASSUME NEW m \in 0 .. r - 1
        PROVE  Buffered(m)' = t - r + 1 + m
    <3>1. m \in 0 .. mReadBufferLen + n - 1
      BY <1>2, <2>2
    <3>2. Buffered(m)' = taken - mReadBufferLen + 1 + m
      BY <1>1, <1>6, <3>1 DEF Buffered
    <3>3. t - r = taken - mReadBufferLen
      BY <1>2, <1>5, <2>1, <2>2
    <3> QED
      BY <3>2, <3>3
  <2>4. mInBufferQueue' # <<>>
    BY <1>1
  <2> QED
    BY <1>10, <2>1, <2>2, <2>3, <2>4 DEF BufferedInOrder, EndsAtRight
<1> QED
  BY <1>7, <1>8, <1>9, <1>10, <1>11, <1>12 DEF ReadInv

\* Bytes that fill the last page; the next one is had or missing (ioBuffer.cc:113-122).
LEMMA ReadFullKeeps ==
  ASSUME ReadInv, ReadFull
  PROVE  ReadInv'
<1>1. /\ pc = "read" /\ pc' = "read" /\ mInBufferQueue # <<>> /\ Back # NULL
      /\ Unread >= ReadLen
      /\ CopyIn(ReadLen)
      /\ mRightOfReadBuffer' = 0
      /\ UNCHANGED <<msgs, arrived, mLeftOfReadBuffer, mBodyLen, exact>>
  BY DEF ReadFull, FillPage, socketVars, historyVars
<1>2. PICK p \in IF free = {} THEN {NULL} ELSE free :
          mInBufferQueue' = Append(mInBufferQueue, p) /\ free' = free \ {p}
  BY DEF ReadFull, FillPage
<1>3. /\ PageSize \in Nat \ {0}
      /\ mLeftOfReadBuffer \in 0 .. PageSize /\ mRightOfReadBuffer \in 0 .. PageSize - 1
      /\ taken \in Nat /\ arrived \in Nat /\ mReadBufferLen \in 0 .. taken
      /\ mInBufferQueue \in Seq(Pages \cup {NULL}) /\ free \subseteq Pages
  BY Sizes DEF ReadInv, Types
<1>4. exact # "misgiven"
  BY <1>1 DEF ReadInv, ReadsOwnPages
<1>5. PICK n \in 1 .. ReadLen : n = ReadLen
  BY <1>3 DEF ReadLen
<1>6. n \in Nat \ {0} /\ n = PageSize - mRightOfReadBuffer /\ taken + n <= arrived
  BY <1>1, <1>3, <1>5 DEF Unread, ReadLen
<1>7. PICK len \in Nat \ {0} : len = Len(mInBufferQueue)
  BY <1>1, <1>3, EmptySeq
<1>8. /\ mem' \in [Pages -> [0 .. PageSize - 1 -> Nat]]
      /\ taken' = taken + n /\ mReadBufferLen' = mReadBufferLen + n
      /\ \A m \in 0 .. mReadBufferLen + n - 1 :
             LET i == (mLeftOfReadBuffer + m) \div PageSize + 1
                 o == (mLeftOfReadBuffer + m) % PageSize
             IN  i \in 1 .. len /\ mem'[mInBufferQueue[i]][o] = taken - mReadBufferLen + 1 + m
  <2>1. CopyIn(n)
    BY <1>1, <1>5
  <2> QED
    BY <1>1, <1>4, <1>5, <1>7, <2>1, CopyInAppends
<1>9. p \in Pages \cup {NULL} /\ \A i \in 1 .. len : mInBufferQueue[i] \in Pages
  <2>1. ASSUME NEW i \in 1 .. len PROVE mInBufferQueue[i] \in Pages
    <3>1. mInBufferQueue[i] \in Pages \cup {NULL}
      BY <1>3, <1>7, ElementOfSeq
    <3>2. mInBufferQueue[i] # NULL
      BY <1>1, <1>7 DEF ReadInv, OnlyLastMissing, Back, Last
    <3> QED
      BY <3>1, <3>2
  <2> QED
    BY <1>2, <1>3, <2>1
<1>10. /\ mInBufferQueue' \in Seq(Pages \cup {NULL})
       /\ Len(mInBufferQueue') = len + 1
       /\ \A i \in 1 .. len : mInBufferQueue'[i] = mInBufferQueue[i]
       /\ mInBufferQueue'[len + 1] = p
       /\ mInBufferQueue' # <<>>
  BY <1>2, <1>3, <1>7, <1>9, AppendProperties
<1>11. Types'
  <2>1. taken' \in 0 .. arrived' /\ mReadBufferLen' \in 0 .. taken'
    BY <1>1, <1>3, <1>6, <1>8
  <2>2. free' \subseteq Pages
    BY <1>2, <1>3
  <2> QED
    BY <1>1, <1>3, <1>8, <1>10, <2>1, <2>2 DEF ReadInv, Types
<1>12. OwnPages'
  <2>1. \A i \in 1 .. len : mInBufferQueue[i] # p
    BY <1>2, <1>4, <1>7, <1>9, Sizes DEF ReadInv, OwnPages
  <2>2. \A i, j \in 1 .. len : mInBufferQueue[i] = mInBufferQueue[j] => i = j
    BY <1>4, <1>7 DEF ReadInv, OwnPages
  <2>3. \A i \in 1 .. len : mInBufferQueue[i] \notin free
    BY <1>4, <1>7 DEF ReadInv, OwnPages
  <2>4. \A i \in 1 .. len + 1 : i \in 1 .. len \/ i = len + 1
    BY <1>7
  <2> QED
    BY <1>2, <1>10, <2>1, <2>2, <2>3, <2>4 DEF OwnPages
<1>13. OnlyLastMissing'
  <2>1. \A i \in 1 .. len + 1 : i \in 1 .. len \/ i = len + 1
    BY <1>7
  <2> QED
    BY <1>1, <1>9, <1>10, <2>1, Sizes DEF OnlyLastMissing
<1>14. EndsAtRight'
  <2>1. mLeftOfReadBuffer + mReadBufferLen = (len - 1) * PageSize + mRightOfReadBuffer
    BY <1>1, <1>7 DEF ReadInv, EndsAtRight, EndOf
  <2>2. mLeftOfReadBuffer + (mReadBufferLen + n) = len * PageSize
    BY <1>3, <1>6, <1>7, <2>1
  <2> QED
    BY <1>1, <1>3, <1>6, <1>7, <1>8, <1>10, <2>2 DEF EndsAtRight, EndOf
<1>15. NothingLeft' /\ LastPageUsed' /\ EndIsExact' /\ ReadsOwnPages'
  BY <1>1, <1>3, <1>4, <1>6, <1>8 DEF ReadInv, NothingLeft, LastPageUsed, EndIsExact, ReadsOwnPages
<1>16. BufferedInOrder'
  <2>1. PICK t \in Nat : t = taken' /\ t = taken + n
    BY <1>3, <1>6, <1>8
  <2>2. PICK r \in Nat : r = mReadBufferLen' /\ r = mReadBufferLen + n
    BY <1>3, <1>6, <1>8
  <2>3. ASSUME NEW m \in 0 .. r - 1
        PROVE  Buffered(m)' = t - r + 1 + m
    <3>1. m \in 0 .. mReadBufferLen + n - 1
      BY <1>3, <2>2
    <3>2. Buffered(m)' = taken - mReadBufferLen + 1 + m
      BY <1>1, <1>8, <1>10, <3>1 DEF Buffered
    <3>3. t - r = taken - mReadBufferLen
      BY <1>3, <1>6, <2>1, <2>2
    <3> QED
      BY <3>2, <3>3
  <2> QED
    BY <1>10, <1>14, <2>1, <2>2, <2>3 DEF BufferedInOrder, EndsAtRight
<1> QED
  BY <1>11, <1>12, <1>13, <1>14, <1>15, <1>16 DEF ReadInv

-----------------------------------------------------------------------------
(* Taking bytes out *)

\* Which pages are popped, and where reading goes on: all but the last page if all is
\* taken, and else those before the byte that comes next (ioBuffer.cc:42-79).
LEMMA PoppedWhat ==
  ASSUME ReadInv, pc \in {"head", "body"}, NEW n \in Nat, ~Refuses(n)
  PROVE  /\ n \in 1 .. mReadBufferLen
         /\ mInBufferQueue # <<>>
         /\ mRightOfReadBuffer \in 1 .. PageSize - 1
         /\ \E k \in 0 .. Len(mInBufferQueue) - 1 :
                /\ k = Popped(n)
                /\ n = mReadBufferLen => k = Len(mInBufferQueue) - 1
                /\ n < mReadBufferLen =>
                       /\ EndOf(n) - k * PageSize \in 0 .. PageSize
                       /\ EndOf(n) - k * PageSize = PageSize => InPage(n) /\ EndOf(n) = PageSize
<1>1. /\ PageSize \in Nat \ {0}
      /\ mLeftOfReadBuffer \in 0 .. PageSize /\ mRightOfReadBuffer \in 0 .. PageSize - 1
      /\ mReadBufferLen \in Nat /\ mInBufferQueue \in Seq(Pages \cup {NULL})
  BY Sizes DEF ReadInv, Types
<1>2. n \in 1 .. mReadBufferLen /\ mInBufferQueue # <<>>
  BY <1>1 DEF Refuses
<1>3. mRightOfReadBuffer \in 1 .. PageSize - 1
  BY <1>1, <1>2 DEF ReadInv, LastPageUsed
<1>4. PICK c \in Nat : c = Len(mInBufferQueue) - 1
  <2>1. Len(mInBufferQueue) \in Nat \ {0}
    BY <1>1, <1>2, EmptySeq
  <2> QED
    BY <2>1
<1>5. mLeftOfReadBuffer + mReadBufferLen = c * PageSize + mRightOfReadBuffer
  BY <1>2, <1>4 DEF ReadInv, EndsAtRight, EndOf
<1>6. PICK e \in Nat : e = EndOf(n) /\ e = mLeftOfReadBuffer + n
  BY <1>1 DEF EndOf
<1>7. ASSUME InPage(n)
      PROVE  Popped(n) = 0 /\ e <= PageSize /\ (n = mReadBufferLen => c = 0)
  <2>1. Popped(n) = 0
    BY <1>7 DEF Popped
  <2>2. e <= PageSize
    BY <1>1, <1>6, <1>7 DEF InPage
  <2>3. ASSUME n = mReadBufferLen, c # 0 PROVE FALSE
    <3>1. c * PageSize >= PageSize
      BY <1>1, <2>3
    <3> QED
      BY <1>1, <1>3, <1>5, <1>6, <2>2, <2>3, <3>1
  <2> QED
    BY <2>1, <2>2, <2>3
<1>8. ASSUME ~InPage(n), n = mReadBufferLen PROVE Popped(n) = c
  <2>1. PICK a \in Nat : a = e - 1
    BY <1>2, <1>6, <1>1
  <2>2. PICK r \in 0 .. PageSize - 1 : r = mRightOfReadBuffer - 1
    BY <1>1, <1>3
  <2>3. IsAt(a, PageSize, c, r)
    BY <1>1, <1>5, <1>6, <1>8, <2>1, <2>2 DEF IsAt
  <2>4. a \div PageSize = c
    BY <1>1, <2>3, DivisionUnique
  <2> QED
    BY <1>6, <1>8, <2>1, <2>4 DEF Popped
<1>9. ASSUME ~InPage(n), n < mReadBufferLen
      PROVE  \E k \in 0 .. c : k = Popped(n) /\ e - k * PageSize \in 0 .. PageSize - 1
  <2>1. e < PageSize * c + mRightOfReadBuffer
    BY <1>1, <1>2, <1>5, <1>6, <1>9
  <2>2. PICK k \in 0 .. c : k = e \div PageSize
    BY <1>1, <2>1, QuotientBound
  <2>3. PICK m \in 0 .. PageSize - 1 : m = e % PageSize
    BY <1>1, Division
  <2>4. e = PageSize * k + m
    BY <1>1, <2>2, <2>3, Division
  <2>5. e - k * PageSize \in 0 .. PageSize - 1
    BY <1>1, <2>4
  <2>6. k = Popped(n)
    BY <1>2, <1>6, <1>9, <2>2 DEF Popped
  <2> QED
    BY <2>5, <2>6
<1>10. \E k \in 0 .. c :
           /\ k = Popped(n)
           /\ n = mReadBufferLen => k = c
           /\ n < mReadBufferLen =>
                  /\ e - k * PageSize \in 0 .. PageSize
                  /\ e - k * PageSize = PageSize => InPage(n) /\ e = PageSize
  <2>1. CASE InPage(n)
    <3>1. 0 = Popped(n) /\ (n = mReadBufferLen => 0 = c) /\ e - 0 * PageSize = e
      BY <1>1, <1>7, <2>1
    <3> QED
      BY <1>1, <1>7, <2>1, <3>1
  <2>2. CASE ~InPage(n) /\ n = mReadBufferLen
    BY <1>8, <2>2
  <2>3. CASE ~InPage(n) /\ n < mReadBufferLen
    <3>1. PICK k \in 0 .. c : k = Popped(n) /\ e - k * PageSize \in 0 .. PageSize - 1
      BY <1>9, <2>3
    <3> QED
      BY <1>1, <2>3, <3>1
  <2> QED
    BY <1>1, <1>2, <2>1, <2>2, <2>3
<1> QED
  BY <1>2, <1>3, <1>4, <1>6, <1>10

\* The queue that is left.
LEMMA AfterPopWhat ==
  ASSUME ReadInv, NEW n, NEW k \in 0 .. Len(mInBufferQueue) - 1, k = Popped(n)
  PROVE  /\ AfterPop(n) \in Seq(Pages \cup {NULL})
         /\ Len(AfterPop(n)) = Len(mInBufferQueue) - k
         /\ \A i \in 1 .. Len(mInBufferQueue) - k : AfterPop(n)[i] = mInBufferQueue[i + k]
         /\ AfterPop(n) # <<>>
<1>1. mInBufferQueue \in Seq(Pages \cup {NULL})
  BY DEF ReadInv, Types
<1>2. PICK c \in Nat : c = Len(mInBufferQueue)
  BY <1>1, LenProperties
<1>3. k \in Nat /\ k < c
  BY <1>2
<1>4. \A i \in k + 1 .. c : mInBufferQueue[i] \in Pages \cup {NULL}
  BY <1>1, <1>2, <1>3, ElementOfSeq
<1>5. /\ AfterPop(n) \in Seq(Pages \cup {NULL})
      /\ Len(AfterPop(n)) = c - k
      /\ \A i \in 1 .. c - k : AfterPop(n)[i] = mInBufferQueue[i + k]
  <2>1. PICK m \in Int : m = k + 1
    BY <1>3
  <2>2. AfterPop(n) = SubSeq(mInBufferQueue, m, c)
    BY <1>2, <2>1 DEF AfterPop
  <2>3. \A i \in m .. c : mInBufferQueue[i] \in Pages \cup {NULL}
    BY <1>4, <2>1
  <2>4. /\ SubSeq(mInBufferQueue, m, c) \in Seq(Pages \cup {NULL})
        /\ Len(SubSeq(mInBufferQueue, m, c)) = IF m <= c THEN c - m + 1 ELSE 0
        /\ \A i \in 1 .. c - m + 1 :
               SubSeq(mInBufferQueue, m, c)[i] = mInBufferQueue[m + i - 1]
    BY <1>2, <2>1, <2>3, SubSeqProperties
  <2>5. ASSUME NEW i \in 1 .. c - k PROVE AfterPop(n)[i] = mInBufferQueue[i + k]
    <3>1. i \in 1 .. c - m + 1 /\ m + i - 1 = i + k
      BY <1>3, <2>1
    <3> QED
      BY <2>2, <2>4, <3>1
  <2> QED
    BY <1>3, <2>1, <2>2, <2>4, <2>5
<1>6. AfterPop(n) # <<>>
  BY <1>3, <1>5, EmptySeq
<1> QED
  BY <1>2, <1>5, <1>6

\* n bytes were taken: the others are where they were, in the pages that are left, and
\* only pages that were popped went back (ioBuffer.cc:32-79).
LEMMA GetReadDataKeeps ==
  ASSUME ReadInv, pc \in {"head", "body"}, NEW n \in Nat, ~Refuses(n), GetReadData(n),
         UNCHANGED <<msgs, arrived, taken>>, mBodyLen' \in Nat, pc' # "read"
  PROVE  /\ ReadInv'
         /\ exact = "no" => free' \ free \subseteq ToSet(mInBufferQueue) \ ToSet(mInBufferQueue')
<1>1. /\ PageSize \in Nat \ {0}
      /\ mLeftOfReadBuffer \in 0 .. PageSize /\ mRightOfReadBuffer \in 0 .. PageSize - 1
      /\ taken \in Nat /\ arrived \in Nat
      /\ mReadBufferLen \in 0 .. taken /\ mInBufferQueue \in Seq(Pages \cup {NULL})
      /\ mem \in [Pages -> [0 .. PageSize - 1 -> Nat]] /\ free \subseteq Pages
  BY Sizes DEF ReadInv, Types
<1>2. /\ n \in 1 .. mReadBufferLen /\ mInBufferQueue # <<>>
      /\ mRightOfReadBuffer \in 1 .. PageSize - 1
  BY PoppedWhat
<1>3. PICK c \in Nat \ {0} : c = Len(mInBufferQueue)
  BY <1>1, <1>2, EmptySeq
<1>4. PICK k \in 0 .. c - 1 :
          /\ k = Popped(n)
          /\ n = mReadBufferLen => k = c - 1
          /\ n < mReadBufferLen =>
                 /\ EndOf(n) - k * PageSize \in 0 .. PageSize
                 /\ EndOf(n) - k * PageSize = PageSize => InPage(n) /\ EndOf(n) = PageSize
  BY <1>3, PoppedWhat
<1>5. k \in Nat /\ k < c /\ k \in 0 .. Len(mInBufferQueue) - 1 /\ c - k - 1 \in Nat
  BY <1>3, <1>4
<1>6. /\ mInBufferQueue' \in Seq(Pages \cup {NULL}) /\ mInBufferQueue' # <<>>
      /\ Len(mInBufferQueue') = c - k
      /\ \A i \in 1 .. c - k : mInBufferQueue'[i] = mInBufferQueue[i + k]
  <2>1. mInBufferQueue' = AfterPop(n)
    BY DEF GetReadData, TakeOut
  <2> QED
    BY <1>3, <1>4, <2>1, AfterPopWhat
<1>7. PICK left \in 0 .. PageSize :
          /\ left = mLeftOfReadBuffer'
          /\ n = mReadBufferLen => left = 0
          /\ n < mReadBufferLen => left = mLeftOfReadBuffer + n - k * PageSize
          /\ left = PageSize =>
                 n < mReadBufferLen /\ InPage(n) /\ EndOf(n) = PageSize
  <2>1. mLeftOfReadBuffer' = IF n = mReadBufferLen THEN 0 ELSE EndOf(n) - k * PageSize
    BY <1>4 DEF GetReadData, TakeOut
  <2>2. CASE n = mReadBufferLen
    BY <1>1, <2>1, <2>2
  <2>3. CASE n # mReadBufferLen
    <3>1. n < mReadBufferLen
      BY <1>1, <1>2, <2>3
    <3>2. PICK left \in 0 .. PageSize : left = EndOf(n) - k * PageSize
      BY <1>4, <3>1
    <3>3. left = mLeftOfReadBuffer + n - k * PageSize
      BY <1>1, <1>5, <3>2 DEF EndOf
    <3> QED
      BY <1>4, <2>1, <2>3, <3>1, <3>2, <3>3
  <2> QED
    BY <2>2, <2>3
<1>8. PICK rest \in Nat : rest = mReadBufferLen' /\ rest = mReadBufferLen - n
  BY <1>1, <1>2 DEF GetReadData, TakeOut
<1>9. /\ mRightOfReadBuffer' = IF rest = 0 THEN 0 ELSE mRightOfReadBuffer
      /\ rest = 0 <=> n = mReadBufferLen
      /\ rest > 0 <=> n < mReadBufferLen
  BY <1>1, <1>2, <1>8 DEF GetReadData, TakeOut, RightAfter
<1>10. /\ free' = free \cup TakenBack(n)
       /\ mem' = [p \in Pages |-> IF p \in TakenBack(n) THEN Blank ELSE mem[p]]
       /\ exact' = IF exact = "misgiven" \/ mLeftOfReadBuffer = PageSize THEN "misgiven"
                   ELSE IF InPage(n) /\ EndOf(n) = PageSize /\ n < mReadBufferLen THEN "atEnd"
                   ELSE exact
  BY DEF GetReadData, TakeOut
<1>11. exact' # "misgiven" => exact # "misgiven" /\ mLeftOfReadBuffer # PageSize
  BY <1>10
<1>12. /\ TakenBack(n) \subseteq Pages
       /\ mLeftOfReadBuffer # PageSize =>
              \A p \in TakenBack(n) : \E i \in 1 .. k : p = mInBufferQueue[i]
  <2>1. TakenBack(n) \subseteq Pages
    BY ReadBufferAssumption DEF TakenBack, Pages
  <2>2. ASSUME mLeftOfReadBuffer # PageSize, NEW p \in TakenBack(n)
        PROVE  \E i \in 1 .. k : p = mInBufferQueue[i]
    BY <1>4, <2>2 DEF TakenBack, Reclaimed
  <2> QED
    BY <2>1, <2>2
<1>13. Types'
  <2>1. mem' \in [Pages -> [0 .. PageSize - 1 -> Nat]]
    BY <1>1, <1>10 DEF Blank, NoByte
  <2>2. mRightOfReadBuffer' \in 0 .. PageSize - 1
    BY <1>1, <1>2, <1>9
  <2>3. mReadBufferLen' \in 0 .. taken'
    BY <1>1, <1>2, <1>8
  <2>4. free' \subseteq Pages
    BY <1>1, <1>10, <1>12
  <2> QED
    BY <1>1, <1>6, <1>7, <2>1, <2>2, <2>3, <2>4 DEF ReadInv, Types
\* The pages that are left are none of those popped.
<1>14. ASSUME exact' # "misgiven", NEW i \in 1 .. c - k
       PROVE  /\ mInBufferQueue'[i] = mInBufferQueue[i + k]
              /\ mInBufferQueue'[i] \notin TakenBack(n)
              /\ mInBufferQueue'[i] \notin free
  <2>1. PICK j \in 1 .. c : j = i + k
    BY <1>3, <1>5
  <2>2. mInBufferQueue'[i] = mInBufferQueue[j]
    BY <1>6, <2>1
  <2>3. mInBufferQueue[j] \notin free
    BY <1>3, <1>11, <1>14, <2>1 DEF ReadInv, OwnPages
  <2>4. ASSUME mInBufferQueue[j] \in TakenBack(n) PROVE FALSE
    <3>1. PICK m \in 1 .. k : mInBufferQueue[m] = mInBufferQueue[j]
      BY <1>11, <1>12, <1>14, <2>4
    <3>2. m \in 1 .. c /\ m # j
      BY <1>3, <1>5, <2>1
    <3> QED
      BY <1>3, <1>11, <1>14, <2>1, <3>1, <3>2 DEF ReadInv, OwnPages
  <2> QED
    BY <1>6, <2>2, <2>3, <2>4
<1>15. OwnPages'
  <2> SUFFICES ASSUME exact' # "misgiven" PROVE OwnPages'
    BY DEF OwnPages
  <2>1. ASSUME NEW i \in 1 .. c - k, NEW j \in 1 .. c - k, mInBufferQueue'[i] = mInBufferQueue'[j]
        PROVE  i = j
    <3>1. i + k \in 1 .. c /\ j + k \in 1 .. c
      BY <1>3, <1>5
    <3>2. mInBufferQueue[i + k] = mInBufferQueue[j + k]
      BY <1>6, <2>1
    <3>3. i + k = j + k
      BY <1>3, <1>11, <3>1, <3>2 DEF ReadInv, OwnPages
    <3> QED
      BY <1>5, <3>3
  <2>2. ASSUME NEW i \in 1 .. c - k PROVE mInBufferQueue'[i] \notin free'
    BY <1>10, <1>14
  <2> QED
    BY <1>6, <2>1, <2>2 DEF OwnPages
<1>16. \A i \in 1 .. c : mInBufferQueue[i] \in Pages
  <2> SUFFICES ASSUME NEW i \in 1 .. c PROVE mInBufferQueue[i] \in Pages
    OBVIOUS
  <2>1. mInBufferQueue[i] \in Pages \cup {NULL}
    BY <1>1, <1>3, ElementOfSeq
  <2>2. mInBufferQueue[i] # NULL
    BY <1>2, <1>3 DEF ReadInv, OnlyLastMissing
  <2> QED
    BY <2>1, <2>2
<1>17. OnlyLastMissing'
  <2>1. ASSUME NEW i \in 1 .. c - k PROVE mInBufferQueue'[i] # NULL
    <3>1. i + k \in 1 .. c
      BY <1>3, <1>5
    <3> QED
      BY <1>6, <1>16, <3>1, Sizes
  <2> QED
    BY <1>6, <2>1 DEF OnlyLastMissing
<1>18. mLeftOfReadBuffer + mReadBufferLen = (c - 1) * PageSize + mRightOfReadBuffer
  BY <1>2, <1>3 DEF ReadInv, EndsAtRight, EndOf
<1>19. left + rest = (c - k - 1) * PageSize + (IF rest = 0 THEN 0 ELSE mRightOfReadBuffer)
  <2>1. CASE rest = 0
    <3>1. left = 0 /\ c - k - 1 = 0
      BY <1>3, <1>4, <1>7, <1>9, <2>1
    <3> QED
      BY <1>1, <2>1, <3>1
  <2>2. CASE rest > 0
    <3>1. PICK a \in Int : a = (c - 1) * PageSize
      BY <1>1
    <3>2. PICK b \in Int : b = k * PageSize
      BY <1>1, <1>5
    <3>3. left + rest = a + mRightOfReadBuffer - b
      <4>1. left = mLeftOfReadBuffer + n - b
        BY <1>7, <1>9, <2>2, <3>2
      <4>2. mLeftOfReadBuffer + mReadBufferLen = a + mRightOfReadBuffer
        BY <1>18, <3>1
      <4> QED
        BY <1>1, <1>8, <4>1, <4>2
    <3>4. a - b = (c - k - 1) * PageSize
      BY <1>1, <1>5, <3>1, <3>2
    <3>5. left + rest = (c - k - 1) * PageSize + mRightOfReadBuffer
      BY <1>1, <3>3, <3>4
    <3> QED
      BY <2>2, <3>5
  <2> QED
    BY <2>1, <2>2
<1>20. EndsAtRight'
  BY <1>6, <1>7, <1>8, <1>9, <1>19 DEF EndsAtRight, EndOf
<1>21. NothingLeft'
  BY <1>7, <1>8, <1>9 DEF NothingLeft
<1>22. LastPageUsed'
  BY <1>2, <1>8, <1>9 DEF LastPageUsed
<1>23. EndIsExact'
  BY <1>7, <1>10 DEF EndIsExact
<1>24. ReadsOwnPages'
  BY DEF ReadsOwnPages
<1>25. ASSUME exact' # "misgiven", NEW m \in 0 .. rest - 1
       PROVE  Buffered(m)' = taken - rest + 1 + m
  <2>1. PICK at \in Nat : at = left + m
    BY <1>1
  <2>2. PICK a \in Nat : a = at \div PageSize
    BY <1>1, <2>1, Division
  <2>3. PICK o \in 0 .. PageSize - 1 : o = at % PageSize
    BY <1>1, Division
  <2>4. rest > 0 /\ n < mReadBufferLen /\ left = mLeftOfReadBuffer + n - k * PageSize
    BY <1>7, <1>8, <1>9
  <2>5. a + 1 \in 1 .. c - k
    <3>1. PICK d \in Nat : d = c - k - 1
      BY <1>3, <1>5
    <3>2. at < PageSize * d + mRightOfReadBuffer
      BY <1>1, <1>2, <1>19, <2>1, <2>4, <3>1
    <3>3. a \in 0 .. d
      BY <1>1, <1>2, <2>1, <2>2, <3>1, <3>2, QuotientBound
    <3> QED
      BY <1>3, <1>5, <3>1, <3>3
  <2>6. PICK j \in 0 .. mReadBufferLen - 1 : j = n + m
    BY <1>1, <1>2, <1>8
  <2>7. (mLeftOfReadBuffer + j) \div PageSize = a + k /\ (mLeftOfReadBuffer + j) % PageSize = o
    <3>1. PICK b \in Nat : b = mLeftOfReadBuffer + j
      BY <1>1, <2>6
    <3>2. PICK q \in Nat : q = a + k
      BY <1>5
    <3>3. at = PageSize * a + o
      BY <1>1, <2>2, <2>3, Division
    <3>4. b = at + k * PageSize
      BY <1>1, <1>2, <1>5, <1>7, <2>1, <2>4, <2>6, <3>1
    <3>5. IsAt(b, PageSize, q, o)
      BY <1>1, <1>5, <3>2, <3>3, <3>4 DEF IsAt
    <3> QED
      BY <1>1, <3>1, <3>2, <3>5, DivisionUnique
  <2>8. Buffered(m)' = mem'[mInBufferQueue'[a + 1]][o]
    BY <1>7, <2>1, <2>2, <2>3 DEF Buffered
  <2>9. /\ mInBufferQueue'[a + 1] = mInBufferQueue[a + 1 + k]
        /\ mInBufferQueue'[a + 1] \notin TakenBack(n)
    <3>1. PICK i \in 1 .. c - k : i = a + 1
      BY <2>5
    <3> QED
      BY <1>14, <1>25, <3>1
  <2>10. mInBufferQueue[a + 1 + k] \in Pages
    <3>1. a + 1 + k \in 1 .. c
      BY <1>3, <1>5, <2>5
    <3> QED
      BY <1>16, <3>1
  <2>11. mem'[mInBufferQueue'[a + 1]] = mem[mInBufferQueue[a + 1 + k]]
    BY <1>10, <2>9, <2>10
  <2>12. a + 1 + k = a + k + 1
    BY <1>5
  <2>13. Buffered(j) = mem[mInBufferQueue[a + k + 1]][o]
    BY <2>7 DEF Buffered
  <2>14. Buffered(j) = taken - mReadBufferLen + 1 + j
    BY <1>11, <1>25, <2>6 DEF ReadInv, BufferedInOrder
  <2>15. taken - mReadBufferLen + 1 + j = taken - rest + 1 + m
    BY <1>1, <1>8, <2>6
  <2> QED
    BY <2>8, <2>11, <2>12, <2>13, <2>14, <2>15
<1>26. BufferedInOrder'
  BY <1>6, <1>8, <1>20, <1>25 DEF BufferedInOrder, EndsAtRight
<1>27. ASSUME exact = "no", NEW p \in free' \ free
       PROVE  p \in ToSet(mInBufferQueue) \ ToSet(mInBufferQueue')
  <2>1. mLeftOfReadBuffer # PageSize /\ exact' # "misgiven"
    BY <1>10, <1>27 DEF ReadInv, EndIsExact
  <2>2. p \in TakenBack(n)
    BY <1>10, <1>27
  <2>3. PICK i \in 1 .. k : p = mInBufferQueue[i]
    BY <1>12, <2>1, <2>2
  <2>4. i \in 1 .. c
    BY <1>3, <1>5
  <2>5. DOMAIN mInBufferQueue = 1 .. c /\ DOMAIN mInBufferQueue' = 1 .. c - k
    BY <1>1, <1>3, <1>6, LenProperties
  <2>6. p \in ToSet(mInBufferQueue)
    BY <2>3, <2>4, <2>5 DEF ToSet
  <2>7. p \notin ToSet(mInBufferQueue')
    BY <1>14, <2>1, <2>2, <2>5 DEF ToSet
  <2> QED
    BY <2>6, <2>7
<1> QED
  BY <1>13, <1>15, <1>17, <1>20, <1>21, <1>22, <1>23, <1>24, <1>26, <1>27 DEF ReadInv

-----------------------------------------------------------------------------
(* The steps together *)

\* What a head may announce is a number.
LEMMA BodyLenIsNumber ==
  ASSUME Types, NEW content, NEW n \in BodyLenIn(content)
  PROVE  n \in Nat
BY ReadBufferAssumption DEF Types, BodyLenIn

\* Steps of the client, and those that read and take nothing.
LEMMA OtherStepsKeep ==
  ASSUME ReadInv,
         \/ ClientSends \/ ClientCloses \/ HandleReadEvent
         \/ ReadStarved \/ ReadNothing \/ ReadIntoNull \/ NoHead \/ NoBody
         \/ UNCHANGED vars
  PROVE  ReadInv'
<1>1. /\ arrived \in Nat /\ mBodyLen \in Nat /\ free \subseteq Pages
      /\ DOMAIN mInBufferQueue = 1 .. Len(mInBufferQueue)
      /\ exact # "misgiven" => \A i \in 1 .. Len(mInBufferQueue) : mInBufferQueue[i] \notin free
  BY LenProperties DEF ReadInv, Types, OwnPages
<1>2. CASE ClientSends
  <2>1. /\ arrived' \in Nat /\ arrived <= arrived'
        /\ UNCHANGED <<bufferVars, mem, free, taken, msgs, mBodyLen, exact, pc>>
    BY <1>1, <1>2 DEF ClientSends, poolVars, historyVars
  <2> QED
    BY <1>1, <2>1, SameBuffer DEF ReadInv, ReadsOwnPages
<1>3. CASE ClientCloses \/ UNCHANGED vars
  <2>1. UNCHANGED <<bufferVars, mem, free, arrived, taken, msgs, mBodyLen, exact, pc>>
    BY <1>3 DEF ClientCloses, vars, socketVars, poolVars, historyVars
  <2> QED
    BY <1>1, <2>1, SameBuffer DEF ReadInv, ReadsOwnPages
<1>4. CASE HandleReadEvent
  <2>1. /\ UNCHANGED <<bufferVars, mem, arrived, taken, msgs, mBodyLen, exact>>
        /\ pc' = "read" /\ exact # "misgiven"
        /\ free' \subseteq Pages \ ToSet(mInBufferQueue)
    BY <1>4 DEF HandleReadEvent, socketVars, historyVars
  <2>2. \A i \in 1 .. Len(mInBufferQueue) : mInBufferQueue[i] \notin free'
    BY <1>1, <2>1 DEF ToSet
  <2> QED
    BY <1>1, <2>1, <2>2, SameBuffer
<1>5. CASE ReadStarved \/ ReadNothing \/ ReadIntoNull
  <2>1. /\ UNCHANGED <<bufferVars, mem, free, arrived, taken, msgs, mBodyLen, exact>>
        /\ pc' \in {"wait", "closed"}
    BY <1>5 DEF ReadStarved, ReadNothing, ReadIntoNull, ReadReturns, socketVars, poolVars
  <2> QED
    BY <1>1, <2>1, SameBuffer
<1>6. CASE NoHead \/ NoBody
  <2>1. /\ UNCHANGED <<bufferVars, mem, free, arrived, taken, msgs, exact>>
        /\ pc' = "wait" /\ mBodyLen' \in {0, mBodyLen}
    BY <1>6 DEF NoHead, NoBody, socketVars, poolVars, historyVars
  <2> QED
    BY <1>1, <2>1, SameBuffer
<1> QED
  BY <1>2, <1>3, <1>4, <1>5, <1>6

\* ClientSM takes a head or a body (clientSM.cc:84-108).
LEMMA TakeStepsKeep ==
  ASSUME ReadInv, TakeHead \/ TakeBody
  PROVE  /\ ReadInv'
         /\ exact = "no" => free' \ free \subseteq ToSet(mInBufferQueue) \ ToSet(mInBufferQueue')
<1>1. CASE TakeHead
  <2>1. /\ pc = "head" /\ ~Refuses(HeadLen) /\ GetReadData(HeadLen)
        /\ UNCHANGED <<msgs, arrived, taken>> /\ pc' # "read"
        /\ mBodyLen' \in BodyLenIn(Content(HeadLen))
    BY <1>1 DEF TakeHead, socketVars
  <2>2. HeadLen \in Nat /\ mBodyLen' \in Nat
    BY <2>1, Sizes, BodyLenIsNumber DEF ReadInv
  <2> QED
    BY <2>1, <2>2, GetReadDataKeeps
<1>2. CASE TakeBody
  <2>1. /\ pc = "body" /\ ~Refuses(mBodyLen) /\ GetReadData(mBodyLen)
        /\ UNCHANGED <<msgs, arrived, taken>> /\ pc' # "read"
        /\ mBodyLen' = 0
    BY <1>2 DEF TakeBody, HandleBody, socketVars
  <2>2. mBodyLen \in Nat
    BY DEF ReadInv, Types
  <2> QED
    BY <2>1, <2>2, GetReadDataKeeps
<1> QED
  BY <1>1, <1>2

\* Every step.
LEMMA StepInv == ReadInv /\ [Next]_vars => ReadInv'
<1> SUFFICES ASSUME ReadInv, [Next]_vars PROVE ReadInv'
  OBVIOUS
<1>1. ASSUME Read PROVE ReadInv'
  BY <1>1, ReadFirstPageKeeps, ReadPartialKeeps, ReadFullKeeps, OtherStepsKeep DEF Read
<1>2. ASSUME HandleRequest PROVE ReadInv'
  BY <1>2, TakeStepsKeep, OtherStepsKeep DEF HandleRequest
<1> QED
  BY <1>1, <1>2, OtherStepsKeep DEF Next, Server

-----------------------------------------------------------------------------
(* Sums of lengths, by induction *)

\* A set of numbers that has one has a least one.
LEMMA LeastNumber ==
  ASSUME NEW T \in SUBSET Nat, NEW n \in T
  PROVE  \E m \in T : \A k \in T : m <= k
<1> DEFINE R == {ss \in Nat \X Nat : ss[1] < ss[2]}
<1>1. R = OpToRel(<, Nat)
  BY DEF OpToRel
<1>2. IsWellFoundedOn(R, Nat)
  BY <1>1, NatLessThanWellFounded
<1> HIDE DEF R
<1>3. \E m \in T : \A k \in T : ~(<<k, m>> \in R)
  BY <1>2, WFMin
<1>4. PICK m \in T : \A k \in T : ~(<<k, m>> \in R)
  BY <1>3
<1>5. \A k \in T : ~(k < m)
  BY <1>4 DEF R
<1> QED
  BY <1>5

\* f[k] is the sum of the first k of n lengths, with H for each.
AddsUp(f, n, H, lens) ==
    /\ f \in [0 .. n -> Nat]
    /\ f[0] = 0
    /\ \A k \in 1 .. n : f[k] = f[k - 1] + H + lens[k]

\* There are sums of any number of lengths, by induction on the number.
LEMMA SumsExist ==
  ASSUME NEW M \in Nat, NEW H \in Nat, NEW lens \in [1 .. M -> Nat]
  PROVE  \E f : AddsUp(f, M, H, lens)
<1> DEFINE None == {n \in 0 .. M : ~\E f : AddsUp(f, n, H, lens)}
<1>1. None = {}
  <2> SUFFICES ASSUME NEW x \in None PROVE FALSE
    OBVIOUS
  <2>1. PICK n \in None : \A k \in None : n <= k
    <3>1. None \in SUBSET Nat
      OBVIOUS
    <3> HIDE DEF None
    <3> QED
      BY <3>1, LeastNumber
  <2>2. n \in 0 .. M /\ ~\E f : AddsUp(f, n, H, lens)
    OBVIOUS
  <2>3. n # 0
    <3>1. PICK z : z = [k \in 0 .. 0 |-> 0]
      OBVIOUS
    <3>2. AddsUp(z, 0, H, lens)
      BY <3>1 DEF AddsUp
    <3> QED
      BY <3>2, <2>2
  <2>4. n - 1 \in 0 .. M /\ n - 1 \notin None
    BY <2>1, <2>2, <2>3
  <2>5. \E f : AddsUp(f, n - 1, H, lens)
    BY <2>4
  <2>6. PICK f : AddsUp(f, n - 1, H, lens)
    BY <2>5
  <2>7. /\ f \in [0 .. n - 1 -> Nat] /\ f[0] = 0
        /\ \A k \in 1 .. n - 1 : f[k] = f[k - 1] + H + lens[k]
    BY <2>6 DEF AddsUp
  <2>8. f[n - 1] + H + lens[n] \in Nat
    BY <2>2, <2>3, <2>7
  <2>9. PICK g : g = [k \in 0 .. n |-> IF k < n THEN f[k] ELSE f[n - 1] + H + lens[n]]
    OBVIOUS
  <2>10. g \in [0 .. n -> Nat] /\ g[0] = 0
    BY <2>2, <2>3, <2>7, <2>8, <2>9
  <2>11. ASSUME NEW k \in 1 .. n PROVE g[k] = g[k - 1] + H + lens[k]
    BY <2>2, <2>3, <2>7, <2>9
  <2>12. AddsUp(g, n, H, lens)
    BY <2>10, <2>11 DEF AddsUp
  <2> QED
    BY <2>2, <2>12
<1>2. M \notin None
  BY <1>1
<1> QED
  BY <1>2

\* A function defined by adding up adds up.
LEMMA SumsAddUp ==
  ASSUME NEW M \in Nat, NEW H \in Nat, NEW lens \in [1 .. M -> Nat], NEW e,
         e = [k \in 0 .. M |-> IF k = 0 THEN 0 ELSE e[k - 1] + H + lens[k]]
  PROVE  AddsUp(e, M, H, lens)
<1>1. e[0] = 0 /\ \A k \in 1 .. M : e[k] = e[k - 1] + H + lens[k]
  OBVIOUS
<1> DEFINE Bad == {k \in 0 .. M : e[k] \notin Nat}
<1>2. Bad = {}
  <2> SUFFICES ASSUME NEW x \in Bad PROVE FALSE
    OBVIOUS
  <2>1. PICK n \in Bad : \A k \in Bad : n <= k
    <3>1. Bad \in SUBSET Nat
      OBVIOUS
    <3> HIDE DEF Bad
    <3> QED
      BY <3>1, LeastNumber
  <2>2. n \in 1 .. M
    BY <1>1, <2>1
  <2>3. n - 1 \notin Bad /\ n - 1 \in 0 .. M
    BY <2>1, <2>2
  <2>4. e[n - 1] \in Nat
    BY <2>3
  <2>5. e[n] \in Nat
    BY <1>1, <2>2, <2>4
  <2> QED
    BY <2>1, <2>5
<1>3. e \in [0 .. M -> Nat]
  BY <1>2
<1> QED
  BY <1>1, <1>3 DEF AddsUp

\* The ends of the messages are the sums of their lengths.
LEMMA MessagesAddUp ==
  ASSUME MaxMsgs \in Nat, HeadLen \in Nat, msgs \in [1 .. MaxMsgs -> Nat]
  PROVE  AddsUp(MsgEnd, MaxMsgs, HeadLen, msgs)
<1> DEFINE Def(e) == e = [k \in 0 .. MaxMsgs |->
                             IF k = 0 THEN 0 ELSE e[k - 1] + HeadLen + msgs[k]]
<1>1. PICK f : AddsUp(f, MaxMsgs, HeadLen, msgs)
  BY SumsExist
<1>2. Def(f)
  BY <1>1 DEF AddsUp
<1>3. MsgEnd = CHOOSE e : Def(e)
  BY DEF MsgEnd
<1>4. Def(MsgEnd)
  <2> HIDE DEF Def
  <2> QED
    BY <1>2, <1>3
<1> QED
  BY <1>4, SumsAddUp

\* Every message ends behind the one before it, at least a head further.
LEMMA MessageEnds ==
  ASSUME ReadInv
  PROVE  /\ MaxMsgs \in Nat /\ HeadLen \in Nat \ {0} /\ msgs \in [1 .. MaxMsgs -> Nat]
         /\ MsgEnd \in [0 .. MaxMsgs -> Nat] /\ MsgEnd[0] = 0
         /\ \A k \in 1 .. MaxMsgs : MsgEnd[k] = MsgEnd[k - 1] + HeadLen + msgs[k]
<1>1. MaxMsgs \in Nat /\ HeadLen \in Nat \ {0}
  BY ReadBufferAssumption
<1>2. msgs \in [1 .. MaxMsgs -> Nat]
  BY ReadBufferAssumption DEF ReadInv, Types
<1>3. AddsUp(MsgEnd, MaxMsgs, HeadLen, msgs)
  BY <1>1, <1>2, MessagesAddUp
<1> QED
  BY <1>1, <1>2, <1>3 DEF AddsUp

\* The later of two messages ends later.
LEMMA EndsAscend ==
  ASSUME ReadInv, NEW j \in 0 .. MaxMsgs, NEW k \in 0 .. MaxMsgs, j < k
  PROVE  MsgEnd[j] < MsgEnd[k]
<1> DEFINE Bad == {n \in 0 .. MaxMsgs : j < n /\ ~(MsgEnd[j] < MsgEnd[n])}
<1>1. Bad = {}
  <2> SUFFICES ASSUME NEW x \in Bad PROVE FALSE
    OBVIOUS
  <2>1. PICK n \in Bad : \A m \in Bad : n <= m
    <3>1. Bad \in SUBSET Nat
      OBVIOUS
    <3> HIDE DEF Bad
    <3> QED
      BY <3>1, LeastNumber
  <2>2. /\ n \in 1 .. MaxMsgs /\ n - 1 \in 0 .. MaxMsgs /\ j < n /\ MsgEnd[j] \in Nat
        /\ MsgEnd[n - 1] \in Nat /\ msgs[n] \in Nat
        /\ MsgEnd[n] = MsgEnd[n - 1] + HeadLen + msgs[n] /\ HeadLen \in Nat \ {0}
    <3>1. n \in 1 .. MaxMsgs /\ n - 1 \in 0 .. MaxMsgs /\ j < n
      BY MessageEnds
    <3> QED
      BY <3>1, MessageEnds
  <2>3. n - 1 \notin Bad
    BY <2>1, <2>2
  <2>4. MsgEnd[j] <= MsgEnd[n - 1]
    <3>1. CASE n - 1 = j
      BY <2>2, <3>1
    <3>2. CASE n - 1 # j
      BY <2>2, <2>3, <3>2
    <3> QED
      BY <3>1, <3>2
  <2>5. MsgEnd[j] < MsgEnd[n]
    BY <2>2, <2>4
  <2> QED
    BY <2>1, <2>5
<1> QED
  BY <1>1

\* No two heads are the same bytes.
LEMMA HeadsDiffer ==
  ASSUME ReadInv, NEW j \in 1 .. MaxMsgs, NEW k \in 1 .. MaxMsgs, HeadBytes(j) = HeadBytes(k)
  PROVE  j = k
<1>1. /\ j - 1 \in 0 .. MaxMsgs /\ k - 1 \in 0 .. MaxMsgs /\ HeadLen \in Nat \ {0}
      /\ MsgEnd[j - 1] \in Nat /\ MsgEnd[k - 1] \in Nat
  <2>1. j - 1 \in 0 .. MaxMsgs /\ k - 1 \in 0 .. MaxMsgs
    BY MessageEnds
  <2> QED
    BY <2>1, MessageEnds
<1>2. HeadBytes(j)[1] = MsgEnd[j - 1] + 1 /\ HeadBytes(k)[1] = MsgEnd[k - 1] + 1
  BY <1>1 DEF HeadBytes, Bytes
<1>3. MsgEnd[j - 1] = MsgEnd[k - 1]
  BY <1>1, <1>2
<1>4. ~(j < k) /\ ~(k < j)
  <2>1. ASSUME j - 1 < k - 1 PROVE FALSE
    BY <1>1, <1>3, <2>1, EndsAscend
  <2>2. ASSUME k - 1 < j - 1 PROVE FALSE
    BY <1>1, <1>3, <2>2, EndsAscend
  <2> QED
    BY <2>1, <2>2
<1> QED
  BY <1>4

\* The messages with a body up to k are those before it, and it if it has one.
LEMMA CountWithBody ==
  ASSUME ReadInv, NEW k \in 1 .. MaxMsgs
  PROVE  /\ Cardinality(WithBody(k - 1)) \in Nat
         /\ WithBody(k - 1) \subseteq WithBody(k) /\ WithBody(k) \subseteq WithBody(MaxMsgs)
         /\ msgs[k] > 0 => k \in WithBody(k)
         /\ Cardinality(WithBody(k)) = Cardinality(WithBody(k - 1)) + (IF msgs[k] > 0 THEN 1 ELSE 0)
<1>1. IsFiniteSet(WithBody(k - 1)) /\ Cardinality(WithBody(k - 1)) \in Nat
  <2>1. IsFiniteSet(1 .. k - 1)
    BY FS_Interval
  <2>2. WithBody(k - 1) \in SUBSET (1 .. k - 1)
    BY DEF WithBody
  <2> QED
    BY <2>1, <2>2, FS_Subset, FS_CardinalityType
<1>2. MaxMsgs \in Nat /\ msgs[k] \in Nat
  BY MessageEnds
<1>3. WithBody(k - 1) \subseteq WithBody(k) /\ WithBody(k) \subseteq WithBody(MaxMsgs)
  BY <1>2 DEF WithBody
<1>4. CASE msgs[k] > 0
  <2>1. WithBody(k) = WithBody(k - 1) \cup {k} /\ k \notin WithBody(k - 1)
    BY <1>2, <1>4 DEF WithBody
  <2>2. Cardinality(WithBody(k)) = Cardinality(WithBody(k - 1)) + 1
    BY <1>1, <2>1, FS_AddElement
  <2> QED
    BY <1>1, <1>3, <1>4, <2>1, <2>2
<1>5. CASE ~(msgs[k] > 0)
  <2>1. WithBody(k) = WithBody(k - 1)
    BY <1>2, <1>5 DEF WithBody
  <2> QED
    BY <1>1, <1>3, <1>5, <2>1
<1> QED
  BY <1>4, <1>5

-----------------------------------------------------------------------------
(* Framing *)

\* The bytes taken out of the buffer so far.
Consumed == taken - mReadBufferLen

\* The bodies handled are those of the messages up to k.
HandledTo(k) ==
    /\ Len(handled) = Cardinality(WithBody(k))
    /\ \A i \in 1 .. Len(handled) : \E j \in WithBody(k) :
           Cardinality(WithBody(j)) = i /\ handled[i] = BodyBytes(j)

\* The next byte is that of a head, or of the body whose head was taken.
BetweenMessages == \E k \in 0 .. MaxMsgs : Consumed = MsgEnd[k] /\ HandledTo(k)
InMessage ==
    \E k \in WithBody(MaxMsgs) :
        mBodyLen = msgs[k] /\ Consumed = MsgEnd[k - 1] + HeadLen /\ HandledTo(k - 1)

Framed ==
    split \/ exact = "misgiven" \/ IF pc = "body" THEN InMessage ELSE BetweenMessages

\* The types ReadInv says nothing of.
RestTypes ==
    /\ arrived \in 0 .. StreamLen /\ fin \in BOOLEAN
    /\ pc \in {"wait", "read", "head", "body", "closed"}
    /\ readed \in 0 .. taken
    /\ mBodyLen \in BodyLens \cup WildLens \cup {0}
    /\ handled \in Seq(Seq(Nat))
    /\ split \in BOOLEAN /\ exact \in {"no", "atEnd", "misgiven"}
    /\ heldBack \in {"no", "untold", "emptyBody", "starved"}

FrameInv == RestTypes /\ Framed

\* Nothing was taken, and nothing handled.
LEMMA InitFrame == Init => FrameInv
<1> SUFFICES ASSUME Init PROVE FrameInv
  OBVIOUS
<1>0. ReadInv
  BY InitInv
<1>1. /\ arrived = 0 /\ taken = 0 /\ mReadBufferLen = 0 /\ fin = FALSE /\ pc = "wait"
      /\ readed = 0 /\ mBodyLen = 0 /\ handled = <<>> /\ split = FALSE /\ exact = "no"
      /\ heldBack = "no"
  BY DEF Init
<1>2. MsgEnd[0] = 0 /\ StreamLen \in Nat
  BY <1>0, MessageEnds DEF StreamLen
<1>3. RestTypes
  <2>1. handled \in Seq(Seq(Nat))
    BY <1>1, EmptySeq
  <2>2. arrived \in 0 .. StreamLen /\ readed \in 0 .. taken
    BY <1>1, <1>2
  <2>3. mBodyLen \in BodyLens \cup WildLens \cup {0}
    BY <1>1
  <2>4. /\ fin \in BOOLEAN /\ pc \in {"wait", "read", "head", "body", "closed"}
        /\ split \in BOOLEAN /\ exact \in {"no", "atEnd", "misgiven"}
        /\ heldBack \in {"no", "untold", "emptyBody", "starved"}
    BY <1>1
  <2> QED
    BY <2>1, <2>2, <2>3, <2>4 DEF RestTypes
<1>4. HandledTo(0)
  <2>1. WithBody(0) = {}
    BY DEF WithBody
  <2>2. Cardinality(WithBody(0)) = 0
    BY <2>1, FS_EmptySet
  <2> QED
    BY <1>1, <2>2 DEF HandledTo
<1>5. BetweenMessages
  <2>1. 0 \in 0 .. MaxMsgs
    BY <1>0, MessageEnds
  <2> QED
    BY <1>1, <1>2, <1>4, <2>1 DEF BetweenMessages, Consumed
<1> QED
  BY <1>1, <1>3, <1>5 DEF FrameInv, Framed

\* The length of the piece GetReadData answers.
LastPiece(n) == IF InPage(n) THEN n ELSE ((EndOf(n) - 1) % PageSize) + 1

\* It is at most what was asked for (ioBuffer.cc:42-70).
LEMMA PieceIsPart ==
  ASSUME ReadInv, NEW n \in Nat \ {0}
  PROVE  LastPiece(n) \in 1 .. n
<1>1. PageSize \in Nat \ {0} /\ mLeftOfReadBuffer \in 0 .. PageSize
  BY Sizes DEF ReadInv, Types
<1>2. CASE InPage(n)
  BY <1>2 DEF LastPiece
<1>3. CASE ~InPage(n)
  <2>1. PICK e \in Nat : e = EndOf(n) - 1 /\ e = mLeftOfReadBuffer + n - 1 /\ e >= PageSize
    BY <1>1, <1>3 DEF EndOf, InPage
  <2>2. PICK q \in Nat : q = e \div PageSize
    BY <1>1, Division
  <2>3. PICK r \in 0 .. PageSize - 1 : r = e % PageSize
    BY <1>1, Division
  <2>4. e = PageSize * q + r
    BY <1>1, <2>2, <2>3, Division
  <2>5. PageSize * q >= PageSize
    <3>1. q # 0
      BY <1>1, <2>1, <2>3, <2>4
    <3> QED
      BY <1>1, <3>1
  <2>6. LastPiece(n) = r + 1
    BY <1>3, <2>1, <2>3 DEF LastPiece
  <2>7. PICK m \in Nat : m = PageSize * q
    BY <1>1
  <2> QED
    BY <1>1, <2>1, <2>4, <2>5, <2>6, <2>7
<1> QED
  BY <1>2, <1>3

\* What GetReadData answers are bytes of memory.
LEMMA ContentType ==
  ASSUME ReadInv, NEW n \in Nat, ~Refuses(n)
  PROVE  Content(n) \in Seq(Nat)
<1>1. /\ n \in 1 .. mReadBufferLen /\ mInBufferQueue # <<>> /\ mReadBufferLen \in Nat
      /\ mem \in [Pages -> [0 .. PageSize - 1 -> Nat]]
  BY DEF Refuses, ReadInv, Types
<1>2. PICK p \in 1 .. n : p = LastPiece(n)
  BY <1>1, PieceIsPart
<1>3. Content(n) = [i \in 1 .. n |-> IF i <= p THEN Buffered(n - p + i - 1) ELSE NoByte]
  BY <1>2 DEF Content, LastPiece
<1>4. ASSUME NEW i \in 1 .. n, i <= p PROVE Buffered(n - p + i - 1) \in Nat
  <2>1. PICK m \in 0 .. mReadBufferLen - 1 : m = n - p + i - 1
    BY <1>1, <1>4
  <2>2. PICK o \in 0 .. PageSize - 1 : o = (mLeftOfReadBuffer + m) % PageSize
    BY <1>1, <2>1, WhereBuffered
  <2>3. PICK q \in Pages : q = mInBufferQueue[(mLeftOfReadBuffer + m) \div PageSize + 1]
    BY <1>1, <2>1, WhereBuffered
  <2>4. Buffered(m) = mem[q][o]
    BY <2>2, <2>3 DEF Buffered
  <2>5. mem[q][o] \in Nat
    BY <1>1, <2>2, <2>3
  <2> QED
    BY <2>1, <2>4, <2>5
<1>5. Content(n) \in [1 .. n -> Nat]
  <2>1. \A i \in 1 .. n : (IF i <= p THEN Buffered(n - p + i - 1) ELSE NoByte) \in Nat
    BY <1>4 DEF NoByte
  <2> QED
    BY <1>3, <2>1
<1> QED
  BY <1>5, SeqDef

\* A piece with no byte missing is the bytes that come next (ioBuffer.cc:42-70).
LEMMA ContentIsNext ==
  ASSUME ReadInv, NEW n \in Nat, ~Refuses(n), exact # "misgiven",
         NoByte \notin ToSet(Content(n))
  PROVE  Content(n) = Bytes(Consumed + 1, n)
<1>1. /\ n \in 1 .. mReadBufferLen /\ mInBufferQueue # <<>> /\ mReadBufferLen \in 0 .. taken
      /\ taken \in Nat
  BY DEF Refuses, ReadInv, Types
<1>2. PICK p \in 1 .. n : p = LastPiece(n)
  BY <1>1, PieceIsPart
<1>3. Content(n) = [i \in 1 .. n |-> IF i <= p THEN Buffered(n - p + i - 1) ELSE NoByte]
  BY <1>2 DEF Content, LastPiece
<1>4. p = n
  <2> SUFFICES ASSUME p # n PROVE FALSE
    OBVIOUS
  <2>1. n \in DOMAIN Content(n) /\ Content(n)[n] = NoByte
    BY <1>1, <1>2, <1>3
  <2> QED
    BY <2>1 DEF ToSet
<1>5. ASSUME NEW i \in 1 .. n PROVE Buffered(n - p + i - 1) = Consumed + 1 + i - 1
  <2>1. PICK m \in 0 .. mReadBufferLen - 1 : m = i - 1
    BY <1>1
  <2>2. m = n - p + i - 1
    BY <1>1, <1>4, <2>1
  <2>3. Buffered(m) = taken - mReadBufferLen + 1 + m
    BY <2>1 DEF ReadInv, BufferedInOrder
  <2> QED
    BY <1>1, <2>1, <2>2, <2>3 DEF Consumed
<1> QED
  BY <1>3, <1>4, <1>5 DEF Bytes

\* Neither the bytes handled nor those taken change, and the same message is next.
LEMMA SameFrame ==
  ASSUME Framed, UNCHANGED <<msgs, handled, split, exact>>, Consumed' = Consumed,
         (pc # "body" /\ pc' # "body") \/ UNCHANGED <<pc, mBodyLen>>
  PROVE  Framed'
<1> SUFFICES ASSUME ~split, exact # "misgiven" PROVE Framed'
  BY DEF Framed
<1>1. /\ MsgEnd' = MsgEnd /\ \A k : WithBody(k)' = WithBody(k)
      /\ \A k : BodyBytes(k)' = BodyBytes(k)
  BY DEF MsgEnd, WithBody, BodyBytes, Bytes
<1>2. \A k : HandledTo(k)' <=> HandledTo(k)
  BY <1>1 DEF HandledTo
<1>3. BetweenMessages' <=> BetweenMessages
  BY <1>1, <1>2 DEF BetweenMessages
<1>4. ASSUME UNCHANGED mBodyLen PROVE InMessage' <=> InMessage
  BY <1>1, <1>2, <1>4 DEF InMessage
<1> QED
  BY <1>3, <1>4 DEF Framed

\* Steps of the client, of Read, and those of HandleRequest that take nothing.
LEMMA OtherStepsFrame ==
  ASSUME ReadInv, Framed,
         \/ ClientSends \/ ClientCloses \/ HandleReadEvent \/ Read \/ NoHead \/ NoBody
         \/ UNCHANGED vars
  PROVE  Framed'
<1>1. mReadBufferLen \in 0 .. taken /\ taken \in Nat /\ arrived \in Nat
  BY DEF ReadInv, Types
<1>2. CASE ClientSends \/ ClientCloses \/ HandleReadEvent \/ NoHead \/ UNCHANGED vars
  <2>1. /\ UNCHANGED <<msgs, handled, split, exact, taken, mReadBufferLen>>
        /\ (pc # "body" /\ pc' # "body") \/ UNCHANGED <<pc, mBodyLen>>
    BY <1>2
    DEF ClientSends, ClientCloses, HandleReadEvent, NoHead, vars, socketVars, bufferVars,
        rangeVars, poolVars, historyVars
  <2>2. Consumed' = Consumed
    BY <2>1 DEF Consumed
  <2> QED
    BY <2>1, <2>2, SameFrame
<1>3. CASE ReadFirstPage \/ ReadStarved \/ ReadNothing \/ ReadIntoNull
  <2>1. /\ UNCHANGED <<msgs, handled, split, exact, taken, mReadBufferLen>>
        /\ pc # "body" /\ pc' # "body"
    BY <1>3
    DEF ReadFirstPage, ReadStarved, ReadNothing, ReadIntoNull, ReadReturns, socketVars,
        bufferVars, rangeVars, poolVars, historyVars
  <2>2. Consumed' = Consumed
    BY <2>1 DEF Consumed
  <2> QED
    BY <2>1, <2>2, SameFrame
<1>4. CASE ReadPartial \/ ReadFull
  <2>1. /\ UNCHANGED <<msgs, handled, split, exact>>
        /\ pc # "body" /\ pc' # "body"
        /\ CopyIn(Unread) \/ CopyIn(ReadLen)
    BY <1>4 DEF ReadPartial, ReturnBytes, ReadFull, FillPage, socketVars, historyVars
  <2>2. PICK n \in Int : taken' = taken + n /\ mReadBufferLen' = mReadBufferLen + n
    <3>1. Unread \in Int /\ ReadLen \in Int
      BY <1>1, Sizes DEF Unread, ReadLen, ReadInv, Types
    <3> QED
      BY <2>1, <3>1 DEF CopyIn
  <2>3. Consumed' = Consumed
    BY <1>1, <2>2 DEF Consumed
  <2> QED
    BY <2>1, <2>3, SameFrame
<1>5. CASE NoBody
  BY <1>5 DEF NoBody, Framed
<1> QED
  BY <1>2, <1>3, <1>4, <1>5 DEF Read

\* Taking n bytes moves on by n, and unless something was lost they are the next ones.
LEMMA TakesNext ==
  ASSUME ReadInv, NEW n \in Nat, ~Refuses(n), GetReadData(n), UNCHANGED <<msgs, taken>>,
         ~split', exact' # "misgiven"
  PROVE  /\ ~split /\ exact # "misgiven"
         /\ Consumed \in Nat /\ Consumed' = Consumed + n /\ n <= mReadBufferLen /\ n > 0
         /\ Content(n) = Bytes(Consumed + 1, n)
<1>1. mReadBufferLen \in 0 .. taken /\ taken \in Nat
  BY DEF ReadInv, Types
<1>2. ~split /\ exact # "misgiven" /\ NoByte \notin ToSet(Content(n))
  BY DEF GetReadData, TakeOut
<1>3. n <= mReadBufferLen /\ n > 0
  BY <1>1 DEF Refuses
<1>4. mReadBufferLen' = mReadBufferLen - n
  BY DEF GetReadData, TakeOut
<1> QED
  BY <1>1, <1>2, <1>3, <1>4, ContentIsNext DEF Consumed

\* The head taken is that of the message after those handled, and announces its body
\* (clientSM.cc:84-92).
LEMMA TakeHeadFrames ==
  ASSUME ReadInv, FrameInv, TakeHead
  PROVE  Framed'
<1> SUFFICES ASSUME ~split', exact' # "misgiven" PROVE Framed'
  BY DEF Framed
<1>1. /\ pc = "head" /\ ~Refuses(HeadLen) /\ GetReadData(HeadLen)
      /\ UNCHANGED <<msgs, arrived, taken, handled>>
  BY DEF TakeHead, socketVars
<1>2. PICK n \in BodyLenIn(Content(HeadLen)) :
          mBodyLen' = n /\ IF n = 0 THEN pc' = "wait" ELSE pc' = "body"
  BY DEF TakeHead
<1>3. HeadLen \in Nat \ {0} /\ MaxMsgs \in Nat
  BY ReadBufferAssumption
<1>4. /\ ~split /\ exact # "misgiven"
      /\ Consumed \in Nat /\ Consumed' = Consumed + HeadLen
      /\ Content(HeadLen) = Bytes(Consumed + 1, HeadLen)
      /\ HeadLen <= mReadBufferLen
  BY <1>1, <1>3, TakesNext
<1>5. PICK j \in 0 .. MaxMsgs : Consumed = MsgEnd[j] /\ HandledTo(j)
  BY <1>1, <1>4 DEF FrameInv, Framed, BetweenMessages
<1>6. j < MaxMsgs
  <2> SUFFICES ASSUME j = MaxMsgs PROVE FALSE
    BY <1>3
  <2>1. Consumed = StreamLen
    BY <1>5 DEF StreamLen
  <2>2. arrived <= StreamLen /\ taken <= arrived /\ arrived \in Nat /\ taken \in Nat
        /\ mReadBufferLen \in 0 .. taken /\ StreamLen \in Nat
    <3>1. StreamLen \in Nat
      BY <1>4, <2>1
    <3> QED
      BY <3>1 DEF FrameInv, RestTypes, ReadInv, Types
  <2> QED
    BY <1>3, <1>4, <2>1, <2>2 DEF Consumed
<1>7. PICK k \in 1 .. MaxMsgs : k = j + 1
  BY <1>3, <1>6
<1>8. k - 1 = j
  BY <1>7
<1>9. Content(HeadLen) = HeadBytes(k)
  BY <1>4, <1>5, <1>8 DEF HeadBytes
<1>10. n = msgs[k]
  <2>1. {i \in 1 .. MaxMsgs : HeadBytes(i) = Content(HeadLen)} = {k}
    BY <1>9, HeadsDiffer
  <2> QED
    BY <1>2, <2>1 DEF BodyLenIn
<1>11. /\ MsgEnd' = MsgEnd /\ \A i : WithBody(i)' = WithBody(i)
       /\ \A i : HandledTo(i)' <=> HandledTo(i)
  BY <1>1 DEF MsgEnd, WithBody, HandledTo, BodyBytes, Bytes
<1>12. MsgEnd[k] = MsgEnd[k - 1] + HeadLen + msgs[k] /\ msgs[k] \in Nat
       /\ MsgEnd[k - 1] \in Nat
  <2>1. k - 1 \in 0 .. MaxMsgs
    BY <1>8
  <2> QED
    BY <2>1, MessageEnds
<1>13. CASE n = 0
  <2>1. WithBody(k) = WithBody(j)
    <3>1. \A i \in Int : i \in 1 .. k <=> i \in 1 .. j \/ i = k
      BY <1>7
    <3>2. ~(msgs[k] > 0)
      BY <1>10, <1>13
    <3> QED
      BY <3>1, <3>2 DEF WithBody
  <2>2. HandledTo(k)
    BY <1>5, <2>1 DEF HandledTo
  <2>3. Consumed' = MsgEnd[k]
    BY <1>3, <1>4, <1>5, <1>8, <1>10, <1>12, <1>13
  <2>4. BetweenMessages'
    BY <1>7, <1>11, <2>2, <2>3, <1>3 DEF BetweenMessages
  <2> QED
    BY <1>2, <1>13, <2>4 DEF Framed
<1>14. CASE n # 0
  <2>1. k \in WithBody(MaxMsgs)
    BY <1>10, <1>12, <1>14 DEF WithBody
  <2>2. Consumed' = MsgEnd[k - 1] + HeadLen
    BY <1>4, <1>5, <1>8
  <2>3. mBodyLen' = msgs'[k] /\ HandledTo(k - 1)
    BY <1>1, <1>2, <1>5, <1>8, <1>10
  <2>4. InMessage'
    BY <1>11, <2>1, <2>2, <2>3 DEF InMessage
  <2> QED
    BY <1>2, <1>14, <2>4 DEF Framed
<1> QED
  BY <1>13, <1>14

\* The body handled is that of the head in use, whole (clientSM.cc:94-108).
LEMMA TakeBodyFrames ==
  ASSUME ReadInv, FrameInv, TakeBody
  PROVE  Framed'
<1> SUFFICES ASSUME ~split', exact' # "misgiven" PROVE Framed'
  BY DEF Framed
<1>1. /\ pc = "body" /\ ~Refuses(mBodyLen) /\ GetReadData(mBodyLen)
      /\ UNCHANGED <<msgs, arrived, taken>> /\ pc' = "head"
      /\ handled' = IF split THEN handled ELSE Append(handled, Content(mBodyLen))
  BY DEF TakeBody, HandleBody, socketVars
<1>2. mBodyLen \in Nat
  BY DEF ReadInv, Types
<1>3. /\ ~split /\ exact # "misgiven"
      /\ Consumed \in Nat /\ Consumed' = Consumed + mBodyLen
      /\ Content(mBodyLen) = Bytes(Consumed + 1, mBodyLen)
  BY <1>1, <1>2, TakesNext
<1>4. PICK k \in WithBody(MaxMsgs) :
          mBodyLen = msgs[k] /\ Consumed = MsgEnd[k - 1] + HeadLen /\ HandledTo(k - 1)
  BY <1>1, <1>3 DEF FrameInv, Framed, InMessage
<1>5. k \in 1 .. MaxMsgs /\ msgs[k] > 0
  BY <1>4 DEF WithBody
<1>6. MsgEnd[k] = MsgEnd[k - 1] + HeadLen + msgs[k] /\ msgs[k] \in Nat
       /\ MsgEnd[k - 1] \in Nat /\ HeadLen \in Nat /\ MaxMsgs \in Nat
  <2>1. k - 1 \in 0 .. MaxMsgs
    BY <1>5, MessageEnds
  <2> QED
    BY <1>5, <2>1, MessageEnds
<1>7. Content(mBodyLen) = BodyBytes(k)
  BY <1>3, <1>4 DEF BodyBytes
<1>8. /\ MsgEnd' = MsgEnd /\ \A i : WithBody(i)' = WithBody(i)
      /\ \A i : BodyBytes(i)' = BodyBytes(i)
  BY <1>1 DEF MsgEnd, WithBody, BodyBytes, Bytes
<1>9. PICK c \in Nat : c = Len(handled) /\ c = Cardinality(WithBody(k - 1))
                       /\ Cardinality(WithBody(k)) = c + 1
  BY <1>4, <1>5, CountWithBody DEF HandledTo
<1>10. handled \in Seq(Seq(Nat)) /\ Content(mBodyLen) \in Seq(Nat)
  BY <1>1, <1>2, ContentType DEF FrameInv, RestTypes
<1>11. /\ Len(handled') = c + 1
       /\ \A i \in 1 .. c : handled'[i] = handled[i]
       /\ handled'[c + 1] = BodyBytes(k)
  <2>1. handled' = Append(handled, Content(mBodyLen))
    BY <1>1, <1>3
  <2>2. /\ Len(handled') = Len(handled) + 1
        /\ \A i \in 1 .. Len(handled) : handled'[i] = handled[i]
        /\ handled'[Len(handled) + 1] = Content(mBodyLen)
    BY <1>10, <2>1, AppendProperties
  <2> QED
    BY <1>7, <1>9, <2>2
<1>12. HandledTo(k)'
  <2>1. ASSUME NEW i \in 1 .. c + 1
        PROVE  \E j \in WithBody(k) : Cardinality(WithBody(j)) = i /\ handled'[i] = BodyBytes(j)
    <3>1. CASE i = c + 1
      <4>1. k \in WithBody(k)
        BY <1>5, CountWithBody
      <4> QED
        BY <1>9, <1>11, <3>1, <4>1
    <3>2. CASE i # c + 1
      <4>1. i \in 1 .. c
        BY <3>2
      <4>2. PICK j \in WithBody(k - 1) :
                Cardinality(WithBody(j)) = i /\ handled[i] = BodyBytes(j)
        BY <1>4, <1>9, <4>1 DEF HandledTo
      <4>3. j \in WithBody(k)
        BY <1>5, CountWithBody
      <4> QED
        BY <1>11, <4>1, <4>2, <4>3
    <3> QED
      BY <3>1, <3>2
  <2> QED
    BY <1>8, <1>9, <1>11, <2>1 DEF HandledTo
<1>13. Consumed' = MsgEnd[k]
  BY <1>3, <1>4, <1>6
<1>14. BetweenMessages'
  <2>1. k \in 0 .. MaxMsgs
    BY <1>5
  <2> QED
    BY <1>8, <1>12, <1>13, <2>1 DEF BetweenMessages
<1> QED
  BY <1>1, <1>14 DEF Framed

\* The types, for every step.
LEMMA RestTypesKept ==
  ASSUME ReadInv, RestTypes, [Next]_vars
  PROVE  RestTypes'
<1>1. /\ PageSize \in Nat \ {0} /\ mRightOfReadBuffer \in 0 .. PageSize - 1
      /\ taken \in Nat /\ arrived \in Nat
  BY Sizes DEF ReadInv, Types
<1>2. CASE ClientSends
  <2>1. /\ UNCHANGED <<msgs, fin, pc, readed, taken, mBodyLen, handled, split, exact, heldBack>>
        /\ arrived' \in arrived + 1 .. StreamLen
    BY <1>2 DEF ClientSends, historyVars
  <2>2. MsgEnd' = MsgEnd
    BY <2>1 DEF MsgEnd
  <2> QED
    BY <1>1, <2>1, <2>2 DEF RestTypes, StreamLen
<1>3. CASE ClientCloses \/ HandleReadEvent \/ ReadFirstPage \/ ReadStarved \/ ReadNothing
           \/ ReadIntoNull \/ NoHead \/ NoBody \/ UNCHANGED vars
  <2>1. /\ UNCHANGED <<msgs, arrived, taken, handled, exact>>
        /\ fin' \in BOOLEAN /\ readed' \in {0, readed} /\ mBodyLen' \in {0, mBodyLen}
        /\ pc' \in {"wait", "read", "closed", pc} /\ split' \in BOOLEAN
        /\ heldBack' \in {"starved", "untold", heldBack}
    BY <1>3
    DEF ClientCloses, HandleReadEvent, ReadFirstPage, ReadStarved, ReadNothing, ReadIntoNull,
        ReadReturns, NoHead, NoBody, Untold, vars, socketVars, bufferVars, rangeVars, poolVars,
        historyVars, RestTypes
  <2>2. MsgEnd' = MsgEnd
    BY <2>1 DEF MsgEnd
  <2> QED
    BY <1>1, <2>1, <2>2 DEF RestTypes, StreamLen
<1>4. CASE ReadPartial \/ ReadFull
  <2>1. /\ UNCHANGED <<msgs, fin, arrived, mBodyLen, handled, split, exact>>
        /\ heldBack' \in {"no", heldBack} /\ pc' \in {"head", "read"}
    BY <1>4 DEF ReadPartial, ReturnBytes, ReadFull, FillPage, socketVars, historyVars
  <2>2. readed' \in 0 .. taken'
    <3>1. CASE ReadPartial
      <4>1. readed' = 0 /\ taken' = taken + Unread /\ Unread > 0 /\ Unread \in Int
        BY <1>1, <3>1 DEF ReadPartial, ReturnBytes, CopyIn, Unread
      <4> QED
        BY <1>1, <4>1
    <3>2. CASE ReadFull
      <4>1. PICK n \in Nat : n = ReadLen
        BY <1>1 DEF ReadLen
      <4>2. readed' = readed + n /\ taken' = taken + n
        BY <3>2, <4>1 DEF ReadFull, FillPage, CopyIn
      <4> QED
        BY <1>1, <4>2 DEF RestTypes
    <3> QED
      BY <1>4, <3>1, <3>2
  <2>3. MsgEnd' = MsgEnd
    BY <2>1 DEF MsgEnd
  <2> QED
    BY <2>1, <2>2, <2>3 DEF RestTypes, StreamLen
<1>5. ASSUME NEW n \in Nat, GetReadData(n)
      PROVE  split' \in BOOLEAN /\ exact' \in {"no", "atEnd", "misgiven"}
  BY <1>5 DEF GetReadData, TakeOut, RestTypes
<1>6. CASE TakeHead
  <2>1. /\ UNCHANGED <<msgs, arrived, fin, taken, readed, handled>>
        /\ pc' \in {"wait", "body"} /\ heldBack' \in {"emptyBody", heldBack}
        /\ mBodyLen' \in BodyLenIn(Content(HeadLen)) /\ GetReadData(HeadLen)
    BY <1>6 DEF TakeHead, socketVars
  <2>2. split' \in BOOLEAN /\ exact' \in {"no", "atEnd", "misgiven"}
    BY <1>5, <2>1, Sizes
  <2>3. mBodyLen' \in BodyLens \cup WildLens
    BY <2>1 DEF BodyLenIn, ReadInv, Types
  <2>4. MsgEnd' = MsgEnd
    BY <2>1 DEF MsgEnd
  <2> QED
    BY <2>1, <2>2, <2>3, <2>4 DEF RestTypes, StreamLen
<1>7. CASE TakeBody
  <2>1. /\ UNCHANGED <<msgs, arrived, fin, taken, readed, heldBack>>
        /\ pc' = "head" /\ mBodyLen' = 0 /\ GetReadData(mBodyLen) /\ ~Refuses(mBodyLen)
        /\ handled' = IF split THEN handled ELSE Append(handled, Content(mBodyLen))
    BY <1>7 DEF TakeBody, HandleBody, socketVars
  <2>2. mBodyLen \in Nat
    BY DEF ReadInv, Types
  <2>3. split' \in BOOLEAN /\ exact' \in {"no", "atEnd", "misgiven"}
    BY <1>5, <2>1, <2>2
  <2>4. handled' \in Seq(Seq(Nat))
    <3>1. Content(mBodyLen) \in Seq(Nat)
      BY <2>1, <2>2, ContentType
    <3> QED
      BY <2>1, <3>1, AppendProperties DEF RestTypes
  <2>5. MsgEnd' = MsgEnd
    BY <2>1 DEF MsgEnd
  <2> QED
    BY <2>1, <2>3, <2>4, <2>5 DEF RestTypes, StreamLen
<1> QED
  BY <1>2, <1>3, <1>4, <1>6, <1>7 DEF Next, Server, Read, HandleRequest

\* Every step.
LEMMA StepFrame == ReadInv /\ FrameInv /\ [Next]_vars => FrameInv'
<1> SUFFICES ASSUME ReadInv, FrameInv, [Next]_vars PROVE FrameInv'
  OBVIOUS
<1>1. RestTypes'
  BY RestTypesKept DEF FrameInv
<1>2. Framed'
  <2>1. ASSUME HandleRequest PROVE Framed'
    BY <2>1, TakeHeadFrames, TakeBodyFrames, OtherStepsFrame DEF HandleRequest, FrameInv
  <2> QED
    BY <2>1, OtherStepsFrame DEF Next, Server, FrameInv
<1> QED
  BY <1>1, <1>2 DEF FrameInv

-----------------------------------------------------------------------------
(* The theorems *)

\* Whatever arrives and is taken out, offsets, pages and bytes keep to ReadInv
\* (ioBuffer.cc:32-128).
THEOREM ReadInvariant == Init /\ [][Next]_vars => []ReadInv
BY InitInv, StepInv, PTL

\* Until Reclaim was told of a wrong page, the bytes that wait are those read last, in
\* order, for pages of any size and after any mixture of reads and messages
\* (ioBuffer.cc:32-79, 107-125).
THEOREM BuffersInOrder == Spec => []BufferedInOrder
<1>1. ReadInv => BufferedInOrder
  BY DEF ReadInv
<1> QED
  BY <1>1, ReadInvariant, PTL DEF Spec

\* As long as no page was read exactly to its end, ClientSM's requests give back only
\* pages this connection had and has no more (ioBuffer.cc:72-76).
THEOREM GivesBackOwnPages == Spec => GivesBackOwn
<1> DEFINE Own == exact = "no" /\ pc \in {"head", "body"}
                      => free' \ free \subseteq ToSet(mInBufferQueue) \ ToSet(mInBufferQueue')
<1>1. ReadInv /\ [Next]_vars => [Own]_vars
  <2> SUFFICES ASSUME ReadInv, Next PROVE Own
    OBVIOUS
  <2>1. CASE TakeHead \/ TakeBody
    BY <2>1, TakeStepsKeep
  <2>2. CASE NoHead \/ NoBody
    BY <2>2 DEF NoHead, NoBody, poolVars
  <2>3. CASE ClientSends \/ ClientCloses \/ HandleReadEvent \/ Read
    BY <2>3
    DEF ClientSends, ClientCloses, HandleReadEvent, Read, ReadFirstPage, ReadStarved,
        ReadNothing, ReadIntoNull, ReadPartial, ReturnBytes, ReadFull, FillPage
  <2> QED
    BY <2>1, <2>2, <2>3 DEF Next, Server, HandleRequest
<1> QED
  BY <1>1, ReadInvariant, PTL DEF Spec, GivesBackOwn

\* What was handled and what is expected next always agree with what was taken.
THEOREM FramesInvariant == Init /\ [][Next]_vars => [](ReadInv /\ FrameInv)
BY ReadInvariant, InitFrame, StepFrame, PTL

\* What ClientSM is given, for any messages, pages and heads, and any division of the
\* stream into reads: the bodies the client sent, whole and in order, until one of them
\* or a head lay across pages or came late, or a wrong page was given back
\* (clientSM.cc:80-108, ioBuffer.cc:55-79).
THEOREM BodiesWhole == Spec => []FramedUnlessSplit
<1>1. ReadInv /\ FrameInv => FramedUnlessSplit
  <2> SUFFICES ASSUME ReadInv, FrameInv, ~split, exact # "misgiven", NEW i \in DOMAIN handled
               PROVE  \E k \in WithBody(MaxMsgs) :
                          Cardinality(WithBody(k)) = i /\ handled[i] = BodyBytes(k)
    BY DEF FramedUnlessSplit
  <2>1. i \in 1 .. Len(handled)
    BY LenProperties DEF FrameInv, RestTypes
  <2>2. PICK k \in 0 .. MaxMsgs : HandledTo(k)
    <3>1. CASE pc = "body"
      <4>1. PICK j \in WithBody(MaxMsgs) : HandledTo(j - 1)
        BY <3>1 DEF FrameInv, Framed, InMessage
      <4>2. j - 1 \in 0 .. MaxMsgs
        BY ReadBufferAssumption DEF WithBody
      <4> QED
        BY <4>1, <4>2
    <3>2. CASE pc # "body"
      BY <3>2 DEF FrameInv, Framed, BetweenMessages
    <3> QED
      BY <3>1, <3>2
  <2>3. WithBody(k) \subseteq WithBody(MaxMsgs)
    BY ReadBufferAssumption DEF WithBody
  <2> QED
    BY <2>1, <2>2, <2>3 DEF HandledTo
<1> QED
  BY <1>1, FramesInvariant, PTL DEF Spec

\* The variables have their types: the offsets stay in a page, and the length expected
\* is one a head can hold (ioBuffer.cc:32-128, clientSM.cc:80-108).
THEOREM ReadBufferTypes == Spec => []TypeOK
<1>1. ReadInv /\ FrameInv => TypeOK
  BY DEF ReadInv, Types, FrameInv, RestTypes, TypeOK
<1> QED
  BY <1>1, FramesInvariant, PTL DEF Spec
=============================================================================
