--------------------------- MODULE BufferPoolProofs ---------------------------
(***************************************************************************)
(* Proofs about BufferPool, for every pool size and every page size.       *)
(*                                                                         *)
(* FreeListIsChain is the heart: Get replaces the chain s by its tail,     *)
(* Reclaim by p followed by s.  It is inductive together with TypeOK, with *)
(* Conservation (a full pool has no borrower, so the IsFull test never     *)
(* drops a page) and with OnlyLastPageLost.                                *)
(***************************************************************************)
EXTENDS BufferPool, FiniteSetTheorems, TLAPS

\* The strengthening that is inductive.
PoolInv ==
    /\ TypeOK
    /\ FreeListIsChain
    /\ Conservation
    /\ OnlyLastPageLost

\* There is at least one page (bufferPool.cc:21).
LEMMA PagesNumber == mTotalPagesAmount \in Nat \ {0}
<1>1. PoolSize \div PageSize \in Nat
  BY PoolSizeAssumption, PageSizeAssumption
<1> QED
  BY <1>1 DEF mTotalPagesAmount

\* Reclaim recovers the page from any address inside it (bufferPool.cc:57).
LEMMA PageOfAddress ==
  ASSUME NEW p \in Pages, NEW ptr \in AddrsIn(p)
  PROVE  PageNum(ptr) = p
<1> DEFINE q == ptr \div PageSize
           a == (p - 1) * PageSize
<1>0. PageSize \in Nat \ {0} /\ p \in Nat \ {0} /\ p - 1 \in Nat
  BY PageSizeAssumption, PagesNumber DEF Pages
<1>1. a \in Nat /\ ptr \in Nat /\ a <= ptr /\ ptr < a + PageSize
  BY <1>0 DEF AddrsIn, PageAddr
<1>2. /\ q \in Nat
      /\ q * PageSize <= ptr
      /\ ptr < (q + 1) * PageSize
  BY <1>0, <1>1
<1>3. a + PageSize = p * PageSize
  BY <1>0
<1> HIDE DEF q
<1>4. ~ (q >= p)
  <2> SUFFICES ASSUME q >= p PROVE FALSE
    OBVIOUS
  <2>1. q * PageSize >= p * PageSize
    BY <1>0, <1>2
  <2> QED
    BY <2>1, <1>0, <1>1, <1>2, <1>3
<1>5. ~ (q + 1 <= p - 1)
  <2> SUFFICES ASSUME q + 1 <= p - 1 PROVE FALSE
    OBVIOUS
  <2>1. (q + 1) * PageSize <= (p - 1) * PageSize
    BY <1>0, <1>2
  <2> QED
    BY <2>1, <1>0, <1>1, <1>2
<1>6. q = p - 1
  BY <1>0, <1>2, <1>4, <1>5
<1> QED
  BY <1>6, <1>0 DEF q, PageNum

\* Removing or adding one page changes a finite set of pages by one.
LEMMA PageSetSizes ==
  ASSUME NEW S \in SUBSET Pages
  PROVE  /\ IsFiniteSet(S) /\ Cardinality(S) \in Nat
         /\ \A p \in S : Cardinality(S \ {p}) = Cardinality(S) - 1 /\ Cardinality(S) >= 1
         /\ \A p \in Pages \ S : Cardinality(S \cup {p}) = Cardinality(S) + 1
<1>1. IsFiniteSet(Pages)
  BY PagesNumber, FS_Interval DEF Pages
<1>2. IsFiniteSet(S)
  BY <1>1, FS_Subset
<1>3. Cardinality(S) \in Nat
  BY <1>2, FS_CardinalityType
<1>4. ASSUME NEW p \in S
      PROVE  Cardinality(S \ {p}) = Cardinality(S) - 1 /\ Cardinality(S) >= 1
  <2>1. Cardinality(S \ {p}) = Cardinality(S) - 1 /\ IsFiniteSet(S \ {p})
    BY <1>2, FS_RemoveElement
  <2>2. Cardinality(S \ {p}) \in Nat
    BY <2>1, FS_CardinalityType
  <2> QED
    BY <2>1, <2>2, <1>3
<1>5. ASSUME NEW p \in Pages \ S
      PROVE  Cardinality(S \cup {p}) = Cardinality(S) + 1
  BY <1>2, FS_AddElement
<1> QED
  BY <1>2, <1>3, <1>4, <1>5

\* Creat builds the chain 1, 2, ..., mTotalPagesAmount.
LEMMA InitEstablishesPoolInv == Init => PoolInv
<1> SUFFICES ASSUME Init PROVE PoolInv
  OBVIOUS
<1> USE PagesNumber DEF Init
<1>1. TypeOK
  BY DEF TypeOK, Pages
<1>2. FreeListIsChain
  <2> DEFINE s == [i \in 1 .. mFreePagesCount |-> i]
  <2>1. s \in [1 .. mFreePagesCount -> Pages] /\ FreePages = Pages
    BY DEF Pages, FreePages
  <2>2. IsFreeChain(s)
    BY <2>1 DEF IsFreeChain, Pages
  <2>3. \A p \in FreePages : \E i \in 1 .. mFreePagesCount : s[i] = p
    BY <2>1 DEF Pages
  <2> HIDE DEF s
  <2> QED
    BY <2>1, <2>2, <2>3 DEF FreeListIsChain
<1>3. Conservation
  BY FS_EmptySet DEF Conservation
<1>4. OnlyLastPageLost
  BY DEF OnlyLastPageLost
<1> QED
  BY <1>1, <1>2, <1>3, <1>4 DEF PoolInv

\* The head of a non-empty list is a page nobody has.
LEMMA HeadIsFree ==
  ASSUME PoolInv, ~IsEmpty
  PROVE  mFreeListPtr[0] \in FreePages /\ mFreePagesCount \in Nat \ {0}
<1>1. mFreePagesCount \in Nat \ {0}
  BY PagesNumber DEF PoolInv, TypeOK, IsEmpty
<1>2. PICK s \in [1 .. mFreePagesCount -> Pages] : IsFreeChain(s)
  BY DEF PoolInv, FreeListIsChain
<1> QED
  BY <1>1, <1>2 DEF IsFreeChain

\* Get replaces the chain by its tail.
LEMMA GetPreservesPoolInv ==
  ASSUME PoolInv, Get
  PROVE  PoolInv'
<1> DEFINE h == mFreeListPtr[0]
<1>0. h \in FreePages /\ h \in Pages /\ h # 0 /\ mFreePagesCount \in Nat \ {0}
  BY HeadIsFree, PagesNumber DEF Get, FreePages, Pages
<1>1. /\ mFreeListPtr' = [mFreeListPtr EXCEPT ![0] = mFreeListPtr[h]]
      /\ mFreePagesCount' = mFreePagesCount - 1
      /\ held' = held \cup {h}
      /\ lost' = lost
  BY DEF Get
<1>2. FreePages' = FreePages \ {h}
  BY <1>1, <1>0 DEF FreePages, Pages, mTotalPagesAmount
<1>3. TypeOK'
  <2>1. mTotalPagesAmount' = mTotalPagesAmount /\ Pages' = Pages
    BY DEF Pages, mTotalPagesAmount
  <2>2. /\ mFreeListPtr' \in [0 .. mTotalPagesAmount -> 0 .. mTotalPagesAmount]
        /\ mFreePagesCount' \in 0 .. mTotalPagesAmount
    BY <1>0, <1>1, PagesNumber DEF PoolInv, TypeOK, Pages
  <2> QED
    BY <1>0, <1>1, <2>1, <2>2 DEF PoolInv, TypeOK
<1>4. FreeListIsChain'
  <2>1. PICK s \in [1 .. mFreePagesCount -> Pages] :
            /\ IsFreeChain(s)
            /\ \A p \in FreePages : \E i \in 1 .. mFreePagesCount : s[i] = p
    BY DEF PoolInv, FreeListIsChain
  <2>0. PICK t : t = [i \in 1 .. mFreePagesCount - 1 |-> s[i + 1]]
    OBVIOUS
  <2>2. s[1] = h
    BY <2>1, <1>0 DEF IsFreeChain
  <2>3. \A i \in 1 .. mFreePagesCount - 1 :
            /\ i + 1 \in 1 .. mFreePagesCount
            /\ t[i] = s[i + 1]
            /\ s[i + 1] \in FreePages
            /\ s[i + 1] # h
    BY <2>0, <2>1, <2>2, <1>0 DEF IsFreeChain
  <2>4. t \in [1 .. mFreePagesCount' -> Pages]
    BY <2>0, <2>3, <1>1 DEF FreePages
  <2>5. IsFreeChain(t)'
    <3>1. \A i \in 1 .. mFreePagesCount' : t[i] \in FreePages'
      BY <2>3, <1>1, <1>2
    <3>2. \A i, j \in 1 .. mFreePagesCount' : t[i] = t[j] => i = j
      BY <2>1, <2>3, <1>1, <1>0 DEF IsFreeChain
    <3>3. mFreeListPtr'[0] = IF mFreePagesCount' = 0 THEN 0 ELSE t[1]
      <4>1. mFreeListPtr'[0] = mFreeListPtr[s[1]]
        BY <1>1, <2>2, PagesNumber DEF PoolInv, TypeOK
      <4>2. mFreeListPtr[s[1]] = IF 1 = mFreePagesCount THEN 0 ELSE s[2]
        BY <2>1, <1>0 DEF IsFreeChain
      <4> QED
        BY <4>1, <4>2, <2>3, <1>1, <1>0
    <3>4. ASSUME NEW i \in 1 .. mFreePagesCount'
          PROVE  mFreeListPtr'[t[i]] = IF i = mFreePagesCount' THEN 0 ELSE t[i + 1]
      <4>1. i \in 1 .. mFreePagesCount - 1 /\ i + 1 \in 1 .. mFreePagesCount
        BY <1>1, <1>0
      <4>2. s[i + 1] \in Pages /\ s[i + 1] # 0 /\ s[i + 1] \in 0 .. mTotalPagesAmount
        BY <4>1, <2>1, PagesNumber DEF Pages
      <4>3. mFreeListPtr'[t[i]] = mFreeListPtr[s[i + 1]]
        BY <4>1, <4>2, <2>3, <1>1 DEF PoolInv, TypeOK
      <4>4. mFreeListPtr[s[i + 1]] = IF i + 1 = mFreePagesCount THEN 0 ELSE s[i + 1 + 1]
        BY <4>1, <2>1 DEF IsFreeChain
      <4>5. CASE i = mFreePagesCount'
        BY <4>3, <4>4, <4>5, <1>1, <1>0
      <4>6. CASE i # mFreePagesCount'
        <5>1. i + 1 \in 1 .. mFreePagesCount - 1 /\ i + 1 # mFreePagesCount
          BY <4>1, <4>6, <1>1, <1>0
        <5>2. t[i + 1] = s[i + 1 + 1]
          BY <5>1, <2>3
        <5> QED
          BY <4>3, <4>4, <4>6, <5>1, <5>2
      <4> QED
        BY <4>5, <4>6
    <3> QED
      BY <3>1, <3>2, <3>3, <3>4 DEF IsFreeChain
  <2>6. \A p \in FreePages' : \E i \in 1 .. mFreePagesCount' : t[i] = p
    <3> SUFFICES ASSUME NEW p \in FreePages'
                 PROVE  \E i \in 1 .. mFreePagesCount' : t[i] = p
      OBVIOUS
    <3>1. PICK k \in 1 .. mFreePagesCount : s[k] = p
      BY <2>1, <1>2
    <3>2. k # 1
      BY <3>1, <2>2, <1>2
    <3>3. k - 1 \in 1 .. mFreePagesCount' /\ t[k - 1] = p
      BY <2>3, <3>1, <3>2, <1>0, <1>1
    <3> QED
      BY <3>3
  <2>7. Pages' = Pages
    BY DEF Pages, mTotalPagesAmount
  <2> QED
    BY <2>4, <2>5, <2>6, <2>7 DEF FreeListIsChain
<1>5. Conservation'
  <2>1. h \notin held /\ h \notin lost
    BY <1>0 DEF FreePages
  <2>2. /\ Cardinality(held \cup {h}) = Cardinality(held) + 1
        /\ Cardinality(held) \in Nat /\ Cardinality(lost) \in Nat
    BY <2>1, <1>0, PageSetSizes DEF PoolInv, TypeOK
  <2> QED
    BY <2>1, <2>2, <1>0, <1>1, PagesNumber
    DEF PoolInv, Conservation, mTotalPagesAmount
<1>6. OnlyLastPageLost'
  BY <1>1 DEF PoolInv, OnlyLastPageLost, mTotalPagesAmount
<1> QED
  BY <1>3, <1>4, <1>5, <1>6 DEF PoolInv

\* While somebody holds a page the pool is not full.
LEMMA BorrowerMeansNotFull ==
  ASSUME PoolInv, NEW p \in held
  PROVE  ~IsFull /\ p \in Pages
<1>1. Cardinality(held) \in Nat /\ Cardinality(held) >= 1 /\ Cardinality(lost) \in Nat
  <2>1. held \in SUBSET Pages /\ lost \in SUBSET Pages
    BY DEF PoolInv, TypeOK
  <2> QED
    BY <2>1, PageSetSizes
<1> QED
  BY <1>1, PagesNumber DEF PoolInv, TypeOK, Conservation, IsFull

\* A page that is taken back becomes the head of the chain.
LEMMA AcceptPreservesPoolInv ==
  ASSUME PoolInv, NEW p \in held, NEW ptr \in AddrsIn(p), ReclaimAccepted(p, ptr)
  PROVE  PoolInv'
<1>0. /\ p \in Pages /\ p # 0 /\ p \notin FreePages
      /\ mFreePagesCount \in Nat /\ mFreePagesCount + 1 <= mTotalPagesAmount
      /\ PageNum(ptr) = p
  <2>1. p \in Pages /\ ~IsFull
    BY BorrowerMeansNotFull
  <2>2. p # 0 /\ p \notin FreePages
    BY <2>1 DEF Pages, FreePages
  <2>3. mFreePagesCount \in Nat /\ mFreePagesCount + 1 <= mTotalPagesAmount
    BY <2>1, PagesNumber DEF PoolInv, TypeOK, IsFull
  <2>4. PageNum(ptr) = p
    BY <2>1, PageOfAddress
  <2> QED
    BY <2>1, <2>2, <2>3, <2>4
<1>1. /\ mFreeListPtr' = [mFreeListPtr EXCEPT ![p] = mFreeListPtr[0], ![0] = p]
      /\ mFreePagesCount' = mFreePagesCount + 1
      /\ held' = held \ {p}
      /\ lost' = lost
  BY <1>0 DEF ReclaimAccepted
<1>2. FreePages' = FreePages \cup {p}
  BY <1>1, <1>0 DEF FreePages, Pages, mTotalPagesAmount, PoolInv, Conservation
<1>3. TypeOK'
  BY <1>0, <1>1, PagesNumber DEF PoolInv, TypeOK, Pages, mTotalPagesAmount
<1>4. FreeListIsChain'
  <2>1. PICK s \in [1 .. mFreePagesCount -> Pages] :
            /\ IsFreeChain(s)
            /\ \A q \in FreePages : \E i \in 1 .. mFreePagesCount : s[i] = q
    BY DEF PoolInv, FreeListIsChain
  <2>0. PICK t : t = [i \in 1 .. mFreePagesCount + 1 |-> IF i = 1 THEN p ELSE s[i - 1]]
    OBVIOUS
  <2>2. t[1] = p
    BY <2>0, <1>0
  <2>3. \A i \in 1 .. mFreePagesCount :
            /\ s[i] \in FreePages
            /\ s[i] \in Pages
            /\ s[i] # p
            /\ s[i] # 0
            /\ t[i + 1] = s[i]
    BY <2>0, <2>1, <1>0 DEF IsFreeChain, Pages
  <2>3a. \A i \in 1 .. mFreePagesCount + 1 :
            i # 1 => i - 1 \in 1 .. mFreePagesCount /\ t[i] = s[i - 1]
    BY <2>0, <1>0
  <2>4. t \in [1 .. mFreePagesCount' -> Pages]
    BY <2>0, <2>3, <1>0, <1>1
  <2>5. IsFreeChain(t)'
    <3>1. \A i \in 1 .. mFreePagesCount' : t[i] \in FreePages'
      BY <2>2, <2>3, <2>3a, <1>1, <1>2
    <3>2. \A i, j \in 1 .. mFreePagesCount' : t[i] = t[j] => i = j
      <4> SUFFICES ASSUME NEW i \in 1 .. mFreePagesCount', NEW j \in 1 .. mFreePagesCount',
                          t[i] = t[j]
                   PROVE  i = j
        OBVIOUS
      <4>1. CASE i = 1 \/ j = 1
        BY <4>1, <2>2, <2>3, <2>3a, <1>1
      <4>2. CASE i # 1 /\ j # 1
        <5>1. s[i - 1] = s[j - 1] /\ i - 1 \in 1 .. mFreePagesCount
                                  /\ j - 1 \in 1 .. mFreePagesCount
          BY <4>2, <2>3a, <1>1
        <5>2. i - 1 = j - 1
          BY <5>1, <2>1 DEF IsFreeChain
        <5> QED
          BY <5>2, <1>0, <1>1
      <4> QED
        BY <4>1, <4>2
    <3>3. mFreeListPtr'[0] = IF mFreePagesCount' = 0 THEN 0 ELSE t[1]
      <4>1. mFreeListPtr'[0] = p
        BY <1>0, <1>1, PagesNumber DEF PoolInv, TypeOK
      <4> QED
        BY <4>1, <2>2, <1>0, <1>1
    <3>4. ASSUME NEW i \in 1 .. mFreePagesCount'
          PROVE  mFreeListPtr'[t[i]] = IF i = mFreePagesCount' THEN 0 ELSE t[i + 1]
      <4>1. CASE i = 1
        <5>1. mFreeListPtr'[p] = mFreeListPtr[0]
          BY <1>0, <1>1, PagesNumber DEF PoolInv, TypeOK, Pages
        <5>2. mFreeListPtr[0] = IF mFreePagesCount = 0 THEN 0 ELSE s[1]
          BY <2>1 DEF IsFreeChain
        <5> QED
          BY <4>1, <5>1, <5>2, <2>2, <2>3, <1>0, <1>1
      <4>2. CASE i # 1
        <5> DEFINE k == i - 1
        <5>1. k \in 1 .. mFreePagesCount /\ t[i] = s[k] /\ i = k + 1
          BY <4>2, <2>3a, <1>0, <1>1
        <5>2. mFreeListPtr'[s[k]] = mFreeListPtr[s[k]]
          <6>1. s[k] \in 0 .. mTotalPagesAmount /\ s[k] # 0 /\ s[k] # p
            BY <5>1, <2>3, PagesNumber DEF Pages
          <6> QED
            BY <6>1, <1>1 DEF PoolInv, TypeOK
        <5>3. mFreeListPtr[s[k]] = IF k = mFreePagesCount THEN 0 ELSE s[k + 1]
          BY <5>1, <2>1 DEF IsFreeChain
        <5>4. k # mFreePagesCount => k + 1 \in 1 .. mFreePagesCount /\ t[i + 1] = s[k + 1]
          BY <5>1, <2>3, <1>0
        <5> HIDE DEF k
        <5> QED
          BY <5>1, <5>2, <5>3, <5>4, <1>0, <1>1
      <4> QED
        BY <4>1, <4>2
    <3>5. \A i \in 1 .. mFreePagesCount' :
              mFreeListPtr'[t[i]] = IF i = mFreePagesCount' THEN 0 ELSE t[i + 1]
      BY <3>4
    <3> QED
      BY <3>1, <3>2, <3>3, <3>5 DEF IsFreeChain
  <2>6. \A q \in FreePages' : \E i \in 1 .. mFreePagesCount' : t[i] = q
    <3> SUFFICES ASSUME NEW q \in FreePages'
                 PROVE  \E i \in 1 .. mFreePagesCount' : t[i] = q
      OBVIOUS
    <3>1. CASE q = p
      BY <3>1, <2>2, <1>0, <1>1
    <3>2. CASE q # p
      <4>1. PICK k \in 1 .. mFreePagesCount : s[k] = q
        BY <3>2, <2>1, <1>2
      <4>2. k + 1 \in 1 .. mFreePagesCount' /\ t[k + 1] = q
        BY <4>1, <2>3, <1>0, <1>1
      <4> QED
        BY <4>2
    <3> QED
      BY <3>1, <3>2
  <2>7. Pages' = Pages
    BY DEF Pages, mTotalPagesAmount
  <2> QED
    BY <2>4, <2>5, <2>6, <2>7 DEF FreeListIsChain
<1>5. Conservation'
  <2>1. /\ Cardinality(held \ {p}) = Cardinality(held) - 1
        /\ Cardinality(held) \in Nat /\ Cardinality(lost) \in Nat
    BY PageSetSizes DEF PoolInv, TypeOK
  <2> QED
    BY <2>1, <1>0, <1>1, PagesNumber DEF PoolInv, Conservation, mTotalPagesAmount
<1>6. OnlyLastPageLost'
  BY <1>1 DEF PoolInv, OnlyLastPageLost, mTotalPagesAmount
<1> QED
  BY <1>3, <1>4, <1>5, <1>6 DEF PoolInv

\* Only the last page is turned away, and the chain is untouched.
LEMMA RefusePreservesPoolInv ==
  ASSUME PoolInv, NEW p \in held, NEW ptr \in AddrsIn(p), ReclaimRefused(p, ptr)
  PROVE  PoolInv' /\ p = mTotalPagesAmount
<1>1. p \in Pages /\ PageNum(ptr) = p /\ ~IsFull
  BY BorrowerMeansNotFull, PageOfAddress
<1>2. p = mTotalPagesAmount
  BY <1>1, PagesNumber DEF ReclaimRefused, Refuses, Pages
<1>3. /\ held' = held \ {p} /\ lost' = lost \cup {p}
      /\ mFreeListPtr' = mFreeListPtr /\ mFreePagesCount' = mFreePagesCount
  BY DEF ReclaimRefused
<1>4. FreePages' = FreePages /\ Pages' = Pages
  BY <1>3 DEF FreePages, Pages, mTotalPagesAmount
<1>5. TypeOK'
  BY <1>1, <1>3, <1>4 DEF PoolInv, TypeOK, mTotalPagesAmount
<1>6. FreeListIsChain'
  <2>1. PICK s \in [1 .. mFreePagesCount -> Pages] :
            /\ IsFreeChain(s)
            /\ \A q \in FreePages : \E i \in 1 .. mFreePagesCount : s[i] = q
    BY DEF PoolInv, FreeListIsChain
  <2>2. IsFreeChain(s)'
    BY <2>1, <1>3, <1>4 DEF IsFreeChain
  <2> QED
    BY <2>1, <2>2, <1>3, <1>4 DEF FreeListIsChain
<1>7. Conservation'
  <2>1. p \notin lost
    BY DEF PoolInv, Conservation
  <2>2. /\ Cardinality(held \ {p}) = Cardinality(held) - 1
        /\ Cardinality(lost \cup {p}) = Cardinality(lost) + 1
        /\ Cardinality(held) \in Nat /\ Cardinality(lost) \in Nat
    BY <2>1, <1>1, PageSetSizes DEF PoolInv, TypeOK
  <2>3. mFreePagesCount \in Nat
    BY PagesNumber DEF PoolInv, TypeOK
  <2> QED
    BY <2>1, <2>2, <2>3, <1>3, PagesNumber DEF PoolInv, Conservation, mTotalPagesAmount
<1>8. OnlyLastPageLost'
  BY <1>2, <1>3 DEF PoolInv, OnlyLastPageLost, mTotalPagesAmount
<1> QED
  BY <1>2, <1>5, <1>6, <1>7, <1>8 DEF PoolInv

LEMMA NextPreservesPoolInv == PoolInv /\ [Next]_vars => PoolInv'
<1> SUFFICES ASSUME PoolInv, [Next]_vars PROVE PoolInv'
  OBVIOUS
<1>1. CASE Get
  BY <1>1, GetPreservesPoolInv
<1>2. CASE Reclaim
  BY <1>2, AcceptPreservesPoolInv, RefusePreservesPoolInv DEF Reclaim
<1>3. CASE UNCHANGED vars
  BY <1>3 DEF vars, PoolInv, TypeOK, FreeListIsChain, IsFreeChain, FreePages,
              Conservation, OnlyLastPageLost, Pages, mTotalPagesAmount
<1> QED
  BY <1>1, <1>2, <1>3 DEF Next

\* The free list, its count and the borrowers agree in every reachable state,
\* whatever the sizes given to Creat (bufferPool.cc:16-80).
THEOREM PoolInvariant == Spec => []PoolInv
<1>1. Init => PoolInv
  BY InitEstablishesPoolInv
<1>2. PoolInv /\ [Next]_vars => PoolInv'
  BY NextPreservesPoolInv
<1> QED
  BY <1>1, <1>2, PTL DEF Spec

\* The free list is always a chain of exactly the free pages (bufferPool.cc:60-62, 76).
THEOREM FreeListIsAlwaysChain == Spec => []FreeListIsChain
<1>1. PoolInv => FreeListIsChain
  BY DEF PoolInv
<1> QED
  BY <1>1, PoolInvariant, PTL

\* The links stay inside the pool and its count is that of free pages
\* (bufferPool.cc:21-43).
THEOREM PoolTypes == Spec => []TypeOK
<1>1. PoolInv => TypeOK
  BY DEF PoolInv
<1> QED
  BY <1>1, PoolInvariant, PTL

\* No page is counted twice: each is free, with a borrower or lost
\* (bufferPool.cc:55-64, 75-79).
THEOREM PagesConserved == Spec => []Conservation
<1>1. PoolInv => Conservation
  BY DEF PoolInv
<1> QED
  BY <1>1, PoolInvariant, PTL

\* No page but the last is ever lost (bufferPool.cc:57-59).
THEOREM LossIsBounded == Spec => []OnlyLastPageLost
<1>1. PoolInv => OnlyLastPageLost
  BY DEF PoolInv
<1> QED
  BY <1>1, PoolInvariant, PTL

\* Get never gives a page to two borrowers (bufferPool.cc:75-77).
THEOREM NeverHandedOutTwice == Spec => NoDoubleHandout
<1> DEFINE A == mFreePagesCount' < mFreePagesCount =>
                    mFreeListPtr[0] \in Pages /\ mFreeListPtr[0] \notin held \cup lost
<1>1. PoolInv /\ [Next]_vars => [A]_vars
  <2> SUFFICES ASSUME PoolInv, Next, mFreePagesCount' < mFreePagesCount
               PROVE  mFreeListPtr[0] \in Pages /\ mFreeListPtr[0] \notin held \cup lost
    OBVIOUS
  <2>1. mFreePagesCount \in Nat
    BY PagesNumber DEF PoolInv, TypeOK
  <2>2. CASE Get
    BY <2>2, HeadIsFree DEF Get, FreePages
  <2>3. CASE Reclaim
    BY <2>1, <2>3 DEF Reclaim, ReclaimAccepted, ReclaimRefused
  <2> QED
    BY <2>2, <2>3 DEF Next
<1> QED
  BY <1>1, PoolInvariant, PTL DEF Spec, NoDoubleHandout

\* The free list implements the abstract pool: a Get is a Take, an accepted
\* Reclaim a Return, a refused one loses the last page (bufferPool.cc:51-80).
THEOREM FreeListImplementsPagePool == Spec => ImplementsPagePool
<1>1. Init => Pool!PoolInit
  BY DEF Init, Pool!PoolInit, FreePages
<1>2. PoolInv /\ [Next]_vars => [Pool!PoolNext]_(Pool!poolVars)
  <2> SUFFICES ASSUME PoolInv, [Next]_vars
               PROVE  Pool!PoolNext \/ (FreePages' = FreePages /\ held' = held)
    BY DEF Pool!poolVars
  <2>0. Pages' = Pages
    BY DEF Pages, mTotalPagesAmount
  <2>1. CASE Get
    <3>1. mFreeListPtr[0] \in FreePages
      BY <2>1, HeadIsFree DEF Get
    <3>2. FreePages' = FreePages \ {mFreeListPtr[0]} /\ held' = held \cup {mFreeListPtr[0]}
      BY <2>0, <2>1, <3>1 DEF Get, FreePages
    <3> QED
      BY <3>1, <3>2 DEF Pool!PoolNext, Pool!Take
  <2>2. ASSUME NEW p \in held, NEW ptr \in AddrsIn(p), ReclaimAccepted(p, ptr)
        PROVE  Pool!PoolNext
    <3>1. FreePages' = FreePages \cup {p} /\ held' = held \ {p}
      BY <2>0, <2>2, BorrowerMeansNotFull
      DEF ReclaimAccepted, FreePages, PoolInv, Conservation
    <3> QED
      BY <3>1 DEF Pool!PoolNext, Pool!Return
  <2>3. ASSUME NEW p \in held, NEW ptr \in AddrsIn(p), ReclaimRefused(p, ptr)
        PROVE  Pool!PoolNext
    <3>1. FreePages' = FreePages /\ held' = held \ {p} /\ p = mTotalPagesAmount
      BY <2>0, <2>3, RefusePreservesPoolInv DEF ReclaimRefused, FreePages
    <3> QED
      BY <3>1 DEF Pool!PoolNext, Pool!Lose
  <2>4. CASE UNCHANGED vars
    BY <2>0, <2>4 DEF vars, FreePages
  <2> QED
    BY <2>1, <2>2, <2>3, <2>4 DEF Next, Reclaim
<1> QED
  BY <1>1, <1>2, PoolInvariant, PTL DEF Spec, ImplementsPagePool, Pool!PoolSpec
=============================================================================
