----------------------------- MODULE BufferPool -----------------------------
(***************************************************************************)
(* BufferPool (iolib/bufferPool.cc): one contiguous region cut into pages, *)
(* and a free list threaded through an array of page numbers.  Each        *)
(* Processor owns one; the IOBuffers of its connections borrow pages.      *)
(*                                                                         *)
(* Pages are numbered from 1; entry 0 of mFreeListPtr is the head of the   *)
(* list and 0 ends it.  The caller of Reclaim passes an address; it is the *)
(* byte offset from mPool here.  The contract on callers (an address       *)
(* inside a page they hold) is the guard of Reclaim; IOBuffer::GetReadData *)
(* can break it, which is a matter for the module of the read buffer.      *)
(***************************************************************************)
EXTENDS Naturals, FiniteSets

CONSTANTS
    PoolSize,   \* bytes asked of Creat
    PageSize    \* bytes per page

ASSUME PoolSizeAssumption == PoolSize \in Nat
ASSUME PageSizeAssumption == PageSize \in Nat \ {0}

VARIABLES
    mFreeListPtr,     \* the free list: head at 0, then the successor of each page
    mFreePagesCount,  \* length of the free list as the code counts it
    held,             \* history: pages handed out and not yet given back
    lost              \* history: pages given back that Reclaim turned away

vars == <<mFreeListPtr, mFreePagesCount, held, lost>>

\* Creat rounds up, so a whole number of pages still gets one page more.
mTotalPagesAmount == PoolSize \div PageSize + 1

Pages == 1 .. mTotalPagesAmount

\* The address Get computes from a page number, and the number Reclaim
\* computes from an address.
PageAddr(p) == (p - 1) * PageSize
PageNum(ptr) == ptr \div PageSize + 1

\* Every address inside page p: the IOBuffer hands back a position in the page
\* and not always its start.
AddrsIn(p) == PageAddr(p) .. PageAddr(p) + PageSize - 1

IsEmpty == mFreePagesCount <= 0
IsFull == mFreePagesCount = mTotalPagesAmount

\* Creat: every page points to the next, the last one to 0.
Init ==
    /\ mFreeListPtr = [i \in 0 .. mTotalPagesAmount |->
                           IF i = mTotalPagesAmount THEN 0 ELSE i + 1]
    /\ mFreePagesCount = mTotalPagesAmount
    /\ held = {}
    /\ lost = {}

\* Mutant of Get: IsEmpty is not asked.
GetUnchecked ==
    /\ mFreeListPtr' = [mFreeListPtr EXCEPT ![0] = mFreeListPtr[mFreeListPtr[0]]]
    /\ mFreePagesCount' = mFreePagesCount - 1
    /\ held' = held \cup {mFreeListPtr[0]}
    /\ UNCHANGED lost

\* Mutant of Get: the head of the list stays where it is.
GetHeadKept ==
    /\ ~IsEmpty
    /\ mFreePagesCount' = mFreePagesCount - 1
    /\ held' = held \cup {mFreeListPtr[0]}
    /\ UNCHANGED <<mFreeListPtr, lost>>

\* Get takes the page at the head of the list.
Get ==
    /\ ~IsEmpty
    /\ mFreeListPtr' = [mFreeListPtr EXCEPT ![0] = mFreeListPtr[mFreeListPtr[0]]]
    /\ mFreePagesCount' = mFreePagesCount - 1
    /\ held' = held \cup {mFreeListPtr[0]}
    /\ UNCHANGED lost

\* Mutant of Refuses: the last two pages are turned away.
RefusesLastTwo(ptr) == IsFull \/ PageNum(ptr) + 1 >= mTotalPagesAmount

\* The test Reclaim makes before it touches the list.
Refuses(ptr) == IsFull \/ PageNum(ptr) >= mTotalPagesAmount

\* Mutant of ReclaimAccepted: the head is set before the link is copied from it.
ReclaimHeadFirst(p, ptr) ==
    /\ ~Refuses(ptr)
    /\ mFreeListPtr' = [mFreeListPtr EXCEPT ![0] = PageNum(ptr),
                                            ![PageNum(ptr)] = PageNum(ptr)]
    /\ mFreePagesCount' = mFreePagesCount + 1
    /\ held' = held \ {p}
    /\ UNCHANGED lost

\* Mutant of ReclaimAccepted: the count is left alone.
ReclaimUncounted(p, ptr) ==
    /\ ~Refuses(ptr)
    /\ mFreeListPtr' = [mFreeListPtr EXCEPT ![PageNum(ptr)] = mFreeListPtr[0],
                                            ![0] = PageNum(ptr)]
    /\ held' = held \ {p}
    /\ UNCHANGED <<mFreePagesCount, lost>>

\* Reclaim pushes the page that contains ptr at the head of the list ...
ReclaimAccepted(p, ptr) ==
    /\ ~Refuses(ptr)
    /\ mFreeListPtr' = [mFreeListPtr EXCEPT ![PageNum(ptr)] = mFreeListPtr[0],
                                            ![0] = PageNum(ptr)]
    /\ mFreePagesCount' = mFreePagesCount + 1
    /\ held' = held \ {p}
    /\ UNCHANGED lost

\* ... or returns 0.  No caller looks at the result, so the page is gone.
ReclaimRefused(p, ptr) ==
    /\ Refuses(ptr)
    /\ held' = held \ {p}
    /\ lost' = lost \cup {p}
    /\ UNCHANGED <<mFreeListPtr, mFreePagesCount>>

Reclaim ==
    \E p \in held : \E ptr \in AddrsIn(p) :
        ReclaimAccepted(p, ptr) \/ ReclaimRefused(p, ptr)

Next == Get \/ Reclaim

Spec == Init /\ [][Next]_vars

-----------------------------------------------------------------------------
(* Properties *)

\* The state variables have their types; a count never passes the number of
\* pages, a link never leaves the array (bufferPool.cc:41-47, 60-62, 76-77).
TypeOK ==
    /\ mFreeListPtr \in [0 .. mTotalPagesAmount -> 0 .. mTotalPagesAmount]
    /\ mFreePagesCount \in 0 .. mTotalPagesAmount
    /\ held \subseteq Pages
    /\ lost \subseteq Pages

\* The pages a Get can still hand out.
FreePages == Pages \ (held \cup lost)

\* s lists, head first, the pages reached through the links of mFreeListPtr.
IsFreeChain(s) ==
    /\ \A i \in 1 .. mFreePagesCount : s[i] \in FreePages
    /\ \A i, j \in 1 .. mFreePagesCount : s[i] = s[j] => i = j
    /\ mFreeListPtr[0] = IF mFreePagesCount = 0 THEN 0 ELSE s[1]
    /\ \A i \in 1 .. mFreePagesCount :
           mFreeListPtr[s[i]] = IF i = mFreePagesCount THEN 0 ELSE s[i + 1]

\* The free list is a chain of exactly mFreePagesCount different pages that
\* ends in 0: no cycle, no page that somebody holds, none missing.  A second
\* Reclaim of a page, or a stale head, would break it (bufferPool.cc:60-62, 76).
FreeListIsChain ==
    \E s \in [1 .. mFreePagesCount -> Pages] :
        /\ IsFreeChain(s)
        /\ \A p \in FreePages : \E i \in 1 .. mFreePagesCount : s[i] = p

\* Every page is counted once: on the list, with a borrower, or lost; a page
\* that is lost was handed out before.  IsEmpty and IsFull are therefore exact.
Conservation ==
    /\ held \cap lost = {}
    /\ mFreePagesCount + Cardinality(held) + Cardinality(lost) = mTotalPagesAmount

\* Reclaim turns away only the last page, because pageNum counts from 1 and is
\* compared with >= (bufferPool.cc:57-59): at most one page is lost for good.
OnlyLastPageLost == lost \subseteq {mTotalPagesAmount}

\* Get never hands out a page that a borrower still has, and never the null
\* page 0 (bufferPool.cc:75-77).
NoDoubleHandout ==
    [][mFreePagesCount' < mFreePagesCount =>
           /\ mFreeListPtr[0] \in Pages
           /\ mFreeListPtr[0] \notin held \cup lost]_vars

\* The free list implements the abstract page pool.
Pool == INSTANCE PagePool WITH
            Pages <- Pages,
            Losable <- {mTotalPagesAmount},
            free <- FreePages,
            held <- held

ImplementsPagePool == Pool!PoolSpec
=============================================================================
