----------------------------- MODULE LocksProofs -----------------------------
(***************************************************************************)
(* The safety of Locks for any number of threads, and any bound.           *)
(***************************************************************************)
EXTENDS Locks, TLAPS

PCs == {"out", "lock", "timed", "count", "add", "own", "held", "take", "test", "disown",
        "release", "asleep", "woken", "late"}

Types ==
    /\ mLockCnt \in Int
    /\ mOwner \in Threads \cup {NoThread} /\ holder \in Threads \cup {NoThread}
    /\ loaded \in [Threads -> Int]
    /\ pc \in [Threads -> PCs]
    /\ uncounted \in BOOLEAN /\ deceived \in BOOLEAN

\* The count, and what is loaded of it, stay in the bounds.
Bounds ==
    /\ -MaxSkew <= mLockCnt /\ mLockCnt <= MaxSkew + 1
    /\ \A t \in Threads :
        /\ -MaxSkew <= loaded[t] /\ loaded[t] <= MaxSkew + 1
        /\ pc[t] = "add" => loaded[t] <= MaxSkew
        /\ pc[t] = "take" => -MaxSkew < loaded[t]

\* One thread at most is inside, and it holds the mutex.
OneInside == \A t \in Inside : holder = t

\* Nobody changes the count after it was loaded.
LoadedIsTrue == \A t \in Threads : pc[t] \in {"add", "take"} => loaded[t] = mLockCnt

\* Without an owner no count is left, but that of a thread about to write itself down.
\* An owner has the mutex and, until it takes it off, the only count.
OwnerCounted ==
    /\ mOwner = NoThread =>
        mLockCnt <= 0 \/ (mLockCnt = 1 /\ holder \in Threads /\ pc[holder] = "own")
    /\ mOwner # NoThread =>
        /\ holder = mOwner
        /\ \/ mLockCnt = 1 /\ pc[mOwner] \in {"held", "take"}
           \/ mLockCnt = 0 /\ pc[mOwner] \in {"test", "disown"}
    /\ \A t \in Threads :
        /\ pc[t] = "own" => mLockCnt = 1 /\ mOwner = NoThread
        /\ pc[t] = "disown" => mLockCnt = 0

\* Who is outside of every call with the mutex is its owner, and nothing was taken off.
AllCounted ==
    /\ \A t \in Threads : pc[t] \in {"held", "take"} => mOwner = t
    /\ mLockCnt >= 0

\* The inductive invariant.  Once a thread was deceived only types and bounds are left.
LocksInv ==
    /\ Types
    /\ Bounds
    /\ ~deceived => OneInside /\ LoadedIsTrue /\ OwnerCounted
    /\ ~deceived /\ ~uncounted => AllCounted

-----------------------------------------------------------------------------

\* Nobody is inside a new mutex, and its count is zero (mutex.cc:34).
LEMMA InitInv == Init => LocksInv
  <1> SUFFICES ASSUME Init PROVE LocksInv
    OBVIOUS
  <1>1. Types
    <2>1. mLockCnt \in Int /\ loaded \in [Threads -> Int]
      BY DEF Init
    <2>2. uncounted \in BOOLEAN /\ deceived \in BOOLEAN
      BY Zenon DEF Init
    <2>3. pc \in [Threads -> PCs]
      BY DEF Init, PCs
    <2> QED
      BY <2>1, <2>2, <2>3 DEF Init, Types
  <1>2. \A t \in Threads : pc[t] = "out"
    BY DEF Init
  <1>3. Bounds
    BY <1>2, LocksAssumption DEF Init, Bounds
  <1>4. OneInside /\ LoadedIsTrue /\ OwnerCounted /\ AllCounted
    BY <1>2 DEF Init, OneInside, Inside, LoadedIsTrue, OwnerCounted, AllCounted
  <1> QED
    BY <1>1, <1>3, <1>4 DEF LocksInv

\* Whatever one thread does in Lock, TryLock, Unlock and the two Waits keeps the invariant
\* (mutex.h:19-103, mutex.cc:60-114).
LEMMA StepInv == LocksInv /\ [Next]_vars => LocksInv'
  <1> SUFFICES ASSUME LocksInv, [Next]_vars PROVE LocksInv'
    OBVIOUS
  <1> USE LocksAssumption
          DEF LocksInv, Types, PCs, fields, history, Bounds, OneInside, Inside, LoadedIsTrue,
              OwnerCounted, AllCounted
  <1>1. ASSUME NEW t \in Threads, Lock(t) PROVE LocksInv'
    BY <1>1 DEF Lock, Goes, Takes
  <1>2. ASSUME NEW t \in Threads, TryLock(t) PROVE LocksInv'
    BY <1>2 DEF TryLock, Goes, Takes
  <1>3. ASSUME NEW t \in Threads, LockTimed(t) PROVE LocksInv'
    <2>1. CASE Goes(t, {"out"}, "timed") /\ UNCHANGED <<fields, holder, history>>
      BY <2>1 DEF Goes
    <2>2. CASE Goes(t, {"timed"}, "held") /\ Takes(t) /\ uncounted' = TRUE
                 /\ UNCHANGED <<fields, deceived>>
      BY <2>2 DEF Goes, Takes
    <2>3. CASE Goes(t, {"timed"}, "out") /\ UNCHANGED <<fields, holder, history>>
      BY <2>3 DEF Goes
    <2>4. CASE DeadlineInvalid(t, "timed", "held") /\ deceived' = TRUE
      BY <2>4 DEF DeadlineInvalid, Goes
    <2> QED
      BY <1>3, <2>1, <2>2, <2>3, <2>4 DEF LockTimed
  <1>4. ASSUME NEW t \in Threads, Unlock(t) PROVE LocksInv'
    BY <1>4 DEF Unlock, Goes
  <1>5. ASSUME NEW t \in Threads, Locked(t) PROVE LocksInv'
    <2>1. CASE mLockCnt <= MaxSkew /\ Loads(t, "count", "add")
      BY <2>1 DEF Loads, Goes
    <2>2. CASE Stores(t, "add", IF loaded[t] = 0 THEN "own" ELSE "held", loaded[t] + 1)
      BY <2>2 DEF Stores, Goes
    <2>3. CASE Owned(t, "own", "held", t)
      BY <2>3 DEF Owned, Goes
    <2> QED
      BY <1>5, <2>1, <2>2, <2>3 DEF Locked
  <1>6. ASSUME NEW t \in Threads, Unlocked(t) PROVE LocksInv'
    <2>1. CASE mLockCnt > -MaxSkew /\ Loads(t, "held", "take")
      BY <2>1 DEF Loads, Goes
    <2>2. CASE Stores(t, "take", "test", loaded[t] - 1)
      BY <2>2 DEF Stores, Goes
    <2>3. CASE Goes(t, {"test"}, IF mLockCnt = 0 THEN "disown" ELSE "release")
                 /\ UNCHANGED <<fields, holder, history>>
      BY <2>3 DEF Goes
    <2>4. CASE Owned(t, "disown", "release", NoThread)
      BY <2>4 DEF Owned, Goes
    <2> QED
      BY <1>6, <2>1, <2>2, <2>3, <2>4 DEF Unlocked
  <1>7. ASSUME NEW woken \in SUBSET Asleep, Wakes(woken) PROVE LocksInv'
    BY <1>7 DEF Wakes, Asleep
  <1>8. ASSUME NEW t \in Threads, Wait(t) PROVE LocksInv'
    <2>1. CASE CallsWait(t)
      BY <2>1 DEF CallsWait, Goes
    <2>2. CASE t \in Asleep /\ Wakes({t})
      BY <2>2, <1>7
    <2>3. CASE Goes(t, {"woken"}, "count") /\ Takes(t) /\ UNCHANGED <<fields, history>>
      BY <2>3 DEF Goes, Takes
    <2> QED
      BY <1>8, <2>1, <2>2, <2>3 DEF Wait
  <1>9. ASSUME NEW t \in Threads, WaitTimed(t) PROVE LocksInv'
    <2>1. CASE Goes(t, {"asleep"}, "late") /\ UNCHANGED <<fields, holder, history>>
      BY <2>1 DEF Goes
    <2>2. CASE Goes(t, {"late"}, "held") /\ Takes(t) /\ uncounted' = TRUE
                 /\ UNCHANGED <<fields, deceived>>
      BY <2>2 DEF Goes, Takes
    <2>3. CASE DeadlineInvalid(t, "release", "count") /\ UNCHANGED deceived
      BY <2>3 DEF DeadlineInvalid, Goes
    <2> QED
      BY <1>9, <2>1, <2>2, <2>3 DEF WaitTimed
  <1>10. ASSUME NEW t \in Threads, Notify(t) \/ NotifyAll(t) PROVE LocksInv'
    BY <1>7, <1>10 DEF Notify, NotifyAll
  <1>11. CASE UNCHANGED vars
    BY <1>11 DEF vars
  <1> QED
    BY <1>1, <1>2, <1>3, <1>4, <1>5, <1>6, <1>8, <1>9, <1>10, <1>11 DEF Next

\* The inductive invariant holds of every behaviour, for any number of threads.
THEOREM LocksInvariant == Spec => []LocksInv
  BY InitInv, StepInv, PTL DEF Spec

\* Inside the mutex is whoever is told so, and IsOwned says yes to nobody else
\* (mutex.h:35, 45-67).
THEOREM InsideAlwaysHolds == Spec => []InsideIsHolder
  <1>1. LocksInv => InsideIsHolder
    BY DEF LocksInv, Types, OneInside, Inside, OwnerCounted, InsideIsHolder
  <1> QED
    BY <1>1, LocksInvariant, PTL

\* Without timed calls count and owner say who holds the mutex (mutex.h:19-34, 83-90).
THEOREM CountIsTrueUnlessTimed == Spec => []CountedUnlessTimed
  <1>1. LocksInv => CountedUnlessTimed
    BY LocksAssumption
    DEF LocksInv, Types, OneInside, Inside, OwnerCounted, AllCounted, CountedUnlessTimed
  <1> QED
    BY <1>1, LocksInvariant, PTL

\* Types, and with them the bounds of the count: it never exceeds one until a timed Lock
\* said true to a thread that has nothing.  From then on two threads may change it at
\* once, and only the bound of the model is known of it (mutex.h:53, 62, mutex.cc:68-75).
THEOREM LocksTypes == Spec => []TypeOK
  <1>1. LocksInv => TypeOK
    BY LocksAssumption DEF LocksInv, Types, PCs, Bounds, OwnerCounted, TypeOK
  <1> QED
    BY <1>1, LocksInvariant, PTL
=============================================================================
