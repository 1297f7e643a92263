-------------------------------- MODULE Locks --------------------------------
(***************************************************************************)
(* Mutex and CondVar (iolib/mutex.h, iolib/mutex.cc): a pthread mutex, and *)
(* next to it a count and an owner, which Lock and Unlock keep and the     *)
(* timed Lock does not.  The pthread mutex is a default one: it does not   *)
(* recurse, and unlocks for whoever asks.  Every read and every write of   *)
(* the count and of the owner is a step of its own, as the build without   *)
(* optimisation makes them: IsOwned reads mOwner without the mutex, and a  *)
(* thread that was told it has the mutex, and has not, changes both.  The  *)
(* errors RaiseError is told of are printed, and nothing else.             *)
(***************************************************************************)
EXTENDS Integers, FiniteSets

CONSTANTS
    Threads,
    NoThread,   \* pthread_t()
    MaxSkew     \* bound: how far the count gets from 0 downwards and from 1 upwards

ASSUME LocksAssumption ==
    /\ IsFiniteSet(Threads) /\ NoThread \notin Threads
    /\ MaxSkew \in Nat

VARIABLES
    mLockCnt, mOwner,
    loaded,     \* the count each thread has read and not written back yet
    holder,     \* who holds mMutex
    pc,         \* where each thread is: "out" and "held" are outside of every call
    (* history *)
    uncounted,  \* a timed call gave somebody mMutex without counting it
    deceived    \* a Lock whose deadline was invalid returned true without mMutex

vars == <<mLockCnt, mOwner, loaded, holder, pc, uncounted, deceived>>

Init ==
    /\ mLockCnt = 0 /\ mOwner = NoThread
    /\ loaded = [t \in Threads |-> 0]
    /\ holder = NoThread
    /\ pc = [t \in Threads |-> "out"]
    /\ uncounted = FALSE /\ deceived = FALSE

Goes(t, from, to) == pc[t] \in from /\ pc' = [pc EXCEPT ![t] = to]

\* pthread gives t the mutex.
Takes(t) == holder = NoThread /\ holder' = t

fields == <<mLockCnt, mOwner, loaded>>
history == <<uncounted, deceived>>

-----------------------------------------------------------------------------
(* The fields *)

Loads(t, from, to) ==
    /\ Goes(t, {from}, to)
    /\ loaded' = [loaded EXCEPT ![t] = mLockCnt]
    /\ UNCHANGED <<mLockCnt, mOwner, holder, history>>

\* What was loaded is of no use any more.
Stores(t, from, to, count) ==
    /\ Goes(t, {from}, to)
    /\ mLockCnt' = count
    /\ loaded' = [loaded EXCEPT ![t] = 0]
    /\ UNCHANGED <<mOwner, holder, history>>

Owned(t, from, to, owner) ==
    /\ Goes(t, {from}, to)
    /\ mOwner' = owner
    /\ UNCHANGED <<mLockCnt, loaded, holder, history>>

\* mLockCnt++ is compared with 0 as it was loaded.  The check of the sign only prints.
Locked(t) ==
    \/ mLockCnt <= MaxSkew /\ Loads(t, "count", "add")
    \/ Stores(t, "add", IF loaded[t] = 0 THEN "own" ELSE "held", loaded[t] + 1)
    \/ Owned(t, "own", "held", t)

\* Mutant of Unlocked: the owner is not reset.
UnlockedKeepsOwner(t) ==
    \/ mLockCnt > -MaxSkew /\ Loads(t, "held", "take")
    \/ Stores(t, "take", "test", loaded[t] - 1)
    \/ Owned(t, "test", "release", mOwner)

\* --mLockCnt is read again to be compared with 0.  Whether Unlock called Unlocked or
\* one of the Waits, their next step shows.
Unlocked(t) ==
    \/ mLockCnt > -MaxSkew /\ Loads(t, "held", "take")
    \/ Stores(t, "take", "test", loaded[t] - 1)
    \/ /\ Goes(t, {"test"}, IF mLockCnt = 0 THEN "disown" ELSE "release")
       /\ UNCHANGED <<fields, holder, history>>
    \/ Owned(t, "disown", "release", NoThread)

-----------------------------------------------------------------------------
(* Lock, TryLock, Unlock.  Lock and TryLock go on with Locked ("count"), and *)
(* Unlock begins with Unlocked.  A thread that holds the mutex calls Lock no *)
(* more: it would wait for itself.                                           *)

Lock(t) ==
    \/ Goes(t, {"out"}, "lock") /\ UNCHANGED <<fields, holder, history>>
    \/ Goes(t, {"lock"}, "count") /\ Takes(t) /\ UNCHANGED <<fields, history>>

\* EBUSY, for the holder too, returns false.
TryLock(t) ==
    /\ Goes(t, {"out"}, "count")
    /\ Takes(t)
    /\ UNCHANGED <<fields, history>>

\* A timeout in the past can make tv_nsec negative: pthread refuses to wait for that,
\* which is printed, and the call goes on as if it had waited.
DeadlineInvalid(t, from, to) ==
    /\ Goes(t, {from}, to)
    /\ UNCHANGED <<fields, holder, uncounted>>

\* The timed Lock, once called, gets mMutex, gives up, or, its deadline being
\* invalid, returns true without it.
LockTimed(t) ==
    \/ Goes(t, {"out"}, "timed") /\ UNCHANGED <<fields, holder, history>>
    \/ /\ Goes(t, {"timed"}, "held") /\ Takes(t)
       /\ uncounted' = TRUE
       /\ UNCHANGED <<fields, deceived>>
    \/ /\ Goes(t, {"timed"}, "out") /\ holder # NoThread
       /\ UNCHANGED <<fields, holder, history>>
    \/ holder # NoThread /\ DeadlineInvalid(t, "timed", "held") /\ deceived' = TRUE

Unlock(t) ==
    /\ Goes(t, {"release"}, "out")
    /\ holder' = NoThread
    /\ UNCHANGED <<fields, history>>

-----------------------------------------------------------------------------
(* CondVar.  Both Waits begin with Unlocked; which of them it was shows in its *)
(* end.                                                                        *)

\* Mutant of CallsWait: the count stays while the thread sleeps.
CallsWaitCounted(t) ==
    /\ Goes(t, {"held"}, "asleep")
    /\ holder' = NoThread
    /\ UNCHANGED <<fields, history>>

\* Pthread releases mMutex in one step with falling asleep.
CallsWait(t) ==
    /\ Goes(t, {"release"}, "asleep")
    /\ holder' = NoThread
    /\ UNCHANGED <<fields, history>>

Asleep == {t \in Threads : pc[t] = "asleep"}

Wakes(woken) ==
    /\ woken # {}
    /\ pc' = [t \in Threads |-> IF t \in woken THEN "woken" ELSE pc[t]]
    /\ UNCHANGED <<fields, holder, history>>

\* Notify wakes one, NotifyAll all.
Notify(t) == pc[t] \in {"out", "held"} /\ \E u \in Asleep : Wakes({u})
NotifyAll(t) == pc[t] \in {"out", "held"} /\ Wakes(Asleep)

\* Mutant of Wait: a thread that wakes does not count the mutex again.
WaitUncounted(t) ==
    \/ CallsWait(t)
    \/ t \in Asleep /\ Wakes({t})
    \/ Goes(t, {"woken"}, "held") /\ Takes(t) /\ UNCHANGED <<fields, history>>

\* A thread may wake unasked; woken, it gets mMutex again, and counts it.
Wait(t) ==
    \/ CallsWait(t)
    \/ t \in Asleep /\ Wakes({t})
    \/ Goes(t, {"woken"}, "count") /\ Takes(t) /\ UNCHANGED <<fields, history>>

\* The timed Wait runs out: pthread gives mMutex back first, and false is returned
\* without Locked.  An invalid deadline is refused before anything is released.
WaitTimed(t) ==
    \/ Goes(t, {"asleep"}, "late") /\ UNCHANGED <<fields, holder, history>>
    \/ /\ Goes(t, {"late"}, "held") /\ Takes(t)
       /\ uncounted' = TRUE
       /\ UNCHANGED <<fields, deceived>>
    \/ DeadlineInvalid(t, "release", "count") /\ UNCHANGED deceived

-----------------------------------------------------------------------------

Next == \E t \in Threads :
    Lock(t) \/ TryLock(t) \/ LockTimed(t) \/ Unlock(t) \/ Locked(t) \/ Unlocked(t)
        \/ Wait(t) \/ WaitTimed(t) \/ Notify(t) \/ NotifyAll(t)

Spec == Init /\ [][Next]_vars

-----------------------------------------------------------------------------
(* Properties *)

\* The state variables have their types.  Above one the count gets only where two threads
\* change it at once, after a timed Lock has deceived one of them (mutex.h:53, 62).
TypeOK ==
    /\ mLockCnt \in -MaxSkew .. (IF deceived THEN MaxSkew + 1 ELSE 1)
    /\ mOwner \in Threads \cup {NoThread} /\ holder \in Threads \cup {NoThread}
    /\ loaded \in [Threads -> -MaxSkew .. MaxSkew + 1]
    /\ pc \in [Threads -> {"out", "lock", "timed", "count", "add", "own", "held", "take",
                          "test", "disown", "release", "asleep", "woken", "late"}]
    /\ uncounted \in BOOLEAN /\ deceived \in BOOLEAN

\* These were given mMutex, or think so, and have not given it back.
Inside == {t \in Threads :
              pc[t] \notin {"out", "lock", "timed", "asleep", "woken", "late"}}

\* Inside the mutex is whoever is told so, and IsOwned says yes to nobody else, at
\* every step of every call, whatever was counted: until a timed Lock whose deadline
\* was invalid says true to a thread that has nothing (mutex.h:35, mutex.cc:68-75).
InsideIsHolder ==
    ~deceived =>
        /\ \A t \in Inside : holder = t
        /\ mOwner # NoThread => holder = mOwner

\* Outside of every call count and owner say who holds the mutex, or that nobody does,
\* unless a timed Lock succeeded or a timed Wait ran out: those hold it uncounted, and
\* the Unlock that follows takes one off for good (mutex.h:45-67, mutex.cc:68-75, 106-113).
CountedUnlessTimed ==
    ~uncounted /\ ~deceived =>
        /\ \A t \in Threads : pc[t] = "held" => mOwner = t /\ mLockCnt = 1
        /\ holder = NoThread => mOwner = NoThread /\ mLockCnt = 0
=============================================================================
