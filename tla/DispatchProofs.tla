---------------------------- MODULE DispatchProofs ----------------------------
(***************************************************************************)
(* Proofs about Dispatch, for every number of processors and connections:   *)
(* the kicker's count is the number of bytes in its pipe; a processor       *)
(* sleeps on no connection but a late one; a connection that was pushed is  *)
(* registered at most once, by its own processor, and is listed until it    *)
(* is; a processor registers in order but for late connections; and the     *)
(* queues, the exchange and the kick implement Handoff, step by step.       *)
(*                                                                          *)
(* The argument for who sleeps: a queue that is not being filled has, once  *)
(* it was emptied, only late connections (OldQueueLate); so after the       *)
(* exchange the queue being filled has only late ones too, and whatever     *)
(* else is pushed on it before the processor sleeps leaves a byte in the    *)
(* pipe or a kick on its way (FreshIsKicked).                               *)
(*                                                                          *)
(* The argument for delivery: connections are pushed in order, so a queue   *)
(* ascends (QueuesAscend), and a connection is on one queue of its          *)
(* processor from its push until it is taken off after its registration     *)
(* (OneQueue, ListedUntilRegistered, PoppedOnceRegistered).  Order across   *)
(* the two queues of a processor is the hard part: an earlier connection    *)
(* that is not late can be on the other queue than a later one only if its  *)
(* queue is the one being drained (EarlierDrainedFirst).  A push keeps      *)
(* that only because OldQueueLate empties the other queue of all but late   *)
(* ones outside the drain, and because a dispatcher whose mFilling went     *)
(* stale between its load and its push passes late ones only                *)
(* (LatePassesLate).                                                        *)
(***************************************************************************)
EXTENDS Dispatch, SequenceTheorems, TLAPS

\* Some connection on queue l of processor p is not late.
Fresh(p, l) ==
    \E i \in 1 .. Len(pendingList[p][l]) : pendingList[p][l][i] \notin late

\* The values of the two indices at every step of the exchange: complementary
\* outside it, and mUsing is 1 within it.
IndicesExchange ==
    \A p \in Procs :
        IF ppc[p] \in {"swap2", "swap3"} THEN mUsing[p] = 1
                                         ELSE mUsing[p] = 1 - mFilling[p]

\* What is about to be popped is there.
FrontExists == \A p \in Procs : ppc[p] = "pop" => UsedList(p) # <<>>

OldQueueLate ==
    \A p \in Procs :
        ppc[p] \in {"start", "wait", "unkick", "swap1", "swap2"}
            => ~Fresh(p, 1 - mFilling[p])

FreshIsKicked ==
    \A p \in Procs :
        ppc[p] \in {"swap3", "drain", "pop", "wait"} /\ Fresh(p, mFilling[p])
            => mWritten[p] = 1 \/ KickUnderWay(p)

\* The strengthening that is inductive.
DispatchInv ==
    /\ TypeOK
    /\ KickRemembered
    /\ IndicesExchange
    /\ FrontExists
    /\ OldQueueLate
    /\ FreshIsKicked

USE DEF NoProc

\* Round robin always names a processor (processorManager.cc:32).
LEMMA TargetIsProcessor == \A c \in Nat : Target(c) \in Procs
BY ProcessorCountAssumption DEF Target, Procs

\* The connection under way, and its processor, exist.
LEMMA CallUnderWay ==
  ASSUME TypeOK, dpc # "idle"
  PROVE  dconn \in Conns /\ dproc \in Procs
<1>1. mCurrentProcessorIndex - 1 \in Nat /\ mCurrentProcessorIndex - 1 \in 0 .. MaxConns - 1
  BY MaxConnsAssumption DEF TypeOK
<1> QED
  BY <1>1, TargetIsProcessor DEF dconn, dproc, Conns

\* The exclusive or of the exchange, on indices.
LEMMA XorIndices ==
  /\ Xor(0, 0) = 0 /\ Xor(1, 1) = 0
  /\ Xor(0, 1) = 1 /\ Xor(1, 0) = 1
BY DEF Xor

LEMMA InitEstablishesDispatchInv == Init => DispatchInv
<1> SUFFICES ASSUME Init PROVE DispatchInv
  OBVIOUS
<1>1. TypeOK
  BY MaxConnsAssumption, EmptySeq
  DEF Init, TypeOK, DispatcherSteps, LoopSteps, Conns
<1>2. KickRemembered /\ IndicesExchange /\ FrontExists
  BY DEF Init, KickRemembered, IndicesExchange, FrontExists
<1>3. \A p \in Procs, l \in 0 .. 1 : ~Fresh(p, l)
  BY DEF Init, Fresh
<1>4. OldQueueLate /\ FreshIsKicked
  BY <1>3 DEF Init, OldQueueLate, FreshIsKicked
<1> QED
  BY <1>1, <1>2, <1>4 DEF DispatchInv

-----------------------------------------------------------------------------
(* The steps of the dispatcher *)

\* What a push does to the queues: only the loaded queue of the target grows,
\* by one connection, which is late if that queue is not being filled.
LEMMA PushedQueues ==
  ASSUME DispatchInv, PushPending
  PROVE  /\ \A p \in Procs, l \in 0 .. 1 :
                pendingList'[p][l] = IF p = dproc /\ l = dlist
                                     THEN Append(pendingList[p][l], dconn)
                                     ELSE pendingList[p][l]
         /\ pendingList' \in [Procs -> [0 .. 1 -> Seq(Conns)]]
         /\ \A p \in Procs, l \in 0 .. 1 : Fresh(p, l)' =>
                Fresh(p, l) \/ (p = dproc /\ l = dlist /\ l = mFilling[p])
<1>1. dconn \in Conns /\ dproc \in Procs /\ dlist \in 0 .. 1
  BY CallUnderWay DEF DispatchInv, TypeOK, PushPending
<1>2. pendingList \in [Procs -> [0 .. 1 -> Seq(Conns)]]
  BY DEF DispatchInv, TypeOK
<1>3. pendingList' = [pendingList EXCEPT ![dproc][dlist] = Append(@, dconn)]
  BY DEF PushPending
<1>4. \A p \in Procs, l \in 0 .. 1 :
          pendingList'[p][l] = IF p = dproc /\ l = dlist
                               THEN Append(pendingList[p][l], dconn)
                               ELSE pendingList[p][l]
  BY <1>1, <1>2, <1>3
<1>5. pendingList' \in [Procs -> [0 .. 1 -> Seq(Conns)]]
  <2>1. pendingList[dproc][dlist] \in Seq(Conns)
    BY <1>1, <1>2
  <2>2. Append(pendingList[dproc][dlist], dconn) \in Seq(Conns)
    BY <1>1, <2>1, AppendProperties
  <2> QED
    BY <1>1, <1>2, <1>3, <2>2
<1>6. ASSUME NEW p \in Procs, NEW l \in 0 .. 1, Fresh(p, l)'
      PROVE  Fresh(p, l) \/ (p = dproc /\ l = dlist /\ l = mFilling[p])
  <2> DEFINE s == pendingList[p][l]
  <2>1. s \in Seq(Conns)
    BY <1>2
  <2>2. late \subseteq late'
    BY DEF PushPending
  <2>3. PICK i \in 1 .. Len(pendingList'[p][l]) : pendingList'[p][l][i] \notin late'
    BY <1>6 DEF Fresh
  <2>4. CASE ~(p = dproc /\ l = dlist)
    <3>1. pendingList'[p][l] = pendingList[p][l]
      BY <1>4, <2>4
    <3> QED
      BY <2>2, <2>3, <3>1 DEF Fresh
  <2>5. CASE p = dproc /\ l = dlist
    <3>1. pendingList'[p][l] = Append(s, dconn)
      BY <1>4, <2>5
    <3>2. /\ Len(Append(s, dconn)) = Len(s) + 1 /\ Len(s) \in Nat
          /\ Append(s, dconn)[Len(s) + 1] = dconn
          /\ \A j \in 1 .. Len(s) : Append(s, dconn)[j] = s[j]
      BY <2>1, <1>1, AppendProperties, LenProperties
    <3>3. CASE i = Len(s) + 1
      <4>1. dconn \notin late'
        BY <2>3, <3>1, <3>2, <3>3
      <4>2. dlist = mFilling[dproc]
        BY <4>1 DEF PushPending
      <4> QED
        BY <2>5, <4>2
    <3>4. CASE i # Len(s) + 1
      <4>1. i \in 1 .. Len(s)
        BY <2>3, <3>1, <3>2, <3>4
      <4>2. s[i] \notin late
        BY <4>1, <2>2, <2>3, <3>1, <3>2
      <4> QED
        BY <4>1, <4>2 DEF Fresh
    <3> QED
      BY <3>3, <3>4
  <2> QED
    BY <2>4, <2>5
<1> QED
  BY <1>4, <1>5, <1>6

LEMMA ChooseProcessorPreserves == DispatchInv /\ ChooseProcessor => DispatchInv'
<1> SUFFICES ASSUME DispatchInv, ChooseProcessor PROVE DispatchInv'
  OBVIOUS
<1>1. /\ dpc = "idle" /\ dpc' = "push"
      /\ UNCHANGED <<ppc, mUsing, mFilling, pendingList, mWritten, pipe, pipeOk,
                     watched, mBufferPool, mProcessor, late>>
  BY DEF ChooseProcessor, swapVars, kickVars, connVars
<1>2. TypeOK'
  <2>1. /\ mCurrentProcessorIndex' \in 0 .. MaxConns /\ mCurrentProcessorIndex' > 0
        /\ mCurrentProcessorIndex \in Nat
    BY MaxConnsAssumption DEF DispatchInv, TypeOK, ChooseProcessor
  <2>2. dlist' \in 0 .. 1
    BY <2>1, TargetIsProcessor DEF DispatchInv, TypeOK, ChooseProcessor
  <2> QED
    BY <1>1, <2>1, <2>2 DEF DispatchInv, TypeOK, DispatcherSteps
<1>3. KickRemembered' /\ IndicesExchange' /\ FrontExists'
  BY <1>1 DEF DispatchInv, KickRemembered, IndicesExchange, FrontExists, UsedList
<1>4. OldQueueLate'
  BY <1>1 DEF DispatchInv, OldQueueLate, Fresh
<1>5. FreshIsKicked'
  <2>1. \A p \in Procs : ~KickUnderWay(p)
    BY <1>1 DEF KickUnderWay
  <2> QED
    BY <1>1, <2>1 DEF DispatchInv, FreshIsKicked, Fresh
<1> QED
  BY <1>2, <1>3, <1>4, <1>5 DEF DispatchInv

LEMMA PushPendingPreserves == DispatchInv /\ PushPending => DispatchInv'
<1> SUFFICES ASSUME DispatchInv, PushPending PROVE DispatchInv'
  OBVIOUS
<1>1. /\ dpc = "push" /\ dpc' = "pool"
      /\ UNCHANGED <<mCurrentProcessorIndex, dlist, ppc, mUsing, mFilling, mWritten,
                     pipe, pipeOk, watched, mBufferPool, mProcessor>>
      /\ late' \subseteq late \cup {dconn}
  BY DEF PushPending, swapVars, kickVars, connVars
<1>2. dconn \in Conns /\ dproc \in Procs
  BY <1>1, CallUnderWay DEF DispatchInv
<1>3. TypeOK'
  BY <1>1, <1>2, PushedQueues DEF DispatchInv, TypeOK, DispatcherSteps
<1>4. KickRemembered' /\ IndicesExchange'
  BY <1>1 DEF DispatchInv, KickRemembered, IndicesExchange
<1>5. FrontExists'
  <2> SUFFICES ASSUME NEW p \in Procs, ppc[p] = "pop"
               PROVE  pendingList'[p][mUsing[p]] # <<>>
    BY <1>1 DEF FrontExists, UsedList
  <2> DEFINE s == pendingList[p][mUsing[p]]
  <2>1. mUsing[p] \in 0 .. 1 /\ s \in Seq(Conns) /\ s # <<>>
    BY DEF DispatchInv, TypeOK, FrontExists, UsedList
  <2>2. Append(s, dconn) # <<>>
    BY <1>2, <2>1, AppendProperties
  <2> QED
    BY <2>1, <2>2, PushedQueues
<1>6. OldQueueLate'
  <2> SUFFICES ASSUME NEW p \in Procs,
                      ppc[p] \in {"start", "wait", "unkick", "swap1", "swap2"}
               PROVE  ~Fresh(p, 1 - mFilling[p])'
    BY <1>1 DEF OldQueueLate
  <2>0. mFilling[p] \in 0 .. 1
    BY DEF DispatchInv, TypeOK
  <2>1. 1 - mFilling[p] \in 0 .. 1 /\ 1 - mFilling[p] # mFilling[p]
    BY <2>0
  <2>2. ~Fresh(p, 1 - mFilling[p])
    BY DEF DispatchInv, OldQueueLate
  <2>3. \A l \in 0 .. 1 : l = 1 - mFilling[p] => ~Fresh(p, l)'
    BY <2>1, <2>2, PushedQueues
  <2> QED
    BY <1>1, <2>1, <2>3 DEF Fresh
<1>7. FreshIsKicked'
  <2> SUFFICES ASSUME NEW p \in Procs,
                      ppc[p] \in {"swap3", "drain", "pop", "wait"},
                      Fresh(p, mFilling[p])'
               PROVE  mWritten[p] = 1 \/ KickUnderWay(p)'
    BY <1>1 DEF FreshIsKicked
  <2>1. mFilling[p] \in 0 .. 1
    BY DEF DispatchInv, TypeOK
  <2>2. \A l \in 0 .. 1 : l = mFilling[p] => Fresh(p, l)'
    BY <1>1 DEF Fresh
  <2>3. Fresh(p, mFilling[p]) \/ p = dproc
    BY <2>1, <2>2, PushedQueues
  <2>4. ~KickUnderWay(p) /\ dproc' = dproc
    BY <1>1 DEF KickUnderWay, dproc, dconn, Target
  <2> QED
    BY <1>1, <2>3, <2>4 DEF DispatchInv, FreshIsKicked, KickUnderWay
<1> QED
  BY <1>3, <1>4, <1>5, <1>6, <1>7 DEF DispatchInv

LEMMA GivePoolPreserves == DispatchInv /\ GivePool => DispatchInv'
<1> SUFFICES ASSUME DispatchInv, GivePool PROVE DispatchInv'
  OBVIOUS
<1>1. /\ dpc = "pool" /\ dpc' = "kick"
      /\ mBufferPool' = [mBufferPool EXCEPT ![dconn] = dproc]
      /\ UNCHANGED <<mCurrentProcessorIndex, dlist, ppc, mUsing, mFilling, pendingList,
                     mWritten, pipe, pipeOk, watched, mProcessor, late>>
  BY DEF GivePool, swapVars, kickVars
<1>2. TypeOK'
  BY <1>1, CallUnderWay DEF DispatchInv, TypeOK, DispatcherSteps
<1>3. KickRemembered' /\ IndicesExchange' /\ FrontExists'
  BY <1>1 DEF DispatchInv, KickRemembered, IndicesExchange, FrontExists, UsedList
<1>4. OldQueueLate'
  BY <1>1 DEF DispatchInv, OldQueueLate, Fresh
<1>5. FreshIsKicked'
  BY <1>1 DEF DispatchInv, FreshIsKicked, Fresh, KickUnderWay, dproc, dconn, Target
<1> QED
  BY <1>2, <1>3, <1>4, <1>5 DEF DispatchInv

LEMMA KickPreserves == DispatchInv /\ Kick => DispatchInv'
<1> SUFFICES ASSUME DispatchInv, Kick PROVE DispatchInv'
  OBVIOUS
<1>1. /\ dpc = "kick" /\ dpc' = "idle"
      /\ KickByte(dproc)
      /\ UNCHANGED <<mCurrentProcessorIndex, dlist, ppc, mUsing, mFilling, pendingList,
                     pipeOk, watched, mBufferPool, mProcessor, late>>
  BY DEF Kick, swapVars, connVars
<1>2. dproc \in Procs
  BY <1>1, CallUnderWay DEF DispatchInv
<1>3. /\ mWritten \in [Procs -> 0 .. 1] /\ pipe \in [Procs -> 0 .. 1]
      /\ \A p \in Procs : IF pipeOk[p] THEN pipe[p] = mWritten[p] ELSE pipe[p] = 0
  BY DEF DispatchInv, TypeOK, KickRemembered
<1>4. /\ mWritten' \in [Procs -> 0 .. 1] /\ pipe' \in [Procs -> 0 .. 1]
      /\ mWritten'[dproc] = 1
      /\ \A p \in Procs : p # dproc => mWritten'[p] = mWritten[p] /\ pipe'[p] = pipe[p]
      /\ IF pipeOk[dproc] THEN pipe'[dproc] = mWritten'[dproc] ELSE pipe'[dproc] = 0
  <2>1. CASE mWritten[dproc] = 0
    BY <1>1, <1>2, <1>3, <2>1 DEF KickByte
  <2>2. CASE mWritten[dproc] = 1
    BY <1>1, <1>2, <1>3, <2>2 DEF KickByte
  <2> QED
    BY <1>2, <1>3, <2>1, <2>2
<1>5. TypeOK'
  BY <1>1, <1>4 DEF DispatchInv, TypeOK, DispatcherSteps
<1>6. KickRemembered'
  BY <1>1, <1>3, <1>4 DEF KickRemembered
<1>7. IndicesExchange' /\ FrontExists'
  BY <1>1 DEF DispatchInv, IndicesExchange, FrontExists, UsedList
<1>8. OldQueueLate'
  BY <1>1 DEF DispatchInv, OldQueueLate, Fresh
<1>9. FreshIsKicked'
  BY <1>1, <1>4 DEF DispatchInv, FreshIsKicked, Fresh, KickUnderWay
<1> QED
  BY <1>5, <1>6, <1>7, <1>8, <1>9 DEF DispatchInv

-----------------------------------------------------------------------------
(* The steps of MainLoop *)

\* A step of processor p that leaves the queues, the indices and the kicker
\* alone preserves the invariant if its next step asks nothing new.
LEMMA LoopOnlyPreserves ==
  ASSUME DispatchInv, NEW p \in Procs, NEW step \in LoopSteps, LoopTo(p, step),
         UNCHANGED <<dispatcherVars, swapVars, pendingList, kickVars, connVars, late>>,
         ppc[p] \notin {"swap2", "swap3"}, step \notin {"swap2", "swap3", "pop"},
         step \in {"start", "wait", "unkick", "swap1"} => ~Fresh(p, 1 - mFilling[p]),
         step \in {"drain", "wait"} => ppc[p] \in {"swap3", "drain", "pop", "wait"}
  PROVE  DispatchInv'
<1>1. /\ UNCHANGED <<mCurrentProcessorIndex, dpc, dlist, mUsing, mFilling, pendingList,
                     mWritten, pipe, pipeOk, watched, mBufferPool, mProcessor, late>>
      /\ ppc' = [ppc EXCEPT ![p] = step]
      /\ ppc \in [Procs -> LoopSteps]
  BY DEF DispatchInv, TypeOK, LoopTo, dispatcherVars, swapVars, kickVars, connVars
<1>2. TypeOK'
  BY <1>1 DEF DispatchInv, TypeOK
<1>3. KickRemembered' /\ IndicesExchange' /\ FrontExists'
  BY <1>1 DEF DispatchInv, KickRemembered, IndicesExchange, FrontExists, UsedList
<1>4. OldQueueLate'
  <2> SUFFICES ASSUME NEW q \in Procs,
                      ppc'[q] \in {"start", "wait", "unkick", "swap1", "swap2"}
               PROVE  ~Fresh(q, 1 - mFilling[q])
    BY <1>1 DEF OldQueueLate, Fresh
  <2> QED
    BY <1>1 DEF DispatchInv, OldQueueLate
<1>5. FreshIsKicked'
  <2> SUFFICES ASSUME NEW q \in Procs,
                      ppc'[q] \in {"swap3", "drain", "pop", "wait"}, Fresh(q, mFilling[q])
               PROVE  mWritten[q] = 1 \/ KickUnderWay(q)
    BY <1>1 DEF FreshIsKicked, Fresh, KickUnderWay, dproc, dconn, Target
  <2> QED
    BY <1>1 DEF DispatchInv, FreshIsKicked
<1> QED
  BY <1>2, <1>3, <1>4, <1>5 DEF DispatchInv

LEMMA StartLoopPreserves ==
  ASSUME DispatchInv, NEW p \in Procs, StartLoop(p)
  PROVE  DispatchInv'
<1>1. ~Fresh(p, 1 - mFilling[p])
  BY DEF DispatchInv, OldQueueLate, StartLoop
<1> QED
  BY <1>1, LoopOnlyPreserves DEF StartLoop, LoopSteps

\* An emptied queue has nothing fresh.
LEMMA ListEmptiedPreserves ==
  ASSUME DispatchInv, NEW p \in Procs, ListEmptied(p)
  PROVE  DispatchInv'
<1>1. mUsing[p] = 1 - mFilling[p]
  BY DEF DispatchInv, IndicesExchange, ListEmptied
<1>2. Len(UsedList(p)) = 0
  BY DEF ListEmptied
<1>3. ~Fresh(p, 1 - mFilling[p])
  BY <1>1, <1>2 DEF Fresh, UsedList
<1> QED
  BY <1>3, LoopOnlyPreserves DEF ListEmptied, LoopSteps

LEMMA WakePreserves ==
  ASSUME DispatchInv, NEW p \in Procs, WakeKicked(p) \/ WakeOther(p)
  PROVE  DispatchInv'
<1>1. ~Fresh(p, 1 - mFilling[p])
  BY DEF DispatchInv, OldQueueLate, WakeKicked, WakeOther
<1> QED
  BY <1>1, LoopOnlyPreserves DEF WakeKicked, WakeOther, LoopSteps

\* The exchange leaves mUsing at 1, exchanges mFilling and ends complementary.
LEMMA SwapPreserves ==
  ASSUME DispatchInv, NEW p \in Procs, Swap(p)
  PROVE  DispatchInv'
<1>0. /\ mUsing[p] \in 0 .. 1 /\ mFilling[p] \in 0 .. 1
      /\ mUsing \in [Procs -> 0 .. 1] /\ mFilling \in [Procs -> 0 .. 1]
      /\ ppc \in [Procs -> LoopSteps]
  BY DEF DispatchInv, TypeOK
<1>1. CASE SwapUsing(p, "swap1", "swap2")
  <2>1. /\ ppc[p] = "swap1" /\ ppc' = [ppc EXCEPT ![p] = "swap2"]
        /\ mUsing' = [mUsing EXCEPT ![p] = Xor(mUsing[p], mFilling[p])]
        /\ UNCHANGED <<mCurrentProcessorIndex, dpc, dlist, mFilling, pendingList,
                       mWritten, pipe, pipeOk, watched, mBufferPool, mProcessor, late>>
    BY <1>1 DEF SwapUsing, LoopTo, dispatcherVars, kickVars, connVars
  <2>2. mUsing[p] = 1 - mFilling[p]
    BY <2>1 DEF DispatchInv, IndicesExchange
  <2>3. Xor(mUsing[p], mFilling[p]) = 1
    BY <1>0, <2>2, XorIndices
  <2>4. TypeOK'
    BY <2>1, <2>3 DEF DispatchInv, TypeOK, LoopSteps
  <2>5. KickRemembered' /\ IndicesExchange' /\ FrontExists'
    BY <1>0, <2>1, <2>3
    DEF DispatchInv, KickRemembered, IndicesExchange, FrontExists, UsedList
  <2>6. OldQueueLate'
    BY <1>0, <2>1 DEF DispatchInv, OldQueueLate, Fresh
  <2>7. FreshIsKicked'
    BY <1>0, <2>1 DEF DispatchInv, FreshIsKicked, Fresh, KickUnderWay, dproc, dconn, Target
  <2> QED
    BY <2>4, <2>5, <2>6, <2>7 DEF DispatchInv
<1>2. CASE SwapFilling(p)
  <2>1. /\ ppc[p] = "swap2" /\ ppc' = [ppc EXCEPT ![p] = "swap3"]
        /\ mFilling' = [mFilling EXCEPT ![p] = Xor(mFilling[p], mUsing[p])]
        /\ UNCHANGED <<mCurrentProcessorIndex, dpc, dlist, mUsing, pendingList,
                       mWritten, pipe, pipeOk, watched, mBufferPool, mProcessor, late>>
    BY <1>2 DEF SwapFilling, LoopTo, dispatcherVars, kickVars, connVars
  <2>2. mUsing[p] = 1
    BY <2>1 DEF DispatchInv, IndicesExchange
  <2>3. mFilling'[p] = 1 - mFilling[p] /\ mFilling' \in [Procs -> 0 .. 1]
    BY <1>0, <2>1, <2>2, XorIndices
  <2>4. \A q \in Procs : q # p => mFilling'[q] = mFilling[q] /\ ppc'[q] = ppc[q]
    BY <1>0, <2>1
  <2>5. ppc'[p] = "swap3" /\ ppc' \in [Procs -> LoopSteps]
    BY <1>0, <2>1 DEF LoopSteps
  <2>6. TypeOK'
    BY <2>1, <2>3, <2>5 DEF DispatchInv, TypeOK
  <2>7. KickRemembered' /\ IndicesExchange' /\ FrontExists'
    BY <2>1, <2>2, <2>4, <2>5
    DEF DispatchInv, KickRemembered, IndicesExchange, FrontExists, UsedList
  <2>8. OldQueueLate'
    BY <2>1, <2>4, <2>5 DEF DispatchInv, OldQueueLate, Fresh
  <2>9. FreshIsKicked'
    <3>1. ~Fresh(p, 1 - mFilling[p])
      BY <2>1 DEF DispatchInv, OldQueueLate
    <3> SUFFICES ASSUME NEW q \in Procs,
                        ppc'[q] \in {"swap3", "drain", "pop", "wait"}, Fresh(q, mFilling'[q])
                 PROVE  mWritten[q] = 1 \/ KickUnderWay(q)
      BY <2>1 DEF FreshIsKicked, Fresh, KickUnderWay, dproc, dconn, Target
    <3>2. q # p
      BY <3>1, <2>3
    <3> QED
      BY <2>4, <3>2 DEF DispatchInv, FreshIsKicked
  <2> QED
    BY <2>6, <2>7, <2>8, <2>9 DEF DispatchInv
<1>3. CASE SwapUsing(p, "swap3", "drain")
  <2>1. /\ ppc[p] = "swap3" /\ ppc' = [ppc EXCEPT ![p] = "drain"]
        /\ mUsing' = [mUsing EXCEPT ![p] = Xor(mUsing[p], mFilling[p])]
        /\ UNCHANGED <<mCurrentProcessorIndex, dpc, dlist, mFilling, pendingList,
                       mWritten, pipe, pipeOk, watched, mBufferPool, mProcessor, late>>
    BY <1>3 DEF SwapUsing, LoopTo, dispatcherVars, kickVars, connVars
  <2>2. mUsing[p] = 1
    BY <2>1 DEF DispatchInv, IndicesExchange
  <2>3. mUsing'[p] = 1 - mFilling[p] /\ mUsing' \in [Procs -> 0 .. 1]
    BY <1>0, <2>1, <2>2, XorIndices
  <2>4. \A q \in Procs : q # p => mUsing'[q] = mUsing[q] /\ ppc'[q] = ppc[q]
    BY <1>0, <2>1
  <2>5. ppc'[p] = "drain" /\ ppc' \in [Procs -> LoopSteps]
    BY <1>0, <2>1 DEF LoopSteps
  <2>6. TypeOK'
    BY <2>1, <2>3, <2>5 DEF DispatchInv, TypeOK
  <2>7. KickRemembered' /\ IndicesExchange' /\ FrontExists'
    BY <2>1, <2>3, <2>4, <2>5
    DEF DispatchInv, KickRemembered, IndicesExchange, FrontExists, UsedList
  <2>8. OldQueueLate'
    BY <2>1, <2>4, <2>5 DEF DispatchInv, OldQueueLate, Fresh
  <2>9. FreshIsKicked'
    BY <2>1, <2>4, <2>5 DEF DispatchInv, FreshIsKicked, Fresh, KickUnderWay, dproc, dconn, Target
  <2> QED
    BY <2>6, <2>7, <2>8, <2>9 DEF DispatchInv
<1> QED
  BY <1>1, <1>2, <1>3 DEF Swap

LEMMA RegisterFrontPreserves ==
  ASSUME DispatchInv, NEW p \in Procs, RegisterFront(p)
  PROVE  DispatchInv'
<1> DEFINE c == Head(UsedList(p))
<1>1. /\ ppc[p] = "drain" /\ ppc' = [ppc EXCEPT ![p] = "pop"]
      /\ UNCHANGED <<mCurrentProcessorIndex, dpc, dlist, mUsing, mFilling, pendingList,
                     mWritten, pipe, pipeOk, late>>
      /\ UsedList(p) # <<>>
      /\ AddConnectionToEpoll(p, c)
  BY DEF RegisterFront, LoopTo, dispatcherVars, swapVars, kickVars
<1>2. ppc \in [Procs -> LoopSteps] /\ mUsing[p] \in 0 .. 1
  BY DEF DispatchInv, TypeOK
<1>3. c \in Conns
  <2>1. UsedList(p) \in Seq(Conns)
    BY <1>2 DEF DispatchInv, TypeOK, UsedList
  <2> QED
    BY <1>1, <2>1, HeadTailProperties
<1>4. TypeOK'
  <2>1. /\ watched' \in {watched, [watched EXCEPT ![p] = @ \cup {c}]}
        /\ mBufferPool' = [mBufferPool EXCEPT ![c] = p]
        /\ mProcessor' = [mProcessor EXCEPT ![c] = p]
    BY <1>1 DEF AddConnectionToEpoll
  <2>2. /\ watched \in [Procs -> SUBSET Conns]
        /\ mBufferPool \in [Conns -> Procs \cup {NoProc}]
        /\ mProcessor \in [Conns -> Procs \cup {NoProc}]
    BY DEF DispatchInv, TypeOK
  <2> HIDE DEF c
  <2>3. watched' \in [Procs -> SUBSET Conns]
    <3>1. watched[p] \cup {c} \in SUBSET Conns
      BY <1>3, <2>2
    <3> QED
      BY <2>1, <2>2, <3>1
  <2>4. mBufferPool' \in [Conns -> Procs \cup {NoProc}]
    BY <1>3, <2>1, <2>2
  <2>5. mProcessor' \in [Conns -> Procs \cup {NoProc}]
    BY <1>3, <2>1, <2>2
  <2> QED
    BY <1>1, <1>2, <2>3, <2>4, <2>5 DEF DispatchInv, TypeOK, LoopSteps
<1>5. KickRemembered' /\ IndicesExchange' /\ FrontExists'
  BY <1>1, <1>2 DEF DispatchInv, KickRemembered, IndicesExchange, FrontExists, UsedList
<1>6. OldQueueLate'
  BY <1>1, <1>2 DEF DispatchInv, OldQueueLate, Fresh
<1>7. FreshIsKicked'
  BY <1>1, <1>2 DEF DispatchInv, FreshIsKicked, Fresh, KickUnderWay, dproc, dconn, Target
<1> QED
  BY <1>4, <1>5, <1>6, <1>7 DEF DispatchInv

\* Only the queue in use shrinks, and at this step it is not the one being filled.
LEMMA PopFrontPreserves ==
  ASSUME DispatchInv, NEW p \in Procs, PopFront(p)
  PROVE  DispatchInv'
<1>1. /\ ppc[p] = "pop" /\ ppc' = [ppc EXCEPT ![p] = "drain"]
      /\ pendingList' = [pendingList EXCEPT ![p][mUsing[p]] = Tail(@)]
      /\ UNCHANGED <<mCurrentProcessorIndex, dpc, dlist, mUsing, mFilling, mWritten,
                     pipe, pipeOk, watched, mBufferPool, mProcessor, late>>
  BY DEF PopFront, LoopTo, dispatcherVars, swapVars, kickVars, connVars
<1>2. /\ ppc \in [Procs -> LoopSteps] /\ mUsing[p] \in 0 .. 1 /\ mFilling[p] \in 0 .. 1
      /\ pendingList \in [Procs -> [0 .. 1 -> Seq(Conns)]]
      /\ mUsing[p] = 1 - mFilling[p]
      /\ UsedList(p) # <<>>
  BY <1>1 DEF DispatchInv, TypeOK, IndicesExchange, FrontExists
<1>3. pendingList' \in [Procs -> [0 .. 1 -> Seq(Conns)]]
  <2>1. pendingList[p][mUsing[p]] \in Seq(Conns) /\ pendingList[p][mUsing[p]] # <<>>
    BY <1>2 DEF UsedList
  <2>2. Tail(pendingList[p][mUsing[p]]) \in Seq(Conns)
    BY <2>1, HeadTailProperties
  <2> QED
    BY <1>1, <1>2, <2>2
<1>4. /\ \A q \in Procs : q # p => pendingList'[q] = pendingList[q] /\ ppc'[q] = ppc[q]
      /\ pendingList'[p][mFilling[p]] = pendingList[p][mFilling[p]]
      /\ ppc'[p] = "drain" /\ ppc' \in [Procs -> LoopSteps]
  BY <1>1, <1>2 DEF LoopSteps
<1>5. TypeOK'
  BY <1>1, <1>3, <1>4 DEF DispatchInv, TypeOK
<1>6. KickRemembered' /\ IndicesExchange' /\ FrontExists'
  BY <1>1, <1>2, <1>4
  DEF DispatchInv, KickRemembered, IndicesExchange, FrontExists, UsedList
<1>7. OldQueueLate'
  BY <1>1, <1>4 DEF DispatchInv, OldQueueLate, Fresh
<1>8. FreshIsKicked'
  BY <1>1, <1>4 DEF DispatchInv, FreshIsKicked, Fresh, KickUnderWay, dproc, dconn, Target
<1> QED
  BY <1>5, <1>6, <1>7, <1>8 DEF DispatchInv

LEMMA DrainKicksPreserves ==
  ASSUME DispatchInv, NEW p \in Procs, DrainKicks(p)
  PROVE  DispatchInv'
<1>1. /\ ppc[p] = "unkick" /\ ppc' = [ppc EXCEPT ![p] = "swap1"]
      /\ mWritten' = [mWritten EXCEPT ![p] = IF @ >= pipe[p] THEN @ - pipe[p] ELSE 0]
      /\ pipe' = [pipe EXCEPT ![p] = IF mWritten[p] > 0 THEN 0 ELSE @]
      /\ UNCHANGED <<mCurrentProcessorIndex, dpc, dlist, mUsing, mFilling, pendingList,
                     pipeOk, watched, mBufferPool, mProcessor, late>>
  BY DEF DrainKicks, LoopTo, dispatcherVars, swapVars, connVars
<1>2. /\ ppc \in [Procs -> LoopSteps]
      /\ mWritten \in [Procs -> 0 .. 1] /\ pipe \in [Procs -> 0 .. 1]
      /\ \A q \in Procs : IF pipeOk[q] THEN pipe[q] = mWritten[q] ELSE pipe[q] = 0
  BY DEF DispatchInv, TypeOK, KickRemembered
<1>3. /\ mWritten' \in [Procs -> 0 .. 1] /\ pipe' \in [Procs -> 0 .. 1]
      /\ \A q \in Procs : q # p => /\ mWritten'[q] = mWritten[q]
                                   /\ pipe'[q] = pipe[q]
                                   /\ ppc'[q] = ppc[q]
      /\ IF pipeOk[p] THEN pipe'[p] = mWritten'[p] ELSE pipe'[p] = 0
      /\ ppc'[p] = "swap1" /\ ppc' \in [Procs -> LoopSteps]
  <2>1. ppc'[p] = "swap1" /\ ppc' \in [Procs -> LoopSteps]
    BY <1>1, <1>2 DEF LoopSteps
  <2>2. CASE pipe[p] = 0 /\ mWritten[p] = 0
    BY <1>1, <1>2, <2>1, <2>2
  <2>3. CASE pipe[p] = 0 /\ mWritten[p] = 1
    BY <1>1, <1>2, <2>1, <2>3
  <2>4. CASE pipe[p] = 1 /\ mWritten[p] = 1
    BY <1>1, <1>2, <2>1, <2>4
  <2>5. ~(pipe[p] = 1 /\ mWritten[p] = 0)
    BY <1>2
  <2> QED
    BY <1>2, <2>2, <2>3, <2>4, <2>5
<1>4. TypeOK'
  BY <1>1, <1>3 DEF DispatchInv, TypeOK
<1>5. KickRemembered'
  BY <1>1, <1>2, <1>3 DEF KickRemembered
<1>6. IndicesExchange' /\ FrontExists'
  BY <1>1, <1>3 DEF DispatchInv, IndicesExchange, FrontExists, UsedList
<1>7. OldQueueLate'
  BY <1>1, <1>3 DEF DispatchInv, OldQueueLate, Fresh
<1>8. FreshIsKicked'
  BY <1>1, <1>3 DEF DispatchInv, FreshIsKicked, Fresh, KickUnderWay, dproc, dconn, Target
<1> QED
  BY <1>4, <1>5, <1>6, <1>7, <1>8 DEF DispatchInv

-----------------------------------------------------------------------------
(* The theorems *)

LEMMA NextPreservesDispatchInv == DispatchInv /\ [Next]_vars => DispatchInv'
<1> SUFFICES ASSUME DispatchInv, [Next]_vars PROVE DispatchInv'
  OBVIOUS
<1>1. CASE Dispatcher
  BY <1>1, ChooseProcessorPreserves, PushPendingPreserves, GivePoolPreserves, KickPreserves
  DEF Dispatcher
<1>2. ASSUME NEW p \in Procs, MainLoop(p)
      PROVE  DispatchInv'
  BY <1>2, StartLoopPreserves, SwapPreserves, RegisterFrontPreserves, PopFrontPreserves,
     ListEmptiedPreserves, WakePreserves, DrainKicksPreserves
  DEF MainLoop, AwakeLoop
<1>3. CASE UNCHANGED vars
  BY <1>3
  DEF vars, dispatcherVars, swapVars, kickVars, connVars, DispatchInv, TypeOK,
      KickRemembered, IndicesExchange, FrontExists, OldQueueLate, FreshIsKicked, Fresh,
      UsedList, KickUnderWay, dproc, dconn, Target
<1> QED
  BY <1>1, <1>2, <1>3 DEF Next

\* Whatever the threads do, the indices, the queues and the kicker keep to
\* DispatchInv (processor.cc:75-106).
THEOREM DispatchInvariant == Init /\ [][Next]_vars => []DispatchInv
<1>1. Init => DispatchInv
  BY InitEstablishesDispatchInv
<1>2. DispatchInv /\ [Next]_vars => DispatchInv'
  BY NextPreservesDispatchInv
<1> QED
  BY <1>1, <1>2, PTL

\* The indices, the queues and the kicker keep their types; a call under way has a
\* connection (processorManager.cc:31-37, processor.cc:75-106).
THEOREM DispatchTypes == Spec => []TypeOK
<1>1. DispatchInv => TypeOK
  BY DEF DispatchInv
<1> QED
  BY <1>1, DispatchInvariant, PTL DEF Spec

\* No kick is lost, and the pipe never holds more than a byte (netKicker.cc:25-49).
THEOREM KickAlwaysRemembered == Spec => []KickRemembered
<1>1. DispatchInv => KickRemembered
  BY DEF DispatchInv
<1> QED
  BY <1>1, DispatchInvariant, PTL DEF Spec

\* A processor that sleeps unkicked has left nothing behind but connections
\* pushed on the queue it had taken out of filling, for any number of
\* processors and connections (processor.cc:78, 83, 94-104).
THEOREM SleepsOnLateOnly == Spec => []OnlyLateStranded
<1>1. DispatchInv => OnlyLateStranded
  <2> SUFFICES ASSUME DispatchInv,
                      NEW p \in Procs, ppc[p] = "wait", pipeOk[p], pipe[p] = 0,
                      ~KickUnderWay(p),
                      NEW c \in Listed(p)
               PROVE  c \in late
    BY DEF OnlyLateStranded
  <2>1. ~Fresh(p, mFilling[p]) /\ ~Fresh(p, 1 - mFilling[p])
    BY DEF DispatchInv, FreshIsKicked, OldQueueLate, KickRemembered
  <2>2. PICK q \in Places(c) : q[1] = p
    BY DEF Listed
  <2> DEFINE l == q[2]
             i == q[3]
  <2>3. /\ l \in 0 .. 1 /\ i \in Nat \ {0}
        /\ i <= Len(pendingList[p][l]) /\ pendingList[p][l][i] = c
    BY <2>2, MaxConnsAssumption DEF Places
  <2>4. l = mFilling[p] \/ l = 1 - mFilling[p]
    BY <2>3 DEF DispatchInv, TypeOK
  <2>5. ~Fresh(p, l)
    BY <2>1, <2>4
  <2>6. pendingList[p][l] \in Seq(Conns)
    BY <2>3 DEF DispatchInv, TypeOK
  <2>7. i \in 1 .. Len(pendingList[p][l])
    BY <2>3, <2>6, LenProperties
  <2> QED
    BY <2>3, <2>5, <2>7 DEF Fresh
<1> QED
  BY <1>1, DispatchInvariant, PTL DEF Spec

-----------------------------------------------------------------------------
(* Delivery: once, in order, by the processor it was given to *)

HIDE DEF NoProc

\* The number of connections pushed so far.
Pushed == IF dpc = "push" THEN mCurrentProcessorIndex - 1 ELSE mCurrentProcessorIndex

\* Connection c is on queue l of processor p.
ListedAt(c, p, l) == \E i \in 1 .. Len(pendingList[p][l]) : pendingList[p][l][i] = c

\* A queue ascends: its connections are its processor's, pushed, in order.
QueuesAscend ==
    \A p \in Procs, l \in 0 .. 1 :
        LET list == pendingList[p][l]
        IN  /\ Len(list) <= Pushed
            /\ \A i \in 1 .. Len(list) : Target(list[i]) = p /\ list[i] < Pushed
            /\ \A i, j \in 1 .. Len(list) : i < j => list[i] < list[j]

\* A connection is not on both queues.
OneQueue == \A p \in Procs, c \in Conns : ~(ListedAt(c, p, 0) /\ ListedAt(c, p, 1))

\* Who registered a connection, and who watches it, is its processor.
RegisteredByTarget ==
    \A c \in Conns :
        /\ mProcessor[c] \in {NoProc, Target(c)}
        /\ Registered(c) => c < Pushed
        /\ \A p \in Procs : c \in watched[p] => mProcessor[c] = p

\* What was pushed is listed until it is registered.
ListedUntilRegistered ==
    \A c \in Conns : c < Pushed /\ ~Registered(c) => \E l \in 0 .. 1 : ListedAt(c, Target(c), l)

\* Registered and still listed is only the front about to be popped.
PoppedOnceRegistered ==
    \A p \in Procs :
        /\ \A l \in 0 .. 1, c \in Conns :
               ListedAt(c, p, l) /\ Registered(c)
                   => ppc[p] = "pop" /\ l = mUsing[p] /\ c = Head(UsedList(p))
        /\ ppc[p] = "pop" => Registered(Head(UsedList(p)))

\* An earlier connection that is not late shares no processor's other queue with
\* a later one unless it is on the queue being drained.
EarlierDrainedFirst ==
    \A p \in Procs, l \in 0 .. 1, c, d \in Conns :
        ListedAt(c, p, l) /\ ListedAt(d, p, 1 - l) /\ c < d /\ c \notin late
            => l = 1 - mFilling[p] /\ ppc[p] \in {"swap3", "drain", "pop"}

\* A dispatcher that loaded the other queue passes only late ones.
LatePassesLate ==
    dpc = "push" /\ dlist # mFilling[dproc] => ~Fresh(dproc, mFilling[dproc])

\* The strengthening that is inductive, next to DispatchInv.
DeliveryInv ==
    /\ QueuesAscend
    /\ OneQueue
    /\ RegisteredByTarget
    /\ ListedUntilRegistered
    /\ PoppedOnceRegistered
    /\ EarlierDrainedFirst
    /\ LatePassesLate
    /\ RegisteredInOrder

\* The number of connections pushed, and what is listed, are connections.
LEMMA PushedAreConns ==
  ASSUME TypeOK
  PROVE  /\ Pushed \in 0 .. MaxConns
         /\ \A c \in Conns : c \in Nat /\ (Given(c) <=> c < Pushed)
         /\ \A p \in Procs, l \in 0 .. 1 : \A c : ListedAt(c, p, l) => c \in Conns
<1>1. Pushed \in 0 .. MaxConns /\ \A c \in Conns : c \in Nat /\ (Given(c) <=> c < Pushed)
  BY MaxConnsAssumption DEF TypeOK, Pushed, Given, dconn, Conns
<1>2. ASSUME NEW p \in Procs, NEW l \in 0 .. 1, NEW c, ListedAt(c, p, l) PROVE c \in Conns
  <2>1. pendingList[p][l] \in Seq(Conns)
    BY DEF TypeOK
  <2> QED
    BY <1>2, <2>1, ElementOfSeq DEF ListedAt
<1> QED
  BY <1>1, <1>2

\* A queue is fresh if a connection on it is not late.
LEMMA FreshIsListed ==
  ASSUME NEW p \in Procs, NEW l \in 0 .. 1
  PROVE  Fresh(p, l) <=> \E c : ListedAt(c, p, l) /\ c \notin late
BY DEF Fresh, ListedAt

\* The front of a queue is listed, and no connection on the queue is earlier.
LEMMA FrontIsFirst ==
  ASSUME TypeOK, QueuesAscend, NEW p \in Procs, NEW l \in 0 .. 1, pendingList[p][l] # <<>>
  PROVE  LET c == Head(pendingList[p][l])
         IN  /\ c \in Conns /\ ListedAt(c, p, l) /\ Target(c) = p /\ c < Pushed
             /\ \A d : ListedAt(d, p, l) => c <= d
<1> DEFINE s == pendingList[p][l]
<1>1. s \in Seq(Conns)
  BY DEF TypeOK
<1>2. Len(s) \in Nat \ {0} /\ Head(s) = s[1] /\ 1 \in 1 .. Len(s)
  BY <1>1
<1>3. ListedAt(Head(s), p, l) /\ Head(s) \in Conns
  BY <1>1, <1>2, PushedAreConns DEF ListedAt
<1>4. Target(Head(s)) = p /\ Head(s) < Pushed
  BY <1>2 DEF QueuesAscend
<1>5. ASSUME NEW d, ListedAt(d, p, l) PROVE Head(s) <= d
  <2>1. PICK i \in 1 .. Len(s) : s[i] = d
    BY <1>5 DEF ListedAt
  <2>2. i # 1 => Head(s) < d
    BY <1>2, <2>1 DEF QueuesAscend
  <2>3. Head(s) \in Nat /\ d \in Nat
    BY <1>3, <1>5, PushedAreConns
  <2> QED
    BY <1>2, <2>1, <2>2, <2>3
<1> QED
  BY <1>3, <1>4, <1>5

\* Nothing is listed and nobody registered to begin with.
LEMMA InitEstablishesDeliveryInv == Init => DeliveryInv
<1> SUFFICES ASSUME Init PROVE DeliveryInv
  OBVIOUS
<1>1. \A p \in Procs, l \in 0 .. 1 : pendingList[p][l] = <<>>
  BY DEF Init
<1>2. /\ \A p \in Procs, l \in 0 .. 1 : \A c : ~ListedAt(c, p, l)
      /\ \A p \in Procs, l \in 0 .. 1 : ~Fresh(p, l)
  BY <1>1 DEF ListedAt, Fresh
<1>3. Pushed = 0 /\ \A c \in Conns : c >= 0 /\ ~Registered(c)
  BY MaxConnsAssumption, ProcessorCountAssumption
  DEF Init, Pushed, Registered, Conns
<1>4. QueuesAscend
  BY <1>1, <1>3 DEF QueuesAscend
<1>5. OneQueue /\ EarlierDrainedFirst
  BY <1>2 DEF OneQueue, EarlierDrainedFirst
<1>6. RegisteredByTarget
  BY <1>3 DEF Init, RegisteredByTarget
<1>7. ListedUntilRegistered
  BY <1>3 DEF ListedUntilRegistered, Conns
<1>8. PoppedOnceRegistered /\ LatePassesLate
  BY <1>2 DEF Init, PoppedOnceRegistered, LatePassesLate
<1>9. RegisteredInOrder
  BY <1>3 DEF RegisteredInOrder
<1> QED
  BY <1>4, <1>5, <1>6, <1>7, <1>8, <1>9 DEF DeliveryInv

\* A push lists the connection under way, the last one so far, at the end.
LEMMA PushLists ==
  ASSUME DispatchInv, DeliveryInv, PushPending
  PROVE  /\ dconn = Pushed /\ Pushed' = Pushed + 1 /\ Target(dconn) = dproc
         /\ \A p \in Procs, l \in 0 .. 1 : \A c :
                ListedAt(c, p, l)' <=>
                    ListedAt(c, p, l) \/ (c = dconn /\ p = dproc /\ l = dlist)
         /\ QueuesAscend'
<1>1. dpc = "push" /\ dpc' = "pool" /\ mCurrentProcessorIndex' = mCurrentProcessorIndex
  BY DEF PushPending
<1>2. dconn \in Conns /\ dproc \in Procs /\ dlist \in 0 .. 1
  BY <1>1, CallUnderWay DEF DispatchInv, TypeOK
<1>3. dconn = Pushed /\ Pushed' = Pushed + 1 /\ Target(dconn) = dproc /\ Pushed \in Nat
  BY <1>1, <1>2, PushedAreConns DEF Pushed, dconn, dproc, DispatchInv, TypeOK
<1>4. \A p \in Procs, l \in 0 .. 1 : pendingList[p][l] \in Seq(Conns)
  BY DEF DispatchInv, TypeOK
<1>5. \A p \in Procs, l \in 0 .. 1 :
          pendingList'[p][l] = IF p = dproc /\ l = dlist
                               THEN Append(pendingList[p][l], dconn)
                               ELSE pendingList[p][l]
  BY PushedQueues
<1>6. ASSUME NEW s \in Seq(Conns)
      PROVE  /\ Len(Append(s, dconn)) = Len(s) + 1 /\ Len(s) \in Nat
             /\ Append(s, dconn)[Len(s) + 1] = dconn
             /\ \A j \in 1 .. Len(s) : Append(s, dconn)[j] = s[j]
  BY <1>2, <1>6, AppendProperties, LenProperties
<1>7. ASSUME NEW p \in Procs, NEW l \in 0 .. 1, NEW c
      PROVE  ListedAt(c, p, l)' <=>
                 ListedAt(c, p, l) \/ (c = dconn /\ p = dproc /\ l = dlist)
  <2>1. CASE ~(p = dproc /\ l = dlist)
    BY <1>5, <2>1 DEF ListedAt
  <2>2. CASE p = dproc /\ l = dlist
    <3> DEFINE s == pendingList[p][l]
    <3>1. pendingList'[p][l] = Append(s, dconn)
      BY <1>5, <2>2
    <3>2. s \in Seq(Conns)
      BY <1>4
    <3> HIDE DEF s
    <3>3. (\E i \in 1 .. Len(Append(s, dconn)) : Append(s, dconn)[i] = c)
              <=> (\E i \in 1 .. Len(s) : s[i] = c) \/ c = dconn
      BY <1>6, <3>2
    <3> QED
      BY <2>2, <3>1, <3>3 DEF ListedAt, s
  <2> QED
    BY <2>1, <2>2
<1>8. QueuesAscend'
  <2> SUFFICES ASSUME NEW p \in Procs, NEW l \in 0 .. 1
               PROVE  LET list == pendingList'[p][l]
                      IN  /\ Len(list) <= Pushed'
                          /\ \A i \in 1 .. Len(list) : Target(list[i]) = p /\ list[i] < Pushed'
                          /\ \A i, j \in 1 .. Len(list) : i < j => list[i] < list[j]
    BY DEF QueuesAscend, Target
  <2> DEFINE s == pendingList[p][l]
  <2>1. /\ s \in Seq(Conns) /\ Len(s) \in Nat /\ Len(s) <= Pushed
        /\ \A i \in 1 .. Len(s) : Target(s[i]) = p /\ s[i] < Pushed
        /\ \A i, j \in 1 .. Len(s) : i < j => s[i] < s[j]
    BY <1>4, <1>6 DEF DeliveryInv, QueuesAscend
  <2>2. \A i \in 1 .. Len(s) : s[i] \in Nat
    BY <2>1, ElementOfSeq, PushedAreConns DEF DispatchInv
  <2>3. CASE ~(p = dproc /\ l = dlist)
    <3>1. pendingList'[p][l] = s
      BY <1>5, <2>3
    <3> HIDE DEF s
    <3> QED
      BY <1>3, <2>1, <2>2, <3>1
  <2>4. CASE p = dproc /\ l = dlist
    <3>1. pendingList'[p][l] = Append(s, dconn)
      BY <1>5, <2>4
    <3> HIDE DEF s
    <3>2. /\ Len(Append(s, dconn)) = Len(s) + 1
          /\ Append(s, dconn)[Len(s) + 1] = dconn
          /\ \A j \in 1 .. Len(s) : Append(s, dconn)[j] = s[j]
      BY <1>6, <2>1
    <3> DEFINE t == Append(s, dconn)
    <3>3. t[Len(s) + 1] = Pushed /\ Target(t[Len(s) + 1]) = p
      BY <1>3, <2>4, <3>2
    <3>4. \A j \in 1 .. Len(s) : Target(t[j]) = p /\ t[j] < Pushed /\ t[j] \in Nat
      BY <2>1, <2>2, <3>2
    <3>5. \A i, j \in 1 .. Len(s) : i < j => t[i] < t[j]
      BY <2>1, <3>2
    <3>6. Len(t) = Len(s) + 1
      BY <3>2
    <3> HIDE DEF t
    <3> QED
      BY <1>3, <2>1, <3>1, <3>3, <3>4, <3>5, <3>6 DEF t
  <2> QED
    BY <2>3, <2>4
<1> QED
  BY <1>3, <1>7, <1>8

\* The pop takes the front off the queue in use and leaves the rest as it is.
LEMMA PopUnlists ==
  ASSUME DispatchInv, DeliveryInv, NEW p \in Procs, PopFront(p)
  PROVE  /\ \A q \in Procs, l \in 0 .. 1 : \A c :
                ListedAt(c, q, l)' <=>
                    ListedAt(c, q, l) /\ ~(q = p /\ l = mUsing[p] /\ c = Head(UsedList(p)))
         /\ QueuesAscend'
<1> DEFINE u == mUsing[p]
           s == pendingList[p][u]
<1>1. /\ pendingList' = [pendingList EXCEPT ![p][u] = Tail(@)]
      /\ UNCHANGED <<mCurrentProcessorIndex, dpc>>
  BY DEF PopFront, dispatcherVars
<1>2. /\ u \in 0 .. 1 /\ s \in Seq(Conns) /\ s # <<>>
      /\ pendingList \in [Procs -> [0 .. 1 -> Seq(Conns)]]
  BY DEF DispatchInv, TypeOK, FrontExists, UsedList, PopFront
<1>3. \A q \in Procs, l \in 0 .. 1 :
          pendingList'[q][l] = IF q = p /\ l = u THEN Tail(s) ELSE pendingList[q][l]
  BY <1>1, <1>2
<1>4. /\ Len(s) \in Nat \ {0} /\ Len(Tail(s)) = Len(s) - 1 /\ Head(s) = s[1]
      /\ \A i \in 1 .. Len(s) - 1 : Tail(s)[i] = s[i + 1]
  BY <1>2, HeadTailProperties, LenProperties
<1>5. /\ Len(s) <= Pushed /\ Pushed' = Pushed
      /\ \A i \in 1 .. Len(s) : Target(s[i]) = p /\ s[i] < Pushed
      /\ \A i, j \in 1 .. Len(s) : i < j => s[i] < s[j]
  BY <1>1, <1>2 DEF DeliveryInv, QueuesAscend, Pushed
<1>6. \A i \in 1 .. Len(s) : s[i] \in Nat
  BY <1>2, ElementOfSeq, PushedAreConns DEF DispatchInv
<1>7. Pushed \in Nat
  BY PushedAreConns DEF DispatchInv
<1> HIDE DEF s
<1>8. \A c : (\E i \in 1 .. Len(Tail(s)) : Tail(s)[i] = c)
                 <=> (\E i \in 1 .. Len(s) : s[i] = c) /\ c # Head(s)
  <2> TAKE c
  <2>1. ASSUME NEW i \in 1 .. Len(Tail(s)), Tail(s)[i] = c
        PROVE  (\E j \in 1 .. Len(s) : s[j] = c) /\ c # Head(s)
    <3>1. i + 1 \in 1 .. Len(s) /\ s[i + 1] = c /\ s[1] < s[i + 1]
      BY <1>4, <1>5, <2>1
    <3> QED
      BY <1>4, <1>6, <3>1
  <2>2. ASSUME NEW i \in 1 .. Len(s), s[i] = c, c # Head(s)
        PROVE  \E j \in 1 .. Len(Tail(s)) : Tail(s)[j] = c
    <3>1. i - 1 \in 1 .. Len(Tail(s)) /\ Tail(s)[i - 1] = s[i]
      BY <1>4, <2>2
    <3> QED
      BY <2>2, <3>1
  <2> QED
    BY <2>1, <2>2
<1>9. ASSUME NEW q \in Procs, NEW l \in 0 .. 1, NEW c
      PROVE  ListedAt(c, q, l)' <=>
                 ListedAt(c, q, l) /\ ~(q = p /\ l = u /\ c = Head(UsedList(p)))
  <2>1. CASE q = p /\ l = u
    <3>1. pendingList'[q][l] = Tail(s) /\ pendingList[q][l] = s /\ UsedList(p) = s
      BY <1>3, <2>1 DEF s, UsedList
    <3>2. ListedAt(c, q, l)' <=> \E i \in 1 .. Len(Tail(s)) : Tail(s)[i] = c
      BY <3>1 DEF ListedAt
    <3>3. ListedAt(c, q, l) <=> \E i \in 1 .. Len(s) : s[i] = c
      BY <3>1 DEF ListedAt
    <3>4. ListedAt(c, q, l)' <=> ListedAt(c, q, l) /\ c # Head(s)
      BY <1>8, <3>2, <3>3, Zenon
    <3> QED
      BY <2>1, <3>1, <3>4, Zenon
  <2>2. CASE ~(q = p /\ l = u)
    <3>1. pendingList'[q][l] = pendingList[q][l]
      BY <1>3, <2>2
    <3> QED
      BY <2>2, <3>1 DEF ListedAt
  <2> QED
    BY <2>1, <2>2
<1>10. QueuesAscend'
  <2> SUFFICES ASSUME NEW q \in Procs, NEW l \in 0 .. 1
               PROVE  LET list == pendingList'[q][l]
                      IN  /\ Len(list) <= Pushed
                          /\ \A i \in 1 .. Len(list) : Target(list[i]) = q /\ list[i] < Pushed
                          /\ \A i, j \in 1 .. Len(list) : i < j => list[i] < list[j]
    BY <1>5 DEF QueuesAscend, Target
  <2>1. CASE q = p /\ l = u
    <3>1. pendingList'[q][l] = Tail(s)
      BY <1>3, <2>1
    <3>2. \A i \in 1 .. Len(Tail(s)) : i + 1 \in 1 .. Len(s) /\ Tail(s)[i] = s[i + 1]
      BY <1>4
    <3> QED
      BY <1>4, <1>5, <1>7, <2>1, <3>1, <3>2
  <2>2. CASE ~(q = p /\ l = u)
    BY <1>3, <2>2 DEF DeliveryInv, QueuesAscend
  <2> QED
    BY <2>1, <2>2
<1> QED
  BY <1>9, <1>10

\* What is listed belongs to the processor and was pushed.
LEMMA ListedIsPushed ==
  ASSUME TypeOK, QueuesAscend, NEW p \in Procs, NEW l \in 0 .. 1, NEW c, ListedAt(c, p, l)
  PROVE  c \in Conns /\ c \in Nat /\ c < Pushed /\ Target(c) = p
BY PushedAreConns DEF QueuesAscend, ListedAt

-----------------------------------------------------------------------------
(* The steps of the dispatcher *)

\* The mFilling the dispatcher loads is the one being filled as it loads it
\* (processorManager.cc:31-36, processor.cc:78).
LEMMA ChooseProcessorKeepsDelivery ==
  DispatchInv /\ DeliveryInv /\ ChooseProcessor => DeliveryInv'
<1> SUFFICES ASSUME DispatchInv, DeliveryInv, ChooseProcessor PROVE DeliveryInv'
  OBVIOUS
<1>1. /\ dpc = "idle" /\ dpc' = "push"
      /\ UNCHANGED <<ppc, mUsing, mFilling, pendingList, watched, mProcessor, late>>
      /\ mCurrentProcessorIndex' = mCurrentProcessorIndex + 1
      /\ mCurrentProcessorIndex \in Nat
      /\ dlist' = mFilling[Target(mCurrentProcessorIndex)]
  BY MaxConnsAssumption DEF ChooseProcessor, swapVars, connVars, DispatchInv, TypeOK
<1>2. Pushed' = Pushed
  BY <1>1 DEF Pushed
<1>3. LatePassesLate'
  BY <1>1 DEF LatePassesLate, dproc, dconn, Target
<1>4. /\ \A p \in Procs, l \in 0 .. 1 : \A c : ListedAt(c, p, l)' = ListedAt(c, p, l)
      /\ \A c \in Conns : Registered(c)' = Registered(c)
      /\ \A p \in Procs : UsedList(p)' = UsedList(p)
  BY <1>1 DEF ListedAt, Registered, UsedList
<1>5. QueuesAscend'
  BY <1>1, <1>2 DEF DeliveryInv, QueuesAscend, Target
<1>6. OneQueue'
  BY <1>4 DEF DeliveryInv, OneQueue
<1>7. RegisteredByTarget'
  BY <1>1, <1>2, <1>4 DEF DeliveryInv, RegisteredByTarget, Target
<1>8. ListedUntilRegistered'
  BY <1>1, <1>2 DEF DeliveryInv, ListedUntilRegistered, Registered, ListedAt, Target
<1>9. PoppedOnceRegistered'
  BY <1>1, <1>4 DEF DeliveryInv, PoppedOnceRegistered, Registered
<1>10. EarlierDrainedFirst'
  BY <1>1, <1>4 DEF DeliveryInv, EarlierDrainedFirst
<1>11. RegisteredInOrder'
  BY <1>1, <1>4 DEF DeliveryInv, RegisteredInOrder, Target
<1> QED
  BY <1>3, <1>5, <1>6, <1>7, <1>8, <1>9, <1>10, <1>11 DEF DeliveryInv

\* Giving the pool and kicking touch neither the queues nor the registrations.
LEMMA CallEndKeepsDelivery ==
  DispatchInv /\ DeliveryInv /\ (GivePool \/ Kick) => DeliveryInv'
<1> SUFFICES ASSUME DispatchInv, DeliveryInv, GivePool \/ Kick PROVE DeliveryInv'
  OBVIOUS
<1>1. /\ dpc # "push" /\ dpc' # "push"
      /\ UNCHANGED <<mCurrentProcessorIndex, ppc, mUsing, mFilling, pendingList, watched,
                     mProcessor, late>>
  BY DEF GivePool, Kick, swapVars, connVars
<1>2. Pushed' = Pushed
  BY <1>1 DEF Pushed
<1> QED
  BY <1>1, <1>2
  DEF DeliveryInv, QueuesAscend, OneQueue, RegisteredByTarget, ListedUntilRegistered,
      PoppedOnceRegistered, EarlierDrainedFirst, LatePassesLate, RegisteredInOrder,
      ListedAt, Registered, UsedList, Target

\* The push, on the queue being filled or on a stale one (processor.cc:78).
LEMMA PushPendingKeepsDelivery ==
  DispatchInv /\ DeliveryInv /\ PushPending => DeliveryInv'
<1> SUFFICES ASSUME DispatchInv, DeliveryInv, PushPending PROVE DeliveryInv'
  OBVIOUS
<1>1. /\ dpc = "push" /\ dpc' = "pool"
      /\ UNCHANGED <<mCurrentProcessorIndex, dlist, ppc, mUsing, mFilling, watched,
                     mProcessor>>
      /\ late \subseteq late'
  BY DEF PushPending, swapVars, connVars
<1>2. dconn \in Conns /\ dproc \in Procs /\ dlist \in 0 .. 1
  BY <1>1, CallUnderWay DEF DispatchInv, TypeOK
<1>3. /\ dconn = Pushed /\ Pushed' = Pushed + 1 /\ Target(dconn) = dproc
      /\ \A p \in Procs, l \in 0 .. 1 : \A c :
             ListedAt(c, p, l)' <=>
                 ListedAt(c, p, l) \/ (c = dconn /\ p = dproc /\ l = dlist)
      /\ QueuesAscend'
  BY PushLists
<1>4. \A p \in Procs, l \in 0 .. 1 : \A c :
          ListedAt(c, p, l) => c \in Conns /\ c \in Nat /\ c < Pushed /\ Target(c) = p
  BY ListedIsPushed DEF DispatchInv, DeliveryInv
<1>5. Pushed \in Nat /\ \A c \in Conns : c \in Nat
  BY PushedAreConns DEF DispatchInv
<1>6. \A c \in Conns : Registered(c)' = Registered(c) /\ (Registered(c) => c < Pushed)
  BY <1>1 DEF Registered, DeliveryInv, RegisteredByTarget
<1>7. OneQueue'
  BY <1>2, <1>3, <1>4, <1>5 DEF DeliveryInv, OneQueue
<1>8. RegisteredByTarget'
  BY <1>1, <1>3, <1>5, <1>6 DEF DeliveryInv, RegisteredByTarget, Target
<1>9. ListedUntilRegistered'
  <2> SUFFICES ASSUME NEW c \in Conns, c < Pushed', ~Registered(c)
               PROVE  \E l \in 0 .. 1 : ListedAt(c, Target(c), l)'
    BY <1>6 DEF ListedUntilRegistered, Target, ListedAt
  <2>1. CASE c = dconn
    BY <1>2, <1>3, <2>1
  <2>2. CASE c # dconn
    <3>1. c < Pushed
      BY <1>3, <1>5, <2>2
    <3>2. PICK l \in 0 .. 1 : ListedAt(c, Target(c), l)
      BY <3>1 DEF DeliveryInv, ListedUntilRegistered
    <3> QED
      BY <1>3, <1>5, <3>2, TargetIsProcessor
  <2> QED
    BY <2>1, <2>2
<1>10. PoppedOnceRegistered'
  <2>1. ASSUME NEW p \in Procs, ppc[p] = "pop"
        PROVE  UsedList(p)' # <<>> /\ Head(UsedList(p)') = Head(UsedList(p))
    <3>1. UsedList(p) \in Seq(Conns) /\ UsedList(p) # <<>> /\ mUsing[p] \in 0 .. 1
      BY <2>1 DEF DispatchInv, TypeOK, FrontExists, UsedList
    <3>2. \/ UsedList(p)' = UsedList(p)
          \/ UsedList(p)' = Append(UsedList(p), dconn)
      BY <1>1, <3>1, PushedQueues DEF UsedList
    <3>3. /\ Append(UsedList(p), dconn) # <<>>
          /\ Head(Append(UsedList(p), dconn)) = Head(UsedList(p))
      BY <1>2, <3>1, AppendProperties
    <3> QED
      BY <3>1, <3>2, <3>3
  <2>2. ASSUME NEW p \in Procs, NEW l \in 0 .. 1, NEW c \in Conns,
               ListedAt(c, p, l)', Registered(c)
        PROVE  ppc[p] = "pop" /\ l = mUsing[p] /\ c = Head(UsedList(p))
    <3>1. ListedAt(c, p, l)
      BY <1>3, <1>5, <1>6, <2>2
    <3> QED
      BY <2>2, <3>1 DEF DeliveryInv, PoppedOnceRegistered
  <2>3. \A p \in Procs :
            ppc[p] = "pop" => Head(UsedList(p)) \in Conns /\ Registered(Head(UsedList(p)))
    <3> SUFFICES ASSUME NEW p \in Procs, ppc[p] = "pop"
                 PROVE  Head(UsedList(p)) \in Conns /\ Registered(Head(UsedList(p)))
      OBVIOUS
    <3>1. UsedList(p) \in Seq(Conns) /\ UsedList(p) # <<>>
      BY DEF DispatchInv, TypeOK, FrontExists, UsedList
    <3> QED
      BY <3>1 DEF DeliveryInv, PoppedOnceRegistered
  <2>4. \A p \in Procs : ppc[p] = "pop" => Registered(Head(UsedList(p)))'
    BY <1>1, <2>1, <2>3 DEF Registered
  <2>5. \A p \in Procs, l \in 0 .. 1, c \in Conns : 
           ListedAt(c, p, l)' /\ Registered(c)'
                   => ppc'[p] = "pop" /\ l = mUsing'[p] /\ c = Head(UsedList(p))'
    BY <1>1, <1>6, <2>1, <2>2
  <2> QED
    BY <1>1, <2>4, <2>5 DEF PoppedOnceRegistered
<1>11. EarlierDrainedFirst'
  <2> SUFFICES ASSUME NEW p \in Procs, NEW l \in 0 .. 1, NEW c \in Conns, NEW d \in Conns,
                      ListedAt(c, p, l)', ListedAt(d, p, 1 - l)', c < d, c \notin late'
               PROVE  l = 1 - mFilling[p] /\ ppc[p] \in {"swap3", "drain", "pop"}
    BY <1>1 DEF EarlierDrainedFirst
  <2>0. 1 - l \in 0 .. 1 /\ mFilling[p] \in 0 .. 1 /\ c \notin late
    BY <1>1 DEF DispatchInv, TypeOK
  <2>1. c # dconn
    BY <1>3, <1>4, <1>5, <2>0
  <2>2. ListedAt(c, p, l)
    BY <1>3, <2>1
  <2>3. CASE ListedAt(d, p, 1 - l)
    BY <2>0, <2>2, <2>3 DEF DeliveryInv, EarlierDrainedFirst
  <2>4. CASE d = dconn /\ p = dproc /\ 1 - l = dlist
    <3>1. Fresh(p, l)
      BY <2>0, <2>2, FreshIsListed
    <3>2. l = 1 - mFilling[p]
      <4> SUFFICES ASSUME l # 1 - mFilling[p] PROVE FALSE
        OBVIOUS
      <4>1. l = mFilling[p] /\ dlist # mFilling[p]
        BY <2>0, <2>4
      <4> QED
        BY <1>1, <2>4, <3>1, <4>1 DEF DeliveryInv, LatePassesLate
    <3>3. ppc[p] \in LoopSteps
      BY DEF DispatchInv, TypeOK
    <3> QED
      BY <3>1, <3>2, <3>3 DEF DispatchInv, OldQueueLate, LoopSteps
  <2> QED
    BY <1>3, <2>0, <2>3, <2>4
<1>12. LatePassesLate'
  BY <1>1 DEF LatePassesLate
<1>13. RegisteredInOrder'
  BY <1>1, <1>6 DEF DeliveryInv, RegisteredInOrder, Target
<1> QED
  BY <1>3, <1>7, <1>8, <1>9, <1>10, <1>11, <1>12, <1>13 DEF DeliveryInv

-----------------------------------------------------------------------------
(* The steps of MainLoop *)

\* A step of processor p that leaves the queues, the queue being filled and the
\* registrations alone keeps the invariant unless it ends a pop, or a drain
\* that left something behind.
LEMMA LoopKeepsDelivery ==
  ASSUME DispatchInv, DeliveryInv, NEW p \in Procs, NEW step \in LoopSteps, LoopTo(p, step),
         UNCHANGED <<dispatcherVars, mFilling, pendingList, connVars, late>>,
         \A q \in Procs : q # p => mUsing'[q] = mUsing[q],
         ppc[p] # "pop", step # "pop",
         \/ ppc[p] \notin {"swap3", "drain"}
         \/ step \in {"swap3", "drain"}
         \/ \A c : ~ListedAt(c, p, 1 - mFilling[p])
  PROVE  DeliveryInv'
<1>1. /\ UNCHANGED <<mCurrentProcessorIndex, dpc, dlist, mFilling, pendingList,
                     watched, mProcessor, late>>
      /\ ppc' = [ppc EXCEPT ![p] = step]
      /\ ppc \in [Procs -> LoopSteps]
  BY DEF DispatchInv, TypeOK, LoopTo, dispatcherVars, connVars
<1>2. Pushed' = Pushed
  BY <1>1 DEF Pushed
<1>3. /\ \A q \in Procs, l \in 0 .. 1 : \A c : ListedAt(c, q, l)' = ListedAt(c, q, l)
      /\ \A c : Registered(c)' = Registered(c)
      /\ \A q \in Procs : q # p => UsedList(q)' = UsedList(q) /\ ppc'[q] = ppc[q]
      /\ ppc'[p] = step
  BY <1>1 DEF ListedAt, Registered, UsedList
<1>4. QueuesAscend' /\ ListedUntilRegistered'
  BY <1>1, <1>2
  DEF DeliveryInv, QueuesAscend, ListedUntilRegistered, Registered, ListedAt, Target
<1>5. OneQueue' /\ RegisteredByTarget' /\ LatePassesLate' /\ RegisteredInOrder'
  BY <1>1, <1>2
  DEF DeliveryInv, OneQueue, RegisteredByTarget, LatePassesLate, RegisteredInOrder,
      Registered, ListedAt, Fresh, Target, dproc, dconn
<1>6. PoppedOnceRegistered'
  <2>1. ASSUME NEW q \in Procs, ppc'[q] = "pop"
        PROVE  Registered(Head(UsedList(q)))'
    <3>1. q # p /\ ppc[q] = "pop" /\ UsedList(q)' = UsedList(q)
      BY <1>3, <2>1
    <3>2. Registered(Head(UsedList(q)))
      BY <3>1 DEF DeliveryInv, PoppedOnceRegistered
    <3> QED
      BY <1>1, <3>1, <3>2 DEF Registered
  <2>2. ASSUME NEW q \in Procs, NEW l \in 0 .. 1, NEW c \in Conns,
               ListedAt(c, q, l)', Registered(c)'
        PROVE  ppc'[q] = "pop" /\ l = mUsing'[q] /\ c = Head(UsedList(q))'
    <3>1. ppc[q] = "pop" /\ l = mUsing[q] /\ c = Head(UsedList(q))
      BY <1>3, <2>2 DEF DeliveryInv, PoppedOnceRegistered
    <3>2. q # p
      BY <3>1
    <3> QED
      BY <1>3, <3>1, <3>2
  <2> QED
    BY <2>1, <2>2 DEF PoppedOnceRegistered
<1>7. EarlierDrainedFirst'
  <2> SUFFICES ASSUME NEW q \in Procs, NEW l \in 0 .. 1, NEW c \in Conns, NEW d \in Conns,
                      ListedAt(c, q, l), ListedAt(d, q, 1 - l), c < d, c \notin late
               PROVE  l = 1 - mFilling[q] /\ ppc'[q] \in {"swap3", "drain", "pop"}
    BY <1>1 DEF EarlierDrainedFirst, ListedAt
  <2>1. l = 1 - mFilling[q] /\ ppc[q] \in {"swap3", "drain", "pop"}
    BY DEF DeliveryInv, EarlierDrainedFirst
  <2> QED
    BY <1>3, <2>1
<1> QED
  BY <1>4, <1>5, <1>6, <1>7 DEF DeliveryInv

\* Most of the loop: the two outer thirds of the exchange, the end of a drain,
\* waiting and the kicker (processor.cc:91-108).
LEMMA LoopOtherKeepsDelivery ==
  ASSUME DispatchInv, DeliveryInv, NEW p \in Procs,
         \/ StartLoop(p) \/ SwapUsing(p, "swap1", "swap2") \/ SwapUsing(p, "swap3", "drain")
         \/ ListEmptied(p) \/ WakeKicked(p) \/ WakeOther(p) \/ DrainKicks(p)
  PROVE  DeliveryInv'
<1>1. mUsing \in [Procs -> 0 .. 1]
  BY DEF DispatchInv, TypeOK
<1>2. CASE StartLoop(p) \/ WakeKicked(p) \/ WakeOther(p) \/ DrainKicks(p)
  <2>1. PICK step \in {"swap1", "unkick"} :
            LoopTo(p, step) /\ ppc[p] \in {"start", "wait", "unkick"}
    BY <1>2 DEF StartLoop, WakeKicked, WakeOther, DrainKicks
  <2>2. UNCHANGED <<dispatcherVars, mFilling, mUsing, pendingList, connVars, late>>
    BY <1>2 DEF StartLoop, WakeKicked, WakeOther, DrainKicks, swapVars
  <2> QED
    BY <2>1, <2>2, LoopKeepsDelivery DEF LoopSteps
<1>3. CASE SwapUsing(p, "swap1", "swap2")
  BY <1>1, <1>3, LoopKeepsDelivery DEF SwapUsing, LoopSteps
<1>4. CASE SwapUsing(p, "swap3", "drain")
  BY <1>1, <1>4, LoopKeepsDelivery DEF SwapUsing, LoopSteps
<1>5. CASE ListEmptied(p)
  <2>1. mUsing[p] = 1 - mFilling[p]
    BY <1>5 DEF DispatchInv, IndicesExchange, ListEmptied
  <2>2. \A c : ~ListedAt(c, p, 1 - mFilling[p])
    BY <1>5, <2>1 DEF ListEmptied, UsedList, ListedAt
  <2> QED
    BY <1>5, <2>2, LoopKeepsDelivery DEF ListEmptied, LoopSteps, swapVars
<1> QED
  BY <1>2, <1>3, <1>4, <1>5

\* The queue that becomes the one being filled has late connections only
\* (processor.cc:95).
LEMMA SwapFillingKeepsDelivery ==
  ASSUME DispatchInv, DeliveryInv, NEW p \in Procs, SwapFilling(p)
  PROVE  DeliveryInv'
<1>1. /\ UNCHANGED <<mCurrentProcessorIndex, dpc, dlist, mUsing, pendingList,
                     watched, mProcessor, late>>
      /\ ppc' = [ppc EXCEPT ![p] = "swap3"] /\ ppc[p] = "swap2"
      /\ ppc \in [Procs -> LoopSteps] /\ mFilling \in [Procs -> 0 .. 1]
  BY DEF SwapFilling, DispatchInv, TypeOK, LoopTo, dispatcherVars, connVars
<1>2. /\ mFilling'[p] = 1 - mFilling[p] /\ mFilling'[p] \in 0 .. 1
      /\ 1 - mFilling'[p] = mFilling[p]
      /\ \A q \in Procs : q # p => mFilling'[q] = mFilling[q] /\ ppc'[q] = ppc[q]
      /\ ppc'[p] = "swap3"
  <2>1. mUsing[p] = 1
    BY <1>1 DEF DispatchInv, IndicesExchange
  <2>2. mFilling' = [mFilling EXCEPT ![p] = Xor(mFilling[p], 1)]
    BY <2>1 DEF SwapFilling
  <2>3. Xor(mFilling[p], 1) = 1 - mFilling[p]
    BY <1>1, XorIndices
  <2> QED
    BY <1>1, <2>2, <2>3
<1>3. ~Fresh(p, mFilling'[p])
  BY <1>1, <1>2 DEF DispatchInv, OldQueueLate
<1>4. \A l \in 0 .. 1 : \A c : ListedAt(c, p, l) /\ c \notin late => l = mFilling[p]
  <2> SUFFICES ASSUME NEW l \in 0 .. 1, NEW c, ListedAt(c, p, l), c \notin late
               PROVE  l = mFilling[p]
    OBVIOUS
  <2>1. Fresh(p, l)
    BY DEF Fresh, ListedAt
  <2>2. l # mFilling'[p]
    BY <1>3, <2>1
  <2> QED
    BY <1>1, <1>2, <2>2
<1>5. Pushed' = Pushed
  BY <1>1 DEF Pushed
<1>6. QueuesAscend' /\ ListedUntilRegistered'
  BY <1>1, <1>5
  DEF DeliveryInv, QueuesAscend, ListedUntilRegistered, Registered, ListedAt, Target
<1>7. OneQueue' /\ RegisteredByTarget' /\ RegisteredInOrder'
  BY <1>1, <1>5
  DEF DeliveryInv, OneQueue, RegisteredByTarget, RegisteredInOrder,
      Registered, ListedAt, Target
<1>8. PoppedOnceRegistered'
  BY <1>1, <1>2 DEF DeliveryInv, PoppedOnceRegistered, ListedAt, Registered, UsedList
<1>9. EarlierDrainedFirst'
  <2> SUFFICES ASSUME NEW q \in Procs, NEW l \in 0 .. 1, NEW c \in Conns, NEW d \in Conns,
                      ListedAt(c, q, l), ListedAt(d, q, 1 - l), c < d, c \notin late
               PROVE  l = 1 - mFilling'[q] /\ ppc'[q] \in {"swap3", "drain", "pop"}
    BY <1>1 DEF EarlierDrainedFirst, ListedAt
  <2>1. CASE q = p
    BY <1>2, <1>4, <2>1
  <2>2. CASE q # p
    BY <1>2, <2>2 DEF DeliveryInv, EarlierDrainedFirst
  <2> QED
    BY <2>1, <2>2
<1>10. LatePassesLate'
  <2> SUFFICES ASSUME dpc = "push", dlist # mFilling'[dproc]
               PROVE  ~Fresh(dproc, mFilling'[dproc])
    BY <1>1 DEF LatePassesLate, dproc, dconn, Target, Fresh
  <2>1. dproc \in Procs
    BY CallUnderWay DEF DispatchInv
  <2>2. CASE dproc = p
    BY <1>3, <2>2
  <2>3. CASE dproc # p
    BY <1>2, <2>1, <2>3 DEF DeliveryInv, LatePassesLate
  <2> QED
    BY <2>2, <2>3
<1> QED
  BY <1>6, <1>7, <1>8, <1>9, <1>10 DEF DeliveryInv

\* A connection without a processor is told from one with one.
LEMMA NoProcIsNoProcessor == NoProc \notin Procs
BY ProcessorCountAssumption DEF Procs, NoProc

\* A registration is of the earliest connection listed for the processor but
\* for late ones, and of one that was not registered.
LEMMA RegisterFrontKeepsDelivery ==
  ASSUME DispatchInv, DeliveryInv, NEW p \in Procs, RegisterFront(p)
  PROVE  /\ DeliveryInv'
         /\ LET c == Head(UsedList(p))
            IN  /\ c \in Conns /\ Target(c) = p /\ ~Registered(c) /\ c < Pushed
                /\ mProcessor' = [mProcessor EXCEPT ![c] = p]
<1>0. PICK f \in Conns : f = Head(UsedList(p))
  <2>1. UsedList(p) \in Seq(Conns) /\ UsedList(p) # <<>>
    BY DEF RegisterFront, DispatchInv, TypeOK, UsedList
  <2> QED
    BY <2>1
<1>1. /\ UNCHANGED <<mCurrentProcessorIndex, dpc, dlist, mUsing, mFilling, pendingList, late>>
      /\ ppc' = [ppc EXCEPT ![p] = "pop"] /\ ppc[p] = "drain"
      /\ ppc \in [Procs -> LoopSteps] /\ UsedList(p) # <<>>
      /\ mUsing[p] = 1 - mFilling[p] /\ mUsing[p] \in 0 .. 1 /\ mFilling[p] \in 0 .. 1
      /\ mProcessor' = [mProcessor EXCEPT ![f] = p]
      /\ mProcessor \in [Conns -> Procs \cup {NoProc}]
      /\ watched' \in {watched, [watched EXCEPT ![p] = @ \cup {f}]}
      /\ watched \in [Procs -> SUBSET Conns]
  BY <1>0 DEF RegisterFront, DispatchInv, TypeOK, LoopTo, dispatcherVars, swapVars,
         IndicesExchange, AddConnectionToEpoll
<1>2. /\ f \in Conns /\ ListedAt(f, p, mUsing[p]) /\ Target(f) = p /\ f < Pushed
      /\ \A d : ListedAt(d, p, mUsing[p]) => f <= d
  BY <1>0, <1>1, FrontIsFirst DEF DispatchInv, DeliveryInv, UsedList
<1>3. ~Registered(f)
  BY <1>1, <1>2 DEF DeliveryInv, PoppedOnceRegistered
<1>4. /\ Registered(f)' /\ mProcessor'[f] = p
      /\ \A c \in Conns : c # f => Registered(c)' = Registered(c) /\ mProcessor'[c] = mProcessor[c]
  BY <1>1, <1>2, NoProcIsNoProcessor DEF Registered
<1>5. Pushed' = Pushed
  BY <1>1 DEF Pushed
<1>6. \A q \in Procs, l \in 0 .. 1 : \A c :
          ListedAt(c, q, l) => c \in Conns /\ c \in Nat /\ c < Pushed /\ Target(c) = q
  BY ListedIsPushed DEF DispatchInv, DeliveryInv
<1>7. QueuesAscend' /\ OneQueue' /\ LatePassesLate'
  BY <1>1, <1>5
  DEF DeliveryInv, QueuesAscend, OneQueue, LatePassesLate, ListedAt, Fresh, Target, dproc, dconn
<1>8. RegisteredByTarget'
  <2>1. \A c \in Conns : mProcessor'[c] \in {NoProc, Target(c)} /\ (Registered(c)' => c < Pushed)
    BY <1>2, <1>4 DEF DeliveryInv, RegisteredByTarget
  <2>2. ASSUME NEW c \in Conns, NEW q \in Procs, c \in watched'[q]
        PROVE  mProcessor'[c] = q
    <3>1. c \in watched[q] \/ (c = f /\ q = p)
      BY <1>1, <2>2
    <3>2. CASE c \in watched[q]
      <4>1. mProcessor[c] = q /\ q # NoProc
        BY <3>2, NoProcIsNoProcessor DEF DeliveryInv, RegisteredByTarget
      <4>2. c # f
        BY <1>3, <4>1 DEF Registered
      <4> QED
        BY <1>4, <4>1, <4>2
    <3> QED
      BY <1>4, <3>1, <3>2
  <2> QED
    BY <1>5, <2>1, <2>2 DEF RegisteredByTarget, Target
<1>9. ListedUntilRegistered'
  <2> SUFFICES ASSUME NEW c \in Conns, c < Pushed, ~Registered(c)'
               PROVE  \E l \in 0 .. 1 : ListedAt(c, Target(c), l)
    BY <1>1, <1>5 DEF ListedUntilRegistered, ListedAt, Target
  <2> QED
    BY <1>4 DEF DeliveryInv, ListedUntilRegistered
<1>10. PoppedOnceRegistered'
  <2>1. ASSUME NEW q \in Procs, ppc'[q] = "pop"
        PROVE  Registered(Head(UsedList(q)))'
    <3>1. CASE q = p
      BY <1>0, <1>1, <1>4, <3>1 DEF UsedList, Registered
    <3>2. CASE q # p
      <4>1. ppc[q] = "pop"
        BY <1>1, <2>1, <3>2
      <4>2. UsedList(q)' = UsedList(q)
        BY <1>1 DEF UsedList
      <4>5. UsedList(q) \in Seq(Conns) /\ UsedList(q) # <<>>
        BY <4>1 DEF DispatchInv, TypeOK, FrontExists, UsedList
      <4>3. Head(UsedList(q)) \in Conns /\ Registered(Head(UsedList(q)))
        BY <4>1, <4>5 DEF DeliveryInv, PoppedOnceRegistered
      <4>4. mProcessor'[Head(UsedList(q))] # NoProc
        BY <1>4, <4>3 DEF Registered
      <4> QED
        BY <4>2, <4>4 DEF Registered
    <3> QED
      BY <3>1, <3>2
  <2>2. ASSUME NEW q \in Procs, NEW l \in 0 .. 1, NEW c \in Conns,
               ListedAt(c, q, l), Registered(c)'
        PROVE  ppc'[q] = "pop" /\ l = mUsing[q] /\ c = Head(UsedList(q))
    <3>1. CASE c = f
      <4>1. q = p /\ l = mUsing[p]
        BY <1>1, <1>2, <1>6, <2>2, <3>1 DEF DeliveryInv, OneQueue
      <4> QED
        BY <1>0, <1>1, <3>1, <4>1
    <3>2. CASE c # f
      <4>1. ppc[q] = "pop" /\ l = mUsing[q] /\ c = Head(UsedList(q))
        BY <1>4, <2>2, <3>2 DEF DeliveryInv, PoppedOnceRegistered
      <4> QED
        BY <1>1, <4>1
    <3> QED
      BY <3>1, <3>2
  <2> QED
    BY <1>1, <2>1, <2>2 DEF PoppedOnceRegistered, ListedAt, UsedList
<1>11. EarlierDrainedFirst'
  <2> SUFFICES ASSUME NEW q \in Procs, NEW l \in 0 .. 1, NEW c \in Conns, NEW d \in Conns,
                      ListedAt(c, q, l), ListedAt(d, q, 1 - l), c < d, c \notin late
               PROVE  l = 1 - mFilling[q] /\ ppc'[q] \in {"swap3", "drain", "pop"}
    BY <1>1 DEF EarlierDrainedFirst, ListedAt
  <2>1. l = 1 - mFilling[q] /\ ppc[q] \in {"swap3", "drain", "pop"}
    BY DEF DeliveryInv, EarlierDrainedFirst
  <2> QED
    BY <1>1, <2>1
<1>12. RegisteredInOrder'
  <2> SUFFICES ASSUME NEW c \in Conns, NEW d \in Conns, c < d, Target(c) = Target(d),
                      Registered(d)', c \notin late, ~Registered(c)'
               PROVE  FALSE
    BY <1>1 DEF RegisteredInOrder, Target
  <2>1. c # f /\ ~Registered(c)
    BY <1>4
  <2>2. d = f
    BY <1>4, <2>1 DEF DeliveryInv, RegisteredInOrder
  <2>3. c < Pushed
    BY <1>2, <2>2, PushedAreConns DEF DispatchInv
  <2>4. PICK l \in 0 .. 1 : ListedAt(c, p, l)
    BY <1>2, <2>1, <2>2, <2>3 DEF DeliveryInv, ListedUntilRegistered
  <2>5. l # mUsing[p]
    BY <1>2, <1>6, <2>2, <2>4
  <2>6. 1 - l = mUsing[p] /\ l # 1 - mFilling[p]
    BY <1>1, <2>5
  <2> QED
    BY <1>2, <2>2, <2>4, <2>6 DEF DeliveryInv, EarlierDrainedFirst
<1> QED
  BY <1>0, <1>1, <1>2, <1>3, <1>7, <1>8, <1>9, <1>10, <1>11, <1>12 DEF DeliveryInv

\* What is taken off was registered (processor.cc:101).
LEMMA PopFrontKeepsDelivery ==
  ASSUME DispatchInv, DeliveryInv, NEW p \in Procs, PopFront(p)
  PROVE  DeliveryInv'
<1> DEFINE f == Head(UsedList(p))
<1>1. /\ UNCHANGED <<mCurrentProcessorIndex, dpc, dlist, mUsing, mFilling, watched,
                     mProcessor, late>>
      /\ ppc' = [ppc EXCEPT ![p] = "drain"] /\ ppc[p] = "pop"
      /\ ppc \in [Procs -> LoopSteps]
      /\ mUsing[p] \in 0 .. 1
      /\ pendingList' = [pendingList EXCEPT ![p][mUsing[p]] = Tail(@)]
      /\ pendingList \in [Procs -> [0 .. 1 -> Seq(Conns)]]
  BY DEF PopFront, DispatchInv, TypeOK, LoopTo, dispatcherVars, swapVars, connVars
<1>2. /\ \A q \in Procs, l \in 0 .. 1 : \A c :
             ListedAt(c, q, l)' <=> ListedAt(c, q, l) /\ ~(q = p /\ l = mUsing[p] /\ c = f)
      /\ QueuesAscend'
  BY PopUnlists
<1>3. /\ \A c : Registered(c)' = Registered(c)
      /\ \A q \in Procs : q # p => UsedList(q)' = UsedList(q) /\ ppc'[q] = ppc[q]
      /\ Pushed' = Pushed /\ ppc'[p] = "drain"
  BY <1>1 DEF Registered, UsedList, Pushed
<1>4. OneQueue'
  BY <1>2 DEF DeliveryInv, OneQueue
<1>5. RegisteredByTarget' /\ RegisteredInOrder'
  BY <1>1, <1>3 DEF DeliveryInv, RegisteredByTarget, RegisteredInOrder, Registered, Target
<1>6. ListedUntilRegistered'
  <2> SUFFICES ASSUME NEW c \in Conns, c < Pushed, ~Registered(c)
               PROVE  \E l \in 0 .. 1 : ListedAt(c, Target(c), l)'
    BY <1>3 DEF ListedUntilRegistered, Target, ListedAt
  <2>1. c # f
    BY <1>1 DEF DeliveryInv, PoppedOnceRegistered
  <2>2. PICK l \in 0 .. 1 : ListedAt(c, Target(c), l)
    BY DEF DeliveryInv, ListedUntilRegistered
  <2>3. Target(c) \in Procs
    BY TargetIsProcessor, PushedAreConns DEF DispatchInv
  <2> QED
    BY <1>2, <2>1, <2>2, <2>3
<1>7. PoppedOnceRegistered'
  <2>1. ASSUME NEW q \in Procs, ppc'[q] = "pop"
        PROVE  Registered(Head(UsedList(q)))'
    <3>1. q # p /\ ppc[q] = "pop" /\ UsedList(q)' = UsedList(q)
      BY <1>3, <2>1
    <3>2. Registered(Head(UsedList(q)))
      BY <3>1 DEF DeliveryInv, PoppedOnceRegistered
    <3> QED
      BY <1>1, <3>1, <3>2 DEF Registered
  <2>2. ASSUME NEW q \in Procs, NEW l \in 0 .. 1, NEW c \in Conns,
               ListedAt(c, q, l)', Registered(c)'
        PROVE  ppc'[q] = "pop" /\ l = mUsing[q] /\ c = Head(UsedList(q))'
    <3>1. ppc[q] = "pop" /\ l = mUsing[q] /\ c = Head(UsedList(q))
      BY <1>2, <1>3, <2>2 DEF DeliveryInv, PoppedOnceRegistered
    <3>2. q # p
      BY <1>2, <2>2, <3>1
    <3> QED
      BY <1>3, <3>1, <3>2
  <2> QED
    BY <1>1, <2>1, <2>2 DEF PoppedOnceRegistered
<1>8. EarlierDrainedFirst'
  <2> SUFFICES ASSUME NEW q \in Procs, NEW l \in 0 .. 1, NEW c \in Conns, NEW d \in Conns,
                      ListedAt(c, q, l)', ListedAt(d, q, 1 - l)', c < d, c \notin late
               PROVE  l = 1 - mFilling[q] /\ ppc'[q] \in {"swap3", "drain", "pop"}
    BY <1>1 DEF EarlierDrainedFirst
  <2>1. l = 1 - mFilling[q] /\ ppc[q] \in {"swap3", "drain", "pop"}
    <3>1. 1 - l \in 0 .. 1
      OBVIOUS
    <3> QED
      BY <1>2, <3>1 DEF DeliveryInv, EarlierDrainedFirst
  <2> QED
    BY <1>1, <2>1
<1>9. LatePassesLate'
  <2> SUFFICES ASSUME dpc = "push", dlist # mFilling[dproc], Fresh(dproc, mFilling[dproc])'
               PROVE  FALSE
    BY <1>1 DEF LatePassesLate, dproc, dconn, Target, Fresh
  <2>1. dproc \in Procs /\ mFilling[dproc] \in 0 .. 1 /\ dproc' = dproc
    BY <1>1, CallUnderWay DEF DispatchInv, TypeOK, dproc, dconn, Target
  <2>2. \E c : ListedAt(c, dproc, mFilling[dproc])' /\ c \notin late
    BY <1>1 DEF Fresh, ListedAt
  <2>3. \E c : ListedAt(c, dproc, mFilling[dproc]) /\ c \notin late
    <3>1. PICK c : ListedAt(c, dproc, mFilling[dproc])' /\ c \notin late
      BY <2>2
    <3>2. \A q \in Procs, l \in 0 .. 1 : q = dproc /\ l = mFilling[dproc]
              => ListedAt(c, q, l)'
      BY <1>1, <2>1, <3>1 DEF ListedAt
    <3> QED
      BY <1>2, <2>1, <3>1, <3>2
  <2> QED
    BY <2>1, <2>3, FreshIsListed DEF DeliveryInv, LatePassesLate
<1> QED
  BY <1>2, <1>4, <1>5, <1>6, <1>7, <1>8, <1>9 DEF DeliveryInv

\* Every step of the dispatcher and of a processor keeps the invariant.
LEMMA StepPreservesDelivery == DispatchInv /\ DeliveryInv /\ [Next]_vars => DeliveryInv'
<1> SUFFICES ASSUME DispatchInv, DeliveryInv, [Next]_vars PROVE DeliveryInv'
  OBVIOUS
<1>1. CASE Dispatcher
  BY <1>1, ChooseProcessorKeepsDelivery, PushPendingKeepsDelivery, CallEndKeepsDelivery
  DEF Dispatcher
<1>2. ASSUME NEW p \in Procs, MainLoop(p) PROVE DeliveryInv'
  BY <1>2, LoopOtherKeepsDelivery, SwapFillingKeepsDelivery, RegisterFrontKeepsDelivery,
     PopFrontKeepsDelivery
  DEF MainLoop, AwakeLoop, Swap
<1>3. CASE UNCHANGED vars
  <2>1. UNCHANGED <<mCurrentProcessorIndex, dpc, dlist, ppc, mUsing, mFilling, pendingList,
                    watched, mProcessor, late>>
    BY <1>3 DEF vars, dispatcherVars, swapVars, connVars
  <2> QED
    BY <2>1
    DEF DeliveryInv, QueuesAscend, OneQueue, RegisteredByTarget, ListedUntilRegistered,
        PoppedOnceRegistered, EarlierDrainedFirst, LatePassesLate, RegisteredInOrder,
        ListedAt, Registered, UsedList, Pushed, Fresh, Target, dproc, dconn
<1> QED
  BY <1>1, <1>2, <1>3 DEF Next

\* Whatever the threads do, pushed connections are where DeliveryInv says
\* (processorManager.cc:31-36, processor.cc:75-106).
THEOREM DeliveryInvariant == Init /\ [][Next]_vars => []DeliveryInv
<1>1. Init /\ [][Next]_vars => []DispatchInv
  BY DispatchInvariant
<1> QED
  BY <1>1, InitEstablishesDeliveryInv, StepPreservesDelivery, PTL

\* The places of a connection are the queues it is listed at, with its position.
LEMMA PlacesAreListings ==
  ASSUME TypeOK, DeliveryInv, NEW c \in Conns
  PROVE  /\ Places(c) # {} <=> \E p \in Procs, l \in 0 .. 1 : ListedAt(c, p, l)
         /\ \A q \in Places(c) :
                /\ q = <<q[1], q[2], q[3]>>
                /\ q[1] \in Procs /\ q[2] \in 0 .. 1 /\ ListedAt(c, q[1], q[2])
                /\ q[3] \in 1 .. Len(pendingList[q[1]][q[2]])
                /\ pendingList[q[1]][q[2]][q[3]] = c
<1>1. \A p \in Procs, l \in 0 .. 1 :
          /\ pendingList[p][l] \in Seq(Conns) /\ Len(pendingList[p][l]) \in Nat
          /\ Len(pendingList[p][l]) <= MaxConns
  <2> SUFFICES ASSUME NEW p \in Procs, NEW l \in 0 .. 1
               PROVE  /\ pendingList[p][l] \in Seq(Conns) /\ Len(pendingList[p][l]) \in Nat
                      /\ Len(pendingList[p][l]) <= MaxConns
    OBVIOUS
  <2>1. pendingList[p][l] \in Seq(Conns)
    BY DEF TypeOK
  <2>2. Len(pendingList[p][l]) \in Nat
    BY <2>1, LenProperties
  <2>3. Len(pendingList[p][l]) <= Pushed /\ Pushed \in Nat /\ Pushed <= MaxConns
    BY PushedAreConns, MaxConnsAssumption DEF DeliveryInv, QueuesAscend
  <2> QED
    BY <2>1, <2>2, <2>3, MaxConnsAssumption
<1>2. ASSUME NEW q \in Places(c)
      PROVE  /\ q = <<q[1], q[2], q[3]>>
             /\ q[1] \in Procs /\ q[2] \in 0 .. 1 /\ ListedAt(c, q[1], q[2])
             /\ q[3] \in 1 .. Len(pendingList[q[1]][q[2]])
             /\ pendingList[q[1]][q[2]][q[3]] = c
  <2>1. /\ q \in Procs \X (0 .. 1) \X (1 .. MaxConns)
        /\ q[3] <= Len(pendingList[q[1]][q[2]]) /\ pendingList[q[1]][q[2]][q[3]] = c
    BY DEF Places
  <2>2. /\ q = <<q[1], q[2], q[3]>>
        /\ q[1] \in Procs /\ q[2] \in 0 .. 1 /\ q[3] \in 1 .. MaxConns
    BY <2>1
  <2>3. q[3] \in 1 .. Len(pendingList[q[1]][q[2]])
    BY <1>1, <2>1, <2>2, MaxConnsAssumption
  <2> QED
    BY <2>1, <2>2, <2>3 DEF ListedAt
<1>3. ASSUME NEW p \in Procs, NEW l \in 0 .. 1, ListedAt(c, p, l)
      PROVE  Places(c) # {}
  <2>1. PICK i \in 1 .. Len(pendingList[p][l]) : pendingList[p][l][i] = c
    BY <1>3 DEF ListedAt
  <2>2. i \in 1 .. MaxConns /\ i <= Len(pendingList[p][l])
    BY <1>1, MaxConnsAssumption
  <2>3. <<p, l, i>> \in Places(c)
    BY <2>1, <2>2 DEF Places
  <2> QED
    BY <2>3
<1> QED
  BY <1>2, <1>3

\* However the push and the exchange interleave, a pushed connection is on one
\* queue of its processor until that processor registers it, and on none once it
\* is taken off: none is lost, none registered twice (processor.cc:78, 94-102).
THEOREM DeliversOnce == Spec => []DeliveredOnce
<1>1. DispatchInv /\ DeliveryInv => DeliveredOnce
  <2> SUFFICES ASSUME DispatchInv, DeliveryInv, NEW c \in Conns
               PROVE  /\ \A q \in Places(c) : Places(c) = {q} /\ q[1] = Target(c)
                      /\ mProcessor[c] \in {NoProc, Target(c)}
                      /\ \A p \in Procs : c \in watched[p] => mProcessor[c] = p
                      /\ Places(c) # {} <=>
                             Given(c) /\ (Registered(c) => BeingPopped(Target(c), c))
    BY DEF DeliveredOnce
  <2>1. TypeOK /\ QueuesAscend
    BY DEF DispatchInv, DeliveryInv
  <2>2. Target(c) \in Procs /\ (Given(c) <=> c < Pushed)
    BY <2>1, PushedAreConns, TargetIsProcessor
  <2>3. \A p \in Procs, l \in 0 .. 1 : ListedAt(c, p, l) => c < Pushed /\ Target(c) = p
    BY <2>1, ListedIsPushed
  <2>4. ASSUME NEW q \in Places(c), NEW r \in Places(c) PROVE q = r /\ q[1] = Target(c)
    <3>1. q[1] = Target(c) /\ r[1] = Target(c)
      BY <2>1, <2>3, <2>4, PlacesAreListings
    <3>2. q[2] = r[2]
      <4>1. q[2] \in 0 .. 1 /\ ListedAt(c, Target(c), q[2])
        BY <2>1, <2>4, <3>1, PlacesAreListings
      <4>2. r[2] \in 0 .. 1 /\ ListedAt(c, Target(c), r[2])
        BY <2>1, <2>4, <3>1, PlacesAreListings
      <4> QED
        BY <2>2, <4>1, <4>2 DEF DeliveryInv, OneQueue
    <3>3. q[3] = r[3]
      <4> DEFINE s == pendingList[q[1]][q[2]]
      <4>1. /\ q[3] \in 1 .. Len(s) /\ r[3] \in 1 .. Len(s) /\ s[q[3]] = c /\ s[r[3]] = c
            /\ q[1] \in Procs /\ q[2] \in 0 .. 1
        BY <2>1, <2>4, <3>1, <3>2, PlacesAreListings
      <4>2. \A i, j \in 1 .. Len(s) : i < j => s[i] < s[j]
        BY <4>1 DEF DeliveryInv, QueuesAscend
      <4>3. c \in Nat
        BY <2>1, PushedAreConns
      <4>4. q[3] \in Int /\ r[3] \in Int
        BY <4>1
      <4> HIDE DEF s
      <4>5. ~(q[3] < r[3]) /\ ~(r[3] < q[3])
        BY <4>1, <4>2, <4>3
      <4> QED
        BY <4>4, <4>5
    <3> QED
      BY <2>1, <2>4, <3>1, <3>2, <3>3, PlacesAreListings
  <2>5. ASSUME Places(c) # {}
        PROVE  Given(c) /\ (Registered(c) => BeingPopped(Target(c), c))
    <3>1. PICK p \in Procs, l \in 0 .. 1 : ListedAt(c, p, l)
      BY <2>1, <2>5, PlacesAreListings
    <3>2. Given(c) /\ Target(c) = p
      BY <2>2, <2>3, <3>1
    <3>3. ASSUME Registered(c) PROVE BeingPopped(p, c)
      <4>1. ppc[p] = "pop" /\ c = Head(UsedList(p))
        BY <3>1, <3>3 DEF DeliveryInv, PoppedOnceRegistered
      <4>2. UsedList(p) # <<>>
        BY <4>1 DEF DispatchInv, FrontExists
      <4> QED
        BY <4>1, <4>2 DEF BeingPopped
    <3> QED
      BY <3>2, <3>3
  <2>6. ASSUME Given(c), Registered(c) => BeingPopped(Target(c), c)
        PROVE  Places(c) # {}
    <3>1. CASE ~Registered(c)
      <4>1. PICK l \in 0 .. 1 : ListedAt(c, Target(c), l)
        BY <2>2, <2>6, <3>1 DEF DeliveryInv, ListedUntilRegistered
      <4> QED
        BY <2>1, <2>2, <4>1, PlacesAreListings
    <3>2. CASE Registered(c)
      <4>1. BeingPopped(Target(c), c) /\ mUsing[Target(c)] \in 0 .. 1
        BY <2>1, <2>2, <2>6, <3>2 DEF TypeOK
      <4>2. ListedAt(c, Target(c), mUsing[Target(c)])
        BY <2>1, <2>2, <4>1, FrontIsFirst DEF BeingPopped, UsedList
      <4> QED
        BY <2>1, <2>2, <4>1, <4>2, PlacesAreListings
    <3> QED
      BY <3>1, <3>2
  <2> QED
    BY <2>4, <2>5, <2>6 DEF DeliveryInv, RegisteredByTarget
<1>2. Init /\ [][Next]_vars => [](DispatchInv /\ DeliveryInv)
  BY DispatchInvariant, DeliveryInvariant, PTL
<1> QED
  BY <1>1, <1>2, PTL DEF Spec

\* A processor registers its connections in the order they were dispatched, but
\* for a late one, which later ones may pass (processor.cc:98-102).
THEOREM RegistersInOrder == Spec => []RegisteredInOrder
<1>1. DeliveryInv => RegisteredInOrder
  BY DEF DeliveryInv
<1> QED
  BY <1>1, DeliveryInvariant, PTL DEF Spec

-----------------------------------------------------------------------------
(* Dispatch implements Handoff *)

\* The connections of the abstract hand-over that are given and not taken.
Waiting == {c \in Conns : Given(c) /\ ~Registered(c)}

\* The connections each processor registered.
Taken == [p \in Procs |-> {c \in Conns : mProcessor[c] = p}]

\* Nothing is given and nothing taken to begin with.
LEMMA InitImplements == Init => Abstract!HandoffInit
<1> SUFFICES ASSUME Init PROVE Abstract!HandoffInit
  OBVIOUS
<1>1. \A c \in Conns : ~Given(c)
  BY MaxConnsAssumption DEF Init, Given, Conns
<1>2. \A p \in Procs, c \in Conns : mProcessor[c] # p
  BY NoProcIsNoProcessor DEF Init
<1> QED
  BY <1>1, <1>2 DEF Abstract!HandoffInit

\* What was given after a step, in terms of the number of pushes.
LEMMA GivenNext ==
  ASSUME TypeOK' PROVE \A c \in Conns : Given(c)' <=> c < Pushed'
<1>1. PICK n \in Nat : mCurrentProcessorIndex' = n
  BY MaxConnsAssumption DEF TypeOK
<1> QED
  BY <1>1, MaxConnsAssumption DEF Pushed, Given, dconn, Conns

\* A step that neither pushes nor registers is a stutter of the hand-over.
LEMMA OtherStepStutters ==
  ASSUME TypeOK, TypeOK', Pushed' = Pushed, mProcessor' = mProcessor
  PROVE  UNCHANGED Abstract!handoffVars
<1>1. \A c \in Conns : (Given(c) <=> c < Pushed) /\ (Given(c)' <=> c < Pushed')
  BY PushedAreConns, GivenNext
<1>2. \A c \in Conns : Registered(c)' = Registered(c)
  BY DEF Registered
<1>3. Waiting' = Waiting /\ Taken' = Taken
  BY <1>1, <1>2 DEF Waiting, Taken
<1> QED
  BY <1>3 DEF Abstract!handoffVars, Waiting, Taken

\* A push gives the connection under way, which nobody holds yet.
LEMMA PushGives ==
  ASSUME DispatchInv, DeliveryInv, TypeOK', PushPending
  PROVE  Abstract!Give(dconn) /\ dconn \in Conns
<1>1. dconn = Pushed /\ Pushed' = Pushed + 1 /\ mProcessor' = mProcessor
  BY PushLists DEF PushPending, connVars
<1>2. dconn \in Conns
  BY CallUnderWay DEF DispatchInv, PushPending
<1>3. /\ \A c \in Conns : (Given(c) <=> c < Pushed) /\ c \in Nat
      /\ \A c \in Conns : Given(c)' <=> c < Pushed'
      /\ Pushed \in Nat
  BY PushedAreConns, GivenNext DEF DispatchInv
<1>4. /\ \A c \in Conns : Registered(c)' = Registered(c)
      /\ ~Registered(dconn) /\ \A p \in Procs : mProcessor[dconn] # p
  <2>1. ~Registered(dconn)
    BY <1>1, <1>2, <1>3 DEF DeliveryInv, RegisteredByTarget
  <2> QED
    BY <1>1, <2>1, NoProcIsNoProcessor DEF Registered
<1>5. dconn \notin Waiting /\ Waiting' = Waiting \cup {dconn}
  BY <1>1, <1>2, <1>3, <1>4 DEF Waiting
<1>6. Taken' = Taken /\ \A p \in Procs : dconn \notin Taken[p]
  BY <1>1, <1>4 DEF Taken
<1> QED
  BY <1>2, <1>5, <1>6 DEF Abstract!Give, Waiting, Taken

\* AddConnectionToEpoll registers a connection given and not yet registered.
LEMMA RegisterFrontRegisters ==
  ASSUME DispatchInv, DeliveryInv, TypeOK', NEW p \in Procs, RegisterFront(p)
  PROVE  \E c \in Conns : Abstract!Register(c)
<1>1. PICK f \in Conns : /\ Target(f) = p /\ ~Registered(f) /\ f < Pushed
                         /\ mProcessor' = [mProcessor EXCEPT ![f] = p]
  BY RegisterFrontKeepsDelivery
<1>2. Pushed' = Pushed /\ mProcessor \in [Conns -> Procs \cup {NoProc}]
  BY DEF RegisterFront, dispatcherVars, Pushed, DispatchInv, TypeOK
<1>3. /\ \A c \in Conns : (Given(c) <=> c < Pushed)
      /\ \A c \in Conns : Given(c)' <=> c < Pushed'
  BY PushedAreConns, GivenNext DEF DispatchInv
<1>4. /\ Registered(f)'
      /\ \A c \in Conns : c # f => Registered(c)' = Registered(c)
  BY <1>1, <1>2, NoProcIsNoProcessor DEF Registered
<1>5. f \in Waiting /\ Waiting' = Waiting \ {f}
  BY <1>1, <1>2, <1>3, <1>4 DEF Waiting
<1>6. Taken' = [Taken EXCEPT ![p] = @ \cup {f}]
  <2>1. \A q \in Procs : mProcessor[f] # q
    BY <1>1, NoProcIsNoProcessor DEF Registered
  <2> QED
    BY <1>1, <1>2, <2>1 DEF Taken
<1> QED
  BY <1>1, <1>5, <1>6 DEF Abstract!Register, Waiting, Taken

\* Every step is a step of the hand-over or a stutter.
LEMMA StepImplements ==
  DispatchInv /\ DeliveryInv /\ TypeOK' /\ [Next]_vars
      => [Abstract!HandoffNext]_(Abstract!handoffVars)
<1> SUFFICES ASSUME DispatchInv, DeliveryInv, TypeOK', [Next]_vars
             PROVE  Abstract!HandoffNext \/ UNCHANGED Abstract!handoffVars
  OBVIOUS
<1>1. CASE PushPending
  BY <1>1, PushGives DEF Abstract!HandoffNext
<1>2. ASSUME NEW p \in Procs, RegisterFront(p)
      PROVE  Abstract!HandoffNext
  BY <1>2, RegisterFrontRegisters DEF Abstract!HandoffNext
<1>3. CASE ChooseProcessor
  <2>1. mCurrentProcessorIndex \in Nat
    BY MaxConnsAssumption DEF DispatchInv, TypeOK
  <2>2. Pushed' = Pushed /\ mProcessor' = mProcessor
    BY <1>3, <2>1 DEF ChooseProcessor, Pushed, connVars
  <2> QED
    BY <2>2, OtherStepStutters DEF DispatchInv
<1>4. CASE GivePool \/ Kick
  <2>1. Pushed' = Pushed /\ mProcessor' = mProcessor
    BY <1>4 DEF GivePool, Kick, Pushed, connVars
  <2> QED
    BY <2>1, OtherStepStutters DEF DispatchInv
<1>5. ASSUME NEW p \in Procs, MainLoop(p), ~RegisterFront(p)
      PROVE  UNCHANGED Abstract!handoffVars
  <2>1. Pushed' = Pushed /\ mProcessor' = mProcessor
    BY <1>5
    DEF MainLoop, AwakeLoop, Swap, StartLoop, SwapUsing, SwapFilling, PopFront, ListEmptied,
        WakeKicked, WakeOther, DrainKicks, dispatcherVars, connVars, Pushed
  <2> QED
    BY <2>1, OtherStepStutters DEF DispatchInv
<1>6. CASE UNCHANGED vars
  <2>1. Pushed' = Pushed /\ mProcessor' = mProcessor
    BY <1>6 DEF vars, dispatcherVars, connVars, Pushed
  <2> QED
    BY <2>1, OtherStepStutters DEF DispatchInv
<1> QED
  BY <1>1, <1>2, <1>3, <1>4, <1>5, <1>6 DEF Next, Dispatcher

\* The queues, the exchange and the kick implement the hand-over: every step is
\* a connection given, once, or registered, once, by the processor it was given
\* to, or no step at all (processorManager.cc:31-36, processor.cc:75-102).
THEOREM ImplementsHandoffSafely ==
  Spec => Abstract!HandoffInit /\ [][Abstract!HandoffNext]_(Abstract!handoffVars)
<1>1. Init /\ [][Next]_vars => [](DispatchInv /\ DeliveryInv /\ TypeOK)
  <2>1. DispatchInv => TypeOK
    BY DEF DispatchInv
  <2> QED
    BY <2>1, DispatchInvariant, DeliveryInvariant, PTL
<1> QED
  BY <1>1, InitImplements, StepImplements, PTL DEF Spec
=============================================================================
