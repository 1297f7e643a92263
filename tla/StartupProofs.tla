----------------------------- MODULE StartupProofs -----------------------------
(***************************************************************************)
(* Proofs about Startup, for every configuration file, every number of     *)
(* Processors and of processors of the machine, and whatever the system    *)
(* refuses.                                                                *)
(*                                                                         *)
(* The threads are bound evenly: the thread that holds the mutex of CPU is *)
(* the only one that has picked, and no count changes until it has         *)
(* counted, so that what it picked is still available then (OnePicks).     *)
(*                                                                         *)
(* The server comes up as the file says: by induction on the lines read,   *)
(* the map holds the last value of every key (ParseKeepsLast), so that     *)
(* what main asks for is what a sound file says (AsksAsSaid); and every    *)
(* Processor constructed has what was asked for, or was refused it         *)
(* (HasOrRefused), until there are as many as were asked for (CountedUp).  *)
(***************************************************************************)
EXTENDS Startup, SequenceTheorems, FiniteSetTheorems, WellFoundedInduction, TLAPS

\* A list of some kind; what is in the listeners' depends on the file.
IsList(list) == \E S : list \in Seq(S)

ThreadSteps == {"none", "started", "picked", "serves"}

Types ==
    /\ cpus \in 1 .. MaxCpus /\ offline \subseteq Cpus
    /\ IsList(listener)
    /\ thread \in Seq(ThreadSteps) /\ Len(thread) = Len(listener)
    /\ affinity \in Seq(Cpus \cup {NoCPU}) /\ Len(affinity) = Len(listener)
    /\ picked \in Cpus \cup {NoCPU}
    /\ mCPUList \in [Cpus -> Nat]

\* Who has picked holds the mutex, alone, and what it picked is available.
OnePicks ==
    /\ \A p \in Processors : thread[p] = "picked" => mMutex /\ GetAvailableCPU(picked)
    /\ \A p, q \in Processors : thread[p] = "picked" /\ thread[q] = "picked" => p = q

\* Bound by nobody else, and not before it serves.
BoundWhenServing == \A p \in Processors : thread[p] # "serves" => affinity[p] = NoCPU

\* The Processor under construction has no thread yet.
LastNotStarted == pc = "thread" => Len(thread) > 0 /\ thread[Len(thread)] = "none"

BindInv ==
    /\ Types
    /\ OnePicks
    /\ BoundWhenServing
    /\ LastNotStarted
    /\ BoundEvenly

USE DEF NoCPU

-----------------------------------------------------------------------------

\* The number of threads from which on a processor is not looked at.
LEMMA CrowdIsNumber == Crowd \in Nat
BY MachineAssumption

\* A list has a length, and its indices are the numbers up to it.
LEMMA ListProperties ==
  ASSUME NEW list, IsList(list)
  PROVE  Len(list) \in Nat /\ DOMAIN list = 1 .. Len(list)
BY LenProperties DEF IsList

\* What is appended to a list makes it a list one longer.
LEMMA AppendToList ==
  ASSUME NEW list, IsList(list), NEW x
  PROVE  IsList(Append(list, x)) /\ Len(Append(list, x)) = Len(list) + 1
<1>1. PICK S : list \in Seq(S)
  BY DEF IsList
<1> DEFINE T == S \cup {x}
<1>2. list \in Seq(T) /\ x \in T
  BY <1>1, SeqMonotonic
<1> HIDE DEF T
<1>3. Append(list, x) \in Seq(T) /\ Len(Append(list, x)) = Len(list) + 1
  BY <1>2, AppendProperties
<1> QED
  BY <1>3 DEF IsList

\* The lists of the Processors all have one entry for each.
LEMMA ListsMatch ==
  ASSUME Types
  PROVE  /\ Len(listener) \in Nat
         /\ Processors = 1 .. Len(listener)
         /\ thread \in [Processors -> ThreadSteps] /\ DOMAIN thread = Processors
         /\ affinity \in [Processors -> Cpus \cup {NoCPU}] /\ DOMAIN affinity = Processors
         /\ cpus \in Nat \ {0}
<1>1. Len(listener) \in Nat /\ Processors = 1 .. Len(listener)
  BY ListProperties DEF Types, Processors
<1>2. thread \in [1 .. Len(listener) -> ThreadSteps] /\ affinity \in [1 .. Len(listener) -> Cpus \cup {NoCPU}]
  BY LenProperties DEF Types
<1> QED
  BY <1>1, <1>2 DEF Types

\* Nothing is constructed, and nothing bound.
LEMMA InitInv == Init => BindInv
<1> SUFFICES ASSUME Init PROVE BindInv
  OBVIOUS
<1>0. /\ cpus \in 1 .. MaxCpus /\ offline \in SUBSET Cpus
      /\ listener = <<>> /\ thread = <<>> /\ affinity = <<>>
      /\ pc = "config" /\ picked = NoCPU
      /\ mCPUList = [c \in Cpus |-> 0]
  BY DEF Init
<1>1. Processors = {}
  BY <1>0 DEF Processors
<1>2. Types
  <2>1. IsList(listener) /\ Len(listener) = 0
    BY <1>0, EmptySeq DEF IsList
  <2>2. thread \in Seq(ThreadSteps) /\ affinity \in Seq(Cpus \cup {NoCPU})
    BY <1>0, EmptySeq
  <2>3. mCPUList \in [Cpus -> Nat] /\ picked \in Cpus \cup {NoCPU}
    BY <1>0
  <2>4. Len(thread) = Len(listener) /\ Len(affinity) = Len(listener)
    BY <1>0
  <2> QED
    BY <1>0, <2>1, <2>2, <2>3, <2>4 DEF Types
<1>3. OnePicks /\ BoundWhenServing /\ LastNotStarted
  BY <1>0, <1>1 DEF OnePicks, BoundWhenServing, LastNotStarted
<1>4. BoundEvenly
  <2>1. \A c \in Cpus : mCPUList[c] = 0
    BY <1>0
  <2>2. ASSUME NEW c \in Cpus
        PROVE  Cardinality({p \in Processors : affinity[p] = c}) = 0
    <3>1. {p \in Processors : affinity[p] = c} = {}
      BY <1>1
    <3> QED
      BY <3>1, FS_EmptySet
  <2>3. Crowd \in Nat
    BY CrowdIsNumber
  <2> QED
    BY <1>1, <2>1, <2>2, <2>3 DEF BoundEvenly
<1> QED
  BY <1>2, <1>3, <1>4 DEF BindInv

\* A Processor is constructed without a thread, and bound to nothing
\* (processorManager.cc:8-18).
LEMMA ConstructKeeps ==
  ASSUME BindInv, NEW port, NEW isWatched, NEW fails, Construct(port, isWatched, fails)
  PROVE  BindInv'
<1> DEFINE n == Len(listener)
<1>0. /\ pc' = "thread"
      /\ listener' = Append(listener, port)
      /\ thread' = Append(thread, "none") /\ affinity' = Append(affinity, NoCPU)
      /\ UNCHANGED <<cpus, offline, mMutex, picked, mCPUList>>
  BY DEF Construct, machine
<1>1. /\ n \in Nat /\ Processors = 1 .. n
      /\ thread \in Seq(ThreadSteps) /\ Len(thread) = n
      /\ affinity \in Seq(Cpus \cup {NoCPU}) /\ Len(affinity) = n
      /\ DOMAIN affinity = Processors
  BY ListsMatch DEF BindInv, Types
<1>2. IsList(listener') /\ Len(listener') = n + 1
  BY <1>0, AppendToList DEF BindInv, Types
<1>3. Processors' = 1 .. n + 1
  BY <1>2, ListProperties DEF Processors
<1>4. /\ thread' \in Seq(ThreadSteps) /\ Len(thread') = n + 1
      /\ thread'[n + 1] = "none"
      /\ \A p \in 1 .. n : thread'[p] = thread[p]
  <2>1. "none" \in ThreadSteps
    BY DEF ThreadSteps
  <2> QED
    BY <1>0, <1>1, <2>1, AppendProperties
<1>5. /\ affinity' \in Seq(Cpus \cup {NoCPU}) /\ Len(affinity') = n + 1
      /\ affinity'[n + 1] = NoCPU
      /\ \A p \in 1 .. n : affinity'[p] = affinity[p]
  <2>1. NoCPU \in Cpus \cup {NoCPU}
    OBVIOUS
  <2> QED
    BY <1>0, <1>1, <2>1, AppendProperties
<1>6. Cpus' = Cpus
  BY <1>0 DEF Cpus
<1>7. Types'
  BY <1>0, <1>2, <1>4, <1>5, <1>6 DEF BindInv, Types
<1>8. \A p \in Processors' : p \in Processors \/ p = n + 1
  BY <1>1, <1>3
<1>9. OnePicks'
  <2>1. GetAvailableCPU(picked)' <=> GetAvailableCPU(picked)
    BY <1>0, <1>6 DEF GetAvailableCPU
  <2> QED
    BY <1>0, <1>1, <1>4, <1>8, <2>1 DEF BindInv, OnePicks
<1>10. BoundWhenServing'
  BY <1>1, <1>4, <1>5, <1>8 DEF BindInv, BoundWhenServing
<1>11. LastNotStarted'
  BY <1>1, <1>4 DEF LastNotStarted
<1>12. BoundEvenly'
  <2>1. ASSUME NEW c \in Cpus
        PROVE  {p \in Processors' : affinity'[p] = c} = {p \in Processors : affinity[p] = c}
    <3>1. c # NoCPU
      BY ListsMatch DEF BindInv, Cpus
    <3> QED
      BY <1>1, <1>3, <1>5, <1>8, <3>1
  <2>2. \A p \in Processors' : thread'[p] = "serves" => p \in Processors /\ affinity'[p] = affinity[p]
    BY <1>1, <1>4, <1>5, <1>8
  <2>3. \A p \in Processors : thread'[p] = thread[p]
    BY <1>1, <1>4
  <2> QED
    BY <1>0, <1>6, <2>1, <2>2, <2>3 DEF BindInv, BoundEvenly
<1> QED
  BY <1>7, <1>9, <1>10, <1>11, <1>12 DEF BindInv

\* The thread of the last Processor is started, or is not (threadPool.h:27-39).
LEMMA StartKeeps ==
  ASSUME BindInv, NEW result \in {"started", "none"}, NEW fails, StartThread(result, fails)
  PROVE  BindInv'
<1> DEFINE n == Len(thread)
<1>0. /\ pc = "thread" /\ pc' = "create"
      /\ thread' = [thread EXCEPT ![n] = result]
      /\ UNCHANGED <<listener, affinity, cpus, offline, mMutex, picked, mCPUList>>
  BY DEF StartThread, machine, cpuVars
<1>1. /\ n \in 1 .. n /\ thread[n] = "none"
      /\ Processors = 1 .. n /\ Processors' = Processors
      /\ thread \in Seq(ThreadSteps)
  <2>1. Len(listener) = n /\ Len(listener) \in Nat /\ Processors = 1 .. n
    BY ListsMatch DEF BindInv, Types
  <2> QED
    BY <1>0, <2>1 DEF BindInv, Types, LastNotStarted, Processors
<1>2. /\ thread' \in Seq(ThreadSteps) /\ Len(thread') = n
      /\ \A p \in Processors : thread'[p] = IF p = n THEN result ELSE thread[p]
  <2>1. result \in ThreadSteps
    BY DEF ThreadSteps
  <2> QED
    BY <1>0, <1>1, <2>1, ExceptSeq
<1>3. Cpus' = Cpus
  BY <1>0 DEF Cpus
<1>4. Types'
  BY <1>0, <1>2, <1>3 DEF BindInv, Types
<1>5. OnePicks'
  <2>1. GetAvailableCPU(picked)' <=> GetAvailableCPU(picked)
    BY <1>0, <1>3 DEF GetAvailableCPU
  <2>2. \A p \in Processors : thread'[p] = "picked" => thread[p] = "picked"
    BY <1>2
  <2> QED
    BY <1>0, <1>1, <2>1, <2>2 DEF BindInv, OnePicks
<1>6. BoundWhenServing'
  BY <1>0, <1>1, <1>2 DEF BindInv, BoundWhenServing
<1>7. LastNotStarted'
  BY <1>0 DEF LastNotStarted
<1>8. BoundEvenly'
  <2>1. \A p \in Processors : thread'[p] = "serves" => thread[p] = "serves"
    BY <1>2
  <2> QED
    BY <1>0, <1>1, <1>3, <2>1 DEF BindInv, BoundEvenly
<1> QED
  BY <1>4, <1>5, <1>6, <1>7, <1>8 DEF BindInv

\* A step of the thread of p: the others, and what is bound, stay where they are.
LEMMA ThreadGoesWhat ==
  ASSUME BindInv, NEW p \in Processors, NEW from, NEW to \in ThreadSteps \ {"none"},
         from # "none", ThreadGoes(p, from, to)
  PROVE  /\ thread[p] = from
         /\ UNCHANGED <<listener, cpus, offline, pc>>
         /\ Processors' = Processors /\ Cpus' = Cpus
         /\ thread' \in Seq(ThreadSteps) /\ Len(thread') = Len(thread)
         /\ \A q \in Processors : thread'[q] = IF q = p THEN to ELSE thread[q]
         /\ LastNotStarted'
<1>1. /\ thread[p] = from /\ thread' = [thread EXCEPT ![p] = to]
      /\ UNCHANGED <<listener, cpus, offline, pc>>
  BY DEF ThreadGoes, machine
<1>2. Len(listener) = Len(thread) /\ Processors = 1 .. Len(thread) /\ Len(thread) \in Nat
  BY ListsMatch DEF BindInv, Types
<1>3. Processors' = Processors /\ Cpus' = Cpus
  BY <1>1 DEF Processors, Cpus
<1>4. /\ thread' \in Seq(ThreadSteps) /\ Len(thread') = Len(thread)
      /\ \A q \in Processors : thread'[q] = IF q = p THEN to ELSE thread[q]
  BY <1>1, <1>2, ExceptSeq DEF BindInv, Types
<1>5. LastNotStarted'
  <2> SUFFICES ASSUME pc' = "thread"
               PROVE  Len(thread') > 0 /\ thread'[Len(thread')] = "none"
    BY DEF LastNotStarted
  <2>1. Len(thread) > 0 /\ thread[Len(thread)] = "none" /\ Len(thread) \in Processors
    BY <1>1, <1>2 DEF BindInv, LastNotStarted
  <2> QED
    BY <1>1, <1>4, <2>1
<1> QED
  BY <1>1, <1>3, <1>4, <1>5

\* The mutex was free: nobody else has picked (cpu.cc:102-103).
LEMMA LockAndPickKeeps ==
  ASSUME BindInv, NEW p \in Processors, LockAndPick(p)
  PROVE  BindInv'
<1>0. /\ ~mMutex /\ mMutex'
      /\ picked' \in Cpus \cup {NoCPU} /\ GetAvailableCPU(picked')
      /\ UNCHANGED <<mCPUList, affinity>>
  BY Zenon DEF LockAndPick
<1>1. /\ UNCHANGED <<listener, cpus, offline, pc>>
      /\ Processors' = Processors /\ Cpus' = Cpus
      /\ thread' \in Seq(ThreadSteps) /\ Len(thread') = Len(thread)
      /\ \A q \in Processors : thread'[q] = IF q = p THEN "picked" ELSE thread[q]
      /\ LastNotStarted' /\ thread[p] = "started"
  <2>1. "picked" \in ThreadSteps \ {"none"} /\ "started" # "none"
    BY DEF ThreadSteps
  <2> QED
    BY <2>1, ThreadGoesWhat DEF LockAndPick
<1>2. Types'
  BY <1>0, <1>1 DEF BindInv, Types
<1>3. OnePicks'
  <2>1. \A q \in Processors : thread[q] # "picked"
    BY <1>0, Zenon DEF BindInv, OnePicks
  <2>2. \A q \in Processors : thread'[q] = "picked" => q = p
    BY <1>1, <2>1
  <2>3. GetAvailableCPU(picked)'
    BY <1>0, <1>1 DEF GetAvailableCPU
  <2> QED
    BY <1>0, <1>1, <2>2, <2>3, Zenon DEF OnePicks
<1>4. BoundWhenServing'
  BY <1>0, <1>1 DEF BindInv, BoundWhenServing
<1>5. BoundEvenly'
  <2>1. \A q \in Processors : thread'[q] = "serves" => thread[q] = "serves"
    BY <1>1
  <2> QED
    BY <1>0, <1>1, <2>1 DEF BindInv, BoundEvenly
<1> QED
  BY <1>1, <1>2, <1>3, <1>4, <1>5 DEF BindInv

\* The thread that was bound is one more, and no two counts are further apart than before
\* (cpu.cc:58-62).
LEMMA BoundOneMore ==
  ASSUME BindInv, NEW p \in Processors, picked \in Cpus, GetAvailableCPU(picked),
         affinity[p] = NoCPU,
         mCPUList' = [mCPUList EXCEPT ![picked] = @ + 1],
         affinity' = [affinity EXCEPT ![p] = picked],
         Processors' = Processors, Cpus' = Cpus
  PROVE  /\ mCPUList' \in [Cpus -> Nat]
         /\ affinity' \in Seq(Cpus \cup {NoCPU}) /\ Len(affinity') = Len(affinity)
         /\ \A q \in Processors : affinity'[q] = IF q = p THEN picked ELSE affinity[q]
         /\ \A c \in Cpus' : mCPUList'[c] = Cardinality({q \in Processors' : affinity'[q] = c})
         /\ \A c, d \in Cpus' : mCPUList'[d] < Crowd => mCPUList'[c] <= mCPUList'[d] + 1
         /\ \A c \in Cpus' \ {0} : mCPUList'[c] <= Crowd
<1>0. /\ mCPUList \in [Cpus -> Nat] /\ cpus \in Nat \ {0} /\ Crowd \in Nat
      /\ affinity \in Seq(Cpus \cup {NoCPU})
      /\ Len(affinity) \in Nat /\ Processors = 1 .. Len(affinity)
  <2>1. Crowd \in Nat
    BY CrowdIsNumber
  <2> QED
    BY <2>1, ListsMatch DEF BindInv, Types
<1>1. mCPUList' \in [Cpus -> Nat]
  BY <1>0
<1>2. \A c \in Cpus : mCPUList'[c] = IF c = picked THEN mCPUList[c] + 1 ELSE mCPUList[c]
  BY <1>0
<1>3. /\ affinity' \in Seq(Cpus \cup {NoCPU}) /\ Len(affinity') = Len(affinity)
      /\ \A q \in Processors : affinity'[q] = IF q = p THEN picked ELSE affinity[q]
  <2>1. picked \in Cpus \cup {NoCPU} /\ p \in 1 .. Len(affinity)
    BY <1>0
  <2> QED
    BY <1>0, <2>1, ExceptSeq
<1>4. ASSUME NEW c \in Cpus
      PROVE  mCPUList'[c] = Cardinality({q \in Processors : affinity'[q] = c})
  <2> DEFINE bound == {q \in Processors : affinity[q] = c}
  <2>1. mCPUList[c] = Cardinality(bound)
    BY DEF BindInv, BoundEvenly
  <2>2. IsFiniteSet(bound)
    <3>1. IsFiniteSet(1 .. Len(affinity)) /\ bound \in SUBSET (1 .. Len(affinity))
      BY <1>0, FS_Interval
    <3> QED
      BY <3>1, FS_Subset
  <2>3. p \notin bound
    <3>1. c # NoCPU
      BY <1>0 DEF Cpus
    <3> QED
      BY <3>1
  <2>4. CASE c = picked
    <3>1. {q \in Processors : affinity'[q] = c} = bound \cup {p}
      BY <1>3, <2>4
    <3>2. Cardinality(bound \cup {p}) = Cardinality(bound) + 1
      BY <2>2, <2>3, FS_AddElement
    <3> QED
      BY <1>2, <2>1, <2>4, <3>1, <3>2
  <2>5. CASE c # picked
    <3>1. {q \in Processors : affinity'[q] = c} = bound
      BY <1>3, <2>3, <2>5
    <3> QED
      BY <1>2, <2>1, <2>5, <3>1
  <2> QED
    BY <2>4, <2>5
<1>5. /\ \A c, d \in Cpus : mCPUList[d] < Crowd => mCPUList[c] <= mCPUList[d] + 1
      /\ \A c \in Cpus \ {0} : mCPUList[c] <= Crowd
  BY DEF BindInv, BoundEvenly
<1>6. cpus > 1
  <2>1. ASSUME cpus = 1 PROVE FALSE
    <3>1. picked = NoCPU
      BY <2>1 DEF GetAvailableCPU
    <3> QED
      BY <1>0, <3>1 DEF Cpus
  <2> QED
    BY <1>0, <2>1
<1>7. \/ mCPUList[picked] < Crowd /\ \A c \in Cpus : mCPUList[c] < Crowd => mCPUList[picked] <= mCPUList[c]
      \/ picked = 0 /\ \A c \in Cpus : ~(mCPUList[c] < Crowd)
  BY <1>6 DEF GetAvailableCPU
<1>8. ASSUME NEW c \in Cpus, NEW d \in Cpus, mCPUList'[d] < Crowd
      PROVE  mCPUList'[c] <= mCPUList'[d] + 1
  <2>1. mCPUList[c] \in Nat /\ mCPUList[d] \in Nat /\ mCPUList[picked] \in Nat
    BY <1>0
  <2>2. mCPUList[d] < Crowd /\ mCPUList[c] <= mCPUList[d] + 1
    BY <1>0, <1>2, <1>5, <1>8, <2>1
  <2> QED
    BY <1>0, <1>2, <1>7, <2>1, <2>2
<1>9. ASSUME NEW c \in Cpus \ {0}
      PROVE  mCPUList'[c] <= Crowd
  <2>1. mCPUList[c] \in Nat /\ mCPUList[c] <= Crowd
    BY <1>0, <1>5
  <2> QED
    BY <1>0, <1>2, <1>7, <2>1
<1> QED
  BY <1>1, <1>3, <1>4, <1>8, <1>9

\* Nobody has picked any more when the mutex is free again (cpu.cc:103-109).
LEMMA BindAndUnlockKeeps ==
  ASSUME BindInv, NEW p \in Processors, BindAndUnlock(p)
  PROVE  BindInv'
<1>0. SetAffinity(p) /\ picked' = NoCPU
  BY DEF BindAndUnlock
<1>1. /\ UNCHANGED <<listener, cpus, offline, pc>>
      /\ Processors' = Processors /\ Cpus' = Cpus
      /\ thread' \in Seq(ThreadSteps) /\ Len(thread') = Len(thread)
      /\ \A q \in Processors : thread'[q] = IF q = p THEN "serves" ELSE thread[q]
      /\ LastNotStarted' /\ thread[p] = "picked"
  <2>1. "serves" \in ThreadSteps \ {"none"} /\ "picked" # "none"
    BY DEF ThreadSteps
  <2> QED
    BY <2>1, ThreadGoesWhat DEF BindAndUnlock
<1>2. affinity[p] = NoCPU /\ GetAvailableCPU(picked) /\ picked \in Cpus \cup {NoCPU}
  BY <1>1, Zenon DEF BindInv, Types, OnePicks, BoundWhenServing
<1>3. /\ mCPUList' \in [Cpus -> Nat]
      /\ affinity' \in Seq(Cpus \cup {NoCPU}) /\ Len(affinity') = Len(affinity)
      /\ \A q \in Processors : q # p => affinity'[q] = affinity[q]
      /\ affinity'[p] = IF picked \in offline THEN NoCPU ELSE picked
      /\ \A c \in Cpus' : mCPUList'[c] = Cardinality({q \in Processors' : affinity'[q] = c})
      /\ \A c, d \in Cpus' : mCPUList'[d] < Crowd => mCPUList'[c] <= mCPUList'[d] + 1
      /\ \A c \in Cpus' \ {0} : mCPUList'[c] <= Crowd
  <2>1. CASE picked \in offline \cup {NoCPU}
    <3>1. UNCHANGED <<mCPUList, affinity>>
      BY <1>0, <2>1 DEF SetAffinity
    <3> QED
      BY <1>1, <1>2, <2>1, <3>1 DEF BindInv, Types, BoundEvenly
  <2>2. CASE picked \notin offline \cup {NoCPU}
    <3>1. /\ mCPUList' = [mCPUList EXCEPT ![picked] = @ + 1]
          /\ affinity' = [affinity EXCEPT ![p] = picked]
          /\ picked \in Cpus
      BY <1>0, <1>2, <2>2 DEF SetAffinity
    <3>2. /\ mCPUList' \in [Cpus -> Nat]
          /\ affinity' \in Seq(Cpus \cup {NoCPU}) /\ Len(affinity') = Len(affinity)
          /\ \A q \in Processors : affinity'[q] = IF q = p THEN picked ELSE affinity[q]
          /\ \A c \in Cpus' : mCPUList'[c] = Cardinality({q \in Processors' : affinity'[q] = c})
          /\ \A c, d \in Cpus' : mCPUList'[d] < Crowd => mCPUList'[c] <= mCPUList'[d] + 1
          /\ \A c \in Cpus' \ {0} : mCPUList'[c] <= Crowd
      BY <1>1, <1>2, <3>1, BoundOneMore, Zenon
    <3>3. picked \notin offline
      BY <2>2
    <3>4. affinity'[p] = picked /\ \A q \in Processors : q # p => affinity'[q] = affinity[q]
      BY <3>2
    <3> QED
      BY <3>2, <3>3, <3>4
  <2> QED
    BY <2>1, <2>2
<1>4. Types'
  BY <1>0, <1>1, <1>3 DEF BindInv, Types
<1>5. OnePicks'
  <2>1. \A q \in Processors : thread'[q] # "picked"
    BY <1>1 DEF BindInv, OnePicks
  <2> QED
    BY <1>1, <2>1 DEF OnePicks
<1>6. BoundWhenServing'
  BY <1>1, <1>3 DEF BindInv, BoundWhenServing
<1>7. ASSUME cpus > 1, offline = {}, NEW q \in Processors, thread'[q] = "serves"
      PROVE  affinity'[q] # NoCPU
  <2>1. CASE q = p
    <3>1. picked \in Cpus
      BY <1>2, <1>7, ListsMatch DEF GetAvailableCPU, BindInv, Cpus
    <3>2. picked # NoCPU
      BY <3>1, ListsMatch DEF BindInv, Cpus
    <3> QED
      BY <1>3, <1>7, <2>1, <3>2
  <2>2. CASE q # p
    BY <1>1, <1>3, <1>7, <2>2 DEF BindInv, BoundEvenly
  <2> QED
    BY <2>1, <2>2
<1>8. BoundEvenly'
  BY <1>1, <1>3, <1>7 DEF BoundEvenly
<1> QED
  BY <1>1, <1>4, <1>5, <1>6, <1>8 DEF BindInv

\* Steps of main that leave the Processors alone.
LEMMA MainKeeps ==
  ASSUME BindInv, InitConfig \/ NoLog \/ NoPort \/ Starts \/ MainLoop \/ UNCHANGED vars
  PROVE  BindInv'
<1>1. UNCHANGED <<listener, thread, affinity, cpus, offline, mMutex, picked, mCPUList>>
  BY DEF InitConfig, NoLog, NoPort, Exits, Starts, MainLoop, vars, processorVars, cpuVars, machine
<1>2. pc' # "thread" \/ pc' = pc
  BY DEF InitConfig, NoLog, NoPort, Exits, Starts, MainLoop, vars
<1>3. Processors' = Processors /\ Cpus' = Cpus
  BY <1>1 DEF Processors, Cpus
<1>4. GetAvailableCPU(picked)' <=> GetAvailableCPU(picked)
  BY <1>1, <1>3 DEF GetAvailableCPU
<1>5. Types' /\ BoundWhenServing' /\ BoundEvenly'
  BY <1>1, <1>3 DEF BindInv, Types, BoundWhenServing, BoundEvenly
<1>6. OnePicks'
  BY <1>1, <1>3, <1>4 DEF BindInv, OnePicks
<1>7. LastNotStarted'
  BY <1>1, <1>2 DEF BindInv, LastNotStarted
<1> QED
  BY <1>5, <1>6, <1>7 DEF BindInv

\* The steps together.
LEMMA StepInv == BindInv /\ [Next]_vars => BindInv'
<1> SUFFICES ASSUME BindInv, [Next]_vars PROVE BindInv'
  OBVIOUS
<1>1. ASSUME ConstructProcessor PROVE BindInv'
  BY <1>1, ConstructKeeps DEF ConstructProcessor, WatchFails, ListenFails
<1>2. ASSUME Start PROVE BindInv'
  BY <1>2, StartKeeps DEF Start
<1>3. ASSUME NEW p \in Processors, Serves(p) PROVE BindInv'
  BY <1>3, LockAndPickKeeps, BindAndUnlockKeeps DEF Serves
<1> QED
  BY <1>1, <1>2, <1>3, MainKeeps DEF Next

-----------------------------------------------------------------------------
(* What Config keeps of a file *)

\* A set of numbers that has one has a least one.
LEMMA LeastNumber ==
  ASSUME NEW T \in SUBSET Nat, NEW n \in T
  PROVE  \E m \in T : \A k \in T : m <= k
<1> DEFINE R == {ss \in Nat \X Nat : ss[1] < ss[2]}
<1>1. R = OpToRel(<, Nat)
  BY DEF OpToRel
<1>2. IsWellFoundedOn(R, Nat)
  BY <1>1, NatLessThanWellFounded
<1> HIDE DEF R
<1>3. \E m \in T : \A k \in T : ~(<<k, m>> \in R)
  BY <1>2, WFMin
<1>4. PICK m \in T : \A k \in T : ~(<<k, m>> \in R)
  BY <1>3
<1>5. \A k \in T : ~(k < m)
  BY <1>4 DEF R
<1> QED
  BY <1>5

\* The greatest of a set of numbers is its Max.
LEMMA MaxIs ==
  ASSUME NEW S \in SUBSET Int, NEW m \in S, \A x \in S : x <= m
  PROVE  Max(S) = m
<1>1. \A x \in S : (\A y \in S : x >= y) <=> x = m
  OBVIOUS
<1> QED
  BY <1>1 DEF Max

\* What was read before the first line, and what after one more.
NoLineRead == [key |-> NoWord, value |-> NoWord, map |-> <<>>]
AfterLine(read, line) ==
    LET key == IF line.key = NoWord THEN read.key ELSE line.key
        value == IF line.value = NoWord THEN read.value ELSE line.value
    IN  [key |-> key, value |-> value, map |-> Put(read.map, key, value)]

\* The recursive function behind FoldLeft, for n lines.
IsFold(it, n, lines) ==
    it = [s \in SUBSET (1 .. n) |->
             IF s = {} THEN NoLineRead ELSE AfterLine(it[s \ {Max(s)}], lines[Max(s)])]

\* There is one, by induction on the number of lines.
LEMMA FoldExists ==
  ASSUME NEW N \in Nat, NEW lines
  PROVE  \E it : IsFold(it, N, lines)
<1> DEFINE None == {n \in 0 .. N : ~\E it : IsFold(it, n, lines)}
<1>1. None = {}
  <2> SUFFICES ASSUME NEW x \in None PROVE FALSE
    OBVIOUS
  <2>1. PICK n \in None : \A k \in None : n <= k
    <3>1. None \in SUBSET Nat
      OBVIOUS
    <3> HIDE DEF None
    <3> QED
      BY <3>1, LeastNumber
  <2>2. n \in 0 .. N /\ ~\E it : IsFold(it, n, lines)
    OBVIOUS
  <2>3. n # 0
    <3>1. PICK z : z = [s \in SUBSET (1 .. 0) |-> NoLineRead]
      OBVIOUS
    <3>2. \A s \in SUBSET (1 .. 0) : s = {}
      OBVIOUS
    <3>3. IsFold(z, 0, lines)
      BY <3>1, <3>2 DEF IsFold
    <3> QED
      BY <3>3, <2>2
  <2>4. n - 1 \in 0 .. N /\ n - 1 \notin None
    BY <2>1, <2>2, <2>3
  <2>5. \E it : IsFold(it, n - 1, lines)
    BY <2>4
  <2>6. PICK f : IsFold(f, n - 1, lines)
    BY <2>5
  <2>7. \A s \in SUBSET (1 .. n - 1) :
            f[s] = IF s = {} THEN NoLineRead ELSE AfterLine(f[s \ {Max(s)}], lines[Max(s)])
    BY <2>6 DEF IsFold
  <2>8. PICK g : g = [s \in SUBSET (1 .. n) |->
                         IF n \in s THEN AfterLine(f[s \ {n}], lines[n]) ELSE f[s]]
    OBVIOUS
  <2>9. ASSUME NEW s \in SUBSET (1 .. n)
        PROVE  g[s] = IF s = {} THEN NoLineRead ELSE AfterLine(g[s \ {Max(s)}], lines[Max(s)])
    <3>1. CASE n \in s
      <4>1. Max(s) = n
        BY <2>2, <3>1, MaxIs
      <4>2. s \ {n} \in SUBSET (1 .. n) /\ n \notin s \ {n}
        OBVIOUS
      <4>3. g[s \ {n}] = f[s \ {n}] /\ g[s] = AfterLine(f[s \ {n}], lines[n])
        BY <2>8, <3>1, <4>2
      <4> QED
        BY <3>1, <4>1, <4>3
    <3>2. CASE n \notin s
      <4>1. s \in SUBSET (1 .. n - 1)
        BY <2>2, <3>2
      <4>2. g[s] = f[s] /\ g[s \ {Max(s)}] = f[s \ {Max(s)}]
        BY <2>8, <3>2
      <4> QED
        BY <2>7, <4>1, <4>2
    <3> QED
      BY <3>1, <3>2
  <2>10. IsFold(g, n, lines)
    BY <2>8, <2>9 DEF IsFold
  <2> QED
    BY <2>2, <2>10
<1>2. N \notin None
  BY <1>1
<1> QED
  BY <1>2

\* r[k] is what was read after k lines (config.cc:38-44).
Reads(r, lines) ==
    /\ r[0] = NoLineRead
    /\ \A k \in 1 .. Len(lines) : r[k] = AfterLine(r[k - 1], lines[k])

\* Parse reads one line after the other.
LEMMA ParseReads ==
  ASSUME NEW lines, IsList(lines)
  PROVE  \E r : Reads(r, lines) /\ Parse(lines) = r[Len(lines)].map
<1>1. PICK n \in Nat : n = Len(lines) /\ DOMAIN lines = 1 .. n
  BY ListProperties
<1> DEFINE Fold(it) == IsFold(it, n, lines)
<1>2. Parse(lines) = (CHOOSE it : Fold(it))[1 .. n].map
  BY <1>1 DEF Parse, FoldLeft, MapThenFoldSet, IsFold, AfterLine, NoLineRead
<1>3. PICK f : f = CHOOSE it : Fold(it)
  OBVIOUS
<1>4. IsFold(f, n, lines)
  <2>1. \E it : Fold(it)
    BY FoldExists
  <2>2. Fold(f)
    <3> HIDE DEF Fold
    <3> QED
      BY <1>3, <2>1
  <2> QED
    BY <2>2
<1>5. PICK r : r = [k \in 0 .. n |-> f[1 .. k]]
  OBVIOUS
<1>6. r[0] = NoLineRead
  <2>1. 1 .. 0 = {} /\ {} \in SUBSET (1 .. n) /\ 0 \in 0 .. n
    OBVIOUS
  <2>2. f[{}] = NoLineRead
    BY <1>4, <2>1 DEF IsFold
  <2> QED
    BY <1>5, <2>1, <2>2
<1>7. ASSUME NEW k \in 1 .. n PROVE r[k] = AfterLine(r[k - 1], lines[k])
  <2>1. Max(1 .. k) = k
    <3>1. 1 .. k \in SUBSET Int /\ k \in 1 .. k /\ \A x \in 1 .. k : x <= k
      OBVIOUS
    <3> QED
      BY <3>1, MaxIs
  <2>2. (1 .. k) \ {k} = 1 .. k - 1 /\ 1 .. k \in SUBSET (1 .. n) /\ 1 .. k # {}
    OBVIOUS
  <2>3. f[1 .. k] = AfterLine(f[1 .. k - 1], lines[k])
    BY <1>4, <2>1, <2>2 DEF IsFold
  <2> QED
    BY <1>5, <2>3
<1>8. r[n].map = Parse(lines)
  BY <1>2, <1>3, <1>5
<1> QED
  BY <1>1, <1>6, <1>7, <1>8 DEF Reads

\* The lines up to n that are about a key.
LinesOf(lines, key, n) == {i \in 1 .. n : lines[i].key = key}

\* After n lines: the map has the last value of each key, and what was read last.
MapOf(read, lines, n) ==
    /\ n # 0 => read.key \in DOMAIN read.map /\ read.map[read.key] = read.value
    /\ n = 0 => read = NoLineRead
    /\ \A key : key # NoWord =>
           /\ key \in DOMAIN read.map <=> LinesOf(lines, key, n) # {}
           /\ key \in DOMAIN read.map =>
                  read.map[key] = lines[Max(LinesOf(lines, key, n))].value

\* What is known after one more line.
LEMMA AfterLineWhat ==
  ASSUME NEW read, NEW line
  PROVE  \E key, value, new :
             /\ key = IF line.key = NoWord THEN read.key ELSE line.key
             /\ value = IF line.value = NoWord THEN read.value ELSE line.value
             /\ new = AfterLine(read, line)
             /\ new.key = key /\ new.value = value
             /\ DOMAIN new.map = {key} \cup DOMAIN read.map
             /\ new.map[key] = value
             /\ \A x \in DOMAIN read.map : x # key => new.map[x] = read.map[x]
<1>1. PICK key : key = IF line.key = NoWord THEN read.key ELSE line.key
  OBVIOUS
<1>2. PICK value : value = IF line.value = NoWord THEN read.value ELSE line.value
  OBVIOUS
<1>3. AfterLine(read, line) = [key |-> key, value |-> value, map |-> Put(read.map, key, value)]
  BY <1>1, <1>2 DEF AfterLine
<1>4. PICK old, map : old = read.map /\ map = Put(old, key, value)
  OBVIOUS
<1>5. /\ DOMAIN map = {key} \cup DOMAIN old
      /\ map[key] = value
      /\ \A x \in DOMAIN old : x # key => map[x] = old[x]
  BY <1>4 DEF Put
<1>6. PICK new : new = [key |-> key, value |-> value, map |-> map]
  OBVIOUS
<1>7. new = AfterLine(read, line)
  BY <1>3, <1>4, <1>6
<1>8. new.key = key /\ new.value = value /\ new.map = map
  BY <1>6
<1> QED
  BY <1>1, <1>2, <1>4, <1>5, <1>7, <1>8

\* One more line, when no line with a key misses its value and none has a value alone.
LEMMA LineKeepsMap ==
  ASSUME NEW lines, NEW n \in Nat \ {0}, NEW read, NEW line, line = lines[n],
         MapOf(read, lines, n - 1),
         line.key = NoWord <=> line.value = NoWord
  PROVE  MapOf(AfterLine(read, line), lines, n)
<1>1. PICK key, value, new :
          /\ key = IF line.key = NoWord THEN read.key ELSE line.key
          /\ value = IF line.value = NoWord THEN read.value ELSE line.value
          /\ new = AfterLine(read, line)
          /\ new.key = key /\ new.value = value
          /\ DOMAIN new.map = {key} \cup DOMAIN read.map
          /\ new.map[key] = value
          /\ \A x \in DOMAIN read.map : x # key => new.map[x] = read.map[x]
  BY AfterLineWhat
<1>2. ASSUME NEW k, line.key # k
      PROVE  LinesOf(lines, k, n) = LinesOf(lines, k, n - 1)
  <2>1. \A i \in Int : i \in 1 .. n <=> i \in 1 .. n - 1 \/ i = n
    OBVIOUS
  <2> QED
    BY <1>2, <2>1 DEF LinesOf
<1>3. ASSUME NEW k, k # NoWord
      PROVE  /\ k \in DOMAIN new.map <=> LinesOf(lines, k, n) # {}
             /\ k \in DOMAIN new.map =>
                    new.map[k] = lines[Max(LinesOf(lines, k, n))].value
  <2>1. /\ k \in DOMAIN read.map <=> LinesOf(lines, k, n - 1) # {}
        /\ k \in DOMAIN read.map => read.map[k] = lines[Max(LinesOf(lines, k, n - 1))].value
    BY <1>3 DEF MapOf
  <2>2. CASE k = line.key
    <3>1. n \in LinesOf(lines, k, n)
      BY <2>2 DEF LinesOf
    <3>2. Max(LinesOf(lines, k, n)) = n
      <4>1. LinesOf(lines, k, n) \in SUBSET Int /\ \A i \in LinesOf(lines, k, n) : i <= n
        BY DEF LinesOf
      <4> QED
        BY <3>1, <4>1, MaxIs
    <3>3. key = k /\ value = line.value
      BY <1>1, <1>3, <2>2
    <3> QED
      BY <1>1, <3>1, <3>2, <3>3
  <2>3. CASE k # line.key
    <3>1. LinesOf(lines, k, n) = LinesOf(lines, k, n - 1)
      BY <1>2, <2>3
    <3>2. (k \in DOMAIN new.map <=> k \in DOMAIN read.map)
          /\ (k \in DOMAIN new.map => new.map[k] = read.map[k])
      <4>1. CASE k # key
        BY <1>1, <4>1
      <4>2. CASE k = key
        <5>1. line.key = NoWord /\ key = read.key /\ value = read.value
          BY <1>1, <2>3, <4>2
        <5>2. n - 1 # 0
          BY <1>3, <4>2, <5>1 DEF MapOf, NoLineRead
        <5>3. read.key \in DOMAIN read.map /\ read.map[read.key] = read.value
          BY <5>2 DEF MapOf
        <5> QED
          BY <1>1, <4>2, <5>1, <5>3
      <4> QED
        BY <4>1, <4>2
    <3> QED
      BY <2>1, <3>1, <3>2
  <2> QED
    BY <2>2, <2>3
<1>4. MapOf(new, lines, n)
  BY <1>1, <1>3 DEF MapOf
<1> QED
  BY <1>1, <1>4

\* No line of the file has a value alone, and those with a key have one.
AllWords(lines) == \A i \in DOMAIN lines : lines[i].key = NoWord <=> lines[i].value = NoWord

\* The map of such a file has the last value of each key, and no key without a line.
LEMMA ParseKeepsLast ==
  ASSUME NEW lines, IsList(lines), AllWords(lines), NEW key, key # NoWord
  PROVE  LET of == {i \in DOMAIN lines : lines[i].key = key}
         IN  /\ key \in DOMAIN Parse(lines) <=> of # {}
             /\ key \in DOMAIN Parse(lines) => Parse(lines)[key] = lines[Max(of)].value
<1>1. PICK n \in Nat : n = Len(lines) /\ DOMAIN lines = 1 .. n
  BY ListProperties
<1>2. PICK r : Reads(r, lines) /\ Parse(lines) = r[n].map
  BY <1>1, ParseReads
<1> DEFINE Bad == {k \in 0 .. n : ~MapOf(r[k], lines, k)}
<1>3. Bad = {}
  <2> SUFFICES ASSUME NEW x \in Bad PROVE FALSE
    OBVIOUS
  <2>1. PICK k \in Bad : \A m \in Bad : k <= m
    <3>1. Bad \in SUBSET Nat
      OBVIOUS
    <3> HIDE DEF Bad
    <3> QED
      BY <3>1, LeastNumber
  <2>2. CASE k = 0
    <3>1. r[0] = NoLineRead
      BY <1>2 DEF Reads
    <3>2. DOMAIN NoLineRead.map = {} /\ \A x_1 : LinesOf(lines, x_1, 0) = {}
      BY DEF NoLineRead, LinesOf
    <3>3. MapOf(NoLineRead, lines, 0)
      BY <3>2 DEF MapOf
    <3> QED
      BY <2>2, <3>1, <3>3
  <2>3. CASE k # 0
    <3>1. k \in 1 .. n /\ k - 1 \in 0 .. n /\ k - 1 \notin Bad
      BY <2>1, <2>3
    <3>2. MapOf(r[k - 1], lines, k - 1)
      BY <3>1
    <3>3. lines[k].key = NoWord <=> lines[k].value = NoWord
      BY <1>1, <3>1 DEF AllWords
    <3>4. r[k] = AfterLine(r[k - 1], lines[k])
      BY <1>1, <1>2, <3>1 DEF Reads
    <3>5. MapOf(AfterLine(r[k - 1], lines[k]), lines, k)
      BY <3>1, <3>2, <3>3, LineKeepsMap
    <3> QED
      BY <3>4, <3>5
  <2> QED
    BY <2>2, <2>3
<1>4. MapOf(r[n], lines, n)
  BY <1>3
<1>5. LinesOf(lines, key, n) = {i \in DOMAIN lines : lines[i].key = key}
  BY <1>1 DEF LinesOf
<1> QED
  BY <1>2, <1>4, <1>5 DEF MapOf

\* Values of the map are words.
LEMMA ParseValues ==
  ASSUME NEW lines, IsList(lines), \A i \in DOMAIN lines : lines[i].value \in Values
  PROVE  \A key \in DOMAIN Parse(lines) : Parse(lines)[key] \in Values
<1>1. PICK n \in Nat : n = Len(lines) /\ DOMAIN lines = 1 .. n
  BY ListProperties
<1>2. PICK r : Reads(r, lines) /\ Parse(lines) = r[n].map
  BY <1>1, ParseReads
<1> DEFINE Words(read) == read.value \in Values /\ \A key \in DOMAIN read.map : read.map[key] \in Values
           Bad == {k \in 0 .. n : ~Words(r[k])}
<1>3. Bad = {}
  <2> SUFFICES ASSUME NEW x \in Bad PROVE FALSE
    OBVIOUS
  <2>1. PICK k \in Bad : \A m \in Bad : k <= m
    <3>1. Bad \in SUBSET Nat
      OBVIOUS
    <3> HIDE DEF Bad
    <3> QED
      BY <3>1, LeastNumber
  <2>2. CASE k = 0
    <3>1. r[0] = NoLineRead
      BY <1>2 DEF Reads
    <3>2. DOMAIN NoLineRead.map = {} /\ NoLineRead.value \in Values
      BY StartupAssumption DEF NoLineRead
    <3> QED
      BY <2>2, <3>1, <3>2
  <2>3. CASE k # 0
    <3>1. k \in 1 .. n /\ k - 1 \in 0 .. n /\ k - 1 \notin Bad
      BY <2>1, <2>3
    <3>2. r[k] = AfterLine(r[k - 1], lines[k]) /\ lines[k].value \in Values
      BY <1>1, <1>2, <3>1 DEF Reads
    <3>3. Words(r[k - 1])
      BY <3>1
    <3>4. PICK key, value, new :
              /\ key = IF lines[k].key = NoWord THEN r[k - 1].key ELSE lines[k].key
              /\ value = IF lines[k].value = NoWord THEN r[k - 1].value ELSE lines[k].value
              /\ new = AfterLine(r[k - 1], lines[k])
              /\ new.key = key /\ new.value = value
              /\ DOMAIN new.map = {key} \cup DOMAIN r[k - 1].map
              /\ new.map[key] = value
              /\ \A y \in DOMAIN r[k - 1].map : y # key => new.map[y] = r[k - 1].map[y]
      BY AfterLineWhat
    <3>5. value \in Values
      BY <3>2, <3>3, <3>4
    <3>6. Words(new)
      BY <3>3, <3>4, <3>5
    <3>7. Words(r[k])
      BY <3>2, <3>4, <3>6
    <3> QED
      BY <3>7
  <2> QED
    BY <2>2, <2>3
<1>4. Words(r[n])
  BY <1>3
<1> QED
  BY <1>2, <1>4

\* The range of a short.
LEMMA ShortRange ==
  SHRT_MIN \in Int /\ SHRT_MAX \in Int /\ SHRT_MIN < -1 /\ SHRT_MAX > 2 /\ SHRT_MAX < 65536
BY DEF SHRT_MIN, SHRT_MAX

\* A number is put into a short's range, and stays as it is if it was there.
LEMMA NearestShort ==
  ASSUME NEW n \in Int
  PROVE  \E k \in Short : /\ k = Max({SHRT_MIN, Min({SHRT_MAX, n})})
                          /\ n \in Short => k = n
<1>1. PICK m \in Int : m = (IF n < SHRT_MAX THEN n ELSE SHRT_MAX)
  BY ShortRange
<1>2. Min({SHRT_MAX, n}) = m
  <2>1. \A x \in {SHRT_MAX, n} : (\A y \in {SHRT_MAX, n} : x =< y) <=> x = m
    BY <1>1, ShortRange
  <2> QED
    BY <1>1, <2>1 DEF Min
<1>3. PICK k \in Int : k = (IF m > SHRT_MIN THEN m ELSE SHRT_MIN)
  BY ShortRange
<1>4. Max({SHRT_MIN, m}) = k
  <2>1. {SHRT_MIN, m} \in SUBSET Int /\ k \in {SHRT_MIN, m} /\ \A x \in {SHRT_MIN, m} : x <= k
    BY <1>3, ShortRange
  <2> QED
    BY <2>1, MaxIs
<1>5. Max({SHRT_MIN, Min({SHRT_MAX, n})}) = k
  BY <1>2, <1>4
<1>6. k \in Short /\ (n \in Short => k = n)
  BY <1>1, <1>3, ShortRange DEF Short
<1> QED
  BY <1>5, <1>6

-----------------------------------------------------------------------------
(* From the file to the Processors *)

\* The words main looks for are words.
LEMMA KeysAreWords ==
  NoWord # "log" /\ NoWord # "logLevel" /\ NoWord # "port" /\ NoWord # "processorCount"
BY Zenon DEF NoWord

\* A file is a list of lines.
LEMMA FileLines ==
  ASSUME NEW lines \in Files
  PROVE  /\ IsList(lines)
         /\ \A i \in DOMAIN lines : lines[i].value \in Values
         /\ \A i \in DOMAIN lines : lines[i].key = NoWord => lines[i].value = NoWord
<1>1. lines \in Seq([key : STRING, value : Values])
  BY StartupAssumption
<1>2. \A i \in DOMAIN lines : lines[i] \in [key : STRING, value : Values]
  BY <1>1, LenProperties
<1> QED
  BY <1>1, <1>2, StartupAssumption DEF IsList

\* What GetValue answers for a number is one, whatever the file says.
LEMMA ShortsAreShort ==
  ASSUME file \in Files, mConfigMap = Parse(file), NEW key
  PROVE  GetShort(key) \subseteq Short
<1>1. -1 \in Short
  BY ShortRange DEF Short
<1>2. CASE key \in DOMAIN mConfigMap
  <2>1. PICK value \in Values : value = mConfigMap[key]
    BY <1>2, FileLines, ParseValues
  <2>2. Num[value] \in Int /\ Garbage \subseteq Short
    BY StartupAssumption
  <2>3. Str2Num(value) \subseteq Short
    BY <2>2, NearestShort DEF Str2Num
  <2> QED
    BY <1>2, <2>1, <2>3 DEF GetShort
<1>3. CASE key \notin DOMAIN mConfigMap
  BY <1>1, <1>3 DEF GetShort
<1> QED
  BY <1>2, <1>3

\* Numbers that are bounded have a greatest.
LEMMA BoundedMax ==
  ASSUME NEW S \in SUBSET Int, S # {}, NEW n \in Nat, \A i \in S : i <= n
  PROVE  Max(S) \in S
<1> DEFINE Above == {n - i : i \in S}
<1>1. \A i \in S : i \in Int /\ n - i \in Nat
  OBVIOUS
<1>2. Above \in SUBSET Nat
  BY <1>1
<1>3. Above # {}
  OBVIOUS
<1>4. \A i \in S : n - i \in Above
  OBVIOUS
<1>5. \A d \in Above : \E i \in S : d = n - i
  OBVIOUS
<1> HIDE DEF Above
<1>6. PICK least \in Above : \A d \in Above : least <= d
  BY <1>2, <1>3, LeastNumber
<1>7. PICK m \in S : least = n - m
  BY <1>5
<1>8. \A x \in S : x <= m
  <2> SUFFICES ASSUME NEW x \in S PROVE x <= m
    OBVIOUS
  <2>1. least <= n - x
    BY <1>4, <1>6
  <2> QED
    BY <1>1, <1>7, <2>1
<1> QED
  BY <1>8, MaxIs

\* Of a sound file GetValue answers what it says last.
LEMMA SoundFileSays ==
  ASSUME Sound, file \in Files, mConfigMap = Parse(file), NEW key, key # NoWord
  PROVE  /\ GetValue(key) = Says(key)
         /\ key \in DOMAIN mConfigMap <=> Says(key) # NoWord
         /\ Says(key) \in Values
<1> DEFINE about == {i \in DOMAIN file : file[i].key = key}
<1>1. AllWords(file)
  BY FileLines DEF Sound, AllWords
<1>2. /\ key \in DOMAIN mConfigMap <=> about # {}
      /\ key \in DOMAIN mConfigMap => mConfigMap[key] = file[Max(about)].value
  BY <1>1, FileLines, ParseKeepsLast
<1>3. Says(key) = IF about = {} THEN NoWord ELSE file[Max(about)].value
  BY DEF Says
<1>4. about # {} => Max(about) \in about
  <2>1. PICK n \in Nat : n = Len(file) /\ DOMAIN file = 1 .. n
    BY FileLines, ListProperties
  <2>2. about \in SUBSET Int /\ \A i \in about : i <= n
    BY <2>1
  <2> HIDE DEF about
  <2> QED
    BY <2>2, BoundedMax
<1> HIDE DEF about
<1>5. about # {} => Says(key) # NoWord /\ Says(key) \in Values
  <2>1. \A i \in about : i \in DOMAIN file /\ file[i].key = key
    BY DEF about
  <2> QED
    BY <1>1, <1>3, <1>4, <2>1, FileLines DEF AllWords
<1> QED
  BY <1>2, <1>3, <1>5, StartupAssumption DEF GetValue

\* And of a number, the number.
LEMMA SoundFileNumbers ==
  ASSUME Sound, file \in Files, mConfigMap = Parse(file), NEW key \in {"port", "processorCount"}
  PROVE  /\ GetShort(key) = IF Says(key) = NoWord THEN {-1} ELSE {Num[Says(key)]}
         /\ Says(key) # NoWord => Num[Says(key)] \in 1 .. SHRT_MAX
<1>1. /\ GetValue(key) = Says(key)
      /\ key \in DOMAIN mConfigMap <=> Says(key) # NoWord
      /\ Says(key) \in Values
  BY KeysAreWords, SoundFileSays
<1>2. Says(key) # NoWord => Num[Says(key)] \in 1 .. SHRT_MAX
  BY DEF Sound
<1>3. CASE Says(key) = NoWord
  BY <1>1, <1>3 DEF GetShort
<1>4. CASE Says(key) # NoWord
  <2>1. PICK n \in Int : n = Num[Says(key)] /\ n \in Short
    BY <1>2, <1>4, ShortRange DEF Short
  <2>2. Str2Num(Says(key)) = {n}
    BY <1>4, <2>1, NearestShort DEF Str2Num
  <2>3. mConfigMap[key] = Says(key)
    BY <1>1, <1>4 DEF GetValue
  <2> QED
    BY <1>1, <1>2, <1>4, <2>1, <2>2, <2>3 DEF GetShort
<1> QED
  BY <1>3, <1>4

Early == {"config", "init", "exited", "aborted"}
Creating == {"create", "thread", "loop"}
Refusals == {"listen", "epoll", "thread"}
Ports == 0 .. USHRT_MAX

\* The types BindInv says nothing of.
RestTypes ==
    /\ file \in Files
    /\ pc \in Early \cup Creating
    /\ level \in Levels \cup {"DEBUG"}
    /\ mPort \in Short /\ mProcessorCount \in Short
    /\ listener \in Seq(Ports)
    /\ watched \in Seq(BOOLEAN) /\ Len(watched) = Len(listener)
    /\ mMutex \in BOOLEAN
    /\ failed \subseteq Processors \X Refusals

\* What MyServer asks for is what Config keeps of the file.
AsksFor ==
    /\ GetValue("log") # NoWord
    /\ mPort \in GetShort("port") \ {-1}
    /\ level = IF GetValue("logLevel") \in Levels THEN GetValue("logLevel") ELSE "DEBUG"
    /\ \E count \in GetShort("processorCount") :
           mProcessorCount = IF count = -1 THEN 2 ELSE count

Configured ==
    /\ pc # "config" => mConfigMap = Parse(file)
    /\ pc \in Creating \cup {"aborted"} => AsksFor
    /\ pc = "aborted" => mProcessorCount < 0
    /\ pc = "exited" => GetValue("log") = NoWord \/ -1 \in GetShort("port")

\* So many Processors are constructed.
CountedUp ==
    /\ pc \in Early => Len(listener) = 0
    /\ pc \in Creating => Len(listener) <= mProcessorCount
    /\ pc = "loop" => Len(listener) = mProcessorCount

\* Each has what it asks for, or was refused it.
HasOrRefused(p) ==
    /\ listener[p] = GetPort \/ <<p, "listen">> \in failed
    /\ watched[p] \/ GetPort = 0 \/ <<p, "listen">> \in failed \/ <<p, "epoll">> \in failed
    /\ \/ thread[p] # "none"
       \/ <<p, "thread">> \in failed
       \/ pc = "thread" /\ p = Len(listener)

StartInv ==
    /\ RestTypes
    /\ Configured
    /\ CountedUp
    /\ \A p \in Processors : HasOrRefused(p)

\* The port is one.
LEMMA PortIsPort ==
  ASSUME mPort \in Short
  PROVE  GetPort \in Ports
<1>1. PICK n \in Int : n = mPort
  BY ShortRange DEF Short
<1>2. PICK m \in Int : m = n % (USHRT_MAX + 1) /\ 0 <= m /\ m <= USHRT_MAX
  BY DEF USHRT_MAX
<1>3. GetPort = m
  BY <1>1, <1>2 DEF GetPort
<1>4. USHRT_MAX \in Int
  BY DEF USHRT_MAX
<1>5. m \in Ports
  BY <1>2, <1>4 DEF Ports
<1> QED
  BY <1>3, <1>5

\* Nothing is configured yet.
LEMMA InitStart == Init => StartInv
<1> SUFFICES ASSUME Init PROVE StartInv
  OBVIOUS
<1>1. /\ file \in Files /\ level = "DEBUG" /\ mPort = -1 /\ mProcessorCount = -1
      /\ pc = "config" /\ listener = <<>> /\ watched = <<>> /\ failed = {} /\ mMutex = FALSE
  BY DEF Init
<1>2. Len(listener) = 0 /\ Processors = {}
  BY <1>1 DEF Processors
<1>3. RestTypes
  <2>1. -1 \in Short
    BY ShortRange DEF Short
  <2>2. listener \in Seq(Ports) /\ watched \in Seq(BOOLEAN)
    BY <1>1, EmptySeq
  <2> QED
    BY <1>1, <2>1, <2>2 DEF RestTypes, Early
<1>4. Configured /\ CountedUp
  BY <1>1, <1>2 DEF Configured, CountedUp, Creating
<1> QED
  BY <1>2, <1>3, <1>4 DEF StartInv

\* Main reads the file, and what it asks for, or stops (myserver.cc:27-81).
LEMMA ConfigKeeps ==
  ASSUME BindInv, StartInv, InitConfig \/ NoLog \/ NoPort \/ Starts
  PROVE  StartInv'
<1>1. /\ UNCHANGED <<file, listener, watched, thread, failed, mMutex>>
      /\ pc \in {"config", "init"} /\ Len(listener) = 0
  BY DEF InitConfig, NoLog, NoPort, Exits, Starts, processorVars, cpuVars, configVars, StartInv,
         CountedUp, Early
<1>2. Processors' = Processors /\ Processors = {}
  BY <1>1, ListsMatch DEF BindInv, Processors
<1>3. CASE InitConfig
  <2>1. /\ mConfigMap' = Parse(file) /\ pc' = "init"
        /\ UNCHANGED <<level, mPort, mProcessorCount>>
    BY <1>3 DEF InitConfig, serverVars
  <2>2. RestTypes'
    BY <1>1, <1>2, <2>1 DEF StartInv, RestTypes, Early
  <2>3. Configured' /\ CountedUp'
    BY <1>1, <2>1 DEF Configured, CountedUp, Creating
  <2> QED
    BY <1>2, <2>2, <2>3 DEF StartInv
<1>4. SetLevel => level' \in Levels \cup {"DEBUG"}
  BY DEF SetLevel
<1>5. CASE NoLog \/ NoPort
  <2>1. /\ pc = "init" /\ pc' = "exited" /\ UNCHANGED <<mConfigMap, mPort, mProcessorCount>>
        /\ level' = level \/ SetLevel
        /\ GetValue("log") = NoWord \/ -1 \in GetShort("port")
    BY <1>5 DEF NoLog, NoPort, Exits, serverVars, configVars
  <2>2. RestTypes'
    BY <1>1, <1>2, <1>4, <2>1 DEF StartInv, RestTypes, Early
  <2>3. Configured' /\ CountedUp'
    BY <1>1, <2>1
    DEF StartInv, Configured, CountedUp, Creating, GetValue, GetShort, Str2Num
  <2> QED
    BY <1>2, <2>2, <2>3 DEF StartInv
<1>6. CASE Starts
  <2>1. /\ pc = "init" /\ UNCHANGED mConfigMap
        /\ GetValue("log") # NoWord
        /\ mPort' \in GetShort("port") \ {-1}
        /\ SetLevel
        /\ pc' = IF mProcessorCount' < 0 THEN "aborted" ELSE "create"
    BY <1>6 DEF Starts, configVars
  <2>2. PICK count \in GetShort("processorCount") :
            mProcessorCount' = IF count = -1 THEN 2 ELSE count
    BY <1>6 DEF Starts
  <2>3. mConfigMap = Parse(file) /\ file \in Files
    BY <2>1 DEF StartInv, Configured, RestTypes
  <2>4. mPort' \in Short /\ mProcessorCount' \in Short
    <3>1. count \in Short /\ mPort' \in Short
      BY <2>1, <2>2, <2>3, ShortsAreShort
    <3>2. 2 \in Short
      BY ShortRange DEF Short
    <3> QED
      BY <2>2, <3>1, <3>2
  <2>5. RestTypes'
    BY <1>1, <1>2, <1>4, <2>1, <2>4 DEF StartInv, RestTypes, Early, Creating
  <2>6. AsksFor'
    <3>1. /\ GetValue("log")' = GetValue("log") /\ GetValue("logLevel")' = GetValue("logLevel")
          /\ GetShort("port")' = GetShort("port")
          /\ GetShort("processorCount")' = GetShort("processorCount")
      BY <2>1 DEF GetValue, GetShort, Str2Num
    <3> QED
      BY <2>1, <2>2, <3>1 DEF AsksFor, SetLevel
  <2>7. Configured' /\ CountedUp'
    <3>1. PICK n \in Int : n = mProcessorCount'
      BY <2>4, ShortRange DEF Short
    <3> QED
      BY <1>1, <2>1, <2>3, <2>6, <3>1 DEF Configured, CountedUp, Creating, Early
  <2> QED
    BY <1>2, <2>5, <2>7 DEF StartInv
<1> QED
  BY <1>3, <1>5, <1>6

\* What was asked for stays so while the Processors are made.
LEMMA SameConfiguration ==
  ASSUME Configured, UNCHANGED <<file, mConfigMap, level, mPort, mProcessorCount>>,
         \/ pc' = pc
         \/ pc \in Creating /\ pc' \in Creating
  PROVE  Configured'
<1>1. /\ \A key : GetValue(key)' = GetValue(key)
      /\ \A key : GetShort(key)' = GetShort(key)
  BY DEF GetValue, GetShort, Str2Num
<1>2. AsksFor' <=> AsksFor
  BY <1>1 DEF AsksFor
<1>3. CASE pc' = pc
  BY <1>1, <1>2, <1>3 DEF Configured
<1>4. CASE pc \in Creating /\ pc' \in Creating
  BY <1>2, <1>4 DEF Configured, Creating
<1> QED
  BY <1>3, <1>4

\* One more Processor is constructed, with what it asks for or without
\* (processorManager.cc:8-14, acceptor.cc:37-53).
LEMMA OneMoreStarts ==
  ASSUME BindInv, StartInv,
         NEW port \in Ports, NEW isWatched \in BOOLEAN, NEW fails \in SUBSET Refusals,
         Construct(port, isWatched, fails),
         port = GetPort \/ "listen" \in fails,
         isWatched \/ GetPort = 0 \/ "listen" \in fails \/ "epoll" \in fails
  PROVE  StartInv'
<1> DEFINE n == Len(listener)
<1>2. /\ pc = "create" /\ n < mProcessorCount /\ pc' = "thread"
      /\ listener' = Append(listener, port) /\ watched' = Append(watched, isWatched)
      /\ failed' = failed \cup ({n + 1} \X fails)
      /\ thread' = Append(thread, "none")
      /\ UNCHANGED <<file, mConfigMap, level, mPort, mProcessorCount, mMutex>>
  BY DEF Construct, More, configVars, serverVars
<1>3. /\ n \in Nat /\ Processors = 1 .. n
      /\ thread \in Seq(ThreadSteps) /\ Len(thread) = n
      /\ listener \in Seq(Ports) /\ watched \in Seq(BOOLEAN) /\ Len(watched) = n
      /\ file \in Files /\ failed \subseteq Processors \X Refusals
  BY ListsMatch DEF BindInv, Types, StartInv, RestTypes
<1>4. /\ listener' \in Seq(Ports) /\ Len(listener') = n + 1
      /\ listener'[n + 1] = port /\ \A p \in 1 .. n : listener'[p] = listener[p]
  BY <1>2, <1>3, AppendProperties
<1>5. /\ watched' \in Seq(BOOLEAN) /\ Len(watched') = n + 1
      /\ watched'[n + 1] = isWatched /\ \A p \in 1 .. n : watched'[p] = watched[p]
  BY <1>2, <1>3, AppendProperties
<1>6. /\ thread'[n + 1] = "none" /\ \A p \in 1 .. n : thread'[p] = thread[p]
  <2>1. "none" \in ThreadSteps
    BY DEF ThreadSteps
  <2> QED
    BY <1>2, <1>3, <2>1, AppendProperties
<1>7. Processors' = 1 .. n + 1
  BY <1>3, <1>4, LenProperties DEF Processors
<1>8. \A p \in Processors' : p \in Processors \/ p = n + 1
  BY <1>3, <1>7
<1> HIDE DEF n
<1>9. failed' \subseteq Processors' \X Refusals
  BY <1>2, <1>3, <1>7
<1>10. RestTypes'
  BY <1>2, <1>3, <1>4, <1>5, <1>9 DEF StartInv, RestTypes, Creating
<1>11. Configured'
  BY <1>2, SameConfiguration DEF StartInv, Creating
<1>12. CountedUp'
  <2>1. PICK count \in Int : count = mProcessorCount
    BY ShortRange DEF StartInv, RestTypes, Short
  <2> QED
    BY <1>2, <1>3, <1>4, <2>1 DEF CountedUp, Early, Creating
<1>13. ASSUME NEW p \in Processors' PROVE HasOrRefused(p)'
  <2>1. GetPort' = GetPort
    BY <1>2 DEF GetPort
  <2>2. CASE p \in Processors
    <3>1. HasOrRefused(p)
      BY <2>2 DEF StartInv
    <3>2. /\ listener'[p] = listener[p] /\ watched'[p] = watched[p] /\ thread'[p] = thread[p]
          /\ \A what : <<p, what>> \in failed => <<p, what>> \in failed'
      BY <1>2, <1>3, <1>4, <1>5, <1>6, <2>2
    <3> QED
      BY <1>2, <2>1, <3>1, <3>2 DEF HasOrRefused
  <2>3. CASE p = n + 1
    <3>1. \A what \in fails : <<p, what>> \in failed'
      BY <1>2, <2>3
    <3> QED
      BY <1>2, <1>4, <1>5, <2>1, <2>3, <3>1 DEF HasOrRefused
  <2> QED
    BY <1>8, <2>2, <2>3
<1> QED
  BY <1>10, <1>11, <1>12, <1>13 DEF StartInv

LEMMA ConstructStarts ==
  ASSUME BindInv, StartInv, ConstructProcessor
  PROVE  StartInv'
<1>1. GetPort \in Ports /\ 0 \in Ports
  <2>1. mPort \in Short
    BY DEF StartInv, RestTypes
  <2>2. 0 \in Ports
    BY DEF Ports, USHRT_MAX
  <2> QED
    BY <2>1, <2>2, PortIsPort
<1>2. CASE Construct(GetPort, GetPort # 0, {})
  <2>1. {} \in SUBSET Refusals /\ (GetPort # 0) \in BOOLEAN
    OBVIOUS
  <2> QED
    BY <1>1, <1>2, <2>1, OneMoreStarts
<1>3. CASE WatchFails
  <2>1. {"epoll"} \in SUBSET Refusals
    BY DEF Refusals
  <2> QED
    BY <1>1, <1>3, <2>1, OneMoreStarts DEF WatchFails
<1>4. CASE ListenFails
  <2>1. {"listen"} \in SUBSET Refusals
    BY DEF Refusals
  <2> QED
    BY <1>1, <1>4, <2>1, OneMoreStarts DEF ListenFails
<1> QED
  BY <1>2, <1>3, <1>4 DEF ConstructProcessor

\* Its thread is started, or refused (processorManager.cc:15-17).
LEMMA ThreadStarts ==
  ASSUME BindInv, StartInv, Start
  PROVE  StartInv'
<1>1. PICK result, fails :
          /\ StartThread(result, fails)
          /\ fails \subseteq Refusals
          /\ result # "none" \/ "thread" \in fails
  BY DEF Start, Refusals
<1> DEFINE n == Len(listener)
<1>2. /\ Len(thread) = n /\ n \in Nat /\ Processors = 1 .. n /\ DOMAIN thread = Processors
      /\ failed \subseteq Processors \X Refusals
  BY ListsMatch DEF BindInv, Types, StartInv, RestTypes
<1> HIDE DEF n
<1>3. /\ pc = "thread" /\ pc' = "create"
      /\ thread' = [thread EXCEPT ![n] = result]
      /\ failed' = failed \cup ({n} \X fails)
      /\ UNCHANGED <<file, mConfigMap, level, mPort, mProcessorCount, listener, watched, mMutex>>
  BY <1>1, <1>2 DEF StartThread, configVars, serverVars, cpuVars
<1>4. n \in Processors
  BY <1>2, <1>3 DEF BindInv, LastNotStarted
<1>5. Processors' = Processors /\ Len(listener)' = n
  BY <1>3 DEF Processors, n
<1>6. failed' \subseteq Processors' \X Refusals
  BY <1>1, <1>2, <1>3, <1>4, <1>5
<1>7. RestTypes'
  BY <1>3, <1>6 DEF StartInv, RestTypes, Creating
<1>8. Configured' /\ CountedUp'
  <2>1. Configured'
    BY <1>3, SameConfiguration DEF StartInv, Creating
  <2> QED
    BY <1>3, <2>1 DEF StartInv, CountedUp, Early, Creating
<1>9. ASSUME NEW p \in Processors PROVE HasOrRefused(p)'
  <2>1. HasOrRefused(p)
    BY DEF StartInv
  <2>2. GetPort' = GetPort /\ listener'[p] = listener[p] /\ watched'[p] = watched[p]
    BY <1>3 DEF GetPort
  <2>3. \A what : <<p, what>> \in failed => <<p, what>> \in failed'
    BY <1>3
  <2>4. thread'[p] # "none" \/ <<p, "thread">> \in failed'
    <3>1. CASE p = n
      <4>1. thread'[p] = result
        BY <1>2, <1>3, <1>4, <3>1
      <4>2. "thread" \in fails => <<p, "thread">> \in failed'
        BY <1>3, <3>1
      <4> QED
        BY <1>1, <4>1, <4>2
    <3>2. CASE p # n
      <4>1. thread'[p] = thread[p]
        BY <1>2, <1>3, <3>2
      <4>2. p # Len(listener)
        BY <3>2 DEF n
      <4> QED
        BY <2>1, <2>3, <4>1, <4>2 DEF HasOrRefused
    <3> QED
      BY <3>1, <3>2
  <2> QED
    BY <2>1, <2>2, <2>3, <2>4 DEF HasOrRefused
<1> QED
  BY <1>5, <1>7, <1>8, <1>9 DEF StartInv

\* What the other steps leave alone: main in its loop, threads that bind themselves,
\* and steps of nobody.
LEMMA OthersKeep ==
  ASSUME BindInv, StartInv,
         UNCHANGED <<file, mConfigMap, level, mPort, mProcessorCount, listener, watched, failed>>,
         mMutex' \in BOOLEAN,
         pc' = pc \/ (MainLoop /\ UNCHANGED thread),
         \A p \in Processors : thread[p] # "none" => thread'[p] # "none"
  PROVE  StartInv'
<1>1. Processors' = Processors /\ Len(listener') = Len(listener) /\ GetPort' = GetPort
  BY DEF Processors, GetPort
<1>2. pc' = pc \/ (pc = "create" /\ pc' = "loop" /\ ~(Len(listener) < mProcessorCount))
  BY DEF MainLoop, More
<1>3. RestTypes'
  BY <1>1, <1>2 DEF StartInv, RestTypes, Creating
<1>4. Configured'
  BY <1>2, SameConfiguration DEF StartInv, Creating
<1>5. CountedUp'
  <2>1. PICK count \in Int : count = mProcessorCount
    BY ShortRange DEF StartInv, RestTypes, Short
  <2>2. Len(listener) \in Nat
    BY ListsMatch DEF BindInv
  <2> QED
    BY <1>1, <1>2, <2>1, <2>2 DEF StartInv, CountedUp, Early, Creating
<1>6. \A p \in Processors : HasOrRefused(p)'
  BY <1>1, <1>2 DEF StartInv, HasOrRefused
<1> QED
  BY <1>1, <1>3, <1>4, <1>5, <1>6 DEF StartInv

\* The steps together.
LEMMA StepStart == BindInv /\ StartInv /\ [Next]_vars => StartInv'
<1> SUFFICES ASSUME BindInv, StartInv, [Next]_vars PROVE StartInv'
  OBVIOUS
<1>1. mMutex \in BOOLEAN
  BY DEF StartInv, RestTypes
<1>2. CASE MainLoop \/ UNCHANGED vars
  <2>1. UNCHANGED <<file, mConfigMap, level, mPort, mProcessorCount, listener, watched, failed,
                    mMutex, thread>>
    BY <1>2 DEF MainLoop, vars, configVars, serverVars, processorVars, cpuVars
  <2>2. pc' = pc \/ MainLoop
    BY <1>2 DEF vars
  <2> QED
    BY <1>1, <2>1, <2>2, OthersKeep
<1>3. ASSUME NEW p \in Processors, Serves(p) PROVE StartInv'
  <2>1. UNCHANGED <<file, mConfigMap, level, mPort, mProcessorCount, listener, watched, failed, pc>>
    BY <1>3 DEF Serves, LockAndPick, BindAndUnlock, ThreadGoes, configVars, serverVars
  <2>2. mMutex' \in BOOLEAN
    BY <1>3 DEF Serves, LockAndPick, BindAndUnlock
  <2>3. PICK to : thread' = [thread EXCEPT ![p] = to] /\ to # "none"
    BY <1>3 DEF Serves, LockAndPick, BindAndUnlock, ThreadGoes
  <2>4. DOMAIN thread = Processors
    BY ListsMatch DEF BindInv
  <2>5. \A q \in Processors : thread[q] # "none" => thread'[q] # "none"
    BY <2>3, <2>4
  <2> QED
    BY <2>1, <2>2, <2>5, OthersKeep
<1> QED
  BY <1>2, <1>3, ConfigKeeps, ConstructStarts, ThreadStarts DEF Next

\* No more threads are bound than there are Processors.
LEMMA BoundAtMost ==
  ASSUME BindInv, NEW c \in Cpus
  PROVE  mCPUList[c] \in 0 .. Len(listener)
<1>1. Len(listener) \in Nat /\ Processors = 1 .. Len(listener)
  BY ListsMatch DEF BindInv
<1>2. PICK n \in Nat : n = Len(listener)
  BY <1>1
<1>3. IsFiniteSet(1 .. n) /\ Cardinality(1 .. n) = n
  BY FS_Interval
<1> DEFINE bound == {p \in Processors : affinity[p] = c}
<1>4. bound \in SUBSET (1 .. n)
  BY <1>1, <1>2
<1>5. mCPUList[c] = Cardinality(bound)
  BY DEF BindInv, BoundEvenly
<1> HIDE DEF bound
<1>6. Cardinality(bound) <= n /\ Cardinality(bound) \in Nat
  BY <1>3, <1>4, FS_Subset, FS_CardinalityType
<1> QED
  BY <1>2, <1>5, <1>6

\* The types follow; of the counts because no more threads are bound than there are.
LEMMA TypesFollow == BindInv /\ StartInv => TypeOK
<1> SUFFICES ASSUME BindInv, StartInv PROVE TypeOK
  OBVIOUS
<1>1. /\ pc \in Early \cup Creating
      /\ level \in Levels \cup {"DEBUG"}
      /\ mPort \in Short /\ mProcessorCount \in Short
      /\ listener \in Seq(Ports) /\ watched \in Seq(BOOLEAN) /\ Len(watched) = Len(listener)
      /\ mMutex \in BOOLEAN
      /\ failed \subseteq Processors \X Refusals
  BY DEF StartInv, RestTypes
<1>2. /\ Len(listener) \in Nat /\ Processors = 1 .. Len(listener)
      /\ thread \in [Processors -> ThreadSteps]
      /\ affinity \in [Processors -> Cpus \cup {NoCPU}]
  BY ListsMatch DEF BindInv
<1>3. watched \in [Processors -> BOOLEAN]
  BY <1>1, <1>2, LenProperties
<1>4. picked \in Cpus \cup {NoCPU} /\ mCPUList \in [Cpus -> Nat]
  BY DEF BindInv, Types
<1>5. mCPUList \in [Cpus -> 0 .. mProcessorCount] \/ mCPUList = [c \in Cpus |-> 0]
  <2>1. PICK count \in Int : count = mProcessorCount
    BY <1>1, ShortRange DEF Short
  <2>2. \A c \in Cpus : mCPUList[c] \in 0 .. Len(listener)
    BY BoundAtMost
  <2>3. CASE pc \in Early
    <3>1. Len(listener) = 0
      BY <2>3 DEF StartInv, CountedUp
    <3>2. \A c \in Cpus : mCPUList[c] = 0
      BY <2>2, <3>1
    <3> QED
      BY <1>4, <3>2
  <2>4. CASE pc \in Creating
    <3>1. Len(listener) <= count
      BY <2>1, <2>4 DEF StartInv, CountedUp
    <3>2. \A c \in Cpus : mCPUList[c] \in 0 .. count
      BY <1>2, <2>2, <3>1
    <3> QED
      BY <1>4, <2>1, <3>2
  <2> QED
    BY <1>1, <2>3, <2>4
<1>6. pc \in {"create", "thread", "loop"} => Len(listener) <= mProcessorCount
  BY DEF StartInv, CountedUp, Creating
<1>7. /\ pc \in {"config", "init", "create", "thread", "loop", "exited", "aborted"}
      /\ thread \in [Processors -> {"none", "started", "picked", "serves"}]
      /\ failed \subseteq Processors \X {"listen", "epoll", "thread"}
  BY <1>1, <1>2 DEF Early, Creating, ThreadSteps, Refusals
<1>8. listener \in Seq(0 .. USHRT_MAX)
  BY <1>1 DEF Ports
<1> QED
  BY <1>1, <1>2, <1>3, <1>4, <1>5, <1>6, <1>7, <1>8 DEF TypeOK

\* What a server with a sound file asks for is what the file says.
LEMMA AsksAsSaid ==
  ASSUME Sound, StartInv, AsksFor, mConfigMap = Parse(file)
  PROVE  /\ NoWord \notin {Says("log"), Says("port")}
         /\ level = IF Says("logLevel") \in Levels THEN Says("logLevel") ELSE "DEBUG"
         /\ GetPort = Num[Says("port")] /\ GetPort # 0
         /\ mProcessorCount =
                IF Says("processorCount") = NoWord THEN 2 ELSE Num[Says("processorCount")]
         /\ ~(mProcessorCount < 0)
<1>1. file \in Files
  BY DEF StartInv, RestTypes
<1>2. GetValue("log") = Says("log") /\ GetValue("logLevel") = Says("logLevel")
  BY <1>1, KeysAreWords, SoundFileSays
<1>3. \A key \in {"port", "processorCount"} :
          /\ GetShort(key) = IF Says(key) = NoWord THEN {-1} ELSE {Num[Says(key)]}
          /\ Says(key) # NoWord => Num[Says(key)] \in 1 .. SHRT_MAX
  BY <1>1, SoundFileNumbers
<1>4. Says("log") # NoWord /\ mPort \in GetShort("port") \ {-1}
  BY <1>2 DEF AsksFor
<1>5. Says("port") # NoWord
  BY <1>3, <1>4
<1>6. PICK port \in 1 .. SHRT_MAX : port = mPort /\ port = Num[Says("port")]
  BY <1>3, <1>4, <1>5
<1>7. GetPort = port /\ port # 0
  <2>1. port \in Nat /\ 0 < port /\ port < USHRT_MAX + 1
    BY ShortRange DEF SHRT_MAX, USHRT_MAX
  <2>2. port % (USHRT_MAX + 1) = port
    BY <2>1 DEF USHRT_MAX
  <2> QED
    BY <1>6, <2>1, <2>2 DEF GetPort
<1>8. PICK count \in GetShort("processorCount") :
          mProcessorCount = IF count = -1 THEN 2 ELSE count
  BY DEF AsksFor
<1>9. CASE Says("processorCount") = NoWord
  <2>1. mProcessorCount = 2
    BY <1>3, <1>8, <1>9
  <2> QED
    BY <1>2, <1>4, <1>5, <1>6, <1>7, <1>9, <2>1 DEF AsksFor
<1>10. CASE Says("processorCount") # NoWord
  <2>1. PICK n \in 1 .. SHRT_MAX : n = Num[Says("processorCount")] /\ n = count
    BY <1>3, <1>8, <1>10
  <2>2. n \in Int /\ 0 < n
    BY ShortRange
  <2>3. mProcessorCount = n
    BY <1>8, <2>1, <2>2
  <2> QED
    BY <1>2, <1>4, <1>5, <1>6, <1>7, <1>10, <2>1, <2>2, <2>3 DEF AsksFor
<1> QED
  BY <1>9, <1>10

\* From the invariant to the property.
LEMMA AsSaid == BindInv /\ StartInv => RunsAsConfigured
<1> SUFFICES ASSUME BindInv, StartInv, Sound
             PROVE  /\ pc \in {"exited", "aborted"} =>
                           pc = "exited" /\ NoWord \in {Says("log"), Says("port")}
                    /\ pc \in {"create", "thread", "loop"} => NoWord \notin {Says("log"), Says("port")}
                    /\ pc = "loop" =>
                        /\ level = IF Says("logLevel") \in Levels THEN Says("logLevel") ELSE "DEBUG"
                        /\ Len(listener) =
                               IF Says("processorCount") = NoWord THEN 2
                               ELSE Num[Says("processorCount")]
                        /\ \A p \in Processors :
                               /\ listener[p] = Num[Says("port")] \/ <<p, "listen">> \in failed
                               /\ watched[p] \/ <<p, "listen">> \in failed \/ <<p, "epoll">> \in failed
                               /\ thread[p] # "none" \/ <<p, "thread">> \in failed
  BY DEF RunsAsConfigured
<1>1. pc # "config" => mConfigMap = Parse(file)
  BY DEF StartInv, Configured
<1>2. ASSUME pc = "exited" PROVE NoWord \in {Says("log"), Says("port")}
  <2>1. file \in Files
    BY DEF StartInv, RestTypes
  <2>2. GetValue("log") = Says("log")
    BY <1>1, <1>2, <2>1, KeysAreWords, SoundFileSays
  <2>3. /\ GetShort("port") = IF Says("port") = NoWord THEN {-1} ELSE {Num[Says("port")]}
        /\ Says("port") # NoWord => Num[Says("port")] \in 1 .. SHRT_MAX
    BY <1>1, <1>2, <2>1, SoundFileNumbers
  <2>4. -1 \notin 1 .. SHRT_MAX
    BY ShortRange
  <2>5. GetValue("log") = NoWord \/ -1 \in GetShort("port")
    BY <1>2 DEF StartInv, Configured
  <2> QED
    BY <2>2, <2>3, <2>4, <2>5
<1>3. pc # "aborted"
  <2> SUFFICES ASSUME pc = "aborted" PROVE FALSE
    OBVIOUS
  <2>1. AsksFor /\ mProcessorCount < 0
    BY DEF StartInv, Configured
  <2> QED
    BY <1>1, <2>1, AsksAsSaid
<1>4. ASSUME pc \in Creating
      PROVE  /\ NoWord \notin {Says("log"), Says("port")}
             /\ level = IF Says("logLevel") \in Levels THEN Says("logLevel") ELSE "DEBUG"
             /\ GetPort = Num[Says("port")] /\ GetPort # 0
             /\ mProcessorCount =
                    IF Says("processorCount") = NoWord THEN 2 ELSE Num[Says("processorCount")]
  <2>1. AsksFor /\ mConfigMap = Parse(file)
    BY <1>1, <1>4 DEF StartInv, Configured, Creating
  <2> QED
    BY <2>1, AsksAsSaid
<1>5. ASSUME pc = "loop", NEW p \in Processors
      PROVE  /\ listener[p] = Num[Says("port")] \/ <<p, "listen">> \in failed
             /\ watched[p] \/ <<p, "listen">> \in failed \/ <<p, "epoll">> \in failed
             /\ thread[p] # "none" \/ <<p, "thread">> \in failed
  <2>1. GetPort = Num[Says("port")] /\ GetPort # 0
    BY <1>4, <1>5 DEF Creating
  <2>2. HasOrRefused(p)
    BY DEF StartInv
  <2> QED
    BY <1>5, <2>1, <2>2 DEF HasOrRefused
<1>6. pc = "loop" => Len(listener) = mProcessorCount
  BY DEF StartInv, CountedUp
<1> QED
  BY <1>2, <1>3, <1>4, <1>5, <1>6 DEF Creating

-----------------------------------------------------------------------------

\* What the proofs about start-up rest on: how far main is, what it asked for, and that
\* every Processor has what it asked for or was refused it, whatever threads bind
\* themselves meanwhile (myserver.cc:27-81, processorManager.cc:8-18).
THEOREM StartInvariant == Spec => [](BindInv /\ StartInv)
<1>1. Init => BindInv /\ StartInv
  BY InitInv, InitStart
<1>2. (BindInv /\ StartInv) /\ [Next]_vars => (BindInv /\ StartInv)'
  BY StepInv, StepStart
<1> QED
  BY <1>1, <1>2, PTL DEF Spec

\* However many threads bind themselves to however many processors, while others are
\* still constructed: no two pick the same count, and the processors share the threads
\* evenly until they are crowded (cpu.cc:30-63, 101-109).
THEOREM BindsEvenly == Spec => []BoundEvenly
<1>1. Init => BindInv
  BY InitInv
<1>2. BindInv /\ [Next]_vars => BindInv'
  BY StepInv
<1>3. BindInv => BoundEvenly
  BY DEF BindInv
<1> QED
  BY <1>1, <1>2, <1>3, PTL DEF Spec

\* The variables of start-up have their types (main.cc, myserver.cc, cpu.cc).
THEOREM StartupTypes == Spec => []TypeOK
<1>1. Spec => [](BindInv /\ StartInv)
  BY StartInvariant
<1>2. BindInv /\ StartInv => TypeOK
  BY TypesFollow
<1> QED
  BY <1>1, <1>2, PTL

\* Whatever is in the file, however long it is, and whatever the system refuses: a sound
\* file is obeyed to the letter, or stops the server where it names no log or port
\* (config.cc:33-45, myserver.cc:27-81, processorManager.cc:8-18, acceptor.cc:37-53).
THEOREM ObeysTheFile == Spec => []RunsAsConfigured
<1>1. Spec => [](BindInv /\ StartInv)
  BY StartInvariant
<1>2. BindInv /\ StartInv => RunsAsConfigured
  BY AsSaid
<1> QED
  BY <1>1, <1>2, PTL
=============================================================================
