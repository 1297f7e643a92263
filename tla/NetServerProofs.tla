--------------------------- MODULE NetServerProofs ---------------------------
(***************************************************************************)
(* Proofs about NetServer, for every number of processors, connections and *)
(* descriptors: a number that one thread closes while another is given it  *)
(* by accept is never closed, watched or reported for the wrong            *)
(* connection.                                                             *)
(*                                                                         *)
(* The argument: a thread handles its own connections only (HandlesOwn),   *)
(* so nobody else closes the connection it is closing, and until close()   *)
(* the number is open for that connection (ClosesOwn).  close() takes the  *)
(* registrations with it, and between close() and mSockFD = -1, when the   *)
(* number may be another connection's, no descriptor is open for this one  *)
(* (ClosedBeforeReset).  A batch has one event for a connection            *)
(* (OneEventEach), so what a handler closes has no event left.             *)
(* A thread reads with its own pool for its own connections, so the pages  *)
(* of those and the free ones are counted per processor (PagesCounted).    *)
(***************************************************************************)
EXTENDS NetServer, FiniteSetTheorems, TLAPS

\* The parts of the state the properties are about have their types.
Types ==
    /\ mSockFD \in [Conns -> Fds \cup {NoFd}]
    /\ mProcessor \in [Conns -> Procs \cup {NoProc}]
    /\ accepted \in 0 .. MaxConns
    /\ pc \in [Procs -> {"wait", "next", "handle", "del", "close", "reset"}]
    /\ batch \in [Procs -> SUBSET ((Conns \cup {Listener}) \X SUBSET {"IN", "ERR"})]
    /\ cur \in [Procs -> Conns \cup {NoConn}]
    /\ fdTable \in [Fds -> Conns \cup {NoConn}]
    /\ epoll \in [Procs -> SUBSET (Fds \X Conns)]
    /\ backlog \in [Procs -> BOOLEAN]

\* A connection not accepted yet has no processor and no descriptor.
NothingBeforeAccept ==
    \A c \in Conns :
        c > accepted => /\ mSockFD[c] = NoFd /\ mProcessor[c] = NoProc
                        /\ \A f \in Fds : fdTable[f] # c

\* A thread is in HandleEvent of its own connections only.
HandlesOwn ==
    \A p \in Procs :
        IF pc[p] \in {"wait", "next"}
        THEN cur[p] = NoConn
        ELSE cur[p] \in Conns /\ mProcessor[cur[p]] = p

\* Between close() and mSockFD = -1 no descriptor is open for the connection.
ClosedBeforeReset ==
    \A p \in Procs, f \in Fds : pc[p] = "reset" => fdTable[f] # cur[p]

\* A batch has one event for a connection, and none for the one being handled.
OneEventEach ==
    \A p \in Procs : \A d \in batch[p] :
        /\ d[1] # cur[p]
        /\ \A e \in batch[p] : d[1] = e[1] => d = e

\* The listener's event comes from a client that still waits.
ListenerHasClient ==
    \A p \in Procs : \A e \in batch[p] : e[1] = Listener => backlog[p]

\* The strengthening that is inductive.
ConnInv ==
    /\ Types
    /\ NothingBeforeAccept
    /\ HandlesOwn
    /\ DescriptorsOwned
    /\ ClosedBeforeReset
    /\ WatchedByOwner
    /\ EventsOnlyForOpen
    /\ OneEventEach
    /\ ListenerHasClient
    /\ Arrived <= MaxConns

USE DEF NoFd, NoConn, NoProc, Listener

\* The names of nothing are not names of something.
LEMMA Names ==
  /\ Procs \subseteq Nat /\ NoProc \notin Procs
  /\ Conns \subseteq Nat /\ NoConn \notin Conns /\ Listener \notin Conns
  /\ Fds \subseteq Nat /\ NoFd \notin Fds /\ \A f \in Fds : f > 0
BY NetServerAssumption DEF Procs, Conns, Fds

\* The processors whose listener has a client waiting.
Waiters == {p \in Procs : backlog[p]}

\* The clients that arrived are those accepted and those that wait.
LEMMA WaitersCounted ==
  /\ IsFiniteSet(Waiters) /\ Cardinality(Waiters) \in Nat
  /\ Arrived = accepted + Cardinality(Waiters)
  /\ \A p \in Procs : backlog[p] => Cardinality(Waiters) > 0
<1>1. IsFiniteSet(Procs)
  BY NetServerAssumption, FS_Interval DEF Procs
<1>2. IsFiniteSet(Waiters) /\ Cardinality(Waiters) \in Nat
  BY <1>1, FS_Subset, FS_CardinalityType DEF Waiters
<1>3. Arrived = accepted + Cardinality(Waiters)
  BY DEF Arrived, Waiters
<1>4. \A p \in Procs : backlog[p] => Cardinality(Waiters) > 0
  <2> SUFFICES ASSUME NEW p \in Procs, backlog[p] PROVE Cardinality(Waiters) > 0
    OBVIOUS
  <2>1. Waiters # {}
    BY DEF Waiters
  <2> QED
    BY <1>2, <2>1, FS_EmptySet
<1> QED
  BY <1>2, <1>3, <1>4

\* Nothing is open to begin with.
LEMMA InitEstablishesConnInv == Init => ConnInv
<1> SUFFICES ASSUME Init PROVE ConnInv
  OBVIOUS
<1>1. Types
  BY NetServerAssumption DEF Init, Types
<1>2. NothingBeforeAccept /\ HandlesOwn /\ ClosedBeforeReset
  BY Names DEF Init, NothingBeforeAccept, HandlesOwn, ClosedBeforeReset
<1>3. DescriptorsOwned
  BY Names DEF Init, DescriptorsOwned
<1>4. WatchedByOwner /\ EventsOnlyForOpen /\ OneEventEach /\ ListenerHasClient
  BY DEF Init, WatchedByOwner, EventsOnlyForOpen, OneEventEach, ListenerHasClient
<1>5. Arrived <= MaxConns
  <2>1. Waiters = {} /\ accepted = 0
    BY DEF Init, Waiters
  <2>2. Cardinality(Waiters) = 0
    BY <2>1, FS_EmptySet
  <2> QED
    BY <2>1, <2>2, WaitersCounted, NetServerAssumption
<1> QED
  BY <1>1, <1>2, <1>3, <1>4, <1>5 DEF ConnInv

\* The events of a batch are of the processor's open connections or its listener,
\* one for each.
LEMMA ReadyEventsAreOwn ==
  ASSUME ConnInv, NEW p \in Procs
  PROVE  /\ ReadyEvents(p) \subseteq (Conns \cup {Listener}) \X SUBSET {"IN", "ERR"}
         /\ \A e \in ReadyEvents(p) :
                IF e[1] = Listener THEN backlog[p] ELSE IsGood(e[1]) /\ mProcessor[e[1]] = p
         /\ \A d, e \in ReadyEvents(p) : d[1] = e[1] => d = e
<1>1. \A c : Ops(c) \in SUBSET {"IN", "ERR"}
  BY DEF Ops
<1>2. ASSUME NEW e \in ReadyEvents(p)
      PROVE  \/ /\ e[1] \in Conns /\ e = <<e[1], Ops(e[1])>>
                /\ \E f \in Fds : <<f, e[1]>> \in epoll[p]
             \/ e = <<Listener, {"IN"}>> /\ backlog[p]
  <2>1. epoll[p] \subseteq Fds \X Conns
    BY DEF ConnInv, Types
  <2>2. CASE e \in {<<x[2], Ops(x[2])>> : x \in {y \in epoll[p] : Ops(y[2]) # {}}}
    <3>1. PICK x \in epoll[p] : e = <<x[2], Ops(x[2])>>
      BY <2>2
    <3>2. x \in Fds \X Conns
      BY <2>1, <3>1
    <3>3. x[1] \in Fds /\ x[2] \in Conns /\ x = <<x[1], x[2]>>
      BY <3>2
    <3>4. e[1] = x[2]
      BY <3>1
    <3> QED
      BY <3>1, <3>3, <3>4
  <2>3. CASE e = <<Listener, {"IN"}>> /\ backlog[p]
    BY <2>3
  <2> QED
    BY <1>2, <2>2, <2>3 DEF ReadyEvents
<1>3. \A f \in Fds, c \in Conns : <<f, c>> \in epoll[p] => IsGood(c) /\ mProcessor[c] = p
  <2> SUFFICES ASSUME NEW f \in Fds, NEW c \in Conns, <<f, c>> \in epoll[p]
               PROVE  IsGood(c) /\ mProcessor[c] = p
    OBVIOUS
  <2>1. mSockFD[c] = f /\ mProcessor[c] = p
    BY DEF ConnInv, WatchedByOwner
  <2> QED
    BY <2>1, Names DEF IsGood
<1>4. ASSUME NEW e \in ReadyEvents(p)
      PROVE  e \in (Conns \cup {Listener}) \X SUBSET {"IN", "ERR"}
  <2>1. CASE e[1] \in Conns /\ e = <<e[1], Ops(e[1])>>
    BY <1>1, <2>1
  <2>2. CASE e = <<Listener, {"IN"}>>
    BY <2>2
  <2> QED
    BY <1>2, <2>1, <2>2
<1>5. ASSUME NEW e \in ReadyEvents(p)
      PROVE  IF e[1] = Listener THEN backlog[p] ELSE IsGood(e[1]) /\ mProcessor[e[1]] = p
  <2>1. CASE e[1] \in Conns /\ \E f \in Fds : <<f, e[1]>> \in epoll[p]
    BY <1>3, <2>1, Names
  <2>2. CASE e = <<Listener, {"IN"}>> /\ backlog[p]
    BY <2>2
  <2> QED
    BY <1>2, <2>1, <2>2
<1>6. ASSUME NEW d \in ReadyEvents(p), NEW e \in ReadyEvents(p), d[1] = e[1]
      PROVE  d = e
  <2>1. CASE d[1] \in Conns
    <3>1. d = <<d[1], Ops(d[1])>>
      <4>1. d[1] # Listener
        BY <2>1, Names
      <4>2. d # <<Listener, {"IN"}>>
        BY <4>1
      <4> QED
        BY <1>2, <4>2
    <3>2. e = <<e[1], Ops(e[1])>>
      <4>1. e[1] # Listener
        BY <1>6, <2>1, Names
      <4>2. e # <<Listener, {"IN"}>>
        BY <4>1
      <4> QED
        BY <1>2, <4>2
    <3> QED
      BY <1>6, <3>1, <3>2
  <2>2. CASE d[1] \notin Conns
    BY <1>2, <1>6, <2>2
  <2> QED
    BY <2>1, <2>2
<1> QED
  BY <1>4, <1>5, <1>6

-----------------------------------------------------------------------------
(* Steps that open, close and register nothing *)

\* What the clients do reaches the listeners and the socket buffers only.
LEMMA ClientKeeps == ConnInv /\ Client => ConnInv'
<1> SUFFICES ASSUME ConnInv, Client PROVE ConnInv'
  OBVIOUS
<1>1. UNCHANGED <<mSockFD, mProcessor, accepted, pc, batch, cur, fdTable, epoll>>
  BY DEF Client, ClientConnects, ClientSends, ClientCloses, ClientResets, connVars, loopVars
<1>2. \/ backlog' = backlog
      \/ \E p \in Procs : /\ ~backlog[p] /\ Arrived < MaxConns
                          /\ backlog' = [backlog EXCEPT ![p] = TRUE]
  BY DEF Client, ClientConnects, ClientSends, ClientCloses, ClientResets
<1>3. backlog \in [Procs -> BOOLEAN] /\ backlog' \in [Procs -> BOOLEAN]
  BY <1>2 DEF ConnInv, Types
<1>4. \A p \in Procs : backlog[p] => backlog'[p]
  BY <1>2, <1>3
<1>5. Types' /\ NothingBeforeAccept' /\ HandlesOwn' /\ ClosedBeforeReset'
  BY <1>1, <1>3 DEF ConnInv, Types, NothingBeforeAccept, HandlesOwn, ClosedBeforeReset
<1>6. DescriptorsOwned' /\ WatchedByOwner' /\ EventsOnlyForOpen' /\ OneEventEach'
  BY <1>1
  DEF ConnInv, DescriptorsOwned, Closing, WatchedByOwner, EventsOnlyForOpen, IsGood, OneEventEach
<1>7. ListenerHasClient'
  BY <1>1, <1>4 DEF ConnInv, ListenerHasClient
<1>8. (Arrived <= MaxConns)'
  <2>1. CASE backlog' = backlog
    BY <1>1, <2>1 DEF ConnInv, Arrived
  <2>2. ASSUME NEW p \in Procs, ~backlog[p], Arrived < MaxConns,
               backlog' = [backlog EXCEPT ![p] = TRUE]
        PROVE  (Arrived <= MaxConns)'
    <3>1. Waiters' = Waiters \cup {p} /\ p \notin Waiters
      BY <1>3, <2>2 DEF Waiters
    <3>2. Cardinality(Waiters') = Cardinality(Waiters) + 1
      BY <3>1, WaitersCounted, FS_AddElement
    <3>3. Arrived' = accepted + Cardinality(Waiters')
      BY <1>1 DEF Arrived, Waiters
    <3>4. accepted \in Nat
      BY NetServerAssumption DEF ConnInv, Types
    <3> QED
      BY <2>2, <3>2, <3>3, <3>4, WaitersCounted, NetServerAssumption
  <2> QED
    BY <1>2, <2>1, <2>2
<1> QED
  BY <1>5, <1>6, <1>7, <1>8 DEF ConnInv

\* A step of thread p that changes only where it is, which events it has left
\* and which connection it handles.
LEMMA LoopStepKeeps ==
  ASSUME ConnInv, NEW p \in Procs,
         UNCHANGED <<mSockFD, mProcessor, accepted, fdTable, epoll, backlog>>,
         pc' \in [Procs -> {"wait", "next", "handle", "del", "close", "reset"}],
         batch' \in [Procs -> SUBSET ((Conns \cup {Listener}) \X SUBSET {"IN", "ERR"})],
         cur' \in [Procs -> Conns \cup {NoConn}],
         \A q \in Procs : q # p => pc'[q] = pc[q] /\ cur'[q] = cur[q] /\ batch'[q] = batch[q],
         pc[p] # "reset", pc'[p] # "reset",
         IF pc'[p] \in {"wait", "next"} THEN cur'[p] = NoConn
                                       ELSE cur'[p] \in Conns /\ mProcessor[cur'[p]] = p,
         \A e \in batch'[p] :
             IF e[1] = Listener THEN backlog[p] ELSE IsGood(e[1]) /\ mProcessor[e[1]] = p,
         \A d \in batch'[p] : d[1] # cur'[p] /\ \A e \in batch'[p] : d[1] = e[1] => d = e
  PROVE  ConnInv'
<1>2. \A q \in Procs : q # p => pc'[q] = pc[q] /\ cur'[q] = cur[q] /\ batch'[q] = batch[q]
  OBVIOUS
<1>3. Types'
  BY DEF ConnInv, Types
<1>4. NothingBeforeAccept' /\ WatchedByOwner'
  BY DEF ConnInv, NothingBeforeAccept, WatchedByOwner
<1>5. HandlesOwn'
  BY <1>2 DEF ConnInv, HandlesOwn
<1>6. DescriptorsOwned' /\ ClosedBeforeReset'
  <2>1. \A q \in Procs : pc'[q] = "reset" <=> pc[q] = "reset"
    BY <1>2
  <2>2. \A q \in Procs : pc[q] = "reset" => cur'[q] = cur[q]
    BY <1>2
  <2>3. \A d \in Conns : Closing(d)' <=> Closing(d)
    BY <2>1, <2>2 DEF Closing
  <2>4. DescriptorsOwned'
    BY <2>3 DEF ConnInv, DescriptorsOwned
  <2>5. ClosedBeforeReset'
    BY <2>1, <2>2 DEF ConnInv, ClosedBeforeReset
  <2> QED
    BY <2>4, <2>5
<1>7. EventsOnlyForOpen' /\ OneEventEach' /\ ListenerHasClient'
  <2>1. EventsOnlyForOpen'
    BY <1>2 DEF ConnInv, EventsOnlyForOpen, IsGood
  <2>2. OneEventEach'
    BY <1>2 DEF ConnInv, OneEventEach
  <2>3. ListenerHasClient'
    BY <1>2 DEF ConnInv, ListenerHasClient
  <2> QED
    BY <2>1, <2>2, <2>3
<1>8. (Arrived <= MaxConns)'
  BY DEF ConnInv, Arrived
<1> QED
  BY <1>3, <1>4, <1>5, <1>6, <1>7, <1>8 DEF ConnInv

\* What is left of a batch, and the functions a thread's state is in.
LEMMA BatchIsOwn ==
  ASSUME ConnInv
  PROVE  /\ pc \in [Procs -> {"wait", "next", "handle", "del", "close", "reset"}]
         /\ batch \in [Procs -> SUBSET ((Conns \cup {Listener}) \X SUBSET {"IN", "ERR"})]
         /\ cur \in [Procs -> Conns \cup {NoConn}]
         /\ \A p \in Procs :
                /\ \A e \in batch[p] :
                       IF e[1] = Listener THEN backlog[p] ELSE IsGood(e[1]) /\ mProcessor[e[1]] = p
                /\ \A d \in batch[p] :
                       /\ d[1] # cur[p] /\ d[1] \in Conns \cup {Listener}
                       /\ \A e \in batch[p] : d[1] = e[1] => d = e
<1>1. /\ pc \in [Procs -> {"wait", "next", "handle", "del", "close", "reset"}]
      /\ batch \in [Procs -> SUBSET ((Conns \cup {Listener}) \X SUBSET {"IN", "ERR"})]
      /\ cur \in [Procs -> Conns \cup {NoConn}]
  BY DEF ConnInv, Types
<1>2. \A p \in Procs : \A e \in batch[p] :
          IF e[1] = Listener THEN backlog[p] ELSE IsGood(e[1]) /\ mProcessor[e[1]] = p
  BY DEF ConnInv, EventsOnlyForOpen, ListenerHasClient
<1>3. \A p \in Procs : \A d \in batch[p] :
          /\ d[1] # cur[p]
          /\ \A e \in batch[p] : d[1] = e[1] => d = e
  BY DEF ConnInv, OneEventEach
<1>4. \A p \in Procs : \A d \in batch[p] : d[1] \in Conns \cup {Listener}
  BY <1>1
<1> QED
  BY <1>1, <1>2, <1>3, <1>4

\* epoll_wait returns events of what is registered (fdEpoll.cc:47-59, processor.cc:103).
LEMMA EpollWaitKeeps ==
  ASSUME ConnInv, NEW p \in Procs, EpollWait(p)
  PROVE  ConnInv'
<1>1. /\ pc[p] = "wait" /\ pc' = [pc EXCEPT ![p] = "next"]
      /\ batch' = [batch EXCEPT ![p] = ReadyEvents(p)]
      /\ UNCHANGED <<mSockFD, mProcessor, accepted, cur, fdTable, epoll, backlog>>
  BY DEF EpollWait, connVars, netVars
<1>2. cur[p] = NoConn
  BY <1>1 DEF ConnInv, HandlesOwn
<1>3. /\ \A d \in ReadyEvents(p) : d[1] \in Conns \cup {Listener}
      /\ ReadyEvents(p) \in SUBSET ((Conns \cup {Listener}) \X SUBSET {"IN", "ERR"})
  BY ReadyEventsAreOwn
<1>4. \A d \in ReadyEvents(p) : d[1] # NoConn
  BY <1>3, Names
<1>5. /\ pc' \in [Procs -> {"wait", "next", "handle", "del", "close", "reset"}]
      /\ batch' \in [Procs -> SUBSET ((Conns \cup {Listener}) \X SUBSET {"IN", "ERR"})]
      /\ \A q \in Procs : q # p => pc'[q] = pc[q] /\ batch'[q] = batch[q]
      /\ pc'[p] = "next" /\ batch'[p] = ReadyEvents(p)
  BY <1>1, <1>3, BatchIsOwn
<1> QED
  BY <1>1, <1>2, <1>4, <1>5, BatchIsOwn, ReadyEventsAreOwn, LoopStepKeeps

\* An event is taken out of the batch as it is handled (netConnection.cc:17-28).
LEMMA NextEventKeeps ==
  ASSUME ConnInv, NEW p \in Procs, NextEvent(p)
  PROVE  ConnInv'
<1>1. PICK e \in batch[p] :
          /\ e[1] # Listener
          /\ batch' = [batch EXCEPT ![p] = @ \ {e}]
          /\ cur' = [cur EXCEPT ![p] = e[1]]
          /\ pc' = [pc EXCEPT ![p] = "handle"]
  BY DEF NextEvent
<1>2. /\ pc[p] = "next"
      /\ UNCHANGED <<mSockFD, mProcessor, accepted, fdTable, epoll, backlog>>
  BY DEF NextEvent, connVars, netVars
<1>3. e[1] \in Conns /\ mProcessor[e[1]] = p
  BY <1>1, BatchIsOwn
<1>4. /\ pc' \in [Procs -> {"wait", "next", "handle", "del", "close", "reset"}]
      /\ batch' \in [Procs -> SUBSET ((Conns \cup {Listener}) \X SUBSET {"IN", "ERR"})]
      /\ cur' \in [Procs -> Conns \cup {NoConn}]
      /\ \A q \in Procs : q # p => pc'[q] = pc[q] /\ cur'[q] = cur[q] /\ batch'[q] = batch[q]
      /\ pc'[p] = "handle" /\ cur'[p] = e[1] /\ batch'[p] = batch[p] \ {e}
  BY <1>1, <1>3, BatchIsOwn
<1>5. \A d \in batch'[p] : d[1] # cur'[p] /\ \A x \in batch'[p] : d[1] = x[1] => d = x
  BY <1>4, BatchIsOwn
<1>6. \A d \in batch'[p] :
          IF d[1] = Listener THEN backlog[p] ELSE IsGood(d[1]) /\ mProcessor[d[1]] = p
  BY <1>4, BatchIsOwn
<1> QED
  BY <1>2, <1>3, <1>4, <1>5, <1>6, LoopStepKeeps

\* What a thread's state is after a step that leaves its batch alone.
LEMMA SameBatchKeeps ==
  ASSUME ConnInv, NEW p \in Procs,
         UNCHANGED <<mSockFD, mProcessor, accepted, batch, fdTable, epoll, backlog>>,
         NEW step \in {"wait", "next", "handle", "del", "close"},
         pc[p] # "reset", pc' = [pc EXCEPT ![p] = step],
         \/ /\ step \in {"wait", "next"}
            /\ cur' = [cur EXCEPT ![p] = NoConn]
         \/ /\ pc[p] \notin {"wait", "next"} /\ step \notin {"wait", "next"}
            /\ cur' = cur
  PROVE  ConnInv'
<1>1. /\ pc' \in [Procs -> {"wait", "next", "handle", "del", "close", "reset"}]
      /\ cur' \in [Procs -> Conns \cup {NoConn}]
      /\ \A q \in Procs : q # p => pc'[q] = pc[q] /\ cur'[q] = cur[q]
      /\ pc'[p] = step /\ cur'[p] \in {NoConn, cur[p]}
      /\ step \in {"wait", "next"} => cur'[p] = NoConn
      /\ step \notin {"wait", "next"} => cur'[p] = cur[p] /\ pc[p] \notin {"wait", "next"}
  BY BatchIsOwn
<1>2. step \notin {"wait", "next"} => cur'[p] \in Conns /\ mProcessor[cur'[p]] = p
  BY <1>1 DEF ConnInv, HandlesOwn
<1>3. \A d \in batch[p] : d[1] # NoConn /\ d[1] # cur[p]
  BY BatchIsOwn, Names
<1>4. \A d \in batch[p] : d[1] # cur'[p]
  BY <1>1, <1>3
<1> QED
  BY <1>1, <1>2, <1>4, BatchIsOwn, LoopStepKeeps

\* The next turn of the loop handles no connection (processor.cc:75).
LEMMA EndOfBatchKeeps ==
  ASSUME ConnInv, NEW p \in Procs, EndOfBatch(p)
  PROVE  ConnInv'
<1>1. /\ pc[p] = "next" /\ pc' = [pc EXCEPT ![p] = "wait"]
      /\ UNCHANGED <<mSockFD, mProcessor, accepted, batch, cur, fdTable, epoll, backlog>>
  BY DEF EndOfBatch, connVars, netVars
<1>2. cur[p] = NoConn
  BY <1>1 DEF ConnInv, HandlesOwn
<1>3. cur' = [cur EXCEPT ![p] = NoConn]
  BY <1>1, <1>2, BatchIsOwn
<1> QED
  BY <1>1, <1>3, SameBatchKeeps

\* Reading, and what leads to HandleCloseEvent, open and close nothing yet.
LEMMA HandlingKeeps ==
  ASSUME ConnInv, NEW p \in Procs, HandleRead(p) \/ HandleErrorOrClose(p)
  PROVE  ConnInv'
<1>1. /\ pc[p] = "handle"
      /\ UNCHANGED <<mSockFD, mProcessor, accepted, batch, cur, fdTable, epoll, backlog>>
      /\ pc' = pc \/ pc' = [pc EXCEPT ![p] = "del"]
  <2>1. CASE HandleRead(p)
    <3>1. Read(p, cur[p]) => pc' = pc \/ pc' = [pc EXCEPT ![p] = "del"]
      BY DEF Read, ReadStarved, ReadData, ReadFillsPage, ReadNothing, ReadIntoNull, ReadEnds,
             GoOn, CloseNext
    <3> QED
      BY <2>1, <3>1 DEF HandleRead
  <2>2. CASE HandleErrorOrClose(p)
    BY <2>2 DEF HandleErrorOrClose, CloseNext, connVars, netVars
  <2> QED
    BY <2>1, <2>2
<1>2. PICK step \in {"handle", "del"} : pc' = [pc EXCEPT ![p] = step]
  <2>1. pc = [pc EXCEPT ![p] = "handle"]
    BY <1>1, BatchIsOwn
  <2> QED
    BY <1>1, <2>1
<1> QED
  BY <1>1, <1>2, SameBatchKeeps

\* HandleEvent returns to MainLoop (processor.cc:115-131).
LEMMA HandleEventReturnsKeeps ==
  ASSUME ConnInv, NEW p \in Procs, HandleEventReturns(p)
  PROVE  ConnInv'
<1>1. /\ pc[p] = "handle" /\ pc' = [pc EXCEPT ![p] = "next"]
      /\ cur' = [cur EXCEPT ![p] = NoConn]
      /\ UNCHANGED <<mSockFD, mProcessor, accepted, batch, fdTable, epoll, backlog>>
  BY DEF HandleEventReturns, connVars, netVars
<1> QED
  BY <1>1, SameBatchKeeps

-----------------------------------------------------------------------------
(* HandleCloseEvent *)

\* The connection being handled is this thread's, so nobody else is closing it,
\* and until close() its number is open for it alone.
LEMMA ClosesOwn ==
  ASSUME ConnInv, NEW p \in Procs, pc[p] \in {"handle", "del", "close"}
  PROVE  /\ cur[p] \in Conns /\ ~Closing(cur[p])
         /\ \A f \in Fds : fdTable[f] = cur[p] <=> mSockFD[cur[p]] = f
<1>1. cur[p] \in Conns /\ mProcessor[cur[p]] = p
  BY DEF ConnInv, HandlesOwn
<1>2. ASSUME NEW q \in Procs, pc[q] = "reset", cur[q] = cur[p] PROVE FALSE
  <2>1. mProcessor[cur[q]] = q
    BY <1>2 DEF ConnInv, HandlesOwn
  <2> QED
    BY <1>1, <1>2, <2>1
<1>3. ~Closing(cur[p])
  BY <1>2 DEF Closing
<1> QED
  BY <1>1, <1>3 DEF ConnInv, DescriptorsOwned

\* The registration is removed while the number is still the connection's
\* (netConnection.cc:124-133).
LEMMA DeleteFromEpollKeeps ==
  ASSUME ConnInv, NEW p \in Procs, DeleteFromEpoll(p)
  PROVE  ConnInv'
<1>1. /\ pc[p] = "del" /\ pc' = [pc EXCEPT ![p] = "close"]
      /\ epoll' = [epoll EXCEPT ![p] = {e \in @ : e[1] # mSockFD[cur[p]]}]
      /\ UNCHANGED <<mSockFD, mProcessor, accepted, batch, cur, fdTable, backlog>>
  BY DEF DeleteFromEpoll, connVars, netVars
<1>2. /\ epoll \in [Procs -> SUBSET (Fds \X Conns)]
      /\ pc \in [Procs -> {"wait", "next", "handle", "del", "close", "reset"}]
  BY DEF ConnInv, Types
<1>3. \A q \in Procs : epoll'[q] \subseteq epoll[q]
  BY <1>1, <1>2
<1>4. epoll' \in [Procs -> SUBSET (Fds \X Conns)]
  <2>1. {e \in epoll[p] : e[1] # mSockFD[cur[p]]} \in SUBSET (Fds \X Conns)
    BY <1>2
  <2> QED
    BY <1>1, <1>2, <2>1
<1>5. /\ \A q \in Procs : pc'[q] = "reset" <=> pc[q] = "reset"
      /\ \A q \in Procs : pc'[q] \in {"wait", "next"} <=> pc[q] \in {"wait", "next"}
  BY <1>1, <1>2
<1>6. Types' /\ NothingBeforeAccept'
  BY <1>1, <1>2, <1>4 DEF ConnInv, Types, NothingBeforeAccept
<1>7. HandlesOwn' /\ ClosedBeforeReset'
  BY <1>1, <1>5 DEF ConnInv, HandlesOwn, ClosedBeforeReset
<1>8. DescriptorsOwned'
  <2>1. \A c \in Conns : Closing(c)' <=> Closing(c)
    BY <1>1, <1>5 DEF Closing
  <2> QED
    BY <1>1, <2>1 DEF ConnInv, DescriptorsOwned
<1>9. WatchedByOwner'
  BY <1>1, <1>3 DEF ConnInv, WatchedByOwner
<1>10. EventsOnlyForOpen' /\ OneEventEach' /\ ListenerHasClient' /\ (Arrived <= MaxConns)'
  BY <1>1 DEF ConnInv, EventsOnlyForOpen, IsGood, OneEventEach, ListenerHasClient, Arrived
<1> QED
  BY <1>6, <1>7, <1>8, <1>9, <1>10 DEF ConnInv

\* What CloseFd closes: the descriptor open for the connection, if it has one.
LEMMA ClosedByCloseFd ==
  ASSUME ConnInv, NEW p \in Procs, CloseFd(p)
  PROVE  /\ \A g \in Fds :
                fdTable'[g] = IF fdTable[g] = cur[p] THEN NoConn ELSE fdTable[g]
         /\ fdTable' \in [Fds -> Conns \cup {NoConn}]
         /\ epoll' \in [Procs -> SUBSET (Fds \X Conns)]
         /\ \A q \in Procs : \A e \in epoll'[q] : e \in epoll[q] /\ fdTable[e[1]] # cur[p]
<1> DEFINE f == mSockFD[cur[p]]
<1>1. /\ pc[p] = "close" /\ cur[p] \in Conns
      /\ \A g \in Fds : fdTable[g] = cur[p] <=> f = g
  BY ClosesOwn DEF CloseFd
<1>2. /\ fdTable' = IF f > 0 THEN [fdTable EXCEPT ![f] = NoConn] ELSE fdTable
      /\ epoll' = IF f > 0 /\ fdTable[f] # NoConn
                  THEN [q \in Procs |-> epoll[q] \ {<<f, fdTable[f]>>}]
                  ELSE epoll
  BY DEF CloseFd
<1>3. /\ fdTable \in [Fds -> Conns \cup {NoConn}]
      /\ epoll \in [Procs -> SUBSET (Fds \X Conns)]
      /\ f \in Fds \cup {NoFd}
  BY <1>1 DEF ConnInv, Types
<1> HIDE DEF f
<1>4. f \in Fds <=> f > 0
  <2>1. f \in Fds => f > 0
    BY Names
  <2>2. f = NoFd => ~(f > 0)
    OBVIOUS
  <2> QED
    BY <1>3, <2>1, <2>2
<1>5. \A g \in Fds : fdTable'[g] = IF fdTable[g] = cur[p] THEN NoConn ELSE fdTable[g]
  BY <1>1, <1>2, <1>3, <1>4
<1>6. fdTable' \in [Fds -> Conns \cup {NoConn}]
  BY <1>2, <1>3, <1>4
<1>7. epoll' \in [Procs -> SUBSET (Fds \X Conns)]
  BY <1>2, <1>3
<1>8. ASSUME NEW q \in Procs, NEW e \in epoll'[q]
      PROVE  e \in epoll[q] /\ fdTable[e[1]] # cur[p]
  <2>1. e \in epoll[q]
    BY <1>2, <1>8
  <2>2. e \in Fds \X Conns
    BY <1>3, <2>1
  <2>3. e[1] \in Fds /\ e = <<e[1], e[2]>> /\ fdTable[e[1]] = e[2]
    BY <2>1, <2>2 DEF ConnInv, WatchedByOwner
  <2>4. ASSUME fdTable[e[1]] = cur[p] PROVE FALSE
    <3>1. f = e[1] /\ e = <<f, fdTable[f]>> /\ fdTable[f] # NoConn /\ f > 0
      BY <1>1, <1>4, <2>3, <2>4, Names
    <3> QED
      BY <1>2, <1>8, <3>1
  <2> QED
    BY <2>1, <2>4
<1> QED
  BY <1>5, <1>6, <1>7, <1>8

\* close() frees the number of this connection and of no other (tcpSocket.cc:137-140).
LEMMA CloseFdKeeps ==
  ASSUME ConnInv, NEW p \in Procs, CloseFd(p)
  PROVE  ConnInv'
<1>1. /\ pc[p] = "close" /\ pc' = [pc EXCEPT ![p] = "reset"]
      /\ UNCHANGED <<mSockFD, mProcessor, accepted, batch, cur, backlog>>
  BY DEF CloseFd, connVars, netVars
<1>2. pc \in [Procs -> {"wait", "next", "handle", "del", "close", "reset"}]
  BY DEF ConnInv, Types
<1>3. /\ pc'[p] = "reset" /\ cur[p] \in Conns
      /\ \A q \in Procs : q # p => pc'[q] = pc[q]
      /\ \A g \in Fds : fdTable[g] = cur[p] <=> mSockFD[cur[p]] = g
  BY <1>1, <1>2, ClosesOwn
<1>4. Types'
  BY <1>1, <1>2, ClosedByCloseFd DEF ConnInv, Types
<1>5. NothingBeforeAccept'
  <2>1. \A c \in Conns, g \in Fds : fdTable[g] # c => fdTable'[g] # c
    BY ClosedByCloseFd, Names
  <2> QED
    BY <1>1, <2>1 DEF ConnInv, NothingBeforeAccept
<1>6. HandlesOwn'
  BY <1>1, <1>2, <1>3 DEF ConnInv, HandlesOwn
<1>7. DescriptorsOwned'
  <2>1. \A c \in Conns : Closing(c)' <=> Closing(c) \/ c = cur[p]
    BY <1>1, <1>3 DEF Closing
  <2> SUFFICES ASSUME NEW c \in Conns, NEW g \in Fds
               PROVE  IF fdTable'[g] = c THEN mSockFD[c] = g
                                         ELSE mSockFD[c] = g => Closing(c) \/ c = cur[p]
    BY <1>1, <2>1 DEF DescriptorsOwned
  <2>2. IF fdTable[g] = c THEN mSockFD[c] = g ELSE mSockFD[c] = g => Closing(c)
    BY DEF ConnInv, DescriptorsOwned
  <2>3. fdTable'[g] = IF fdTable[g] = cur[p] THEN NoConn ELSE fdTable[g]
    BY ClosedByCloseFd
  <2> QED
    BY <2>2, <2>3, Names
<1>8. ClosedBeforeReset'
  <2> SUFFICES ASSUME NEW q \in Procs, NEW g \in Fds, pc'[q] = "reset"
               PROVE  fdTable'[g] # cur[q]
    BY <1>1 DEF ClosedBeforeReset
  <2>1. cur[q] # NoConn
    BY <1>1, <1>3, Names DEF ConnInv, HandlesOwn
  <2>2. fdTable'[g] = IF fdTable[g] = cur[p] THEN NoConn ELSE fdTable[g]
    BY ClosedByCloseFd
  <2>3. q # p => fdTable[g] # cur[q]
    BY <1>3 DEF ConnInv, ClosedBeforeReset
  <2> QED
    BY <2>1, <2>2, <2>3
<1>9. WatchedByOwner'
  <2> SUFFICES ASSUME NEW q \in Procs, NEW e \in epoll'[q]
               PROVE  fdTable'[e[1]] = e[2] /\ mSockFD[e[2]] = e[1] /\ mProcessor[e[2]] = q
    BY <1>1 DEF WatchedByOwner
  <2>1. e \in epoll[q] /\ fdTable[e[1]] # cur[p] /\ epoll[q] \subseteq Fds \X Conns
    BY ClosedByCloseFd DEF ConnInv, Types
  <2>2. e[1] \in Fds
    BY <2>1
  <2>3. fdTable'[e[1]] = fdTable[e[1]]
    BY <2>1, <2>2, ClosedByCloseFd
  <2> QED
    BY <2>1, <2>3 DEF ConnInv, WatchedByOwner
<1>10. EventsOnlyForOpen' /\ OneEventEach' /\ ListenerHasClient' /\ (Arrived <= MaxConns)'
  BY <1>1 DEF ConnInv, EventsOnlyForOpen, IsGood, OneEventEach, ListenerHasClient, Arrived
<1> QED
  BY <1>4, <1>5, <1>6, <1>7, <1>8, <1>9, <1>10 DEF ConnInv

\* mSockFD = -1 forgets a number that is no longer the connection's (tcpSocket.cc:141-143).
LEMMA ResetFdKeeps ==
  ASSUME ConnInv, NEW p \in Procs, ResetFd(p)
  PROVE  ConnInv'
<1>1. /\ pc[p] = "reset" /\ pc' = [pc EXCEPT ![p] = "handle"]
      /\ mSockFD' = [mSockFD EXCEPT ![cur[p]] = NoFd]
      /\ UNCHANGED <<mProcessor, accepted, batch, cur, fdTable, epoll, backlog>>
  BY DEF ResetFd, netVars
<1>2. /\ pc \in [Procs -> {"wait", "next", "handle", "del", "close", "reset"}]
      /\ mSockFD \in [Conns -> Fds \cup {NoFd}]
  BY DEF ConnInv, Types
<1>3. /\ cur[p] \in Conns /\ mProcessor[cur[p]] = p
      /\ \A g \in Fds : fdTable[g] # cur[p]
  BY <1>1 DEF ConnInv, HandlesOwn, ClosedBeforeReset
<1>4. /\ pc'[p] = "handle" /\ \A q \in Procs : q # p => pc'[q] = pc[q]
      /\ mSockFD'[cur[p]] = NoFd
      /\ \A c \in Conns : c # cur[p] => mSockFD'[c] = mSockFD[c]
  BY <1>1, <1>2, <1>3
<1>5. Types'
  BY <1>1, <1>2 DEF ConnInv, Types
<1>6. NothingBeforeAccept'
  BY <1>1, <1>4 DEF ConnInv, NothingBeforeAccept
<1>7. HandlesOwn' /\ ClosedBeforeReset'
  BY <1>1, <1>3, <1>4 DEF ConnInv, HandlesOwn, ClosedBeforeReset
<1>8. DescriptorsOwned'
  <2>1. \A c \in Conns : c # cur[p] => (Closing(c)' <=> Closing(c))
    BY <1>1, <1>4 DEF Closing
  <2> SUFFICES ASSUME NEW c \in Conns, NEW g \in Fds
               PROVE  IF fdTable[g] = c THEN mSockFD'[c] = g
                                        ELSE mSockFD'[c] = g => Closing(c)'
    BY <1>1 DEF DescriptorsOwned, Closing
  <2>2. CASE c = cur[p]
    BY <1>3, <1>4, <2>2, Names
  <2>3. CASE c # cur[p]
    BY <1>4, <2>1, <2>3 DEF ConnInv, DescriptorsOwned
  <2> QED
    BY <2>2, <2>3
<1>9. WatchedByOwner'
  <2> SUFFICES ASSUME NEW q \in Procs, NEW e \in epoll[q]
               PROVE  fdTable[e[1]] = e[2] /\ mSockFD'[e[2]] = e[1] /\ mProcessor[e[2]] = q
    BY <1>1 DEF WatchedByOwner
  <2>1. fdTable[e[1]] = e[2] /\ mSockFD[e[2]] = e[1] /\ mProcessor[e[2]] = q
    BY DEF ConnInv, WatchedByOwner
  <2>2. e \in Fds \X Conns
    BY DEF ConnInv, Types
  <2>3. e[1] \in Fds /\ e[2] \in Conns
    BY <2>2
  <2> QED
    BY <1>3, <1>4, <2>1, <2>3
<1>10. EventsOnlyForOpen'
  <2> SUFFICES ASSUME NEW q \in Procs, NEW e \in batch[q], e[1] # Listener
               PROVE  mSockFD'[e[1]] > 0 /\ mProcessor[e[1]] = q
    BY <1>1 DEF EventsOnlyForOpen, IsGood
  <2>1. mSockFD[e[1]] > 0 /\ mProcessor[e[1]] = q /\ e[1] # cur[q] /\ e[1] \in Conns
    BY BatchIsOwn DEF IsGood
  <2> QED
    BY <1>3, <1>4, <2>1
<1>11. OneEventEach' /\ ListenerHasClient' /\ (Arrived <= MaxConns)'
  BY <1>1 DEF ConnInv, OneEventEach, ListenerHasClient, Arrived
<1> QED
  BY <1>5, <1>6, <1>7, <1>8, <1>9, <1>10, <1>11 DEF ConnInv

-----------------------------------------------------------------------------
(* HandleNewConnection *)

\* A listener's event allows for one more connection.
LEMMA RoomForAccept ==
  ASSUME ConnInv, NEW p \in Procs, backlog[p]
  PROVE  /\ accepted + 1 \in Conns
         /\ \A w : w = Waiters \ {p} => accepted + 1 + Cardinality(w) <= MaxConns
<1>1. accepted \in Nat /\ Arrived <= MaxConns
  BY NetServerAssumption DEF ConnInv, Types
<1>2. accepted + 1 <= MaxConns
  BY <1>1, WaitersCounted, NetServerAssumption
<1>3. Cardinality(Waiters \ {p}) = Cardinality(Waiters) - 1
  <2>1. p \in Waiters
    BY DEF Waiters
  <2> QED
    BY <2>1, WaitersCounted, FS_RemoveElement
<1> QED
  BY <1>1, <1>2, <1>3, WaitersCounted, NetServerAssumption DEF Conns

\* accept opens a free number for a connection nobody knew, and registers it with
\* the processor that accepted it (netConnection.cc:51-75, acceptor.cc:72-99).
LEMMA HandleNewConnectionKeeps ==
  ASSUME ConnInv, NEW p \in Procs, HandleNewConnection(p)
  PROVE  ConnInv'
<1>1. PICK e \in batch[p] : e[1] = Listener /\ batch' = [batch EXCEPT ![p] = @ \ {e}]
  BY DEF HandleNewConnection
<1>2. pc[p] = "next" /\ UNCHANGED <<pc, cur>> /\ backlog[p]
  BY <1>1, BatchIsOwn DEF HandleNewConnection
<1>3. /\ batch' \in [Procs -> SUBSET ((Conns \cup {Listener}) \X SUBSET {"IN", "ERR"})]
      /\ batch'[p] = batch[p] \ {e}
      /\ \A q \in Procs : q # p => batch'[q] = batch[q]
      /\ \A q \in Procs : batch'[q] \subseteq batch[q]
      /\ \A d \in batch'[p] : d[1] # Listener
  BY <1>1, BatchIsOwn
<1>4. CASE AcceptFails
  <2>1. UNCHANGED <<mSockFD, mProcessor, accepted, fdTable, epoll, backlog>>
    BY <1>4 DEF AcceptFails
  <2>2. \A d \in batch'[p] : d \in batch[p]
    BY <1>3
  <2>3. /\ \A d \in batch'[p] :
               IF d[1] = Listener THEN backlog[p] ELSE IsGood(d[1]) /\ mProcessor[d[1]] = p
        /\ \A d \in batch'[p] : d[1] # cur'[p] /\ \A x \in batch'[p] : d[1] = x[1] => d = x
    BY <1>2, <2>2, BatchIsOwn
  <2>4. cur'[p] = NoConn /\ pc'[p] = "next"
    BY <1>2 DEF ConnInv, HandlesOwn
  <2> QED
    BY <1>2, <1>3, <2>1, <2>3, <2>4, BatchIsOwn, LoopStepKeeps
<1>5. CASE AcceptConnection(p)
  <2> DEFINE c == accepted + 1
  <2>1. PICK f \in FreeFds :
            /\ backlog' = [backlog EXCEPT ![p] = FALSE]
            /\ accepted' = c
            /\ fdTable' = [fdTable EXCEPT ![f] = c]
            /\ mSockFD' = [mSockFD EXCEPT ![c] = f]
            /\ mProcessor' = [mProcessor EXCEPT ![c] = p]
            /\ epoll' \in {epoll, [epoll EXCEPT ![p] = @ \cup {<<f, c>>}]}
    BY <1>5 DEF AcceptConnection
  <2>2. /\ c \in Conns /\ f \in Fds /\ fdTable[f] = NoConn /\ c \in Nat
        /\ accepted \in 0 .. MaxConns /\ c > accepted
    BY <1>2, RoomForAccept, Names DEF FreeFds, ConnInv, Types
  <2>3. /\ mSockFD[c] = NoFd /\ mProcessor[c] = NoProc
        /\ \A g \in Fds : fdTable[g] # c
    BY <2>2 DEF ConnInv, NothingBeforeAccept
  <2>4. /\ mSockFD \in [Conns -> Fds \cup {NoFd}]
        /\ mProcessor \in [Conns -> Procs \cup {NoProc}]
        /\ fdTable \in [Fds -> Conns \cup {NoConn}]
        /\ epoll \in [Procs -> SUBSET (Fds \X Conns)]
        /\ backlog \in [Procs -> BOOLEAN]
    BY DEF ConnInv, Types
  <2> HIDE DEF c
  <2>5. /\ fdTable'[f] = c /\ \A g \in Fds : g # f => fdTable'[g] = fdTable[g]
        /\ mSockFD'[c] = f /\ \A d \in Conns : d # c => mSockFD'[d] = mSockFD[d]
        /\ mProcessor'[c] = p /\ \A d \in Conns : d # c => mProcessor'[d] = mProcessor[d]
        /\ ~backlog'[p] /\ \A q \in Procs : q # p => backlog'[q] = backlog[q]
    BY <2>1, <2>2, <2>4
  <2>6. Types'
    <3>1. accepted' \in 0 .. MaxConns
      BY <2>1, <2>2, NetServerAssumption DEF Conns
    <3>2. epoll' \in [Procs -> SUBSET (Fds \X Conns)]
      BY <2>1, <2>2, <2>4
    <3>3. /\ mSockFD' \in [Conns -> Fds \cup {NoFd}]
          /\ mProcessor' \in [Conns -> Procs \cup {NoProc}]
          /\ fdTable' \in [Fds -> Conns \cup {NoConn}]
          /\ backlog' \in [Procs -> BOOLEAN]
      BY <2>1, <2>2, <2>4
    <3> QED
      BY <1>2, <1>3, <3>1, <3>2, <3>3 DEF ConnInv, Types
  <2>7. NothingBeforeAccept'
    <3> SUFFICES ASSUME NEW d \in Conns, d > c
                 PROVE  /\ mSockFD'[d] = NoFd /\ mProcessor'[d] = NoProc
                        /\ \A g \in Fds : fdTable'[g] # d
      BY <2>1 DEF NothingBeforeAccept
    <3>1. d # c /\ d > accepted
      BY <2>2, Names
    <3> QED
      BY <2>2, <2>5, <3>1 DEF ConnInv, NothingBeforeAccept
  <2>8. \A q \in Procs : pc[q] \notin {"wait", "next"} => cur[q] # c
    BY <2>3, Names DEF ConnInv, HandlesOwn
  <2>9. HandlesOwn'
    BY <1>2, <2>5, <2>8 DEF ConnInv, HandlesOwn
  <2>10. DescriptorsOwned'
    <3> SUFFICES ASSUME NEW d \in Conns, NEW g \in Fds
                 PROVE  IF fdTable'[g] = d THEN mSockFD'[d] = g
                                           ELSE mSockFD'[d] = g => Closing(d)
      BY <1>2 DEF DescriptorsOwned, Closing
    <3>1. IF fdTable[g] = d THEN mSockFD[d] = g ELSE mSockFD[d] = g => Closing(d)
      BY DEF ConnInv, DescriptorsOwned
    <3>2. CASE d = c
      BY <2>2, <2>3, <2>5, <3>2
    <3>3. CASE d # c
      BY <2>2, <2>5, <3>1, <3>3, Names
    <3> QED
      BY <3>2, <3>3
  <2>11. ClosedBeforeReset'
    <3> SUFFICES ASSUME NEW q \in Procs, NEW g \in Fds, pc[q] = "reset"
                 PROVE  fdTable'[g] # cur[q]
      BY <1>2 DEF ClosedBeforeReset
    <3>1. cur[q] # c /\ fdTable[g] # cur[q]
      BY <2>8 DEF ConnInv, ClosedBeforeReset
    <3> QED
      BY <2>5, <3>1
  <2>12. WatchedByOwner'
    <3> SUFFICES ASSUME NEW q \in Procs, NEW x \in epoll'[q]
                 PROVE  fdTable'[x[1]] = x[2] /\ mSockFD'[x[2]] = x[1] /\ mProcessor'[x[2]] = q
      BY DEF WatchedByOwner
    <3>1. x \in epoll[q] \/ (q = p /\ x = <<f, c>>)
      BY <2>1, <2>4
    <3>2. CASE x \in epoll[q]
      <4>1. x \in Fds \X Conns /\ fdTable[x[1]] = x[2]
            /\ mSockFD[x[2]] = x[1] /\ mProcessor[x[2]] = q
        BY <2>4, <3>2 DEF ConnInv, WatchedByOwner
      <4>2. x[1] \in Fds /\ x[2] \in Conns
        BY <4>1
      <4>3. x[1] # f /\ x[2] # c
        BY <2>2, <2>3, <4>1, <4>2, Names
      <4> QED
        BY <2>5, <4>1, <4>2, <4>3
    <3>3. CASE q = p /\ x = <<f, c>>
      BY <2>5, <3>3
    <3> QED
      BY <3>1, <3>2, <3>3
  <2>13. EventsOnlyForOpen'
    <3> SUFFICES ASSUME NEW q \in Procs, NEW d \in batch'[q], d[1] # Listener
                 PROVE  mSockFD'[d[1]] > 0 /\ mProcessor'[d[1]] = q
      BY DEF EventsOnlyForOpen, IsGood
    <3>1. d \in batch[q]
      BY <1>3
    <3>2. d[1] \in Conns /\ mSockFD[d[1]] > 0 /\ mProcessor[d[1]] = q
      BY <3>1, BatchIsOwn DEF IsGood
    <3>3. d[1] # c
      BY <2>3, <3>2, Names
    <3> QED
      BY <2>5, <3>2, <3>3
  <2>14. OneEventEach'
    BY <1>2, <1>3 DEF ConnInv, OneEventEach
  <2>15. ListenerHasClient'
    BY <1>3, <2>5 DEF ConnInv, ListenerHasClient
  <2>16. (Arrived <= MaxConns)'
    <3>1. Waiters' = Waiters \ {p}
      BY <2>4, <2>5 DEF Waiters
    <3>2. Arrived' = c + Cardinality(Waiters')
      BY <2>1 DEF Arrived, Waiters
    <3> QED
      BY <1>2, <3>1, <3>2, RoomForAccept DEF c
  <2> QED
    BY <2>6, <2>7, <2>9, <2>10, <2>11, <2>12, <2>13, <2>14, <2>15, <2>16 DEF ConnInv
<1> QED
  BY <1>4, <1>5 DEF HandleNewConnection

\* Every step of a client or a processor keeps the invariant.
LEMMA NextKeepsConnInv == ConnInv /\ [Next]_vars => ConnInv'
<1> SUFFICES ASSUME ConnInv, [Next]_vars PROVE ConnInv'
  OBVIOUS
<1>1. CASE Client
  BY <1>1, ClientKeeps
<1>2. ASSUME NEW p \in Procs, MainLoop(p) PROVE ConnInv'
  BY <1>2, EpollWaitKeeps, NextEventKeeps, HandleNewConnectionKeeps, HandlingKeeps,
     DeleteFromEpollKeeps, CloseFdKeeps, ResetFdKeeps, HandleEventReturnsKeeps, EndOfBatchKeeps
  DEF MainLoop, HandleCloseEvent
<1>3. CASE UNCHANGED vars
  <2>1. UNCHANGED <<mSockFD, mProcessor, accepted, pc, batch, cur, fdTable, epoll, backlog>>
    BY <1>3 DEF vars, connVars, loopVars, netVars
  <2> QED
    BY <2>1
    DEF ConnInv, Types, NothingBeforeAccept, HandlesOwn, DescriptorsOwned, Closing,
        ClosedBeforeReset, WatchedByOwner, EventsOnlyForOpen, IsGood, OneEventEach,
        ListenerHasClient, Arrived
<1> QED
  BY <1>1, <1>2, <1>3 DEF Next

\* Whatever clients and threads do, ConnInv holds (processor.cc:103-132).
THEOREM ConnInvariant == Init /\ [][Next]_vars => []ConnInv
BY InitEstablishesConnInv, NextKeepsConnInv, PTL

\* A connection's mSockFD is the descriptor open for it and for nobody else, but
\* between close() and mSockFD = -1 (netConnection.cc:124-133, tcpSocket.cc:138-143).
THEOREM DescriptorsAlwaysOwned == Spec => []DescriptorsOwned
<1>1. ConnInv => DescriptorsOwned
  BY DEF ConnInv
<1> QED
  BY <1>1, ConnInvariant, PTL DEF Spec

\* A processor's epoll has open connections of that processor only, each under its
\* own descriptor (processor.cc:10-28, 52-66).
THEOREM WatchedByOwnerOnly == Spec => []WatchedByOwner
<1>1. ConnInv => WatchedByOwner
  BY DEF ConnInv
<1> QED
  BY <1>1, ConnInvariant, PTL DEF Spec

\* No event still to be handled is for a closed connection or another processor's,
\* whatever the events before it closed (processor.cc:110-119).
THEOREM EventsReachOpenOnly == Spec => []EventsOnlyForOpen
<1>1. ConnInv => EventsOnlyForOpen
  BY DEF ConnInv
<1> QED
  BY <1>1, ConnInvariant, PTL DEF Spec

\* The step of NoForeignClose.
ClosesOwnOnly ==
    \A f \in Fds :
        fdTable[f] # NoConn /\ fdTable'[f] # fdTable[f]
            => \E p \in Procs : pc[p] = "close" /\ cur[p] = fdTable[f]

\* Only CloseFd frees a descriptor, and it frees the one of the connection whose
\* thread takes the step.
LEMMA StepClosesOwnOnly == ConnInv /\ [Next]_vars => ClosesOwnOnly
<1> SUFFICES ASSUME ConnInv, [Next]_vars, NEW f \in Fds, fdTable[f] # NoConn,
                    fdTable'[f] # fdTable[f]
             PROVE  \E p \in Procs : pc[p] = "close" /\ cur[p] = fdTable[f]
  BY DEF ClosesOwnOnly
<1>1. ~UNCHANGED fdTable
  OBVIOUS
<1>2. PICK p \in Procs : CloseFd(p) \/ AcceptConnection(p)
  <2>1. ~Client /\ ~UNCHANGED vars
    BY <1>1 DEF Client, ClientConnects, ClientSends, ClientCloses, ClientResets, vars
  <2>2. PICK p \in Procs : MainLoop(p)
    BY <2>1 DEF Next
  <2> QED
    BY <1>1, <2>2
    DEF MainLoop, EpollWait, NextEvent, HandleNewConnection, AcceptFails, HandleRead,
        HandleErrorOrClose, HandleCloseEvent, DeleteFromEpoll, ResetFd, HandleEventReturns,
        EndOfBatch
<1>3. CASE AcceptConnection(p)
  <2>1. PICK g \in FreeFds : fdTable' = [fdTable EXCEPT ![g] = accepted + 1]
    BY <1>3 DEF AcceptConnection
  <2>2. f # g
    BY <2>1 DEF FreeFds
  <2> QED
    BY <2>1, <2>2 DEF ConnInv, Types
<1>4. CASE CloseFd(p)
  <2>1. fdTable[f] = cur[p]
    BY <1>4, ClosedByCloseFd
  <2> QED
    BY <1>4, <2>1 DEF CloseFd
<1> QED
  BY <1>2, <1>3, <1>4

\* An open descriptor is closed only by the thread that is closing the connection
\* it is open for, though its number may have been in use before
\* (netConnection.cc:28-40, 99-100, 135-139).
THEOREM ClosesNoForeignDescriptor == Spec => NoForeignClose
<1>1. ConnInv /\ [Next]_vars => [ClosesOwnOnly]_vars
  BY StepClosesOwnOnly
<1>2. [][ClosesOwnOnly]_vars => NoForeignClose
  BY DEF NoForeignClose, ClosesOwnOnly
<1> QED
  BY <1>1, <1>2, ConnInvariant, PTL DEF Spec

-----------------------------------------------------------------------------
(* The pages of a processor *)

HIDE DEF NoFd, NoConn, NoProc, Listener

\* The pages in the buffers of the connections of processor p, one pair for each, by whose
\* the connections are and how many pages each has.
Held(p, owner, num) ==
    {x \in Conns \X (1 .. MaxPages) : owner[x[1]] = p /\ x[2] <= num[x[1]]}
HeldBy(p) == Held(p, mProcessor, pages)

\* Those of the connections but c.
HeldByOthers(p, c, owner, num) == {x \in Held(p, owner, num) : x[1] # c}

\* Free pages and those in buffers are no more than the pool has; the pool may refuse
\* its last page.
PagesCounted ==
    /\ pages \in [Conns -> 0 .. MaxPages] /\ freePages \in [Procs -> 0 .. MaxPages]
    /\ \A c \in Conns : c > accepted => pages[c] = 0
    /\ \A p \in Procs : Cardinality(HeldBy(p)) + freePages[p] <= MaxPages

\* The parts of TypeOK that Types leaves out.
OtherTypes ==
    /\ nullBack \in [Conns -> BOOLEAN] /\ unread \in [Conns -> BOOLEAN]
    /\ deleted \subseteq Conns
    /\ op \in [Procs -> SUBSET {"IN", "ERR", "CLOSE", "CLOSED"}]
    /\ peer \in [Conns -> {"open", "fin", "rst"}]

\* The pages of a processor are those of one of its connections and those of the others.
LEMMA PagesOfOne ==
  ASSUME NEW owner, NEW num,
         NEW p \in Procs, NEW c \in Conns, owner[c] = p, num[c] \in 0 .. MaxPages
  PROVE  /\ Cardinality(HeldByOthers(p, c, owner, num)) \in Nat
         /\ Cardinality(Held(p, owner, num))
                = Cardinality(HeldByOthers(p, c, owner, num)) + num[c]
<1> DEFINE own == {c} \X (1 .. num[c])
           others == HeldByOthers(p, c, owner, num)
<1>1. MaxPages \in Nat /\ num[c] \in Nat /\ MaxConns \in Nat
  BY NetServerAssumption
<1>2. IsFiniteSet(own) /\ Cardinality(own) = num[c]
  <2>1. IsFiniteSet(1 .. num[c]) /\ Cardinality(1 .. num[c]) = num[c]
    <3>1. PICK n \in Int : n = num[c] /\ n >= 0
      BY <1>1
    <3>2. IsFiniteSet(1 .. n) /\ Cardinality(1 .. n) = IF 1 > n THEN 0 ELSE n - 1 + 1
      BY FS_Interval
    <3> QED
      BY <3>1, <3>2
  <2>2. IsFiniteSet({c}) /\ Cardinality({c}) = 1
    BY FS_Singleton
  <2>3. IsFiniteSet(own) /\ Cardinality(own) = Cardinality({c}) * Cardinality(1 .. num[c])
    BY <2>1, <2>2, FS_Product
  <2> QED
    BY <1>1, <2>1, <2>2, <2>3
<1>3. IsFiniteSet(others) /\ Cardinality(others) \in Nat
  <2>1. IsFiniteSet(Conns) /\ IsFiniteSet(1 .. MaxPages)
    BY <1>1, FS_Interval DEF Conns
  <2>2. IsFiniteSet(Conns \X (1 .. MaxPages))
    BY <2>1, FS_Product
  <2>3. others \in SUBSET (Conns \X (1 .. MaxPages))
    BY DEF HeldByOthers, Held
  <2> QED
    BY <2>2, <2>3, FS_Subset, FS_CardinalityType
<1>4. Held(p, owner, num) = others \cup own
  <2>1. own \subseteq Held(p, owner, num)
    <3> SUFFICES ASSUME NEW x \in own PROVE x \in Held(p, owner, num)
      OBVIOUS
    <3>1. x \in Conns \X (1 .. MaxPages) /\ x[1] = c /\ x[2] <= num[c]
      BY <1>1
    <3> QED
      BY <3>1 DEF Held
  <2>2. ASSUME NEW x \in Held(p, owner, num), x[1] = c PROVE x \in own
    <3>1. x \in Conns \X (1 .. MaxPages) /\ x[2] <= num[c]
      BY <2>2 DEF Held
    <3>2. x[2] \in 1 .. num[c] /\ x = <<x[1], x[2]>>
      BY <1>1, <3>1
    <3> QED
      BY <2>2, <3>2
  <2> QED
    BY <2>1, <2>2 DEF HeldByOthers
<1>5. others \cap own = {}
  BY DEF HeldByOthers
<1>6. Cardinality(others \cap own) = 0
  BY <1>5, FS_EmptySet
<1> HIDE DEF own, others
<1>7. Cardinality(others \cup own)
         = Cardinality(others) + Cardinality(own) - Cardinality(others \cap own)
  BY <1>2, <1>3, FS_Union
<1> QED
  BY <1>1, <1>2, <1>3, <1>4, <1>6, <1>7 DEF others

\* Reading takes pages from the pool of the thread for the connection it handles, and
\* gives back; none comes from nowhere (ioBuffer.cc:22-36, 55-79, 95-128).
LEMMA ReadTakesAndGives ==
  ASSUME NEW p \in Procs, NEW c \in Conns, Read(p, c), PagesCounted
  PROVE  \E m, f \in Nat :
             /\ m + f <= pages[c] + freePages[p]
             /\ pages' = [pages EXCEPT ![c] = m]
             /\ freePages' = [freePages EXCEPT ![p] = f]
<1>1. /\ pages[c] \in Nat /\ freePages[p] \in Nat
      /\ pages = [pages EXCEPT ![c] = pages[c]] /\ freePages = [freePages EXCEPT ![p] = freePages[p]]
  BY NetServerAssumption DEF PagesCounted
<1>2. CASE UNCHANGED <<bufferVars, freePages>>
  BY <1>1, <1>2 DEF bufferVars
<1>3. FirstPage(c) \in 0 .. 1 /\ (HasPage(p, c) => FirstPage(c) <= freePages[p])
  BY <1>1 DEF FirstPage, HasPage
<1>4. ASSUME NEW more \in 0 .. 1, TakePages(p, c, more), FirstPage(c) + more <= freePages[p]
      PROVE  \E m, f \in Nat :
             /\ m + f <= pages[c] + freePages[p]
             /\ pages' = [pages EXCEPT ![c] = m]
             /\ freePages' = [freePages EXCEPT ![p] = f]
  <2> DEFINE m == pages[c] + FirstPage(c) + more
             f == freePages[p] - FirstPage(c) - more
  <2>1. m \in Nat /\ f \in Nat /\ m + f <= pages[c] + freePages[p]
    BY <1>1, <1>3, <1>4
  <2>2. pages' = [pages EXCEPT ![c] = m] /\ freePages' = [freePages EXCEPT ![p] = f]
    BY <1>4 DEF TakePages
  <2> HIDE DEF m, f
  <2> QED
    BY <2>1, <2>2
<1>5. CASE ReadData(p, c)
  <2>1. PICK back \in 0 .. pages[c] + FirstPage(c) - 1, refused \in 0 .. 1 :
           /\ refused <= back
           /\ pages' = [pages EXCEPT ![c] = pages[c] + FirstPage(c) - back]
           /\ freePages' = [freePages EXCEPT ![p] = freePages[p] - FirstPage(c) + back - refused]
    BY <1>5 DEF ReadData
  <2> DEFINE m == pages[c] + FirstPage(c) - back
             f == freePages[p] - FirstPage(c) + back - refused
  <2>2. m \in Nat /\ f \in Nat /\ m + f <= pages[c] + freePages[p]
    BY <1>1, <1>3, <1>5, <2>1 DEF ReadData
  <2>3. pages' = [pages EXCEPT ![c] = m] /\ freePages' = [freePages EXCEPT ![p] = f]
    BY <2>1
  <2> HIDE DEF m, f
  <2> QED
    BY <2>2, <2>3
<1>6. CASE ReadFillsPage(p, c)
  <2>1. PICK more \in 0 .. 1 :
            /\ more = IF freePages[p] - FirstPage(c) > 0 THEN 1 ELSE 0
            /\ TakePages(p, c, more)
    BY <1>6 DEF ReadFillsPage
  <2>2. FirstPage(c) + more <= freePages[p]
    BY <1>1, <1>3, <2>1 DEF TakePages
  <2> QED
    BY <1>4, <2>1, <2>2
<1>7. CASE ReadEnds(p, c)
  <2>1. PICK more \in 0 .. 1 : more = 0
    OBVIOUS
  <2>2. TakePages(p, c, more) /\ FirstPage(c) + more <= freePages[p]
    BY <1>1, <1>3, <1>7, <2>1 DEF ReadEnds, TakePages
  <2> QED
    BY <1>4, <2>2
<1> QED
  BY <1>2, <1>5, <1>6, <1>7 DEF Read, ReadStarved, ReadNothing, ReadIntoNull

\* What a thread takes it takes from its own pool, for its own connection.
LEMMA HandleReadCounts ==
  ASSUME ConnInv, PagesCounted, NEW p \in Procs, HandleRead(p)
  PROVE  PagesCounted'
<1>1. /\ Read(p, cur[p]) /\ UNCHANGED <<mProcessor, accepted>>
      /\ cur[p] \in Conns /\ mProcessor[cur[p]] = p
  BY DEF HandleRead, ConnInv, HandlesOwn
<1>0. PICK c \in Conns : c = cur[p]
  BY <1>1
<1> DEFINE others == HeldByOthers(p, c, mProcessor, pages)
<1>2. PICK m \in Nat, f \in Nat :
             /\ m + f <= pages[c] + freePages[p]
             /\ pages' = [pages EXCEPT ![c] = m]
             /\ freePages' = [freePages EXCEPT ![p] = f]
  BY <1>0, <1>1, ReadTakesAndGives
<1>3. /\ pages \in [Conns -> 0 .. MaxPages] /\ freePages \in [Procs -> 0 .. MaxPages]
      /\ MaxPages \in Nat
  BY NetServerAssumption DEF PagesCounted
<1>4. /\ pages'[c] = m /\ \A d \in Conns : d # c => pages'[d] = pages[d]
      /\ freePages'[p] = f /\ \A q \in Procs : q # p => freePages'[q] = freePages[q]
  BY <1>1, <1>2, <1>3
<1>5. Cardinality(others) \in Nat /\ Cardinality(HeldBy(p)) = Cardinality(others) + pages[c]
  BY <1>0, <1>1, <1>3, PagesOfOne DEF HeldBy
<1>6. Cardinality(HeldBy(p)) + freePages[p] <= MaxPages
  BY DEF PagesCounted
<1>7. m \in 0 .. MaxPages /\ f \in 0 .. MaxPages
  BY <1>1, <1>2, <1>3, <1>5, <1>6
<1>8. pages' \in [Conns -> 0 .. MaxPages] /\ freePages' \in [Procs -> 0 .. MaxPages]
  BY <1>2, <1>3, <1>7
<1>9. \A q \in Procs : Cardinality(HeldBy(q)') + freePages'[q] <= MaxPages
  <2>1. ASSUME NEW q \in Procs, q # p PROVE HeldBy(q)' = HeldBy(q)
    <3>1. mProcessor[c] # q
      BY <1>0, <1>1, <2>1
    <3> QED
      BY <1>1, <1>4, <3>1 DEF HeldBy, Held
  <2>2. HeldByOthers(p, c, mProcessor', pages') = others
    BY <1>1, <1>4 DEF HeldByOthers, Held
  <2>3. Cardinality(Held(p, mProcessor', pages')) = Cardinality(others) + m
    <3>1. mProcessor'[c] = p /\ pages'[c] \in 0 .. MaxPages /\ pages'[c] = m
      BY <1>0, <1>1, <1>4, <1>7
    <3>2. Cardinality(Held(p, mProcessor', pages'))
             = Cardinality(HeldByOthers(p, c, mProcessor', pages')) + pages'[c]
      BY <3>1, PagesOfOne
    <3> QED
      BY <2>2, <3>1, <3>2
  <2>4. Cardinality(HeldBy(p)') + freePages'[p] <= MaxPages
    <3>1. HeldBy(p)' = Held(p, mProcessor', pages')
      BY DEF HeldBy
    <3> HIDE DEF others
    <3> QED
      BY <1>2, <1>3, <1>4, <1>5, <1>6, <2>3, <3>1
  <2> QED
    BY <1>4, <2>1, <2>4 DEF PagesCounted
<1>10. \A d \in Conns : d > accepted' => pages'[d] = 0
  <2>1. c <= accepted
    <3>1. ~(c > accepted)
      BY <1>0, <1>1, Names DEF ConnInv, NothingBeforeAccept, NoProc
    <3> QED
      BY <1>1, <3>1, NetServerAssumption DEF ConnInv, Types, Conns
  <2> QED
    BY <1>1, <1>4, <2>1, NetServerAssumption DEF PagesCounted, ConnInv, Types, Conns
<1> QED
  BY <1>8, <1>9, <1>10 DEF PagesCounted

\* A connection just accepted has no page yet (netConnection.cc:51-75).
LEMMA AcceptCounts ==
  ASSUME ConnInv, PagesCounted, NEW p \in Procs, HandleNewConnection(p)
  PROVE  PagesCounted'
<1>1. UNCHANGED <<pages, freePages>> /\ (AcceptConnection(p) \/ AcceptFails)
  BY DEF HandleNewConnection, bufferVars
<1>2. CASE AcceptFails
  BY <1>1, <1>2 DEF AcceptFails, PagesCounted, HeldBy, Held
<1>3. CASE AcceptConnection(p)
  <2>1. accepted' = accepted + 1 /\ mProcessor' = [mProcessor EXCEPT ![accepted + 1] = p]
    BY <1>3 DEF AcceptConnection
  <2>2. accepted \in Nat /\ mProcessor \in [Conns -> Procs \cup {NoProc}]
    BY NetServerAssumption DEF ConnInv, Types
  <2>3. \A d \in Conns : d > accepted' => pages[d] = 0
    BY <2>1, <2>2 DEF PagesCounted, Conns
  <2>4. ASSUME NEW q \in Procs PROVE HeldBy(q)' = HeldBy(q)
    <3>1. ASSUME NEW x \in Conns \X (1 .. MaxPages), x[2] <= pages[x[1]]
          PROVE  mProcessor'[x[1]] = mProcessor[x[1]]
      <4>1. x[1] \in Conns /\ x[2] >= 1 /\ x[2] \in Nat
        OBVIOUS
      <4>2. pages[x[1]] # 0
        BY <3>1, <4>1
      <4>3. x[1] # accepted + 1
        BY <2>2, <4>1, <4>2 DEF PagesCounted, Conns
      <4> QED
        BY <2>1, <2>2, <4>1, <4>3
    <3> QED
      BY <1>1, <3>1 DEF HeldBy, Held
  <2> QED
    BY <1>1, <2>3, <2>4 DEF PagesCounted
<1> QED
  BY <1>1, <1>2, <1>3

\* The other parts of the state keep their types.
LEMMA StepKeepsOtherTypes == ConnInv /\ OtherTypes /\ [Next]_vars => OtherTypes'
<1> SUFFICES ASSUME ConnInv, OtherTypes, [Next]_vars PROVE OtherTypes'
  OBVIOUS
<1>1. CASE Client
  <2>1. UNCHANGED <<nullBack, deleted, op>>
    BY <1>1 DEF Client, ClientConnects, ClientSends, ClientCloses, ClientResets, connVars,
                bufferVars, loopVars
  <2>2. unread' \in [Conns -> BOOLEAN] /\ peer' \in [Conns -> {"open", "fin", "rst"}]
    BY <1>1 DEF Client, ClientConnects, ClientSends, ClientCloses, ClientResets, OtherTypes
  <2> QED
    BY <2>1, <2>2 DEF OtherTypes
<1>2. ASSUME NEW p \in Procs, MainLoop(p) PROVE OtherTypes'
  <2>1. CASE \/ EpollWait(p) \/ EndOfBatch(p) \/ HandleNewConnection(p)
             \/ DeleteFromEpoll(p) \/ CloseFd(p)
    <3>1. UNCHANGED <<nullBack, deleted, op, unread, peer>>
      BY <2>1 DEF EpollWait, EndOfBatch, HandleNewConnection, DeleteFromEpoll, CloseFd,
                  connVars, bufferVars, netVars
    <3> QED
      BY <3>1 DEF OtherTypes
  <2>2. CASE NextEvent(p)
    <3>1. UNCHANGED <<nullBack, deleted, unread, peer>>
      BY <2>2 DEF NextEvent, connVars, bufferVars, netVars
    <3>2. PICK e \in batch[p] :
              op' = [op EXCEPT ![p] = IF IsGood(e[1]) THEN e[2] ELSE {"CLOSE"}]
      BY <2>2 DEF NextEvent
    <3>3. e[2] \subseteq {"IN", "ERR"}
      BY DEF ConnInv, Types
    <3>4. op' \in [Procs -> SUBSET {"IN", "ERR", "CLOSE", "CLOSED"}]
      BY <3>2, <3>3 DEF OtherTypes
    <3> QED
      BY <3>1, <3>4 DEF OtherTypes
  <2>3. CASE HandleRead(p)
    <3>1. /\ UNCHANGED <<deleted, peer>> /\ Read(p, cur[p])
      BY <2>3 DEF HandleRead
    <3>2. PICK done \in {{}, {"IN"}} : op' = [op EXCEPT ![p] = @ \ done]
      BY <3>1 DEF Read, ReadStarved, ReadData, ReadFillsPage, ReadNothing, ReadIntoNull,
                  ReadEnds, GoOn, CloseNext
    <3>3. op' \in [Procs -> SUBSET {"IN", "ERR", "CLOSE", "CLOSED"}]
      BY <3>2 DEF OtherTypes
    <3>4. unread' = unread \/ unread' = [unread EXCEPT ![cur[p]] = FALSE]
      BY <3>1 DEF Read, ReadStarved, ReadData, ReadFillsPage, ReadNothing, ReadIntoNull,
                  ReadEnds
    <3>5. nullBack' = nullBack \/ \E b \in BOOLEAN : nullBack' = [nullBack EXCEPT ![cur[p]] = b]
      BY <3>1 DEF Read, ReadStarved, ReadData, ReadFillsPage, ReadNothing, ReadIntoNull,
                  ReadEnds, bufferVars
    <3>6. unread' \in [Conns -> BOOLEAN] /\ nullBack' \in [Conns -> BOOLEAN]
      BY <3>4, <3>5 DEF OtherTypes
    <3> QED
      BY <3>1, <3>3, <3>6 DEF OtherTypes
  <2>4. CASE HandleErrorOrClose(p) \/ ResetFd(p)
    <3>1. UNCHANGED <<nullBack, deleted, unread, peer>>
      BY <2>4 DEF HandleErrorOrClose, ResetFd, connVars, bufferVars, netVars
    <3>2. op' \in [Procs -> SUBSET {"IN", "ERR", "CLOSE", "CLOSED"}]
      BY <2>4 DEF HandleErrorOrClose, ResetFd, CloseNext, OtherTypes
    <3> QED
      BY <3>1, <3>2 DEF OtherTypes
  <2>5. CASE HandleEventReturns(p)
    <3>1. UNCHANGED <<nullBack, unread, peer>>
      BY <2>5 DEF HandleEventReturns, bufferVars, netVars
    <3>2. cur[p] \in Conns
      BY <2>5 DEF HandleEventReturns, ConnInv, HandlesOwn
    <3>3. deleted' \subseteq Conns
      BY <2>5, <3>2 DEF HandleEventReturns, OtherTypes
    <3>4. op' \in [Procs -> SUBSET {"IN", "ERR", "CLOSE", "CLOSED"}]
      BY <2>5 DEF HandleEventReturns, OtherTypes
    <3> QED
      BY <3>1, <3>3, <3>4 DEF OtherTypes
  <2> QED
    BY <1>2, <2>1, <2>2, <2>3, <2>4, <2>5 DEF MainLoop, HandleCloseEvent
<1>3. CASE UNCHANGED vars
  <2>1. UNCHANGED <<nullBack, deleted, op, unread, peer>>
    BY <1>3 DEF vars, connVars, bufferVars, loopVars, netVars
  <2> QED
    BY <2>1 DEF OtherTypes
<1> QED
  BY <1>1, <1>2, <1>3 DEF Next

\* No other step moves pages or changes whose they are.
LEMMA StepKeepsPagesCounted == ConnInv /\ PagesCounted /\ [Next]_vars => PagesCounted'
<1> SUFFICES ASSUME ConnInv, PagesCounted, [Next]_vars PROVE PagesCounted'
  OBVIOUS
<1>1. CASE UNCHANGED <<pages, freePages, mProcessor, accepted>>
  BY <1>1 DEF PagesCounted, HeldBy, Held
<1>2. CASE Client \/ UNCHANGED vars
  BY <1>1, <1>2 DEF Client, ClientConnects, ClientSends, ClientCloses, ClientResets, vars,
                    connVars, bufferVars
<1>3. ASSUME NEW p \in Procs, MainLoop(p) PROVE PagesCounted'
  <2>1. CASE HandleRead(p) \/ HandleNewConnection(p)
    BY <2>1, HandleReadCounts, AcceptCounts
  <2>2. CASE \/ EpollWait(p) \/ EndOfBatch(p) \/ NextEvent(p) \/ HandleErrorOrClose(p)
             \/ HandleCloseEvent(p) \/ HandleEventReturns(p)
    BY <1>1, <2>2 DEF EpollWait, EndOfBatch, NextEvent, HandleErrorOrClose, HandleCloseEvent,
                      DeleteFromEpoll, CloseFd, ResetFd, HandleEventReturns, connVars, bufferVars
  <2> QED
    BY <1>3, <2>1, <2>2 DEF MainLoop
<1> QED
  BY <1>2, <1>3 DEF Next

\* The pool is full, and nobody has a page.
LEMMA InitCountsPages == Init => PagesCounted /\ OtherTypes
<1> SUFFICES ASSUME Init PROVE PagesCounted /\ OtherTypes
  OBVIOUS
<1>1. MaxPages \in Nat /\ \A c \in Conns : pages[c] = 0
  BY NetServerAssumption DEF Init
<1>2. \A p \in Procs : HeldBy(p) = {} /\ freePages[p] = MaxPages
  BY <1>1 DEF Init, HeldBy, Held
<1>3. \A p \in Procs : Cardinality(HeldBy(p)) + freePages[p] <= MaxPages
  BY <1>1, <1>2, FS_EmptySet
<1>4. pages \in [Conns -> 0 .. MaxPages] /\ freePages \in [Procs -> 0 .. MaxPages]
  BY NetServerAssumption DEF Init
<1>5. OtherTypes
  BY DEF Init, OtherTypes
<1> QED
  BY <1>1, <1>3, <1>4, <1>5 DEF PagesCounted

\* A processor's connections never hold more pages than are missing from its pool, however
\* the reads of different connections follow each other (ioBuffer.cc:22-36, 55-79, 95-128).
THEOREM PagesInvariant == Init /\ [][Next]_vars => [](PagesCounted /\ OtherTypes)
<1>1. /\ ConnInv /\ PagesCounted /\ OtherTypes /\ [Next]_vars
      => PagesCounted' /\ OtherTypes'
  BY StepKeepsPagesCounted, StepKeepsOtherTypes
<1> QED
  BY <1>1, InitCountsPages, ConnInvariant, PTL

\* The variables have their types, whatever the clients do: no read or close gives a pool
\* more pages than it has (processor.cc:37-125, ioBuffer.cc:84-128).
THEOREM NetServerTypes == Spec => []TypeOK
<1>1. ConnInv /\ PagesCounted /\ OtherTypes => TypeOK
  BY DEF ConnInv, Types, PagesCounted, OtherTypes, TypeOK
<1> QED
  BY <1>1, PagesInvariant, ConnInvariant, PTL DEF Spec
=============================================================================
