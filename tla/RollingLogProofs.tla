--------------------------- MODULE RollingLogProofs ---------------------------
(***************************************************************************)
(* Proofs about RollingLog, for every number, length and time of records:  *)
(* none is lost, doubled or moved but for the named reasons, and no file   *)
(* grows past the limit by more than its last record.                      *)
(*                                                                         *)
(* The argument: outside of a roll the process has a descriptor unless an  *)
(* open failed (HasFile), so that a record written is in the file; a       *)
(* record has the highest number of all, and its file is read last, so     *)
(* that an append and a rename to the latest name keep the order; and what *)
(* is written to was found to be below the limit, or is empty              *)
(* (BelowLimit).                                                           *)
(***************************************************************************)
EXTENDS RollingLog, SequenceTheorems, TLAPS

\* Outside of a roll there is a descriptor, unless an open failed.
HasFile == "open" \notin refused /\ pc \notin {"down", "firstOpen", "fullOpen"} => fd

\* Where the records of a file are.
Indices(name) == 1 .. Len(File(name).records)

\* Every record logged is in a file, unless a file was overwritten or not opened.
AllKept ==
    ~overwrote /\ "open" \notin refused =>
        \A r \in 1 .. Len(sizes) : \E s \in Names : \E i \in Indices(s) : File(s).records[i] = r

\* No record is in two places.
KeptOnce ==
    \A s, u \in Names : \A i \in Indices(s), j \in Indices(u) :
        File(s).records[i] = File(u).records[j] => s = u /\ i = j

\* In the order of the names, and within a file, the numbers go up.
Ascending ==
    ~setBack =>
        \A s, u \in Names : \A i \in Indices(s), j \in Indices(u) :
            s < u \/ (s = u /\ i < j) => File(s).records[i] < File(u).records[j]

\* A record is only written to a file below the limit.
BelowLimit ==
    "rename" \notin refused =>
        /\ pc = "write" /\ fd => current.size < MaxFileSize
        /\ pc = "fullOpen" => current = NoRecords

\* The strengthening that is inductive.
LogInv ==
    /\ TypeOK
    /\ HasFile
    /\ AllKept
    /\ KeptOnce
    /\ Ascending
    /\ BelowLimit
    /\ SizeBounded

\* The current file's name.
Newest == MaxClock + 1
FileTypes == [records : Seq(1 .. Len(sizes)), size : Nat]

-----------------------------------------------------------------------------

\* Every file has records that were logged, and the current one is none of those rolled.
LEMMA FilesAreFiles ==
  ASSUME TypeOK
  PROVE  /\ \A s \in Names : /\ File(s) \in FileTypes
                             /\ Len(File(s).records) \in Nat
                             /\ \A i \in Indices(s) : File(s).records[i] \in 1 .. Len(sizes)
         /\ Newest \notin DOMAIN rolled /\ Newest \in Names /\ File(Newest) = current
         /\ \A s \in Names : s \in Nat /\ (s # Newest => s \in DOMAIN rolled /\ s < Newest)
         /\ MaxClock \in Nat
<1>1. MaxClock \in Nat /\ DOMAIN rolled \subseteq 0 .. MaxClock
  BY RollingLogAssumption DEF TypeOK
<1>2. Newest \notin DOMAIN rolled /\ Newest \in Names /\ File(Newest) = current
  BY <1>1 DEF Newest, Names, File
<1>3. \A s \in Names : s \in Nat /\ (s # Newest => s \in DOMAIN rolled /\ s < Newest)
  BY <1>1 DEF Newest, Names
<1>4. ASSUME NEW s \in Names
      PROVE  /\ File(s) \in FileTypes
             /\ Len(File(s).records) \in Nat
             /\ \A i \in Indices(s) : File(s).records[i] \in 1 .. Len(sizes)
  <2>1. File(s) \in FileTypes
    BY <1>2, <1>3 DEF TypeOK, FileTypes, File
  <2>2. File(s).records \in Seq(1 .. Len(sizes))
    BY <2>1 DEF FileTypes
  <2> QED
    BY <2>1, <2>2, LenProperties, ElementOfSeq DEF Indices
<1> QED
  BY <1>1, <1>2, <1>3, <1>4

\* Nothing is logged.
LEMMA InitInv == Init => LogInv
<1> SUFFICES ASSUME Init PROVE LogInv
  OBVIOUS
<1>1. /\ clock = 0 /\ pc = "down" /\ t = 0 /\ current = NoRecords /\ rolled = <<>> /\ sizes = <<>>
      /\ refused = {} /\ fd = FALSE
  BY DEF Init
<1>2. TypeOK
  <2>1. NoRecords \in FileTypes
    BY EmptySeq DEF NoRecords, FileTypes
  <2>2. DOMAIN rolled = {}
    BY <1>1
  <2>3. sizes \in Seq(Sizes) /\ 0 \in 0 .. MaxClock
    BY <1>1, EmptySeq, RollingLogAssumption
  <2>4. rolled \in [DOMAIN rolled -> FileTypes]
    BY <2>2, <1>1
  <2> QED
    BY <1>1, <2>1, <2>2, <2>3, <2>4 DEF Init, TypeOK, FileTypes
<1>3. Len(sizes) = 0 /\ \A s \in Names : Indices(s) = {}
  <2>1. DOMAIN rolled = {} /\ Len(NoRecords.records) = 0 /\ Len(sizes) = 0
    BY <1>1, EmptySeq DEF NoRecords
  <2> QED
    BY <1>1, <2>1 DEF Names, File, Indices
<1>4. HasFile /\ BelowLimit
  BY <1>1 DEF HasFile, BelowLimit
<1>5. AllKept /\ KeptOnce /\ Ascending
  BY <1>3 DEF AllKept, KeptOnce, Ascending
<1>6. SizeBounded
  <2>1. \A s \in Names : File(s).records = <<>>
    BY <1>1 DEF Names, File, NoRecords
  <2> QED
    BY <2>1 DEF SizeBounded
<1> QED
  BY <1>2, <1>4, <1>5, <1>6 DEF LogInv

\* As long as the files stay as they are, so does what is in them.
LEMMA SameFiles ==
  ASSUME LogInv, UNCHANGED <<current, rolled, sizes, overwrote, setBack>>, refused \subseteq refused'
  PROVE  AllKept' /\ KeptOnce' /\ Ascending' /\ SizeBounded'
<1>1. Names' = Names /\ \A s : File(s)' = File(s) /\ Indices(s)' = Indices(s)
  BY DEF Names, File, Indices
<1>2. AllKept'
  BY <1>1 DEF LogInv, AllKept
<1>3. KeptOnce' /\ Ascending'
  BY <1>1 DEF LogInv, KeptOnce, Ascending
<1>4. SizeBounded'
  BY <1>1 DEF LogInv, SizeBounded
<1> QED
  BY <1>2, <1>3, <1>4

-----------------------------------------------------------------------------
(* The steps *)

\* The clock, the end of a process, and the steps of _append that touch no file.
LEMMA QuietStepsKeep ==
  ASSUME LogInv, Tick \/ Dies \/ Called \/ Check \/ UNCHANGED vars
  PROVE  LogInv'
<1>1. UNCHANGED <<exists, current, rolled, sizes, overwrote, setBack, refused>>
  BY DEF Tick, Dies, Called, Check, InAppend, fileVars, vars
<1>2. /\ clock' \in 0 .. MaxClock /\ t' \in 0 .. MaxClock
      /\ pc' \in {"down", "idle", "first", "firstOpen", "check", "full", "fullOpen", "write"}
      /\ fd' => fd
  BY DEF Tick, Dies, Called, Check, InAppend, vars, LogInv, TypeOK
<1>3. Start_process' \in BOOLEAN /\ fd' \in BOOLEAN
  <2>1. Start_process \in BOOLEAN /\ fd \in BOOLEAN
    BY Zenon DEF LogInv, TypeOK
  <2> QED
    BY <2>1 DEF Tick, Dies, Called, Check, InAppend, vars
<1>4. TypeOK'
  <2>1. overwrote \in BOOLEAN /\ setBack \in BOOLEAN /\ exists \in BOOLEAN
    BY Zenon DEF LogInv, TypeOK
  <2>2. (fd => exists)' /\ (~exists => current = NoRecords)'
    BY <1>1, <1>2 DEF LogInv, TypeOK
  <2>3. /\ sizes \in Seq(Sizes) /\ current \in FileTypes /\ DOMAIN rolled \subseteq 0 .. MaxClock
        /\ rolled \in [DOMAIN rolled -> FileTypes] /\ refused \subseteq {"open", "rename"}
    BY DEF LogInv, TypeOK, FileTypes
  <2> QED
    BY <1>1, <1>2, <1>3, <2>1, <2>2, <2>3 DEF TypeOK, FileTypes
<1>5. HasFile'
  BY <1>1 DEF Tick, Dies, Called, Check, InAppend, vars, LogInv, HasFile
<1>6. BelowLimit'
  <2>1. CASE Check
    <3>1. pc' = IF IsFull THEN "full" ELSE "write"
      BY <2>1 DEF Check, InAppend
    <3>2. pc' = "write" /\ fd => current.size < MaxFileSize
      <4>1. current.size \in Nat /\ MaxFileSize \in Nat
        BY RollingLogAssumption DEF LogInv, TypeOK
      <4> QED
        BY <3>1, <4>1 DEF IsFull
    <3> QED
      BY <1>1, <1>2, <3>1, <3>2 DEF BelowLimit
  <2>2. CASE Dies \/ Called
    BY <2>2 DEF Dies, Called, InAppend, BelowLimit
  <2>3. CASE Tick \/ UNCHANGED vars
    BY <1>1, <2>3 DEF Tick, vars, LogInv, BelowLimit
  <2> QED
    BY <2>1, <2>2, <2>3
<1>7. AllKept' /\ KeptOnce' /\ Ascending' /\ SizeBounded'
  BY <1>1, SameFiles
<1> QED
  BY <1>4, <1>5, <1>6, <1>7 DEF LogInv

\* A file is opened, or not, in the constructor and after the rename
\* (fileLengthRollingFileAppender.cc:183-185).
LEMMA OpeningKeeps ==
  ASSUME LogInv, MsgLoggerInit \/ Reopens("firstOpen", "check") \/ Reopens("fullOpen", "write")
  PROVE  LogInv'
<1>1. Opens \/ OpenFails
  BY DEF MsgLoggerInit, FileLengthRollingFileAppender, Reopens
<1>2. /\ UNCHANGED <<clock, t, current, rolled, sizes, overwrote, setBack>>
      /\ pc' \in {"idle", "check", "write"}
      /\ pc' = "write" => pc = "fullOpen"
  BY <1>1
  DEF MsgLoggerInit, FileLengthRollingFileAppender, Reopens, Opens, OpenFails, fileVars
<1>3. Start_process' \in BOOLEAN
  <2>1. Start_process \in BOOLEAN
    BY Zenon DEF LogInv, TypeOK
  <2> QED
    BY <2>1 DEF MsgLoggerInit, FileLengthRollingFileAppender, Reopens
<1>4. \/ fd' = TRUE /\ exists' = TRUE /\ refused' = refused
      \/ fd' = FALSE /\ exists' = exists /\ refused' = refused \cup {"open"}
  BY <1>1 DEF Opens, OpenFails, fileVars
<1>5. TypeOK'
  <2>1. overwrote \in BOOLEAN /\ setBack \in BOOLEAN /\ exists \in BOOLEAN
    BY Zenon DEF LogInv, TypeOK
  <2>2. fd' \in BOOLEAN /\ exists' \in BOOLEAN /\ (fd => exists)'
    BY <1>4, <2>1
  <2>3. (~exists => current = NoRecords)'
    BY <1>2, <1>4 DEF LogInv, TypeOK
  <2>4. /\ sizes \in Seq(Sizes) /\ current \in FileTypes /\ DOMAIN rolled \subseteq 0 .. MaxClock
        /\ rolled \in [DOMAIN rolled -> FileTypes] /\ refused' \subseteq {"open", "rename"}
        /\ clock \in 0 .. MaxClock /\ t \in 0 .. MaxClock
    BY <1>4 DEF LogInv, TypeOK, FileTypes
  <2> QED
    BY <1>2, <1>3, <2>1, <2>2, <2>3, <2>4 DEF TypeOK, FileTypes
<1>6. HasFile'
  BY <1>4 DEF HasFile
<1>7. BelowLimit'
  <2>1. "rename" \notin refused' /\ pc' = "write" => current.size = 0
    BY <1>2, <1>4 DEF LogInv, BelowLimit, NoRecords
  <2>2. 0 < MaxFileSize
    BY RollingLogAssumption
  <2> QED
    BY <1>2, <2>1, <2>2 DEF BelowLimit
<1>8. AllKept' /\ KeptOnce' /\ Ascending' /\ SizeBounded'
  BY <1>2, <1>4, SameFiles
<1> QED
  BY <1>5, <1>6, <1>7, <1>8 DEF LogInv

\* What was in the current file is in the file named after the second of the roll, and
\* every other file is where it was.
LEMMA RenameMoves ==
  ASSUME LogInv, Rename, sizes' = sizes,
         NEW s \in Names', s # Newest
  PROVE  /\ s \in DOMAIN rolled \cup {t}
         /\ s = t => File(s)' = File(Newest) /\ Indices(s)' = Indices(Newest)
         /\ s # t => s \in DOMAIN rolled /\ File(s)' = File(s) /\ Indices(s)' = Indices(s)
<1>1. DOMAIN rolled' = DOMAIN rolled \cup {t}
  BY DEF Rename
<1>2. s \in DOMAIN rolled \cup {t}
  BY <1>1 DEF Names, Newest
<1>3. s = t => File(s)' = current
  BY <1>1, <1>2 DEF File, Rename
<1>4. s # t => s \in DOMAIN rolled /\ File(s)' = rolled[s] /\ File(s) = rolled[s]
  BY <1>1, <1>2 DEF File, Rename
<1>5. File(Newest) = current
  BY FilesAreFiles DEF LogInv
<1> QED
  BY <1>2, <1>3, <1>4, <1>5 DEF Indices

\* The file that is open after the rename is empty.
LEMMA RenameEmpties ==
  ASSUME LogInv, Rename
  PROVE  File(Newest)' = NoRecords /\ Indices(Newest)' = {}
<1>1. Newest' = Newest /\ Newest \notin DOMAIN rolled' /\ t \in 0 .. MaxClock
  BY FilesAreFiles DEF Rename, Newest, LogInv, TypeOK
<1>2. File(Newest)' = NoRecords
  BY <1>1 DEF File, Rename
<1>3. Len(NoRecords.records) = 0
  BY EmptySeq DEF NoRecords
<1> QED
  BY <1>2, <1>3 DEF Indices

\* The roll of a file leaves every record in place, and in order unless time was set back
\* (fileLengthRollingFileAppender.cc:169-182).
LEMMA RenameKeepsRecords ==
  ASSUME LogInv, Rename, sizes' = sizes, refused' = refused
  PROVE  AllKept' /\ KeptOnce' /\ Ascending' /\ SizeBounded'
<1>1. /\ t \in Nat /\ t < Newest /\ t # Newest
      /\ Newest \notin DOMAIN rolled /\ Newest \in Names
      /\ \A s \in Names : s \in Nat /\ (s # Newest => s \in DOMAIN rolled /\ s < Newest)
      /\ Newest \in Nat
  BY FilesAreFiles DEF LogInv, TypeOK, Newest
<1>2. Names' = Names \cup {t} /\ DOMAIN rolled' = DOMAIN rolled \cup {t}
  BY DEF Rename, Names
<1>3. File(Newest)' = NoRecords /\ Indices(Newest)' = {}
  BY RenameEmpties
<1>4. \A s \in Names' : s # Newest =>
        /\ s \in DOMAIN rolled \cup {t}
        /\ s = t => File(s)' = File(Newest) /\ Indices(s)' = Indices(Newest)
        /\ s # t => s \in DOMAIN rolled /\ File(s)' = File(s) /\ Indices(s)' = Indices(s)
  BY RenameMoves
<1>5. AllKept'
  <2> SUFFICES ASSUME ~overwrote', "open" \notin refused', NEW r \in 1 .. Len(sizes')
               PROVE  \E s \in Names' : \E i \in Indices(s)' : File(s)'.records[i] = r
    BY DEF AllKept
  <2>1. ~overwrote /\ t \notin DOMAIN rolled
    BY DEF Rename
  <2>2. PICK s \in Names : \E i \in Indices(s) : File(s).records[i] = r
    BY <2>1 DEF LogInv, AllKept
  <2>3. CASE s = Newest
    <3>1. PICK n \in Names' : n = t /\ n # Newest
      BY <1>1, <1>2
    <3>2. File(n)' = File(s) /\ Indices(n)' = Indices(s)
      BY <1>4, <2>3, <3>1
    <3> QED
      BY <2>2, <3>2
  <2>4. CASE s # Newest
    <3>1. s \in Names' /\ s # t
      BY <1>1, <1>2, <2>1, <2>4
    <3>2. File(s)' = File(s) /\ Indices(s)' = Indices(s)
      BY <1>4, <2>4, <3>1
    <3> QED
      BY <2>2, <3>1, <3>2
  <2> QED
    BY <2>3, <2>4
<1>6. KeptOnce'
  <2> SUFFICES ASSUME NEW s \in Names', NEW u \in Names',
                      NEW i \in Indices(s)', NEW j \in Indices(u)',
                      File(s)'.records[i] = File(u)'.records[j]
               PROVE  s = u /\ i = j
    BY DEF KeptOnce
  <2> DEFINE from == IF s = t THEN Newest ELSE s
             of == IF u = t THEN Newest ELSE u
  <2>1. s # Newest /\ u # Newest
    BY <1>3
  <2>2. /\ from \in Names /\ File(s)' = File(from) /\ i \in Indices(from)
        /\ of \in Names /\ File(u)' = File(of) /\ j \in Indices(of)
    BY <1>1, <1>4, <2>1 DEF Names
  <2>3. from = of /\ i = j
    BY <2>2 DEF LogInv, KeptOnce
  <2> QED
    BY <2>1, <2>3
<1>7. Ascending'
  <2> SUFFICES ASSUME ~setBack', NEW s \in Names', NEW u \in Names',
                      NEW i \in Indices(s)', NEW j \in Indices(u)',
                      s < u \/ (s = u /\ i < j)
               PROVE  File(s)'.records[i] < File(u)'.records[j]
    BY DEF Ascending
  <2> DEFINE from == IF s = t THEN Newest ELSE s
             of == IF u = t THEN Newest ELSE u
  <2>1. s # Newest /\ u # Newest
    BY <1>3
  <2>2. /\ from \in Names /\ File(s)' = File(from) /\ i \in Indices(from)
        /\ of \in Names /\ File(u)' = File(of) /\ j \in Indices(of)
    BY <1>1, <1>4, <2>1 DEF Names
  <2>3. ~setBack /\ \A d \in DOMAIN rolled : ~(d > t)
    BY DEF Rename
  <2>4. s \in DOMAIN rolled \cup {t} /\ u \in DOMAIN rolled \cup {t}
    BY <1>4, <2>1
  <2>5. from < of \/ (from = of /\ i < j)
    <3>1. CASE u = t
      <4>1. CASE s = t
        BY <3>1, <4>1, <1>1
      <4>2. CASE s # t
        <5>1. s \in Names /\ s # Newest
          BY <2>1, <2>4, <4>2 DEF Names
        <5> QED
          BY <1>1, <3>1, <4>2, <5>1
      <4> QED
        BY <4>1, <4>2
    <3>2. CASE u # t
      <4>1. u \in DOMAIN rolled /\ u \in Nat
        BY <1>1, <2>2, <2>4, <3>2
      <4>2. s # t
        BY <1>1, <2>3, <3>2, <4>1
      <4> QED
        BY <3>2, <4>2
    <3> QED
      BY <3>1, <3>2
  <2>6. File(from).records[i] < File(of).records[j]
    BY <2>2, <2>3, <2>5 DEF LogInv, Ascending
  <2> QED
    BY <2>2, <2>6
<1>8. SizeBounded'
  <2> SUFFICES ASSUME "rename" \notin refused', NEW s \in Names', File(s)'.records # <<>>
               PROVE  File(s)'.size - sizes'[Last(File(s)'.records)] < MaxFileSize
    BY DEF SizeBounded
  <2>1. s # Newest
    BY <1>3 DEF NoRecords
  <2>2. PICK from \in Names : File(s)' = File(from)
    BY <1>1, <1>4, <2>1 DEF Names
  <2>3. File(from).size - sizes[Last(File(from).records)] < MaxFileSize
    BY <2>2 DEF LogInv, SizeBounded
  <2> QED
    BY <2>2, <2>3
<1> QED
  BY <1>5, <1>6, <1>7, <1>8

\* rollOver closes the file and renames it, or fails to
\* (fileLengthRollingFileAppender.cc:169-182).
LEMMA RenamesKeep ==
  ASSUME LogInv, Renames("first", "firstOpen") \/ Renames("full", "fullOpen")
  PROVE  LogInv'
<1>1. /\ UNCHANGED <<clock, t, Start_process, sizes>> /\ fd' = FALSE
      /\ pc' \in {"firstOpen", "fullOpen"}
      /\ \/ exists /\ Rename /\ UNCHANGED refused
         \/ exists /\ refused' = refused \cup {"rename"} /\ UNCHANGED fileVars
         \/ ~exists /\ UNCHANGED <<fileVars, refused>>
  BY DEF Renames
<1>2. HasFile'
  BY <1>1 DEF HasFile
<1>3. /\ sizes' \in Seq(Sizes) /\ clock' \in 0 .. MaxClock /\ t' \in 0 .. MaxClock
      /\ pc' \in {"down", "idle", "first", "firstOpen", "check", "full", "fullOpen", "write"}
  BY <1>1 DEF LogInv, TypeOK
<1>4. Start_process' \in BOOLEAN /\ fd' \in BOOLEAN
  <2>1. Start_process \in BOOLEAN
    BY Zenon DEF LogInv, TypeOK
  <2> QED
    BY <1>1, <2>1
<1>5. CASE exists /\ Rename /\ UNCHANGED refused
  <2>1. TypeOK'
    <3>1. t \in 0 .. MaxClock /\ DOMAIN rolled \subseteq 0 .. MaxClock
          /\ current \in FileTypes /\ rolled \in [DOMAIN rolled -> FileTypes]
      BY DEF LogInv, TypeOK, FileTypes
    <3>2. rolled' \in [DOMAIN rolled \cup {t} -> FileTypes]
      BY <1>5, <3>1 DEF Rename
    <3>3. DOMAIN rolled' = DOMAIN rolled \cup {t}
      BY <1>5 DEF Rename
    <3>4. NoRecords \in FileTypes
      BY EmptySeq DEF NoRecords, FileTypes
    <3>5. overwrote' \in BOOLEAN /\ setBack' \in BOOLEAN
      BY <1>5 DEF Rename
    <3>6. exists' \in BOOLEAN /\ (fd => exists)' /\ current' = NoRecords
      BY <1>1, <1>5 DEF Rename
    <3>7. refused' \subseteq {"open", "rename"}
      BY <1>5 DEF LogInv, TypeOK
    <3> QED
      BY <1>1, <1>3, <1>4, <3>1, <3>2, <3>3, <3>4, <3>5, <3>6, <3>7 DEF TypeOK, FileTypes
  <2>2. BelowLimit'
    BY <1>1, <1>5 DEF Rename, BelowLimit
  <2>3. AllKept' /\ KeptOnce' /\ Ascending' /\ SizeBounded'
    BY <1>1, <1>5, RenameKeepsRecords
  <2> QED
    BY <1>2, <2>1, <2>2, <2>3 DEF LogInv
<1>6. CASE /\ UNCHANGED fileVars /\ refused \subseteq refused'
           /\ refused' \subseteq refused \cup {"rename"}
           /\ ~exists \/ "rename" \in refused'
  <2>1. UNCHANGED <<exists, current, rolled, overwrote, setBack>>
    BY <1>6 DEF fileVars
  <2>2. TypeOK'
    <3>1. overwrote \in BOOLEAN /\ setBack \in BOOLEAN /\ exists \in BOOLEAN
      BY Zenon DEF LogInv, TypeOK
    <3>2. /\ current \in FileTypes /\ DOMAIN rolled \subseteq 0 .. MaxClock
          /\ rolled \in [DOMAIN rolled -> FileTypes] /\ refused' \subseteq {"open", "rename"}
          /\ ~exists => current = NoRecords
      BY <1>6 DEF LogInv, TypeOK, FileTypes
    <3> QED
      BY <1>1, <1>3, <1>4, <2>1, <3>1, <3>2 DEF TypeOK, FileTypes
  <2>3. BelowLimit'
    BY <1>1, <1>6, <2>1 DEF BelowLimit, LogInv, TypeOK
  <2>4. AllKept' /\ KeptOnce' /\ Ascending' /\ SizeBounded'
    BY <1>1, <1>6, <2>1, SameFiles
  <2> QED
    BY <1>2, <2>2, <2>3, <2>4 DEF LogInv
<1> QED
  BY <1>1, <1>5, <1>6

-----------------------------------------------------------------------------
(* A record is written *)

\* A record goes behind the others of the current file, if there is a descriptor, and
\* nothing else changes in any file.
LEMMA WriteAppends ==
  ASSUME LogInv, NEW size \in Sizes, Write(size), fd,
         NEW s \in Names
  PROVE  /\ s # Newest => File(s)' = File(s) /\ Indices(s)' = Indices(s)
         /\ s = Newest =>
              /\ Indices(s)' = Indices(s) \cup {Len(current.records) + 1}
              /\ \A i \in Indices(s) : File(s)'.records[i] = File(s).records[i]
              /\ File(s)'.records[Len(current.records) + 1] = Len(sizes) + 1
              /\ File(s)' = current' /\ Len(current'.records) = Len(current.records) + 1
              /\ current'.size = current.size + size
<1> DEFINE n == Len(current.records)
<1>1. /\ current.records \in Seq(1 .. Len(sizes)) /\ sizes \in Seq(Sizes)
      /\ Newest \notin DOMAIN rolled /\ s \in Names /\ File(Newest) = current
  BY FilesAreFiles DEF LogInv, TypeOK
<1>2. rolled' = rolled /\ current' = [records |-> Append(current.records, Len(sizes) + 1),
                                      size |-> current.size + size]
  BY DEF Write
<1>3. n \in Nat /\ Len(sizes) \in Nat
  BY <1>1, LenProperties
<1>4. s # Newest => File(s)' = File(s) /\ Indices(s)' = Indices(s)
  BY <1>2 DEF File, Indices, Names, Newest
<1>5. ASSUME s = Newest
      PROVE  /\ Indices(s)' = Indices(s) \cup {n + 1}
             /\ \A i \in Indices(s) : File(s)'.records[i] = File(s).records[i]
             /\ File(s)'.records[n + 1] = Len(sizes) + 1
             /\ File(s)' = current' /\ Len(current'.records) = n + 1
             /\ current'.size = current.size + size
  <2>1. File(s)' = current' /\ File(s) = current
    BY <1>1, <1>2, <1>5 DEF File
  <2>2. current.records \in Seq(Nat) /\ Len(sizes) + 1 \in Nat
    BY <1>1, <1>3
  <2>3. /\ Len(Append(current.records, Len(sizes) + 1)) = n + 1
        /\ \A i \in 1 .. n : Append(current.records, Len(sizes) + 1)[i] = current.records[i]
        /\ Append(current.records, Len(sizes) + 1)[n + 1] = Len(sizes) + 1
    BY <2>2, AppendProperties
  <2>4. Indices(s) = 1 .. n /\ Indices(s)' = 1 .. n + 1
    BY <1>2, <2>1, <2>3 DEF Indices
  <2> QED
    BY <1>2, <1>3, <2>1, <2>3, <2>4
<1> QED
  BY <1>4, <1>5

\* Where a record is after a write: where it was, or, the new one, at the end of the
\* current file.
LEMMA WritePlaces ==
  ASSUME LogInv, NEW size \in Sizes, Write(size), fd,
         NEW s \in Names, NEW i \in Indices(s)'
  PROVE  \/ /\ i \in Indices(s) /\ File(s)'.records[i] = File(s).records[i]
            /\ File(s)'.records[i] \in 1 .. Len(sizes)
         \/ /\ s = Newest /\ i = Len(current.records) + 1
            /\ File(s)'.records[i] = Len(sizes) + 1
<1>1. /\ \A j \in Indices(s) : File(s).records[j] \in 1 .. Len(sizes)
  BY FilesAreFiles DEF LogInv
<1> QED
  BY <1>1, WriteAppends

\* A record written is the last of all: the records of no file change their order, and none
\* is lost (FileAppender::_append behind fileLengthRollingFileAppender.cc:188-209).
LEMMA WriteKeepsRecords ==
  ASSUME LogInv, NEW size \in Sizes, Write(size), fd
  PROVE  AllKept' /\ KeptOnce' /\ Ascending' /\ SizeBounded'
<1>1. /\ Names' = Names /\ UNCHANGED <<rolled, overwrote, setBack, refused, fd>>
      /\ sizes' = Append(sizes, size)
  BY DEF Write, Names
<1>2. /\ sizes \in Seq(Sizes) /\ Len(sizes) \in Nat /\ Len(sizes') = Len(sizes) + 1
      /\ \A r \in 1 .. Len(sizes) : sizes'[r] = sizes[r]
      /\ sizes'[Len(sizes) + 1] = size
      /\ size \in Nat /\ size \in Sizes
  <2>1. sizes \in Seq(Sizes) /\ Len(sizes) \in Nat
    BY LenProperties DEF LogInv, TypeOK
  <2> QED
    BY <1>1, <2>1, AppendProperties, RollingLogAssumption
<1>3. /\ Newest \in Names /\ File(Newest) = current
      /\ \A s \in Names : /\ File(s) \in FileTypes /\ Len(File(s).records) \in Nat
                          /\ s \in Nat /\ (s # Newest => s < Newest)
                          /\ \A i \in Indices(s) : File(s).records[i] \in 1 .. Len(sizes)
  BY FilesAreFiles DEF LogInv
<1>4. AllKept'
  <2> SUFFICES ASSUME ~overwrote, "open" \notin refused, NEW r \in 1 .. Len(sizes) + 1
               PROVE  \E s \in Names : \E i \in Indices(s)' : File(s)'.records[i] = r
    BY <1>1, <1>2 DEF AllKept
  <2>1. CASE r = Len(sizes) + 1
    BY <1>3, <2>1, WriteAppends
  <2>2. CASE r # Len(sizes) + 1
    <3>1. r \in 1 .. Len(sizes)
      BY <1>2, <2>2
    <3>2. PICK s \in Names : \E i \in Indices(s) : File(s).records[i] = r
      BY <3>1 DEF LogInv, AllKept
    <3>3. Indices(s) \subseteq Indices(s)'
          /\ \A i \in Indices(s) : File(s)'.records[i] = File(s).records[i]
      BY WriteAppends
    <3> QED
      BY <3>2, <3>3
  <2> QED
    BY <2>1, <2>2
<1>5. KeptOnce'
  <2> SUFFICES ASSUME NEW s \in Names, NEW u \in Names,
                      NEW i \in Indices(s)', NEW j \in Indices(u)',
                      File(s)'.records[i] = File(u)'.records[j]
               PROVE  s = u /\ i = j
    BY <1>1 DEF KeptOnce
  <2>1. \/ /\ i \in Indices(s) /\ File(s)'.records[i] = File(s).records[i]
           /\ File(s)'.records[i] \in 1 .. Len(sizes)
        \/ /\ s = Newest /\ i = Len(current.records) + 1
           /\ File(s)'.records[i] = Len(sizes) + 1
    BY WritePlaces
  <2>2. \/ /\ j \in Indices(u) /\ File(u)'.records[j] = File(u).records[j]
           /\ File(u)'.records[j] \in 1 .. Len(sizes)
        \/ /\ u = Newest /\ j = Len(current.records) + 1
           /\ File(u)'.records[j] = Len(sizes) + 1
    BY WritePlaces
  <2> QED
    BY <1>2, <2>1, <2>2 DEF LogInv, KeptOnce
<1>6. Ascending'
  <2> SUFFICES ASSUME ~setBack, NEW s \in Names, NEW u \in Names,
                      NEW i \in Indices(s)', NEW j \in Indices(u)',
                      s < u \/ (s = u /\ i < j)
               PROVE  File(s)'.records[i] < File(u)'.records[j]
    BY <1>1 DEF Ascending
  <2>1. \/ /\ i \in Indices(s) /\ File(s)'.records[i] = File(s).records[i]
           /\ File(s)'.records[i] \in 1 .. Len(sizes)
        \/ /\ s = Newest /\ i = Len(current.records) + 1
           /\ File(s)'.records[i] = Len(sizes) + 1
    BY WritePlaces
  <2>2. \/ /\ j \in Indices(u) /\ File(u)'.records[j] = File(u).records[j]
           /\ File(u)'.records[j] \in 1 .. Len(sizes)
        \/ /\ u = Newest /\ j = Len(current.records) + 1
           /\ File(u)'.records[j] = Len(sizes) + 1
    BY WritePlaces
  <2>3. CASE s = Newest /\ i = Len(current.records) + 1
    <3>1. u = Newest /\ i < j
      BY <1>3, <2>3
    <3>2. j \notin Indices(Newest) /\ j # i
      BY <1>3, <2>3, <3>1 DEF Indices
    <3> QED
      BY <2>2, <2>3, <3>1, <3>2
  <2>4. CASE /\ i \in Indices(s) /\ File(s)'.records[i] = File(s).records[i]
             /\ File(s)'.records[i] \in 1 .. Len(sizes)
    <3>1. CASE j \in Indices(u) /\ File(u)'.records[j] = File(u).records[j]
      BY <2>4, <3>1 DEF LogInv, Ascending
    <3>2. CASE File(u)'.records[j] = Len(sizes) + 1
      BY <1>2, <2>4, <3>2
    <3> QED
      BY <2>2, <3>1, <3>2
  <2> QED
    BY <2>1, <2>3, <2>4
<1>7. SizeBounded'
  <2> SUFFICES ASSUME "rename" \notin refused, NEW s \in Names, File(s)'.records # <<>>
               PROVE  File(s)'.size - sizes'[Last(File(s)'.records)] < MaxFileSize
    BY <1>1 DEF SizeBounded
  <2>1. CASE s = Newest
    <3>1. current.size < MaxFileSize
      BY DEF LogInv, BelowLimit, Write
    <3>2. /\ File(s)' = current' /\ current'.size = current.size + size
          /\ Len(current'.records) = Len(current.records) + 1
          /\ current'.records[Len(current.records) + 1] = Len(sizes) + 1
      BY <2>1, WriteAppends
    <3>3. Last(File(s)'.records) = Len(sizes) + 1
      BY <3>2 DEF Last
    <3>4. current.size \in Nat /\ MaxFileSize \in Nat
      BY RollingLogAssumption DEF LogInv, TypeOK
    <3> QED
      BY <1>2, <3>1, <3>2, <3>3, <3>4
  <2>2. CASE s # Newest
    <3>1. File(s)' = File(s)
      BY <2>2, WriteAppends
    <3>2. Last(File(s).records) \in 1 .. Len(sizes)
      <4>1. File(s).records \in Seq(1 .. Len(sizes)) /\ File(s).records # <<>>
        BY <1>3, <3>1 DEF FileTypes
      <4>2. Len(File(s).records) \in 1 .. Len(File(s).records)
        BY <4>1, EmptySeq, LenProperties
      <4> QED
        BY <4>1, <4>2, ElementOfSeq DEF Last
    <3>3. File(s).size - sizes[Last(File(s).records)] < MaxFileSize
      BY <3>1 DEF LogInv, SizeBounded
    <3> QED
      BY <1>2, <3>1, <3>2, <3>3
  <2> QED
    BY <2>1, <2>2
<1> QED
  BY <1>4, <1>5, <1>6, <1>7

\* Without a descriptor the record is counted and is in no file: an open has failed.
LEMMA LostWriteKeepsRecords ==
  ASSUME LogInv, NEW size \in Sizes, Write(size), ~fd
  PROVE  AllKept' /\ KeptOnce' /\ Ascending' /\ SizeBounded'
<1>1. /\ UNCHANGED <<current, rolled, overwrote, setBack, refused>>
      /\ sizes' = Append(sizes, size)
      /\ "open" \in refused
  BY DEF Write, LogInv, HasFile
<1>2. Names' = Names /\ \A s : File(s)' = File(s) /\ Indices(s)' = Indices(s)
  BY <1>1 DEF Names, File, Indices
<1>3. AllKept' /\ KeptOnce' /\ Ascending'
  BY <1>1, <1>2 DEF LogInv, AllKept, KeptOnce, Ascending
<1>4. SizeBounded'
  <2> SUFFICES ASSUME "rename" \notin refused, NEW s \in Names, File(s).records # <<>>
               PROVE  File(s).size - sizes'[Last(File(s).records)] < MaxFileSize
    BY <1>1, <1>2 DEF SizeBounded
  <2>1. Last(File(s).records) \in 1 .. Len(sizes)
    <3>1. File(s).records \in Seq(1 .. Len(sizes))
      BY FilesAreFiles DEF LogInv, FileTypes
    <3>2. Len(File(s).records) \in 1 .. Len(File(s).records)
      BY <3>1, EmptySeq, LenProperties
    <3> QED
      BY <3>1, <3>2, ElementOfSeq DEF Last
  <2>2. sizes'[Last(File(s).records)] = sizes[Last(File(s).records)]
    <3>1. sizes \in Seq(Sizes)
      BY DEF LogInv, TypeOK
    <3> QED
      BY <1>1, <2>1, <3>1, AppendProperties
  <2> QED
    BY <2>2 DEF LogInv, SizeBounded
<1> QED
  BY <1>3, <1>4

\* A record is written, or lost.
LEMMA WriteKeeps ==
  ASSUME LogInv, NEW size \in Sizes, Write(size)
  PROVE  LogInv'
<1>1. /\ UNCHANGED <<clock, t, Start_process, fd, exists, rolled, overwrote, setBack, refused>>
      /\ pc = "write" /\ pc' = "idle" /\ sizes' = Append(sizes, size)
  BY DEF Write
<1>2. /\ sizes \in Seq(Sizes) /\ sizes' \in Seq(Sizes)
      /\ Len(sizes) \in Nat /\ Len(sizes') = Len(sizes) + 1 /\ size \in Nat
      /\ current.records \in Seq(1 .. Len(sizes)) /\ current.size \in Nat
  <2>1. /\ sizes \in Seq(Sizes)
        /\ current.records \in Seq(1 .. Len(sizes)) /\ current.size \in Nat
    BY DEF LogInv, TypeOK
  <2> QED
    BY <1>1, <2>1, LenProperties, AppendProperties, RollingLogAssumption
<1>3. TypeOK'
  <2>1. current' \in FileTypes'
    <3>1. CASE fd
      <4>1. current' = [records |-> Append(current.records, Len(sizes) + 1),
                        size |-> current.size + size]
        BY <3>1 DEF Write
      <4>2. current.records \in Seq(1 .. Len(sizes')) /\ Len(sizes) + 1 \in 1 .. Len(sizes')
        BY <1>2
      <4> QED
        BY <1>2, <4>1, <4>2, AppendProperties DEF FileTypes
    <3>2. CASE ~fd
      <4>1. current' = current /\ current \in FileTypes
        BY <3>2 DEF Write, LogInv, TypeOK, FileTypes
      <4> QED
        BY <1>2, <4>1 DEF FileTypes
    <3> QED
      BY <3>1, <3>2
  <2>2. rolled' \in [DOMAIN rolled' -> FileTypes'] /\ DOMAIN rolled' \subseteq 0 .. MaxClock
    <3>1. rolled \in [DOMAIN rolled -> FileTypes] /\ DOMAIN rolled \subseteq 0 .. MaxClock
      BY DEF LogInv, TypeOK, FileTypes
    <3>2. FileTypes \subseteq FileTypes'
      <4>1. Seq(1 .. Len(sizes)) \subseteq Seq(1 .. Len(sizes'))
        BY <1>2
      <4> QED
        BY <4>1 DEF FileTypes
    <3> QED
      BY <1>1, <3>1, <3>2
  <2>3. (~exists => current = NoRecords)'
    BY <1>1 DEF Write, LogInv, TypeOK
  <2>4. /\ clock \in 0 .. MaxClock /\ t \in 0 .. MaxClock /\ refused \subseteq {"open", "rename"}
        /\ (fd => exists)
    BY DEF LogInv, TypeOK
  <2>5. /\ Start_process \in BOOLEAN /\ fd \in BOOLEAN /\ exists \in BOOLEAN
        /\ overwrote \in BOOLEAN /\ setBack \in BOOLEAN
    BY Zenon DEF LogInv, TypeOK
  <2> QED
    BY <1>1, <1>2, <2>1, <2>2, <2>3, <2>4, <2>5 DEF TypeOK, FileTypes
<1>4. HasFile' /\ BelowLimit'
  BY <1>1 DEF LogInv, HasFile, BelowLimit
<1>5. AllKept' /\ KeptOnce' /\ Ascending' /\ SizeBounded'
  BY WriteKeepsRecords, LostWriteKeepsRecords
<1> QED
  BY <1>3, <1>4, <1>5 DEF LogInv

-----------------------------------------------------------------------------

\* Every step keeps the invariant.
LEMMA StepInv == LogInv /\ [Next]_vars => LogInv'
<1> SUFFICES ASSUME LogInv, [Next]_vars PROVE LogInv'
  OBVIOUS
<1>1. CASE Tick \/ Dies \/ Called \/ Check \/ UNCHANGED vars
  BY <1>1, QuietStepsKeep
<1>2. CASE MsgLoggerInit \/ Reopens("firstOpen", "check") \/ Reopens("fullOpen", "write")
  BY <1>2, OpeningKeeps
<1>3. CASE Renames("first", "firstOpen") \/ Renames("full", "fullOpen")
  BY <1>3, RenamesKeep
<1>4. CASE \E size \in Sizes : Write(size)
  BY <1>4, WriteKeeps
<1> QED
  BY <1>1, <1>2, <1>3, <1>4 DEF Next

\* The inductive invariant, for every record, limit, death and local time.
THEOREM LogInvariant == Spec => []LogInv
<1>1. Init => LogInv
  BY InitInv
<1>2. LogInv /\ [Next]_vars => LogInv'
  BY StepInv
<1> QED
  BY <1>1, <1>2, PTL DEF Spec

\* The variables have their types, and there is a descriptor only of a file that is there.
THEOREM LogTypes == Spec => []TypeOK
<1>1. LogInv => TypeOK
  BY DEF LogInv
<1> QED
  BY <1>1, LogInvariant, PTL

\* What the invariant says of files and indices, said of places.
LEMMA PlacesKeepOrder == LogInv => KeptInOrder
<1> SUFFICES ASSUME LogInv, ~overwrote, "open" \notin refused PROVE KeptInOrder
  BY DEF KeptInOrder
<1>1. sizes \in Seq(Sizes) /\ DOMAIN sizes = 1 .. Len(sizes)
  BY LenProperties DEF LogInv, TypeOK
<1>2. ASSUME NEW s \in Names PROVE DOMAIN File(s).records = Indices(s)
  BY FilesAreFiles, LenProperties DEF LogInv, FileTypes, Indices
<1>3. \A s \in Names : s \in Nat /\ \A i \in Indices(s) : i \in Nat
  BY FilesAreFiles DEF LogInv, Indices
<1>4. \A p \in Places : \E s \in Names : \E i \in Indices(s) : p = <<s, i>>
  BY <1>2 DEF Places
<1>5. \A s \in Names : \A i \in Indices(s) : <<s, i>> \in Places
  BY <1>2 DEF Places
<1>6. \A r \in DOMAIN sizes : \E p \in Places : RecordAt(p) = r
  <2> SUFFICES ASSUME NEW r \in 1 .. Len(sizes) PROVE \E p \in Places : RecordAt(p) = r
    BY <1>1
  <2>1. PICK s \in Names : \E i \in Indices(s) : File(s).records[i] = r
    BY DEF LogInv, AllKept
  <2>2. PICK i \in Indices(s) : File(s).records[i] = r
    BY <2>1
  <2>3. RecordAt(<<s, i>>) = r
    BY <2>2 DEF RecordAt
  <2> QED
    BY <1>5, <2>3
<1>7. \A p, q \in Places : RecordAt(p) = RecordAt(q) => p = q
  <2> SUFFICES ASSUME NEW p \in Places, NEW q \in Places, RecordAt(p) = RecordAt(q) PROVE p = q
    OBVIOUS
  <2>1. PICK s \in Names : \E i \in Indices(s) : p = <<s, i>>
    BY <1>4
  <2>2. PICK i \in Indices(s) : p = <<s, i>>
    BY <2>1
  <2>3. PICK u \in Names : \E j \in Indices(u) : q = <<u, j>>
    BY <1>4
  <2>4. PICK j \in Indices(u) : q = <<u, j>>
    BY <2>3
  <2>5. File(s).records[i] = File(u).records[j]
    BY <2>2, <2>4 DEF RecordAt
  <2> QED
    BY <2>2, <2>4, <2>5 DEF LogInv, KeptOnce
<1>8. ~setBack => \A p, q \in Places : Before(p, q) => RecordAt(p) < RecordAt(q)
  <2> SUFFICES ASSUME ~setBack, NEW p \in Places, NEW q \in Places, Before(p, q)
               PROVE  RecordAt(p) < RecordAt(q)
    OBVIOUS
  <2>1. PICK s \in Names : \E i \in Indices(s) : p = <<s, i>>
    BY <1>4
  <2>2. PICK i \in Indices(s) : p = <<s, i>>
    BY <2>1
  <2>3. PICK u \in Names : \E j \in Indices(u) : q = <<u, j>>
    BY <1>4
  <2>4. PICK j \in Indices(u) : q = <<u, j>>
    BY <2>3
  <2>5. s < u \/ (s = u /\ i < j)
    BY <2>2, <2>4 DEF Before
  <2>6. File(s).records[i] < File(u).records[j]
    BY <2>5 DEF LogInv, Ascending
  <2> QED
    BY <2>2, <2>4, <2>6 DEF RecordAt
<1> QED
  BY <1>6, <1>7, <1>8 DEF KeptInOrder

\* Every record logged is in a file, once, and in order, unless two rolls fell into one
\* second, time was set back between two, or an open failed.
THEOREM RecordsKeptInOrder == Spec => []KeptInOrder
<1> QED
  BY LogInvariant, PlacesKeepOrder, PTL

\* No file passes the limit by more than its last record, unless a rename failed.
THEOREM FilesBounded == Spec => []SizeBounded
<1>1. LogInv => SizeBounded
  BY DEF LogInv
<1> QED
  BY <1>1, LogInvariant, PTL

=============================================================================
