------------------------------ MODULE RollingLog ------------------------------
(***************************************************************************)
(* FileLengthRollingFileAppender (iolib/) as MsgLogger uses it: records go *)
(* to one file, which is renamed after the second of the roll when it is   *)
(* full, and on the first record of every process.  A process may die      *)
(* between any two calls to the system.  log4cpp calls _append for one     *)
(* record at a time; what it writes, and how open and rename may fail, is  *)
(* taken from how the appender uses it.  A record is its number.           *)
(***************************************************************************)
EXTENDS Integers, Sequences, SequencesExt, FiniteSets

CONSTANTS
    MaxFileSize,    \* _maxFileSize
    Sizes,          \* lengths of records
    MaxRecords,     \* bound: records logged
    MaxClock        \* bound: local time, in seconds

ASSUME RollingLogAssumption ==
    /\ MaxFileSize \in Nat \ {0} /\ Sizes \subseteq Nat \ {0}
    /\ MaxRecords \in Nat /\ MaxClock \in Nat

VARIABLES
    clock,      \* local time
    pc,         \* the process: "down", "idle", or where it is in _append
    t,          \* of _append: when it was called
    Start_process,
    fd,         \* _fd is a descriptor of the file
    exists, current,    \* the file: whether it is there, its records and its size
    rolled,     \* the files rolled, by the second they are named after
    sizes,      \* the length of every record logged
    (* history *)
    overwrote,  \* a file was rolled to a name in use
    setBack,    \* a file was rolled to a name earlier than one in use
    refused     \* the calls that failed: "open", "rename"

fileVars == <<exists, current, rolled, overwrote, setBack>>
vars == <<clock, pc, t, Start_process, fd, fileVars, sizes, refused>>

NoRecords == [records |-> <<>>, size |-> 0]

Init ==
    /\ clock = 0 /\ pc = "down" /\ t = 0
    /\ Start_process = FALSE /\ fd = FALSE
    /\ exists = FALSE /\ current = NoRecords /\ rolled = <<>>
    /\ sizes = <<>>
    /\ overwrote = FALSE /\ setBack = FALSE /\ refused = {}

-----------------------------------------------------------------------------
(* The process and the clock *)

\* Local time goes on, or is set back by hand or by the end of summer time.
Tick ==
    /\ clock' \in 0 .. MaxClock /\ clock' # clock
    /\ UNCHANGED <<pc, t, Start_process, fd, fileVars, sizes, refused>>

Dies ==
    /\ pc # "down"
    /\ pc' = "down" /\ fd' = FALSE
    /\ UNCHANGED <<clock, t, Start_process, fileVars, sizes, refused>>

\* Mutant of Opens: what the file holds is cut off.
OpensTruncating ==
    /\ fd' = TRUE /\ exists' = TRUE
    /\ current' = NoRecords
    /\ UNCHANGED <<rolled, overwrote, setBack, refused>>

\* open creates the file or goes on with it.
Opens ==
    /\ fd' = TRUE /\ exists' = TRUE
    /\ UNCHANGED <<current, rolled, overwrote, setBack, refused>>

OpenFails ==
    /\ fd' = FALSE
    /\ refused' = refused \cup {"open"}
    /\ UNCHANGED fileVars

\* The constructor; the time it finds the file was modified is not used.
FileLengthRollingFileAppender == Start_process' = TRUE /\ (Opens \/ OpenFails)

\* A process starts and makes its appender.
MsgLoggerInit ==
    /\ pc = "down" /\ pc' = "idle"
    /\ FileLengthRollingFileAppender
    /\ UNCHANGED <<clock, t, sizes>>

-----------------------------------------------------------------------------
(* _append and rollOver *)

InAppend(from, to) ==
    /\ pc = from /\ pc' = to
    /\ UNCHANGED <<clock, fd, fileVars, sizes, refused>>

\* A record is logged: the first of the process rolls the file whatever its size.
Called ==
    /\ Len(sizes) < MaxRecords
    /\ InAppend("idle", IF Start_process THEN "first" ELSE "check")
    /\ t' = clock
    /\ Start_process' = FALSE

\* Mutant of Rename: the records are copied and the file is not emptied.
RenameCopies ==
    /\ rolled' = [s \in DOMAIN rolled \cup {t} |-> IF s = t THEN current ELSE rolled[s]]
    /\ exists' = FALSE
    /\ UNCHANGED <<current, overwrote, setBack>>

\* The file takes the name of the second, from a file that has it already.
Rename ==
    /\ rolled' = [s \in DOMAIN rolled \cup {t} |-> IF s = t THEN current ELSE rolled[s]]
    /\ exists' = FALSE /\ current' = NoRecords
    /\ overwrote' = (overwrote \/ t \in DOMAIN rolled)
    /\ setBack' = (setBack \/ \E s \in DOMAIN rolled : s > t)

\* rollOver closes, renames if there is a file, and opens again.  The results of
\* rename and open are not looked at.
Renames(from, to) ==
    /\ pc = from /\ pc' = to
    /\ fd' = FALSE
    /\ \/ exists /\ Rename /\ UNCHANGED refused
       \/ exists /\ refused' = refused \cup {"rename"} /\ UNCHANGED fileVars
       \/ ~exists /\ UNCHANGED <<fileVars, refused>>
    /\ UNCHANGED <<clock, t, Start_process, sizes>>

Reopens(from, to) ==
    /\ pc = from /\ pc' = to
    /\ Opens \/ OpenFails
    /\ UNCHANGED <<clock, t, Start_process, sizes>>

\* Mutant of IsFull: a file may reach the limit.
IsOverfull == fd /\ current.size > MaxFileSize

\* lseek, which fails without a descriptor.
IsFull == fd /\ current.size >= MaxFileSize

Check == InAppend("check", IF IsFull THEN "full" ELSE "write") /\ UNCHANGED <<t, Start_process>>

\* FileAppender::_append writes the record, into the void without a descriptor.
Write(size) ==
    /\ pc = "write" /\ pc' = "idle"
    /\ sizes' = Append(sizes, size)
    /\ current' = IF fd THEN [records |-> Append(current.records, Len(sizes) + 1),
                              size |-> current.size + size]
                   ELSE current
    /\ UNCHANGED <<clock, t, Start_process, fd, exists, rolled, overwrote, setBack, refused>>

Next ==
    \/ Tick \/ Dies \/ MsgLoggerInit
    \/ Called
    \/ Renames("first", "firstOpen") \/ Reopens("firstOpen", "check")
    \/ Check
    \/ Renames("full", "fullOpen") \/ Reopens("fullOpen", "write")
    \/ \E size \in Sizes : Write(size)

Spec == Init /\ [][Next]_vars

-----------------------------------------------------------------------------
(* Properties *)

\* The state variables have their types; there is a descriptor of a file that is there.
TypeOK ==
    /\ clock \in 0 .. MaxClock /\ t \in 0 .. MaxClock
    /\ pc \in {"down", "idle", "first", "firstOpen", "check", "full", "fullOpen", "write"}
    /\ Start_process \in BOOLEAN
    /\ fd \in BOOLEAN /\ exists \in BOOLEAN
    /\ fd => exists
    /\ sizes \in Seq(Sizes)
    /\ current \in [records : Seq(1 .. Len(sizes)), size : Nat]
    /\ ~exists => current = NoRecords
    /\ DOMAIN rolled \subseteq 0 .. MaxClock
    /\ rolled \in [DOMAIN rolled -> [records : Seq(1 .. Len(sizes)), size : Nat]]
    /\ overwrote \in BOOLEAN /\ setBack \in BOOLEAN /\ refused \subseteq {"open", "rename"}

\* The files by their names; the current one is read last.
Names == DOMAIN rolled \cup {MaxClock + 1}
File(name) == IF name \in DOMAIN rolled THEN rolled[name] ELSE current

\* Where records are: in which file, and how far behind its beginning.
Places == UNION {{name} \X DOMAIN File(name).records : name \in Names}
RecordAt(place) == File(place[1]).records[place[2]]
Before(p, q) == p[1] < q[1] \/ (p[1] = q[1] /\ p[2] < q[2])

\* However often the process dies and starts, in whatever second it rolls, and whether
\* rename fails: every record logged is in a file, once, and reading the rolled files
\* by their names and then the current one gives the records in order; unless two rolls
\* fell into one second of local time, time was set back between two, or an open failed
\* (fileLengthRollingFileAppender.cc:169-185, 188-209).
KeptInOrder ==
    ~overwrote /\ "open" \notin refused =>
        /\ \A r \in DOMAIN sizes : \E p \in Places : RecordAt(p) = r
        /\ \A p, q \in Places : RecordAt(p) = RecordAt(q) => p = q
        /\ ~setBack => \A p, q \in Places : Before(p, q) => RecordAt(p) < RecordAt(q)

\* No file has reached the limit before its last record, that of an earlier process
\* included, unless a rename failed (fileLengthRollingFileAppender.cc:193-207).
SizeBounded ==
    "rename" \notin refused =>
        \A name \in Names :
            LET file == File(name)
            IN  file.records # <<>> => file.size - sizes[Last(file.records)] < MaxFileSize
=============================================================================
