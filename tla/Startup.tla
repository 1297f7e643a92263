------------------------------- MODULE Startup -------------------------------
(***************************************************************************)
(* From the configuration file to running processors: main, MyServer,      *)
(* Config, ProcessorManager::Init, the construction of every Processor     *)
(* with its Acceptor, the start of its thread, and the binding of the      *)
(* threads to processors of the machine (CPU), which runs beside the       *)
(* construction of the next Processor.  Values of the file are the words   *)
(* of a small set; Num is what they say as numbers.                        *)
(***************************************************************************)
EXTENDS Integers, Sequences, SequencesExt, FiniteSets, FiniteSetsExt

CONSTANTS
    Files,      \* configuration files: sequences of lines [key, value]
    Values,     \* the words that stand for values
    Num,        \* of a word: the number at its beginning, 0 without one
    Levels,     \* the words MyServer knows as log levels
    Garbage,    \* shorts an uninitialized one may hold
    Crowd,      \* 1024: so many threads and a processor is not looked at any more
    MaxCpus     \* processors of the machine

NoWord == ""        \* a word the line or the file does not have
SHRT_MIN == -32768
SHRT_MAX == 32767
Short == SHRT_MIN .. SHRT_MAX
USHRT_MAX == 65535

ASSUME StartupAssumption ==
    /\ NoWord \in Values /\ Num \in [Values -> Int]
    /\ Files \subseteq Seq([key : STRING, value : Values])
    /\ \A lines \in Files : \A i \in DOMAIN lines : lines[i].key = NoWord => lines[i].value = NoWord
    /\ Levels \subseteq Values \ {NoWord}
    /\ Garbage \subseteq Short
ASSUME MachineAssumption == Crowd \in Nat \ {0} /\ MaxCpus \in Nat \ {0}

VARIABLES
    file,
    mConfigMap,
    level, mPort, mProcessorCount,
    pc,         \* main: "config", "init", "create", "thread", "loop", "exited", "aborted"
    listener,   \* per Processor constructed: its port, 0 without a socket that listens
    watched,    \* per Processor: its listener is in its epoll
    thread,     \* per Processor: where its thread is
    cpus, offline,      \* processors of the machine, those of them that are offline
    mMutex, picked,     \* CPU: whether its mutex is held, what GetAvailableCPU returned
    mCPUList,           \* CPU: threads bound to each processor
    affinity,   \* per Processor: what its thread is bound to
    failed      \* history: what the system refused to which Processor

configVars == <<file, mConfigMap>>
serverVars == <<level, mPort, mProcessorCount>>
processorVars == <<listener, watched, thread, failed>>
cpuVars == <<mMutex, picked, mCPUList, affinity>>
machine == <<cpus, offline>>
vars == <<configVars, serverVars, pc, processorVars, cpuVars, machine>>

Cpus == 0 .. cpus - 1
NoCPU == -1
Processors == DOMAIN listener

Init ==
    /\ file \in Files
    /\ mConfigMap = <<>>
    /\ level = "DEBUG" /\ mPort = -1 /\ mProcessorCount = -1
    /\ pc = "config"
    /\ listener = <<>> /\ watched = <<>> /\ thread = <<>> /\ failed = {}
    /\ cpus \in 1 .. MaxCpus /\ offline \in SUBSET Cpus
    /\ mMutex = FALSE /\ picked = NoCPU
    /\ mCPUList = [c \in Cpus |-> 0]
    /\ affinity = <<>>

-----------------------------------------------------------------------------
(* Config *)

\* map[key] = value.
Put(map, key, value) ==
    [k \in {key} \cup DOMAIN map |-> IF k = key THEN value ELSE map[k]]

\* Mutant of Parse: insert instead of [], the first line of a key counts.
ParseInsert(lines) ==
    FoldLeft(LAMBDA map, line : IF line.key \in DOMAIN map THEN map
                                ELSE Put(map, line.key, line.value), <<>>, lines)

\* key and value live outside of the loop: a word the line does not have keeps
\* what an earlier line left there.
Parse(lines) ==
    FoldLeft(LAMBDA read, line :
                 LET key == IF line.key = NoWord THEN read.key ELSE line.key
                     value == IF line.value = NoWord THEN read.value ELSE line.value
                 IN [key |-> key, value |-> value, map |-> Put(read.map, key, value)],
             [key |-> NoWord, value |-> NoWord, map |-> <<>>], lines).map

InitConfig ==
    /\ pc = "config"
    /\ mConfigMap' = Parse(file)
    /\ pc' = "init"
    /\ UNCHANGED <<file, serverVars, processorVars, cpuVars, machine>>

\* The overload for strings.
GetValue(key) == IF key \in DOMAIN mConfigMap THEN mConfigMap[key] ELSE NoWord

\* What >> into a short leaves there: the nearest short; from an empty string nothing,
\* so that the short stays uninitialized.
Str2Num(value) ==
    IF value = NoWord THEN Garbage
    ELSE {Max({SHRT_MIN, Min({SHRT_MAX, Num[value]})})}

\* The overload for shorts, with the default -1.
GetShort(key) == IF key \in DOMAIN mConfigMap THEN Str2Num(mConfigMap[key]) ELSE {-1}

-----------------------------------------------------------------------------
(* MyServer::Init and Start *)

Exits == pc = "init" /\ pc' = "exited" /\ UNCHANGED <<configVars, processorVars, cpuVars, machine>>

NoLog == GetValue("log") = NoWord /\ Exits /\ UNCHANGED serverVars

SetLevel ==
    level' = IF GetValue("logLevel") \in Levels THEN GetValue("logLevel") ELSE "DEBUG"

NoPort ==
    /\ GetValue("log") # NoWord
    /\ -1 \in GetShort("port")
    /\ SetLevel
    /\ Exits
    /\ UNCHANGED <<mPort, mProcessorCount>>

\* Start gives the port on, and ProcessorManager::Init allocates its list: a negative
\* count throws.
Starts ==
    /\ pc = "init"
    /\ GetValue("log") # NoWord
    /\ mPort' \in GetShort("port") \ {-1}
    /\ SetLevel
    /\ \E count \in GetShort("processorCount") :
           mProcessorCount' = IF count = -1 THEN 2 ELSE count
    /\ pc' = IF mProcessorCount' < 0 THEN "aborted" ELSE "create"
    /\ UNCHANGED <<configVars, processorVars, cpuVars, machine>>

\* ClientManager keeps the port as an unsigned short.
GetPort == mPort % (USHRT_MAX + 1)

-----------------------------------------------------------------------------
(* ProcessorManager::Init: construct a Processor, start its thread *)

\* Mutant of More: one Processor too many.
MoreOrEqual == Len(listener) <= mProcessorCount

More == Len(listener) < mProcessorCount

\* Its Acceptor listens, unless a call on the way fails; then the socket is not watched.
\* The Processor goes on in either case.
Construct(port, isWatched, fails) ==
    /\ pc = "create" /\ More
    /\ listener' = Append(listener, port)
    /\ watched' = Append(watched, isWatched)
    /\ failed' = failed \cup ({Len(listener) + 1} \X fails)
    /\ thread' = Append(thread, "none")
    /\ affinity' = Append(affinity, NoCPU)
    /\ pc' = "thread"
    /\ UNCHANGED <<configVars, serverVars, mMutex, picked, mCPUList, machine>>

\* Any of socket, SO_REUSEPORT, bind and listen may fail.
ListenFails == GetPort # 0 /\ Construct(0, FALSE, {"listen"})
WatchFails == GetPort # 0 /\ Construct(GetPort, FALSE, {"epoll"})

\* Port 0 asks for no listener at all.
ConstructProcessor == Construct(GetPort, GetPort # 0, {}) \/ WatchFails \/ ListenFails

\* ThreadPool::Start, whose result nobody looks at.
StartThread(result, fails) ==
    /\ pc = "thread"
    /\ thread' = [thread EXCEPT ![Len(thread)] = result]
    /\ failed' = failed \cup ({Len(thread)} \X fails)
    /\ pc' = "create"
    /\ UNCHANGED <<configVars, serverVars, listener, watched, cpuVars, machine>>

Start == StartThread("started", {}) \/ StartThread("none", {"thread"})

\* All are there: the manager waits in an epoll where nothing is registered.
MainLoop ==
    /\ pc = "create" /\ ~More
    /\ pc' = "loop"
    /\ UNCHANGED <<configVars, serverVars, processorVars, cpuVars, machine>>

-----------------------------------------------------------------------------
(* CPU::BindToProcessor, first thing in Processor::MainLoop *)

ThreadGoes(p, from, to) ==
    /\ thread[p] = from
    /\ thread' = [thread EXCEPT ![p] = to]
    /\ UNCHANGED <<configVars, serverVars, pc, listener, watched, failed, machine>>

\* The first with the fewest threads, of those below Crowd, and the first of all if none
\* is; one processor is not worth binding to.
GetAvailableCPU(cpu) ==
    LET open == {c \in Cpus : mCPUList[c] < Crowd}
    IN  \/ cpus = 1 /\ cpu = NoCPU
        \/ cpus > 1 /\ open = {} /\ cpu = 0
        \/ /\ cpus > 1 /\ cpu \in open
           /\ \A c \in open : mCPUList[cpu] <= mCPUList[c]
           /\ \A c \in open : mCPUList[cpu] = mCPUList[c] => cpu <= c

LockAndPick(p) ==
    /\ ThreadGoes(p, "started", "picked")
    /\ ~mMutex /\ mMutex' = TRUE
    /\ picked' \in Cpus \cup {NoCPU} /\ GetAvailableCPU(picked')
    /\ UNCHANGED <<mCPUList, affinity>>

\* Mutant of SetAffinity: a refused binding is counted.
SetAffinityCounted(p) ==
    /\ picked # NoCPU
    /\ mCPUList' = [mCPUList EXCEPT ![picked] = @ + 1]
    /\ affinity' = [affinity EXCEPT ![p] = IF picked \in offline THEN @ ELSE picked]

\* The system refuses a processor that is offline, though _SC_NPROCESSORS_CONF counts
\* it; that is printed, and the next thread picks the same again.
SetAffinity(p) ==
    IF picked \in offline \cup {NoCPU} THEN UNCHANGED <<mCPUList, affinity>>
    ELSE /\ mCPUList' = [mCPUList EXCEPT ![picked] = @ + 1]
         /\ affinity' = [affinity EXCEPT ![p] = picked]

BindAndUnlock(p) ==
    /\ ThreadGoes(p, "picked", "serves")
    /\ SetAffinity(p)
    /\ mMutex' = FALSE /\ picked' = NoCPU

Serves(p) == LockAndPick(p) \/ BindAndUnlock(p)

-----------------------------------------------------------------------------

Next ==
    \/ InitConfig
    \/ NoLog \/ NoPort \/ Starts
    \/ ConstructProcessor \/ Start \/ MainLoop
    \/ \E p \in Processors : Serves(p)

Spec == Init /\ [][Next]_vars

-----------------------------------------------------------------------------
(* Properties *)

\* The state variables have their types.
TypeOK ==
    /\ pc \in {"config", "init", "create", "thread", "loop", "exited", "aborted"}
    /\ level \in Levels \cup {"DEBUG"}
    /\ mPort \in Short /\ mProcessorCount \in Short
    /\ pc \in {"create", "thread", "loop"} => Len(listener) <= mProcessorCount
    /\ listener \in Seq(0 .. USHRT_MAX)
    /\ watched \in [Processors -> BOOLEAN]
    /\ thread \in [Processors -> {"none", "started", "picked", "serves"}]
    /\ affinity \in [Processors -> Cpus \cup {NoCPU}]
    /\ mMutex \in BOOLEAN /\ picked \in Cpus \cup {NoCPU}
    /\ mCPUList \in [Cpus -> 0 .. mProcessorCount] \/ mCPUList = [c \in Cpus |-> 0]
    /\ failed \subseteq Processors \X {"listen", "epoll", "thread"}

\* What the file says of a key: its last line, NoWord without one.
Says(key) ==
    LET lines == {i \in DOMAIN file : file[i].key = key}
    IN IF lines = {} THEN NoWord ELSE file[Max(lines)].value

\* No line misses a value, and the numbers are what the server can use.
Sound ==
    /\ \A i \in DOMAIN file : file[i].key # NoWord => file[i].value # NoWord
    /\ Says("port") # NoWord => Num[Says("port")] \in 1 .. SHRT_MAX
    /\ Says("processorCount") # NoWord => Num[Says("processorCount")] \in 1 .. SHRT_MAX

\* From a sound file the server comes up as the file says, or stops if it names no log
\* or port: with that log level and that many processors (two by default), each with a
\* thread and a listener on that port which its epoll watches, whatever was refused to
\* the others (config.cc:33-45, myserver.cc:27-81, processorManager.cc:8-18,
\* acceptor.cc:37-53).
RunsAsConfigured ==
    Sound =>
        /\ pc \in {"exited", "aborted"} => pc = "exited" /\ NoWord \in {Says("log"), Says("port")}
        /\ pc \in {"create", "thread", "loop"} => NoWord \notin {Says("log"), Says("port")}
        /\ pc = "loop" =>
            /\ level = IF Says("logLevel") \in Levels THEN Says("logLevel") ELSE "DEBUG"
            /\ Len(listener) =
                   IF Says("processorCount") = NoWord THEN 2 ELSE Num[Says("processorCount")]
            /\ \A p \in Processors :
                   /\ listener[p] = Num[Says("port")] \/ <<p, "listen">> \in failed
                   /\ watched[p] \/ <<p, "listen">> \in failed \/ <<p, "epoll">> \in failed
                   /\ thread[p] # "none" \/ <<p, "thread">> \in failed

\* However the threads interleave, the counts are of the threads bound, and none is
\* ahead by more than one of a processor still below Crowd: from there on all go to the
\* first.  Every thread that serves is bound, unless the machine has one processor or
\* one that is offline (cpu.cc:30-63, 101-109).
BoundEvenly ==
    /\ \A c \in Cpus : mCPUList[c] = Cardinality({p \in Processors : affinity[p] = c})
    /\ \A c, d \in Cpus : mCPUList[d] < Crowd => mCPUList[c] <= mCPUList[d] + 1
    /\ \A c \in Cpus \ {0} : mCPUList[c] <= Crowd
    /\ cpus > 1 /\ offline = {} =>
           \A p \in Processors : thread[p] = "serves" => affinity[p] # NoCPU
=============================================================================
