------------------------------- MODULE Handoff -------------------------------
(***************************************************************************)
(* What handing a connection to a processor promises, without the two      *)
(* lists, the swap and the kick that do it: a connection given to a        *)
(* processor is registered by that processor, once, and eventually.        *)
(* The order is not promised.  Dispatch implements this specification.     *)
(***************************************************************************)
CONSTANTS
    Conns,      \* the connections
    Procs,      \* the processors
    Target(_)   \* the processor a connection is meant for

VARIABLES
    given,      \* connections a processor was handed and has not registered
    taken       \* connections each processor registered

handoffVars == <<given, taken>>

HandoffInit ==
    /\ given = {}
    /\ taken = [p \in Procs |-> {}]

Give(c) ==
    /\ c \notin given
    /\ \A p \in Procs : c \notin taken[p]
    /\ given' = given \cup {c}
    /\ UNCHANGED taken

Register(c) ==
    /\ c \in given
    /\ given' = given \ {c}
    /\ taken' = [taken EXCEPT ![Target(c)] = @ \cup {c}]

HandoffNext == \E c \in Conns : Give(c) \/ Register(c)

HandoffSpec ==
    /\ HandoffInit
    /\ [][HandoffNext]_handoffVars
    /\ \A c \in Conns : WF_handoffVars(Register(c))
=============================================================================
