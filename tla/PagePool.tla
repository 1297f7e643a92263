------------------------------ MODULE PagePool ------------------------------
(***************************************************************************)
(* What the page allocator of the I/O library promises, without the free   *)
(* list it is built from: every page is free, held by one borrower, or     *)
(* lost.  Only the pages of Losable can be lost, and a lost page is never  *)
(* seen again.  BufferPool implements this specification.                  *)
(***************************************************************************)
CONSTANTS
    Pages,      \* the pages the pool was created with
    Losable     \* the pages a return may lose

VARIABLES
    free,   \* pages a Take can hand out
    held    \* pages handed out and not yet given back

poolVars == <<free, held>>

PoolInit ==
    /\ free = Pages
    /\ held = {}

\* A borrower is given a page nobody else has.
Take ==
    \E p \in free :
        /\ free' = free \ {p}
        /\ held' = held \cup {p}

\* A borrower gives a page back, and it can be handed out again.
Return ==
    \E p \in held :
        /\ free' = free \cup {p}
        /\ held' = held \ {p}

\* A borrower gives a page back and the pool does not take it.
Lose ==
    \E p \in held \cap Losable :
        /\ held' = held \ {p}
        /\ UNCHANGED free

PoolNext == Take \/ Return \/ Lose

PoolSpec == PoolInit /\ [][PoolNext]_poolVars
=============================================================================
