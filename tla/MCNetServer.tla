----------------------------- MODULE MCNetServer -----------------------------
(* NetServer with two processors and fewer descriptors than connections, so   *)
(* that a number one thread closes is given to a connection of the other; a   *)
(* page or two, so that the pools run dry.                                    *)
EXTENDS NetServer
=============================================================================
