----------------------------- MODULE MCDispatch -----------------------------
(* Dispatch with one processor that receives four connections, so that its   *)
(* two queues hold several, and with two processors that receive one each.   *)
EXTENDS Dispatch
=============================================================================
