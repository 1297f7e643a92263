---------------------------- MODULE MCRollingLog ----------------------------
(* A file takes one or two records, so that one process rolls three times; three *)
(* seconds are names enough for an overwriting, and for time set back.           *)
EXTENDS RollingLog
=============================================================================
