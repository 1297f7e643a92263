---------------------------- MODULE MCBufferPool ----------------------------
(* BufferPool with the five pages that Creat makes of eight bytes in pages of  *)
(* two: addresses inside a page, and one page more than the size asked for.    *)
EXTENDS BufferPool
=============================================================================
