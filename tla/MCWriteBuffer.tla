---------------------------- MODULE MCWriteBuffer ----------------------------
(* WriteBuffer with pages of three bytes and writes of one, two and four: they   *)
(* fit in a page, cross it, end on its last byte and cover it twice.             *)
EXTENDS WriteBuffer
=============================================================================
