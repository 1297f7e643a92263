----------------------------- MODULE MCReadBuffer -----------------------------
(* ReadBuffer with pages of four bytes and heads of two: a message with a body   *)
(* of one byte fits in a page, one of two ends on a page's last byte, the two    *)
(* together cross a page, a body of seven lies over three pages, and an empty    *)
(* one stops the handler.                                                        *)
EXTENDS ReadBuffer
=============================================================================
