----------------------------- MODULE MCSockSend -----------------------------
(* SockSend for TLC: the width of unsigned is just above what is needed. *)
EXTENDS SockSend

MCWord == 2 * DwLen + 1
=============================================================================
