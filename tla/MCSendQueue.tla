---------------------------- MODULE MCSendQueue ----------------------------
(***************************************************************************)
(* A small send queue for TLC: three places instead of 32, so that a few   *)
(* calls fill it with rows, replace, evict and refuse.                     *)
(***************************************************************************)
EXTENDS SendQueue

=============================================================================
