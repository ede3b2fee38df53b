---------------------------- MODULE MCListSync -----------------------------
(***************************************************************************)
(* Two relays, three threads of which the watch can show two or three, and *)
(* one or two cursors: pages overlap, repeat, come back empty and point to *)
(* themselves.                                                             *)
(***************************************************************************)
EXTENDS ListSync

=============================================================================
