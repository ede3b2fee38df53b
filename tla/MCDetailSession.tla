-------------------------- MODULE MCDetailSession --------------------------
(***************************************************************************)
(* Two threads, three clients and three requests at a time, two polls      *)
(* before polling gives up: enough to leave a thread with its connection   *)
(* half set up or a poll in flight, and to come back to it.                *)
(***************************************************************************)
EXTENDS DetailSession

=============================================================================
