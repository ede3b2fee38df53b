----------------------------- MODULE MCSidecar -----------------------------
(***************************************************************************)
(* Two connection attempts: the second can meet the first at the gate,     *)
(* follow it, or overlap with goroutines the first has left behind.  Two   *)
(* messages are sent, one by each phone or both by one.                    *)
(* MCSidecar.cfg: both backends.  MCSidecarStdio.cfg: answers over stdio.  *)
(***************************************************************************)
EXTENDS Sidecar

=============================================================================
