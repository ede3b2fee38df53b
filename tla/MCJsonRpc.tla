----------------------------- MODULE MCJsonRpc -----------------------------
(***************************************************************************)
(* One client, its initialize request and three more, enough for answers   *)
(* out of order, a timeout between them and a close with several pending.  *)
(* MCJsonRpc.cfg: both owners, and requests of the server whose ids are   *)
(* those of the client's own.                                              *)
(* MCJsonRpcEarly.cfg: the owner of the detail client, for the handshake.  *)
(***************************************************************************)
EXTENDS JsonRpc

=============================================================================
