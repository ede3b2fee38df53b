------------------------------ MODULE MCWatch ------------------------------
(***************************************************************************)
(* Three threads and room for two rows, one text to dictate, and a phone   *)
(* that may send anything in any order.  Rows can be cleared and listed    *)
(* again in the other order between any two steps.                         *)
(***************************************************************************)
EXTENDS Watch

=============================================================================
