----------------------------- MODULE MCDetailPages -----------------------------
(***************************************************************************)
(* Four sections on three pages: one section larger than a page, one that  *)
(* has a page to itself because the next does not fit, and two that share  *)
(* a page.  The watch's body holds all but the last of them.  The last     *)
(* turn, which may be all that is cached, is two pages.                    *)
(***************************************************************************)
EXTENDS DetailPages

MCSize == <<6, 1, 2, 2>>

=============================================================================
