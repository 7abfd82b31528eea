----------------------------- MODULE Application -----------------------------
(***************************************************************************)
(* The threads of the application, which the components of the SDK share.  *)
(***************************************************************************)

CONSTANTS Callers

=============================================================================
