-------------------------- MODULE MCSingleDispatch --------------------------
(* TLC instance of SingleDispatch. *)
EXTENDS SingleDispatch
=============================================================================
