---------------------------- MODULE MCController ----------------------------
(* Constants for model checking Controller. *)
EXTENDS Controller
=============================================================================
