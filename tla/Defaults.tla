------------------------------ MODULE Defaults ------------------------------
(***************************************************************************)
(* The names that a request may leave out, for all parts of Services.      *)
(***************************************************************************)
CONSTANTS None, DefaultNamespace, DefaultBranch
=============================================================================
