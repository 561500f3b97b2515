-------------------------- MODULE MCNonNativeCircuit --------------------------
(***************************************************************************)
(* Instances of NonNativeCircuit for TLC.                                  *)
(***************************************************************************)
EXTENDS NonNativeCircuit

MCRows == { << <<Allocated(3, 2), 1>>, <<Allocated(6, 3), 2>> >> }
=============================================================================
