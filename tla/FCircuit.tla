------------------------------- MODULE FCircuit -------------------------------
(***************************************************************************)
(* The step function every scheme folds (frontend/mod.rs), fixed to        *)
(* z_{i+1} = z_i^2 + ext + 5 on a state of length one.                     *)
(***************************************************************************)
EXTENDS Field, Sequences

CONSTANTS Ext,         \* the external inputs of prove_step
          BadExt       \* those for which F's circuit returns a SynthesisError

ASSUME ExtAssumption == Ext \subseteq Fp /\ BadExt \subseteq Ext

StateLen  == 1
\* A caller's state may have any length but zero: F reads its first element.
State     == Seq(Fp) \ {<<>>}
F(z, ext) == <<(z[1] * z[1] + ext + 5) % P>>
=============================================================================
