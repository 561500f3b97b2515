------------------------------- MODULE Pedersen -------------------------------
(***************************************************************************)
(* commitment/pedersen.rs.  The curve group is the additive group of Fp: a *)
(* commitment is linear in the vector and in the blinder, which is all the *)
(* folding relies on.  The generators are a vector g with g[0] = h, the    *)
(* generator of the blinder; a committed vector is zero in slot 0.         *)
(***************************************************************************)
EXTENDS Field

CONSTANT Hiding     \* the const generic H

ASSUME HidingAssumption == Hiding \in BOOLEAN

\* commit: <g, v>, plus h * r when hiding.
Commit(g, v, r) == (Dot(g, v) + (IF Hiding THEN g[0] * r ELSE 0)) % P
=============================================================================
