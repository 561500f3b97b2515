--------------------------------- MODULE IVC ---------------------------------
(***************************************************************************)
(* What incrementally verifiable computation promises (the FoldingScheme   *)
(* trait of lib.rs), with no cryptography in sight.                        *)
(*                                                                         *)
(* A party holds a claim: i applications of F lead from z_0 to z_i.  It    *)
(* begins one with i = 0, advances it by one application of F, publishes   *)
(* it as a proof, or adopts a published one.  The verifier accepts only    *)
(* claims that were published, or that say nothing (i = 0, z_0 = z_i).     *)
(***************************************************************************)
EXTENDS Integers

CONSTANTS Party,        \* those who run provers
          State,        \* the states F maps to one another
          Z0,           \* the states provers start from
          Input,        \* the external inputs of F
          Apply(_, _),  \* F
          MaxSteps,     \* the last i a step starts from
          NoClaim       \* a party without a prover; no claim accepted

\* What an implementation gives for the constants; the theorems assume it.
ConstantsOk ==
  /\ Z0 \subseteq State
  /\ \A z \in State, e \in Input : Apply(z, e) \in State
  /\ MaxSteps \in Nat

VARIABLES claim,        \* party -> its current claim
          published,    \* claims sent out as proofs
          accepted      \* the claim the last verification accepted, or NoClaim

avars == <<claim, published, accepted>>

Claim == [i : 0 .. MaxSteps + 1, z_0 : State, z_i : State]

AInit ==
  /\ claim = [p \in Party |-> NoClaim]
  /\ published = {}
  /\ accepted = NoClaim

Begin(p) ==
  /\ \E z \in Z0 : claim' = [claim EXCEPT ![p] = [i |-> 0, z_0 |-> z, z_i |-> z]]
  /\ accepted' = NoClaim
  /\ UNCHANGED published

Advance(p) ==
  /\ claim[p] # NoClaim
  /\ claim[p].i <= MaxSteps
  /\ \E e \in Input :
       claim' = [claim EXCEPT ![p] = [i |-> @.i + 1, z_0 |-> @.z_0, z_i |-> Apply(@.z_i, e)]]
  /\ accepted' = NoClaim
  /\ UNCHANGED published

\* A step that fails leaves every claim as it was.
Fail ==
  /\ accepted' = NoClaim
  /\ UNCHANGED <<claim, published>>

Publish(p) ==
  /\ claim[p] # NoClaim
  /\ published' = published \union {claim[p]}
  /\ accepted' = NoClaim
  /\ UNCHANGED claim

Adopt(p) ==
  /\ \E c \in published : claim' = [claim EXCEPT ![p] = c]
  /\ accepted' = NoClaim
  /\ UNCHANGED published

Trivial == {[i |-> 0, z_0 |-> c.z_0, z_i |-> c.z_0] : c \in published}

Accept ==
  /\ accepted' \in published \union Trivial
  /\ UNCHANGED <<claim, published>>

ANext ==
  \/ \E p \in Party : Begin(p) \/ Advance(p) \/ Publish(p) \/ Adopt(p)
  \/ Fail
  \/ Accept

ASpec == AInit /\ [][ANext]_avars

----------------------------------------------------------------------------
\* A claim is true if some run of F of that length leads from z_0 to z_i.
True(c) ==
  \E run \in [0 .. c.i -> State] :
    /\ run[0] = c.z_0 /\ run[c.i] = c.z_i
    /\ \A k \in 1 .. c.i : \E e \in Input : run[k] = Apply(run[k - 1], e)

\* Soundness of the scheme: what the verifier accepts is true.
AcceptedTrue == accepted # NoClaim => True(accepted)
=============================================================================
