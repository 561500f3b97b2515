---------------------------- MODULE FoldingScheme ----------------------------
(***************************************************************************)
(* The FoldingScheme trait of lib.rs and those who call it.                *)
(*                                                                         *)
(* Parties run provers (init, prove_step), hand IVCProofs over (ivc_proof, *)
(* from_ivc_proof) and verify them, possibly after fields of two published *)
(* proofs were mixed up.  What the calls compute is a parameter: a scheme  *)
(* defines the operators below and instantiates this module.               *)
(***************************************************************************)
EXTENDS Integers, FiniteSets

CONSTANTS Party,
          NoProver,         \* a party that runs no prover
          State, F(_, _),   \* the step function
          Z0,               \* the initial states init is called with
          Ext, BadExt,      \* external inputs; those F's circuit fails on
          Draws,            \* what the random generator may give a step
          UsizeMax,         \* usize::MAX
          MaxSent,          \* bound on the number of proofs published
          MaxFailures,      \* bound on the number of steps that fail in the circuit
          Mixed,            \* the groups of fields that are mixed up
          FreshProver(_),   \* init: the fields for an initial state
          Precheck(_, _),   \* the early returns of prove_step, or "Ok"
          Proved(_, _, _),  \* the fields prove_step leaves
          Verify(_)         \* verify

VARIABLES st,        \* party -> the fields of its prover, or NoProver
          sent,      \* the IVCProofs published
          verdict,   \* what the last call returned, and the claim it was about
          failures   \* how many steps failed in the circuit

vars == <<st, sent, verdict, failures>>

ClaimOf(s) == [i |-> s.i, z_0 |-> s.z_0, z_i |-> s.z_i]

Returned(ret, c) == [ret |-> ret, claim |-> c]

Init ==
  /\ st = [p \in Party |-> NoProver]
  /\ sent = {}
  /\ verdict = Returned("Ok", NoProver)
  /\ failures = 0

InitProver(p, z_0) ==
  /\ st' = [st EXCEPT ![p] = FreshProver(z_0)]
  /\ verdict' = Returned("Ok", NoProver)
  /\ UNCHANGED <<sent, failures>>

\* prove_step, with other instances to fold when multi.
ProveStep(p, ext, multi, d) ==
  /\ st[p] # NoProver
  /\ LET pre == Precheck(st[p], multi) IN
       IF pre # "Ok"
       THEN /\ verdict' = Returned(pre, NoProver)
            /\ UNCHANGED <<st, failures>>
       ELSE /\ st' = [st EXCEPT ![p] = Proved(@, ext, d)]
            /\ IF ext \in BadExt
               THEN /\ failures < MaxFailures
                    /\ failures' = failures + 1
                    /\ verdict' = Returned("SynthesisError", NoProver)
               ELSE /\ verdict' = Returned("Ok", NoProver)
                    /\ UNCHANGED failures
  /\ UNCHANGED sent

\* ivc_proof: the proof is a copy of the fields.
Send(p) ==
  /\ st[p] # NoProver
  /\ sent' = sent \union {st[p]}
  /\ Cardinality(sent') <= MaxSent
  /\ verdict' = Returned("Ok", NoProver)
  /\ UNCHANGED <<st, failures>>

\* from_ivc_proof: the fields are taken over without a check.
Receive(p, pr) ==
  /\ st' = [st EXCEPT ![p] = pr]
  /\ verdict' = Returned("Ok", NoProver)
  /\ UNCHANGED <<sent, failures>>

\* verify, on a proof whose fields in mixed come from another published proof.
VerifyProof(a, b, mixed) ==
  LET pr == [k \in DOMAIN a |-> IF k \in mixed THEN b[k] ELSE a[k]]
  IN  /\ verdict' = IF Verify(pr) THEN Returned("Verified", ClaimOf(pr))
                                  ELSE Returned("Refused", NoProver)
      /\ UNCHANGED <<st, sent, failures>>

Next ==
  \/ \E p \in Party :
       \/ \E z_0 \in Z0 : InitProver(p, z_0)
       \/ \E ext \in Ext, multi \in BOOLEAN, d \in Draws : ProveStep(p, ext, multi, d)
       \/ Send(p)
       \/ \E pr \in sent : Receive(p, pr)
  \/ \E a, b \in sent, mixed \in Mixed : VerifyProof(a, b, mixed)

Spec == Init /\ [][Next]_vars

Provers == {p \in Party : st[p] # NoProver}

----------------------------------------------------------------------------
\* lib.rs: ivc_proof "returns the last IVC state proof, which can be verified in
\* the `verify` method".  A prover's proof verifies at any time, whoever started
\* it and however often it changed hands.
ProofVerifies == \A p \in Provers : Verify(st[p])

\* The same as long as no step failed inside F's circuit.
UnfailedProofVerifies == failures = 0 => ProofVerifies

\* The scheme implements IVC: forget all but the claims.
Abs == INSTANCE IVC WITH
  Input <- Ext \ BadExt, Apply <- F, MaxSteps <- UsizeMax, NoClaim <- NoProver,
  claim <- [p \in Party |-> IF st[p] = NoProver THEN NoProver ELSE ClaimOf(st[p])],
  published <- {ClaimOf(pr) : pr \in sent},
  accepted <- verdict.claim

ImplementsIVC == Abs!ASpec
=============================================================================
