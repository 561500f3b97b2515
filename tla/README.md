# Sonobe folding schemes in TLA+

Sonobe builds incrementally verifiable computation (IVC) from folding schemes: a
prover applies a function F step after step, and after every step can hand out a
proof that i steps of F lead from z_0 to z_i. Whoever holds the proof can check
it, or go on from it. This directory holds a TLA+ model of the library's core,
the TLC runs that check it on small instances and the proofs, checked by TLAPS,
of the theorems that hold for every value of the constants. `PROJECT.json` ties
each definition to the lines it models, each property to a run, and each hazard
to the properties that cover it.

All paths below are relative to `src/folding-schemes/src/`.

## 1. The system

### Components, their state and what makes them correct

| component | code | state it keeps | operations | correct when |
|---|---|---|---|---|
| Vectors and matrices | `utils/vec.rs` | none | `vec_add`, `vec_sub`, `hadamard`, `vec_scalar_mul`, `mat_vec_mul`, random linear combinations | linear where folding needs it |
| R1CS | `arith/`, `folding/nova/traits.rs` | the constraint system | `eval_at_z`, `split_z`, `check_relation`, relaxed check, dummies, `sample_witness_instance` | a sampled or dummy pair satisfies the relaxed relation |
| Transcript | `transcript/` | the sponge | `absorb`, `squeeze_*`, `get_challenge(s)` | prover, verifier and circuit see the same sequence |
| Pedersen | `commitment/pedersen.rs` | generators | `commit`, `prove`, `verify`, the gadget | homomorphic in value and blinder; an opening is accepted exactly if it is one |
| Nova NIFS | `folding/nova/nifs/nova.rs`, `nova_circuits.rs`, `Witness`/`CommittedInstance` of `folding/nova/mod.rs` | none | `compute_T`, `fold_witness`, `fold_committed_instances`, `prove`, `verify`, both gadgets | folding keeps the relation and the openings; verifier and prover reach the same instance |
| CycleFold | `folding/circuits/cyclefold.rs` | none of its own | the CycleFold circuit, `fold_cyclefold_circuit`, `NIFSFullGadget`, `CycleFoldAugmentationGadget` | in-circuit and native folds agree |
| Nova IVC | `folding/nova/mod.rs`, `folding/nova/circuits.rs` | `i, z_0, z_i, w_i, u_i, W_i, U_i, cf_W_i, cf_U_i` | `init`, `prove_step`, `ivc_proof`, `from_ivc_proof`, `verify` | an honest proof always verifies; only true claims do |
| Zero-knowledge layer | `folding/nova/zk.rs` | a randomized proof | `new`, `verify` | the same, with the witness hidden |
| HyperNova | `folding/hypernova/` | as Nova, with CCCS and LCCCS | the same five; `NIMFS::prove`, `verify`, the gadget | as Nova; a multifold of satisfied pairs is accepted, and of others only if the challenges hide the errors |
| ProtoGalaxy | `folding/protogalaxy/` | as Nova, with betas and e | the same five, folding by F, G and K | as Nova |
| Mova, Ova | `folding/nova/nifs/{mova,ova,ova_circuits,pointvsline}.rs` | none | `new_witness`, `new_instance`, `prove`, `verify`, `compute_h`, `compute_E`, Ova's gadget | prover and verifier reach one instance; Mova's mleE is the evaluation of E at rE, Ova's cmWE opens to W and E |
| Sum-check | `utils/espresso/sum_check/` | prover and verifier round state | `prove_round_and_update_state`, `verify_round_and_update_state`, `check_and_generate_subclaim` | complete, round by round |
| KZG, IPA | `commitment/{kzg,ipa}.rs` | none | `commit`, `prove`, `verify`, IPA's gadget | what was committed to, or is a combination of such, opens; nothing else does; both transcripts stay in step |
| Deciders | `folding/circuits/decider/`, `folding/*/decider*.rs` | none | one last fold, the decider circuits, `prove`, `verify` | accept what the IVC's verifier accepts, for the claim and commitments they were made for |
| Non-native arithmetic | `folding/circuits/nonnative/` | limbs and bounds | allocation, `add_no_align`, `mul_no_align`, `mul_vector`, selection, `enforce_equal_unaligned`, `enforce_lt`, `modulo`, `enforce_congruent` | limbs stand for the intended integer, and each constraint holds exactly for the relation it is named after, where the bounds keep its carries exact |
| Frontends, Solidity, CLI | other crates | none | glue and code generation | - |

### How they interact

`Nova::prove_step` is where everything meets. It folds the last fresh pair
(`u_i`, `w_i`) into the running pair with the NIFS on a new transcript; proves the
two commitment folds as instances of the CycleFold circuit and folds those into
the CycleFold pair, on the same transcript; hands everything to the augmented
circuit, which repeats all three folds from public data, derives the same three
challenges and outputs the hashes of the new running instances; and commits to
the circuit's witness, which is the next fresh pair. The two hashes in `u_i.x`
are all that connects one step to the next: `verify` recomputes them and checks
the three relations. Data passes by copies of struct fields, there is no shared
state between threads (`parallel` only speeds up pure maps), and nothing is
persisted except by a caller that stores a proof.

### What is hard in it

* **Partial failure.** `prove_step` has side effects before its last fallible
  call, the user's circuit.
* **Agreement.** Prover, verifier and circuit run three hand-written versions of
  one protocol; order of absorption, the squeezed state of the sponge, the base
  case and what the gadgets take for granted must all match.
* **Histories.** Proofs are handed over and continued with no check, provers
  restart, the counter has a limit, refused calls come in between.
* **Mixed proofs.** A proof is a bag of fields; only hashes and relations keep
  fields of different steps from being accepted together.
* **Boundaries.** i = 0 and i = 1 are special in `verify`, in the circuit and in
  the blinder check; vectors of one entry and of lengths that are no power of two
  are special to the commitments.
* **Repetition.** The decider circuits state `verify` a second time, in other code,
  split over two circuits off chain; what one part leaves out another must check.
* **Limbs.** Integers of another field grow limb by limb without carries, and are
  compared in groups whose size depends on tracked bounds.

The list with lines is under `hazards` in `PROJECT.json`.

## 2. The modules

```
Field                        residues, vectors               utils/vec.rs
 |- Polynomials              domains, interpolation, division  (arkworks)
 |- R1CS                     relation, dummies               arith/r1cs, nova/traits.rs
 |- Transcript               sponge, random oracle           transcript/
 |- Pedersen                 linear commitments              commitment/pedersen.rs
     |- NovaNIFS             one fold, all its parties       nova/nifs/nova.rs
     |   |- NovaVariants     Mova's and Ova's fold           nova/nifs/{mova,ova,pointvsline}.rs
     |   |   \- VariantFolding   any number of folds of one of the three
     |   \- CycleFold        commitment folds, circuit, gadget  circuits/cyclefold.rs
     |- ProtoGalaxyNIFS      one fold, all its parties       protogalaxy/folding.rs
     |   \- ProtoGalaxyFolding   any number of folds
     \- HyperNovaNIMFS       one multifold, all its parties  hypernova/{nimfs,utils,lcccs,cccs}.rs
         \- HyperNovaFolding     any number of multifolds, round by round
SumCheck                     Polynomials + Transcript        utils/espresso/
PedersenIpa, Kzg             opening proofs                  commitment/{pedersen,ipa,kzg}.rs
 \- VectorCommitments        any sequence of openings        commitment/mod.rs
FCircuit                     the user's step function        frontend/
FoldingScheme                parties, proofs, verifiers      lib.rs (FoldingScheme)
 |- NovaIVC                  + CycleFold, FCircuit           nova/mod.rs, nova/circuits.rs
 |   |- NovaZk               randomized proofs               nova/zk.rs
 |   \- NovaDecider          + Decider, Kzg                  nova/decider*.rs
 |- ProtoGalaxyIVC           + CycleFold, FCircuit           protogalaxy/{mod,circuits}.rs
 |   \- ProtoGalaxyDecider   + Decider, Kzg                  protogalaxy/decider_eth*.rs
 \- HyperNovaIVC             + CycleFold, FCircuit           hypernova/{mod,circuits}.rs
Decider                      the on-chain decider            circuits/decider/on_chain.rs
IVC                          what IVC promises               lib.rs (FoldingScheme)
NonNativeUint                limbs, bounds, constraints      circuits/nonnative/uint.rs
 \- NonNativeCircuit         any sequence of operations
MC*                          instances for TLC
*Proofs                      theorems
  NIFSProofs                 one fold of Nova and of CycleFold
  NovaFoldingProofs          any number of folds of Nova, Mova, Ova
  FoldingSchemeProofs        any scheme behind the trait; IVC
  NovaIVCProofs              Nova's IVC, randomized proofs and deciders
  HyperNovaNIMFSProofs       one multifold, of any number of pairs
  HyperNovaFoldingProofs     any number of multifolds
  HyperNovaIVCProofs         HyperNova's IVC
  ProtoGalaxyIVCProofs       ProtoGalaxy's folds of up to seven pairs; its IVC, decider
```

**Field, R1CS.** A field element is a residue modulo `P`; one theorem,
WrongInstanceSpoilsInvariant, needs `P` to be prime and says so. Every vector has eight slots and is zero where the code's is
shorter; slot 0 of an assignment is u, slots 1..l are the public inputs. That
is enough for the x^3 + x + 5 circuit of the repository's tests and for the two
circuits of the IVC; length mismatches, which the code refuses, cannot be
expressed. `CheckRelation` is the relaxed relation: E = Az o Bz - u Cz.

**Transcript.** A sponge is what was absorbed, with a mark where it was
squeezed; `Ro` maps such a sequence to an element. What is kept of Poseidon is
that equal histories give equal answers, and nothing else.

**Pedersen.** The group is identified with Fp, so that a commitment is a linear
form in the vector and the blinder. Homomorphism is all the code relies on when
it folds. That commitments bind cannot hold here in general; the commitment runs take
vectors, blinders and generators among which no two collide.

**NovaNIFS.** One operator per function of `nifs/nova.rs`; `NIFSProve` and
`NIFSVerify` thread the transcript as the code does.

**VariantFolding** is folding without the IVC around it. Nova's part (Spec) has a running
pair and two actions: fold a fresh pair, as each IVC step does, and fold a sampled relaxed
pair, as the zero-knowledge layer does. The challenge is *any* element, so the
properties hold for whatever Poseidon answers. VariantSpec adds the variants.

**NovaVariants.** Mova's instance has the point rE and the value mleE
in place of cmE. `ComputeH` restricts the error vector's multilinear extension to a
line, variable by variable as `compute_h` does, `LineProve` and `LineVerify` are
`pointvsline.rs`, and the first four constraints (NumVars = 2) make the error vector's
domain. Ova's instance has one commitment to the witness and the error. A behaviour
of VariantFolding is one scheme's: a prover and a verifier each keep a transcript over
all folds, as `test_nifs_opt` does, and the running pair is the prover's witness with
the *verifier's* instance. A caller may pass Mova any `aux`, also a point of the
wrong length; after a refusal the caller stops. Ova's caller commits to the
cross terms with the fresh witness, or to zeros as the code's own test does.

**FoldingScheme.** The calls of the trait in `lib.rs` and those who make them.
`st[p]` holds the fields of the prover of party p; `sent` the `IVCProof`s that
were published; `verdict` what the last call returned. `InitProver` is `init`,
`ProveStep` is `prove_step`, which goes through its early returns in order
(`Precheck`) and then leaves the fields `Proved` says, also when the user's
circuit fails; `Send` is `ivc_proof`, `Receive` is `from_ivc_proof`, `VerifyProof`
is `verify` on a published proof, possibly with a group of fields taken from
another one. The four operators are parameters: each scheme defines what its
calls compute and instantiates the module.

**FCircuit** is the user's circuit x^2 + external input + 5, which may return an
error. (The tests of the IVCs mostly cube; one square is enough for F to be nonlinear.)

**CycleFold.** The CycleFold circuit is an R1CS of four rows for p = p_0 + r p_1;
`FoldCycleFoldCircuit` builds an instance of it and folds it natively,
`CycleFoldGadget` repeats the fold in the augmented circuit from the instance's
commitment alone.

**NovaIVC.** The augmented circuit is a function of the prover's inputs
(`AugmentedCircuit`), which rebuilds u_i from hashes and derives its own
challenges exactly as the circuit does, and its constraint system is reduced to
three rows: one for F and one for each output. So u_i, whose public inputs the
*circuit* computed, is compared in `verify` with hashes the *prover's* fields
give, and any disagreement between the native and the in-circuit fold shows.
`Proved` has the order of `prove_step`'s assignments around the call that may fail.

**NovaZk** adds the randomized proofs to the provers of NovaIVC.

**Polynomials** has what the code takes from arkworks: the smallest subgroup of a
given order, interpolation over a coset of it, Lagrange polynomials, division by
the vanishing polynomial with its remainder. Coefficient vectors keep the lengths
the code gives them, because lengths are where it goes wrong.

**ProtoGalaxyNIFS.** `Folding::prove` and `Folding::verify`, polynomial by
polynomial: F by the binary tree (`CalcFFromBtree`), G by evaluation on a larger
domain and interpolation, K by division, then the new betas and e. `PgMessages`
and `PgFold` are the prover's computation before and after the last challenge; they
take the challenges as arguments, so that they serve a transcript (`PgProve`) and
any challenge (ProtoGalaxyFolding) alike.

**ProtoGalaxyFolding.** A prover's running pair and a verifier's running instance;
each step offers K instances, of which some may be unsatisfied, with every
combination of the three challenges. A prover whose division leaves a remainder
returns an error and keeps its pair.

**ProtoGalaxyIVC** is FoldingScheme with `folding/protogalaxy/mod.rs`: one incoming
instance (k = 1), no blinding. What differs from NovaIVC is kept as the code has it: no
case for zero steps in `verify`, a base case that folds nothing, all four
running fields assigned before the circuit runs, a step of its own for each of the
two commitment folds, the first of which starts from the zero point. The
all-zero pair satisfies the first constraint of the modelled circuit, as it does
that of the code's (which is linear in the witness without a constant).

**SumCheck.** A multilinear polynomial is the sequence of its values on the
hypercube, a virtual polynomial a sum of products of them. The prover's state is
what is left of the polynomial and the challenges; a message is the trimmed
coefficient vector the code sends, found from sums at as many points as each
product needs and extrapolation for the rest, as the code does it. The native
and the in-circuit verifier differ in where the claimed sum comes from, and so
they are two operators.

**HyperNovaNIMFS.** `compute_g`, `compute_sigmas_thetas`, `compute_c`, `fold` and
`fold_witness` for any number of running and incoming instances, over the CCS the
code makes from an R1CS. `Verdict` is `NIMFS::verify` once the challenges are drawn,
`GadgetVerdict` the constraints of `NIMFSGadget::verify`. The code's last check of
`verify`, that the last message at the last challenge is c, repeats the one before
it and is not modelled a second time.

**HyperNovaFolding.** A running pair into which another running pair and an
incoming one are folded, each right or wrong: an action begins the fold, an action
is one round of the sum-check, an action ends it with the verifier's answer. The
challenges are any of the given ones.

**HyperNovaIVC** is FoldingScheme with `folding/hypernova/mod.rs` for MU = NU = 1.
Two things are unlike Nova. The circuit enforces the checks of the sum-check, so
that it can fail to be satisfied: if they do not hold the witness it assigns is one
that satisfies nothing. And under blinding a caller must write two nonzero
blinders into the struct between `init` and the first step, as the test at
`folding/hypernova/mod.rs` 1032 does, or `prove_step` refuses; FreshProver includes it.

**PedersenIpa, Kzg, VectorCommitments.** A committed vector is a sequence of
any length here. `IpaProve` halves it round by round with the challenges of the
transcript, and `IpaVerify` recomputes the commitment; `Gadget` operators are the
in-circuit verifiers. KZG's groups are the field, Beta its secret, and the pairing
equation an equation between residues; the vector is interpolated over its domain as
`poly_from_vec` does, and the proof divides the polynomial. In VectorCommitments a
prover commits, forms combinations of what it holds and opens any of them, also with a
blinder that is not its own; a verifier takes the proofs in the order they were made
in, each for any commitment. `spoiled` names the side that took a proof for that of
another commitment or was refused after its transcript had changed.

**Decider, NovaDecider, ProtoGalaxyDecider.** Decider is the on-chain decider with the
scheme's operators as parameters: `TryFrom` makes the circuit of a prover's struct after
one last fold, `OnchainConstraints` are its checks 1 to 7, `DeciderVerify` folds the
commitments natively and checks SNARK and openings. The SNARK is ideal: a proof is
its public inputs and whether the constraints held. NovaDecider adds the off-chain
decider, whose second circuit checks the CycleFold pair over the other field. The
deciders keep no state; their properties quantify over the structs that the IVC's own
behaviours produce, among them structs with fields of a published proof.

**NonNativeUint, NonNativeCircuit.** A non-native integer is a sequence of limbs, each
a value and a bound. `W` bits per limb and a circuit field of `P` elements stand for 55
bits and BN254's; the group size of `enforce_equal_unaligned` follows from them as in the
code. Constraints are predicates, a hint (quotient, carry, difference) is any value
the prover may choose. NonNativeCircuit allocates, adds, multiplies, selects and reduces
in any order and keeps with each variable the integer it is meant to be.

**IVC** is the abstract specification: a party has a claim (i, z_0, z_i), begins,
advances, publishes, adopts; a verifier accepts what was published or a claim
that says nothing. NovaIVC, NovaZk, ProtoGalaxyIVC and
HyperNovaIVC implement it, with the claim of each struct as refinement mapping. A
step that fails must be a step that changes no claim.

## 3. The runs

| run | module | bounds | checks |
|---|---|---|---|
| `folding` | MCVariantFolding | P = 7, 2 folds, all 7 challenges (Nova), 3 assignments, blinders 0 and 3, sampled pairs; Mova with four `aux`, Ova with and without cross terms | Satisfied, WitnessOpens, WrongInstanceSpoils, MovaSatisfied, OvaOpens, SidesAgree |
| `ivc` | MCNovaIVC | counter limit 2, one circuit failure anywhere, 2 published proofs, ten groups of mixed fields, three z_0, one of a wrong length | UnfailedProofVerifies, DecidersAgree, DeciderBindsClaim, ImplementsIVC |
| `zk` | MCNovaZk | `Hiding`, nonzero blinders, 2 randomized proofs, 2 samples, twelve groups of mixed fields | RandomizedVerifies, BlindingSuffices, WrongRunningRefused, ZkImplementsIVC |
| `pg_folding` | MCProtoGalaxyFolding | P = 17, the four constraints of the tests (t = 2), 2 folds of one, two or three instances, right and wrong, 3 challenges | Satisfied, ProverVerifierAgree, HonestNotRefused, OnlyZeroWeightFolded |
| `pg_ivc` | MCProtoGalaxyIVC | as ivc | InstancesSatisfied, StartedProofVerifies, DeciderAgrees, DeciderBindsClaim, ImplementsIVC |
| `hn_folding` | MCHyperNovaFolding | P = 7, the four constraints of the tests (two rounds), 2 multifolds of two running and one incoming instance, right and wrong, 2 of each challenge | Satisfied, AcceptedExactly, SumKept |
| `hn_ivc` | MCHyperNovaIVC | as ivc, `Hiding`, nonzero blinders | InstancesSatisfied, UnfailedProofVerifies, BlindingSuffices, OpensButForCaller, ImplementsIVC |
| `openings` | MCVectorCommitments | P = 40961, vectors of 1 to 8 entries, 2 committed and 3 held, 2 proofs on the way, both values of `hiding`, all three schemes | TranscriptsInStep, AcceptedExactly, CommittedOpens, GadgetsAgree |
| `nonnative` | MCNonNativeCircuit | circuit field of 193 elements, limbs of 3 bits, foreign modulus 29, 2 allocated and 4 held integers of up to 9 bits, all quotient hints of 6 bits | ValueKept, EqualExactly, LessExactly, CongruentExactly, OneRemainder |
| `ivc_retry` | MCNovaIVC | as ivc | ProofVerifies is **violated** |
| `pg_folding_full` | MCProtoGalaxyFolding | the same constraints in reverse order, so that the last one is quadratic | ProverVerifierAgree is **violated** |
| `hn_gadget` | MCHyperNovaFolding | as hn_folding, one multifold | GadgetIsVerifier is **violated** |

What the less obvious ones say. DecidersAgree and DeciderAgrees: from the second step
on, the deciders accept a struct's proof exactly if `verify` of the IVC accepts the
struct (and, for structs with fields mixed in, the witnesses open). That a prover's own
witnesses open needs no proviso: an opening that failed would violate the property.
DeciderBindsClaim: no mixture of two claims, and no other commitments, verify with a
decider proof. SidesAgree: Mova's and Ova's verifier refuses no honest fold and holds
the prover's instance, and the two transcripts agree unless a call was refused.
TranscriptsInStep: they agree unless a side is in `spoiled`. OneRemainder: of all hints of a quotient and a remainder that satisfy the
constraints of `modulo` only one exists.

Why the bounds are enough:

* *P = 7 in VariantFolding* lets TLC take every challenge of Nova's. The theorems of section 5
  cover every modulus. WrongInstanceSpoils says that at most two challenges
  hide an unsatisfied instance, which says something because 2 < 7.
  The challenges of Mova and Ova come from the transcripts, as the sides must agree on
  them. `aux` of no entries and of zeros draws the point, a full one is taken, and one of
  a wrong length is refused. The theorems cover all but the evaluation.
* *P = 10007 in HyperNovaIVC, 10169 in NovaIVC and NovaZk* (the decider needs the domain of
  order 8 for KZG), with a fixed mixing function as oracle. Whether two
  hashes collide, and whether a folded blinder is zero, is a matter of
  probability in the code and of the chosen function here; the properties that
  depend on it (ImplementsIVC, ZkImplementsIVC, WrongRunningRefused,
  BlindingSuffices) say that nothing *but* a collision or a zero could go wrong
  in the behaviours explored.
* *P = 17 in ProtoGalaxyFolding.* The domains of G and K are subgroups of the
  multiplicative group; G's has 4 elements for one incoming instance and 8 for
  three, and 17 is the smallest prime whose group has both. Three challenges, 0
  among them, stand for all: alpha, gamma and delta take each of them
  independently. Two folds are needed for betas and e of a folded instance to be
  folded again. A wrong instance does get folded in these behaviours, where the
  new betas weigh its errors to zero.
* *P = 7 in HyperNovaFolding.* Interpolation needs the points 0 to 3 to differ.
  AcceptedExactly is an equivalence between the verifier's answer and a sum over
  the errors of the folded pairs, so that it says something for challenges that
  hide an error as well as for those that do not; both occur, gamma = 0 and beta on
  a corner of the hypercube being among them.
* *P = 10169 in ProtoGalaxyIVC*, the same for the oracle with the domains of order 4
  and 8.
* *P = 40961 in VectorCommitments* has the domains of order 1 to 8, and is large
  enough for no two different openings to collide in the behaviours explored.
  Lengths 1 and 3 are those that the inner product argument treats specially, and 8
  exceeds the generators.
* *P = 193, W = 3, M = 29 in NonNativeCircuit*: the proportions of the code, where a
  full group of aligned limbs (four of 55 bits; here two of 3) fits the field of 254
  bits (here 8) and one limb more does not, and where p is about three quarters of the
  next power of two. An element and the modulus have two limbs, of which the second is
  shorter, an integer of 9 bits has three and can be a multiple of P. Products have three and
  groups of their own. Comparisons with two and three groups, with a carry that is
  the extra limb of the longer side, with limbs that fit and limbs that do not, all
  occur. A quotient hint ranges over every value of up to 6 bits. With limbs of 3
  bits over 1021 elements the limb past a full group would still fit, and the
  comparison would look sound where the code's is not.
* *One party.* Parties share only the published proofs, and one party can start
  over or adopt any of them, so that more parties reach no new prover state and
  publish no new proof.
* *Two published proofs* are what a mixed proof is made of.
* *UsizeMax of 1 or 2* stands for `usize::MAX`: the counter goes through the base
  case, the first real step, at least one general step, and its limit (in
  NovaZk the first two and the limit).
* *MaxFailures = 1*: one failure at any point of any history, steps before and
  after it.

`CHECK_DEADLOCK FALSE` stands only in the runs of VariantFolding, ProtoGalaxyFolding,
HyperNovaFolding, VectorCommitments and NonNativeCircuit, where the number of calls is
bounded and nothing else happens.

There is no liveness property and no fairness: the library is called, it
schedules nothing and waits for nothing. That an operation *succeeds* where it
should is an invariant: UnfailedProofVerifies, StartedProofVerifies, HonestNotRefused,
BlindingSuffices.

## 4. What the violations show

**A failed step loses the prover** (`ivc_retry`). `prove_step` replaces the
CycleFold pair (`folding/nova/mod.rs` 793) before it runs the user's circuit, and
returns with `?` if that fails. z_i, i, u_i and the primary running pair are then
the old ones, but u_i.x[1] is the hash of the old CycleFold instance. The next
`ivc_proof` is refused by `verify`, although `lib.rs` 207 says it can be verified;
repeating the step with good inputs does not help. No false claim gets accepted, by
`verify` or a decider (`ivc`): it is the completeness of the
scheme that is lost, not its soundness. ProtoGalaxy's
`prove_step` has the same order, for the primary running pair as well; that is
why the completeness properties of the passing runs say "until a step fails".

**A truncated polynomial** (`pg_folding_full`). `Folding::prove`
(`folding/protogalaxy/folding.rs` 128) keeps t coefficients of F, the constant one
among them, which is all of F as long as its degree is below t. With 2^t
constraints the last of them contributes its error times the product of all t
linear factors. If that error is not zero, as for a folded witness and a
quadratic constraint it is not, the coefficient of X^t is cut off: the prover
goes on with F of the uncut polynomial, the verifier evaluates the cut one, and
their e differ. The repository's test circuit has four constraints and escapes
because the last of them is linear, so that its error stays zero; `pg_folding`
is that circuit.

**The sum of the in-circuit sum-check** (`hn_gadget`). `NIMFSGadget::verify`
(`folding/hypernova/circuits.rs` 279) adds up the sum that the sum-check ought to
start from and does not use it: `SumCheckVerifierGadget::verify` starts from the sum
of the first message of the proof itself. The comment at line 239 says that the
gadget runs the verifier of the NIMFS. On a fold of instances whose v is not the
evaluation of what they commit to, `NIMFS::verify` answers with an error and the
gadget's constraints hold. On satisfied instances the two agree
(hn_ivc); HyperNova's `verify` checks the relations of the pairs it is given, and in
the behaviours of `hn_ivc`, in which every instance is made by the prover, it accepts
true claims only.

Observations without a run of their own:

* `Witness::commit` leaves cmE at the zero point when E is zero, whatever rE is, but
  `Witness::new` draws rE when hiding, and rE is folded as if it blinded cmE
  (`folding/nova/mod.rs` 171). What `get_openings` returns for cmE (`folding/traits.rs`
  117) then does not open it. OpeningsInvariant therefore assumes no blinding, and the
  deciders, which take no blinders, are run without.
* ProtoGalaxy's `verify` (`folding/protogalaxy/mod.rs` 1029) has no case for zero steps,
  as Nova's and HyperNova's have, and refuses the proof of a fresh prover;
  StartedProofVerifies therefore speaks of proofs after the first step.
* In HyperNova the blinder that the caller writes into W_i.r_w is kept by the base case,
  whose commitment is the zero point: the running witness never opens its
  commitment, by a difference that OpensButForCaller shows to be exactly that blinder.
* `prove` of Pedersen (`commitment/pedersen.rs` 87) and KZG (`commitment/kzg.rs` 162)
  absorbs and squeezes before it refuses a vector that is too long; IPA checks first. A
  caller who goes on with the same transcript is out of step with the verifier
  (`spoiled`). Mova's `prove` absorbs both instances before it refuses a point of
  the wrong length.
* IPA refuses to open a vector of one entry under a key with more generators, and
  any length that is no power of two, though `commit` takes both
  (`commitment/ipa.rs` 200).
* KZG's proof for a constant polynomial has the zero point for a witness and opens it at
  any challenge.
* `pointvsline.rs` 45 speaks of the line through r1 and r2; the direction taken is
  r1 - r2, so that the line reaches 2 r1 - r2 at 1. The verifier compares h2(1)
  with the incoming mleE, which holds because an incoming E is zero (SidesAgree,
  MovaSatisfied); it would not for another relaxed instance.
* Ova's own test passes zeros for t, so that cmWE opens to the witness alone; OvaOpens
  covers both.
* `enforce_equal_unaligned` (`folding/circuits/nonnative/uint.rs` 373) enforces equality
  only where the bounds of the limbs keep its carries exact (CarriesExact in
  NonNativeCircuit, the hypothesis of EqualExactly, CongruentExactly and OneRemainder).
  It compares the last carry with what is left of the longer operand in the field and
  puts no bound on it (line 487). If the longer operand is the first, the sign is
  wrong. If it is the second and the limb, shifted past the last group, reaches p, the
  equation wraps around: with the code's constants, 0 in four limbs equals p in five,
  and in the run 0 in two limbs equals 193 in three. A carry between two groups is
  given the bits of its group's bound: for a bound above about 0.34 p, which
  `LimbVar::add` still admits, one that is off by p passes; and a carry into
  a group whose limbs are aligned can carry out of it, for which no bit is
  left, so that equal integers are refused (65536 as limbs 16, 15, 15, 15 of 4 bits
  and as one limb above four zeros, over 773 elements).
  The callers stay clear of all this, by the bounds at the code's own constants (worked
  out by hand, not model-checked): both sides have 5 limbs in `enforce_incoming` and
  after `modulo`, 5 and 7 in the two calls of `modulo` in CycleFold's fold, 18 or 19 in
  the check of a relaxed R1CS with rows of 1 to 5000 entries, and CarriesExact holds of
  each. The run leaves out the comparisons of `modulo` and `enforce_congruent` for which
  it does not.

## 5. What is proved

TLAPS checks these for all values of the constants, under the named ASSUMEs of the
modules and the hypotheses the statements give.

| theorem | module | says |
|---|---|---|
| FoldPreservesRelation | NIFSProofs | two pairs in the relation fold into one that is in it |
| FoldPreservesOpenings | NIFSProofs | and the folded witness opens the folded commitments |
| FoldSound | NIFSProofs | `NIFS::prove` makes a sound pair of two sound pairs |
| KzgOpens | NIFSProofs | KZG's proof has the value at the challenge, and is accepted of the vector's own commitment only |
| TypeInvariant | NovaFoldingProofs | Nova folding keeps its types |
| SatisfiedInvariant | NovaFoldingProofs | the running pair always satisfies the relation |
| WitnessOpensInvariant | NovaFoldingProofs | its witness always opens cmW |
| OpeningsInvariant | NovaFoldingProofs | without blinding it opens cmE too |
| WrongInstanceSpoilsInvariant | NovaFoldingProofs | over a prime field at most two challenges hide a wrong instance |
| FewChallengesHide | NovaFoldingProofs | over a prime field at most two challenges make a right pair of two that are not both right |
| VariantSatisfied | NovaFoldingProofs | the first two of Nova's pair in the behaviours of the `folding` run |
| MovaSatisfiedInvariant | NovaFoldingProofs | Mova's witness satisfies the relation with the *verifier's* instance, opens cmW, and its error evaluates to mleE at rE |
| OvaOpensInvariant | NovaFoldingProofs | Ova's commitment opens to the witness and the error of the running pair |
| SidesAgreeInvariant | NovaFoldingProofs | Mova's and Ova's verifiers refuse no honest fold and have the prover's instance and transcript |
| AcceptedTrueInvariant | FoldingSchemeProofs | what the abstract IVC accepts is true |
| Completeness | FoldingSchemeProofs | a scheme's proofs verify, if each of its calls does what it should |
| Refinement | FoldingSchemeProofs | such a scheme implements IVC |
| Soundness | FoldingSchemeProofs | what its `verify` accepts is true |
| NovaCompleteness | NovaIVCProofs | while no step fails, Nova's proof verifies at any time |
| NovaImplementsIVC | NovaIVCProofs | Nova implements IVC, failed steps and mixed-up proofs included |
| NovaSoundness | NovaIVCProofs | what Nova's `verify` accepts is true |
| ZkCompleteness | NovaIVCProofs | while no step fails, a randomized proof verifies |
| NovaZkImplementsIVC | NovaIVCProofs | with randomized proofs Nova still implements IVC |
| NovaDecidersComplete | NovaIVCProofs | both deciders accept what `verify` accepts, if the witnesses open |
| NovaDecidersAgree | NovaIVCProofs | and nothing else, unless the challenge of a last fold hides an error |
| NovaDecidersBind | NovaIVCProofs | a decider proof is accepted with its own claim and commitments only, unless commitments collide |
| MultifoldSatisfies | HyperNovaNIMFSProofs | any number of pairs fold into one that satisfies the linearized relation |
| MultifoldOpens | HyperNovaNIMFSProofs | and its witness opens its commitment if theirs did |
| MultifoldInvariantHolds | HyperNovaFoldingProofs | the inductive invariant of HyperNovaFolding |
| MultifoldingSatisfied | HyperNovaFoldingProofs | the running pair satisfies its relation after every multifold, of wrong pairs too |
| SumCheckAccepts | HyperNovaNIMFSProofs | the verifier accepts the prover's messages exactly if the weighed errors add up to zero |
| GadgetAccepts | HyperNovaNIMFSProofs | the verifier in the circuit accepts the prover's messages for any pairs |
| MessagesKeepSum | HyperNovaNIMFSProofs | a message at its challenge is the sum over the variables that are left |
| VerifierIsExact | HyperNovaFoldingProofs | a multifold is accepted exactly if the challenges weigh its errors to nothing |
| SumCheckKeepsSum | HyperNovaFoldingProofs | the sum-check keeps its sum, round by round |
| HyperNovaImplementsIVC | HyperNovaIVCProofs | HyperNova implements IVC, failed steps and mixed-up proofs included |
| HyperNovaSoundness | HyperNovaIVCProofs | what HyperNova's `verify` accepts is true |
| HyperNovaOpensButForCaller | HyperNovaIVCProofs | its witnesses open, the running one but for the caller's blinder |
| HyperNovaCompleteness | HyperNovaIVCProofs | while no step fails, HyperNova's proof verifies at any time |
| HyperNovaSatisfied | HyperNovaIVCProofs | both running pairs satisfy their relations after every call, and the fresh one while no step fails |
| HyperNovaHashesOwn | HyperNovaIVCProofs | while no step fails, u_i holds the hashes of the prover's own instances |
| InterpolateEvals | ProtoGalaxyIVCProofs | interpolation on a domain returns the polynomial that has the values |
| GXIs | ProtoGalaxyIVCProofs | G(X) has everywhere the weighed error of the combined assignment as its value |
| FOfTree | ProtoGalaxyIVCProofs | the tree's F(X) has the weighed error at the new betas as its value at alpha |
| DividesExactlyZeroWeight | ProtoGalaxyIVCProofs | the division leaves no remainder exactly if the incoming errors weigh to zero |
| PgFoldSatisfies | ProtoGalaxyIVCProofs | and then the folded pair satisfies its relation, and the verifier has its instance if constraint 2^t - 1 holds |
| FoldsSatisfied | ProtoGalaxyIVCProofs | the running pair satisfies its relation after any number of folds |
| FoldsRefuseNoHonest | ProtoGalaxyIVCProofs | no fold of satisfied instances ends in a remainder |
| FoldsOnlyZeroWeight | ProtoGalaxyIVCProofs | what was folded in is weighed to zero by the new betas |
| FoldsAgree | ProtoGalaxyIVCProofs | both sides keep the same instance, if constraint 2^t - 1 is linear and never violated |
| ProtoGalaxyCompleteness | ProtoGalaxyIVCProofs | while no step fails, ProtoGalaxy's proof verifies from the first step on |
| ProtoGalaxySatisfied | ProtoGalaxyIVCProofs | every pair satisfies its relation after every call, and no step leaves a remainder |
| ProtoGalaxyImplementsIVC | ProtoGalaxyIVCProofs | ProtoGalaxy implements IVC, failed steps and mixed-up proofs included |
| ProtoGalaxySoundness | ProtoGalaxyIVCProofs | what ProtoGalaxy's `verify` accepts is true |
| ProtoGalaxyDeciderComplete | ProtoGalaxyIVCProofs | its decider accepts what `verify` accepts, if the witnesses open |
| ProtoGalaxyDeciderAgrees | ProtoGalaxyIVCProofs | and nothing else, unless the challenges of a last fold hide an error |
| ProtoGalaxyDeciderBinds | ProtoGalaxyIVCProofs | its proof is accepted with its own claim, L and commitments only, unless commitments collide |

*Folding.* Assumed: P is a natural number above one; the constraint system's
matrices are over Fp with an unused row 0; generators, assignments and blinders
are in Fp; incoming assignments satisfy the system. The modulus need not be
prime: only ring identities are used. `NIFSProofs` begins with a congruence calculus
with explicit quotients (sums and products modulo P can be reduced late; the SMT
solver does not reason about % with a symbolic modulus), from which Dot is
linear, and so are matrix products and commitments. It then shows slot
by slot that the error of the folded assignment is E_1 + r T + r^2 E_2 when T is
the cross term of `compute_T`.

The inductive invariant of Nova folding is `IInv`: the pair has its types,
satisfies the relation and opens cmW (and cmE when nothing is blinded), and folds
is within its bound. Satisfied alone is not inductive: the algebra needs all
entries in Fp, and the unused slots of E and W to be zero. Every action is a
fold of a pair that is itself `Sound`, so that one lemma (FoldSound) serves both.

FewChallengesHide assumes PrimeModulus (no zero divisors but zero). In each slot the
error of the fold is a quadratic polynomial in the challenge: with d1 and d2 what the two
errors are off by, it is d1 - (d1 + d2) r + d2 r^2 (FoldedErrorIsQuadratic). Likewise cmW is
off by a1 + a2 r, and cmE by b1 + b2 r^2. If one of the six is not zero, one of
the three polynomials is not, and three roots would make it so (ThreeRoots). The coefficients come
from FoldPreservesRelation and FoldPreservesOpenings, applied to the pairs as they
should have been. WrongInstanceSpoilsInvariant is the case of a right running pair and a
wrong fresh one.

*Mova and Ova.* The proofs reduce both to Nova. A Mova witness is a Nova witness, and an
Ova pair becomes one when it is given the error that `compute_E` finds in it; then a
fold of either is Nova's fold (MovaFoldSound, OvaFoldSound), FoldPreservesRelation
gives the error of the folded pair as E_1 + r T, and the linearity of the commitment
does the rest. For Mova the inductive invariant must say that the two transcripts agree:
the witness is folded with the prover's challenge and the instance with the
verifier's. MovaVerifyAgrees shows that they are one whenever the verifier accepts. It
does accept (MovaVerifyAccepts) because the invariant also says that the running mleE is the
value of the running E's extension at rE (MovaPlaced), and every incoming one is zero:
h1(0) is then the running claim, and h2 is zero everywhere, at one too, where the line does
not pass through the incoming point. For this the recursion of `compute_h` is unfolded into its
one or two variables (ComputeHUnrolled), each of which is a line between two polynomials
(StepOfOne, StepOfTwo); its trailing zeros may go (TrimmedIs), and the extension Mle so
reached is linear in the table, which makes the folded claim that of the folded error.
VariantsAssumption bounds the number of variables: a proof for any number is an induction
over the hypercube.

*Any scheme.* What lib.rs promises of a folding scheme is argued once. A scheme has two
predicates on the struct of a prover: `WellFormed`, which every call keeps, a failed one
too, and `Consistent`, which only a step that succeeds keeps. It owes four facts about
single calls: `init` and `prove_step` establish and keep them and move the claim as
the abstract specification does (SchemeOk); `verify` accepts what has both (VerifyOk);
what `verify` accepts of two mixed-up proofs is the claim of the one whose
instance u_i it took, or of no steps, or else that instance's hash is `Forged`
(BindsOk); and the sentinel NoProver is no struct and no claim (NoProverOk). The
inductive invariant FInv says that every struct held or published is WellFormed, and
Consistent if no step has failed. From it follow Completeness, and, step by step with
the claims as refinement mapping, Refinement. AcceptedTrueInvariant is about the
abstract specification alone: its invariant is that every claim held,
published or accepted is true; a true claim of length i is extended by one step by
extending its run of F. Soundness combines the two.

*Nova.* WellFormed says that the CycleFold pair, the running pair and the fresh pair of
a struct are sound, and that u_i.x[1] is the hash of the struct's claim with *some*
running instance. Consistent adds that both hashes are those of the struct's own
instances (HashesMatch): the part that a failed step breaks. That a step keeps it is the agreement of the
augmented circuit with the native folds: the circuit rebuilds u_i from hashes, derives
the three challenges and folds three pairs, and ends with the instances the prover has.

Two things are assumed of the instance. NoProverApart: NoProver is not a struct with the
fields of a prover or of a claim (it is a model value for TLC). And `[]~Forgery`:
no published struct has an u_i.x[1] that is also the hash of another claim with a
published instance. ForgedIsCollision shows that such a struct is a collision of the
oracle, two different sequences with one answer, as the modelled states have one
element and the sequences therefore determine the claims; a random oracle
has none that could be found. The instances that TLC checks have none either. Nothing is assumed of the oracle for completeness.

*Multifolding.* HyperNova's fold is a random linear combination, and what makes it right is
that everything it combines is linear in the assignment: a multilinear extension is
linear in its table, a matrix product in the vector. So the sigmas and thetas, which are
evaluations at the new point, are the v of the folded instance, whatever the point, rho
and the witnesses are; a wrong pair folded yields a pair that *is* in the linearized
relation, and it is the sum-check that must refuse it (VerifierIsExact).
MultifoldingSatisfied therefore does not need the fold to be honest. The model's
sums over instances are recursive functions over sequences of any length; the library's
induction theorems cannot be instantiated, but its WFMin can (every nonempty subset of
Nat has a least element), and SetInduction, Recursion and SameRun are built on it once.
The hypercube has at most 8 rows, as the vectors have slots.

*The sum-check.* The polynomial of `compute_g` is a list of products of tables, and
what it sums to is ExpectedSum plus the weighed errors (WeighedTotal): a running pair's
products are its Mz times eq at its r_x, whose sum is the evaluation, and the incoming pair's
are the error of each row times eq at beta. A round keeps the sum (RoundKeepsSum):
its message is the interpolation of the values at 0 to 3 of a polynomial of degree three,
and takes those values (which is where InvertibleAssumption comes from: 1, 2 and 3
have inverses modulo P, as the Lagrange basis divides by differences of the points); the
rest is that a table fixed at r is linear in r. At the end the last polynomial has one
row, which is `compute_c` of the sigmas and thetas at the point (SigmasAre); so the
subclaim's value is the claim, and only the comparison of the first message with
ExpectedSum can fail. The inductive invariant of HyperNovaFolding carries this through
the rounds as RoundsOk: some sequence of polynomials starts with compute_g's, each is the
one before fixed at a challenge, and each message is the one of its polynomial.
MultifoldInvariant had no such part before, and without it nothing is known of
the messages at Finish. SumKept compares two ways to evaluate: the prover's, which fixes one
variable after the other, and VPolynomial's evaluate at a whole point (CornerPicks).

*HyperNova.* The argument is Nova's with other predicates: WellFormed has the linearized
relation for the running pair and the commitment that is off by the caller's blinder
(OpensBut), which is inductive as the fresh pair's blinder is folded in on
both sides and the difference is not. Consistent is HashesMatch and the relation of the
fresh pair. That prover, verifier and circuit
derive the same three challenges (ChallengesAgree, VerifierPoint, StepGadget) is a fact
about the two rounds of the sum-check, unrolled. A forgery may here involve a fresh
struct, as `verify` does not look at u_i.u; it is still a collision, since the
two sequences differ in i. The fresh pair satisfies its relation if no constraint of the
augmented circuit fails, those of the sum-check included. There the circuit takes its claim from the
proof, so that an honest step is accepted whatever it folds
(GadgetAccepts, StepHolds); the same fact makes hn_gadget's finding hold of every
instance: this gadget refuses no prover that runs the rounds as written.

*ProtoGalaxy.* The theorems about a fold hold for one, three or seven incoming instances
and for systems of up to two, four or eight constraints (k in Foldable, t in Sizes).
Assumed of the field: that it has the domains, which is what k \in Foldable says, and
RootAssumption, that some element to half the largest order is -1, which ark_ff's
two-adic root of unity is. Nothing else is assumed of P, not even that it is prime. A function
of X is a `Polynomial` with n coefficients if some n coefficients evaluate to it everywhere.
Sums of the powers of a root vanish (OrthogonalRoots, by doubling), so that interpolation
on a domain of order n gives those coefficients back (InterpolateEvals), and two
polynomials with n coefficients that agree on it agree everywhere (PolynomialsAgree): this
takes the place of a count of roots. The combination of the assignments by Lagrange polynomials has k + 1
coefficients in every slot, hence a constraint's error 2 (k + 1) of them
(RowPolynomial), as many as `GX` interpolates (GXIs). DividesExactly subtracts F(alpha) L_0(X):
what is left divides by the vanishing polynomial exactly if it vanishes on the domain
(DivisionExact), where the running error is F(alpha) and the incoming ones have to weigh
nothing. That the running error is F(alpha) comes from the tree of
`calc_f_from_btree`, level by level (LevelOk, RootOk, FOfTree); that the verifier computes
the same value from t coefficients needs the constraint number 2^t - 1 to have no error
(LastHolds), which is what pg_folding_full violates. FoldedErrorIs evaluates the quotient
at gamma.

The invariant of ProtoGalaxyFolding is FoldInv: Satisfied together with the types of the pair,
without which no fold could be computed with, and with what the last fold made of
its offer. It is proved of every System, Gens, set of assignments, challenges and
number of folds. ProverVerifierAgree is false in general, so FoldsAgree states what it
takes: LastIsLinear, that the constraint number 2^t - 1 has a constant as its second factor and no
offered assignment violates it. A system with fewer than 2^t constraints is of that
kind, and so is MCR, which MCProtoGalaxyFolding assumes for TLC to check. The invariant then has LastHolds as well: a combination of assignments that
satisfy a linear constraint satisfies it (LinearKept), the slot of the constant one being
one in all of them.

For the IVC the fold is that of one instance with two public inputs and four
constraints, the last of which the augmented circuit does not have (IvcSystem, OneFolds). The IVC then follows Nova's: WellFormed has the running
relation and, from the first step on, the fresh one; the augmented circuit
repeats the fold from the messages (CircuitAgrees). `verify` knows no zeroth step. That it refuses the dummy pair
of `init` is a theorem, too (DummyRefused): the constraint on F has the constant 5, so
that the soundness theorems assume P # 5.

*Deciders.* A decider's circuit looks at the last fold where `verify` looks at the two pairs
that went into it. What acceptance comes to is characterised exactly: FoldHolds, that
the folded pair satisfies its relation and opens its commitments, and RestHolds, the hashes and the
CycleFold pair (AnswersAre for Nova; DeciderAccepts for ProtoGalaxy). It takes
KZG's completeness and its converse (KzgOpens), since the circuit has the evaluations and the
verifier the openings. That two right pairs make a right fold is the folding's own
theorem (PartsFold), from which completeness follows without any assumption. The converse
is where a challenge may be unlucky. NovaDecidersAgree and ProtoGalaxyDeciderAgrees
therefore speak of behaviours in which no last fold HidesError, that is, is right although one of its
pairs is not; FewChallengesHide says that for Nova at most two challenges in P
could. That a proof binds its claim is a matter of what the public inputs
are concatenated of: their lengths differ with the states', and the parts that follow the
commitments have a fixed length, so that the sequence determines claim and
folded commitments (InputsBind); for ProtoGalaxy also L, which is its end. The
commitments of another proof remain possible if they fold to the same
(CommitmentsCollide; without it, RlcCancels gives Nova's cmE, and cmW is what the hypothesis
is about). TLC finds neither HidesError nor CommitmentsCollide in any state of the runs
`ivc` and `pg_ivc`. Nova's three theorems assume ~Hiding: KZG commits without a
blinder (see section 4). For ProtoGalaxy WellFormed had to say that the witnesses open
(Opened), which no other theorem needs; it is kept because its commitments are linear.

What is only model-checked: sequences of opening proofs (VectorCommitments; KzgOpens is about
one of KZG's) and the non-native integers; Mova with more than two variables; BlindingSuffices and WrongRunningRefused, which no theorem could state for every value of the constants, as an unlucky challenge or draw
makes a blinder zero or hides an error. Outside the prover's reach are
most inductions over data (a transcript, a sequence of limbs or a vector of any
length; the vectors of the folding schemes therefore have a fixed number of
slots, and only sequences of instances are of any length), recursive operators, liveness and ENABLED.

## 6. What is not modelled, and the plan

Left out for good: parsing and serialization of parameters and proofs,
`preprocess` (the parameters are constants), the arithmetic of the curves, the
pairing, Poseidon's permutation, the Groth16 backend, frontends for external
circuit compilers (they enter as an F that may fail), Solidity templates and CLI.

Left out of parts that are modelled: of the deciders, HyperNova's, which follows the
pattern of Nova's on-chain one, and the preprocessing; of the non-native integers,
conversions to bits, absorption and public inputs, and the points of `affine.rs`, which
are pairs of such integers; of the sum-check, operations on virtual polynomials that no
fold calls; of HyperNova, more than one running or incoming instance in `prove_step`
(they are covered in HyperNovaFolding), `new_running_instance` and
`new_incoming_instance`; of ProtoGalaxy, the search for the size of its own augmented
circuit (`compute_t`).

Two hazards are listed without a property: a sum-check proof with too few rounds
panics, and a round message loses a leading zero on its way into the circuit. Both
are questions about vector lengths in the allocation of a proof in the circuit, where
the model has the polynomial.

What would come next:

1. **ProtoGalaxy**: the augmented circuit of K incoming instances.
2. **HyperNova**: more instances per step, which needs a wider CycleFold circuit; its decider.
3. **Deciders**: a count, as FewChallengesHide is one, of the challenges that hide an error in a fold of ProtoGalaxy.
