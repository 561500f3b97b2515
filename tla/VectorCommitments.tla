--------------------------- MODULE VectorCommitments ---------------------------
(***************************************************************************)
(* The CommitmentScheme trait (commitment/mod.rs) and its three            *)
(* implementations, called by a prover and a verifier that each keep one   *)
(* transcript for all openings.                                            *)
(*                                                                         *)
(* The prover commits to vectors, adds multiples of commitments, which is  *)
(* what folding does with them, and opens them in any order; the proofs    *)
(* reach the verifier in the order they were made in, and it may take one  *)
(* for that of another commitment.                                         *)
(***************************************************************************)
EXTENDS PedersenIpa, Kzg

CONSTANTS Gens, H0,       \* the parameters of Pedersen and IPA, of setup
          Powers,         \* the number of powers of Beta in the key of KZG
          Vectors, Blinders, Rhos,
          Draw,           \* what the rng draws for IPA: [l, r]
          MaxCommitted, MaxHeld, MaxProofs

ASSUME InputsAssumption ==
  /\ Vectors \subseteq Seq(Fp) /\ Blinders \subseteq Fp /\ Rhos \subseteq Fp
  /\ Gens \in Seq(Fp) /\ H0 \in Fp /\ Powers \in Nat
  /\ MaxCommitted \in Nat /\ MaxHeld \in Nat /\ MaxProofs \in Nat

VARIABLES
  scheme,      \* which of the three
  hiding,      \* the const generic H
  held,        \* the prover's [v, r, cm], in the order of the calls
  proverTr, verifierTr,
  sent,        \* the proofs on their way: [k, r, inStep, drawn, proof], k an index of
               \* held and drawn the last challenge
  made,        \* how many proofs were asked for
  spoiled,     \* the sides that made a call which leaves the transcripts out of step
  last         \* what the last call returned, on which commitment and proof

vars == <<scheme, hiding, held, proverTr, verifierTr, sent, made, spoiled, last>>

NoCall == [ret |-> "None"]

Init ==
  /\ scheme \in {"Pedersen", "IPA", "KZG"} /\ hiding \in BOOLEAN
  /\ held = <<>> /\ proverTr = <<>> /\ verifierTr = <<>> /\ sent = <<>> /\ made = 0
  /\ spoiled = {} /\ last = NoCall

----------------------------------------------------------------------------
\* KZG's checks of the blinder and the degree.
KzgRet(r, coeffs) ==
  IF r # 0 \/ hiding THEN "NotSupportedYet"
  ELSE IF DegreeTooLarge(coeffs, Powers) THEN "TooManyCoefficients"
  ELSE "Ok"

\* CommitmentScheme::commit.
CommitRet(v, r) ==
  IF scheme = "KZG" THEN KzgRet(r, PolyFromVec(v)) ELSE ParamsRet(hiding, Gens, v, r)
CommitOf(v, r) ==
  IF scheme = "KZG" THEN KzgCommit(v) ELSE PedersenCommit(hiding, Gens, H0, v, r)

Commit(v, r) ==
  /\ Len(held) < MaxCommitted
  /\ held' = IF CommitRet(v, r) # "Ok" THEN held
             ELSE Append(held, [v |-> v, r |-> r, cm |-> CommitOf(v, r)])
  /\ last' = [ret |-> CommitRet(v, r)]
  /\ UNCHANGED <<scheme, hiding, proverTr, verifierTr, sent, made, spoiled>>

\* The caller's random linear combination of two commitments and of what opens them.
Combine(i, j, rho) ==
  /\ Len(held) < MaxHeld
  /\ Len(held[i].v) = Len(held[j].v)
  /\ held' = Append(held, [v  |-> PolyAdd(held[i].v, PolyScale(held[j].v, rho)),
                           r  |-> Rlc(held[i].r, rho, held[j].r),
                           cm |-> Rlc(held[i].cm, rho, held[j].cm)])
  /\ last' = NoCall
  /\ UNCHANGED <<scheme, hiding, proverTr, verifierTr, sent, made, spoiled>>

----------------------------------------------------------------------------
\* CommitmentScheme::prove on the prover's transcript, of the vector of o with a blinder.
\* Pedersen and KZG have changed the transcript when they refuse; IPA looks first.
PedersenProve(o, r, ch) ==
  IF ParamsRet(hiding, Gens, o.v, r) # "Ok"
  THEN [ret |-> ParamsRet(hiding, Gens, o.v, r), tr |-> ch.tr]
  ELSE [ret |-> "Ok", tr |-> ch.tr, proof |-> PedersenProveWithChallenge(hiding, o.v, r, ch)]

KzgProve(o, r, ch) ==
  IF KzgRet(r, PolyFromVec(o.v)) # "Ok" THEN [ret |-> KzgRet(r, PolyFromVec(o.v)), tr |-> ch.tr]
  ELSE [ret |-> "Ok", tr |-> ch.tr, proof |-> KzgProveWithChallenge(ch.r, o.v)]

Rounds2(v)     == CHOOSE k \in 0 .. 3 : 2^k >= Len(v) /\ (k = 0 \/ 2^(k - 1) < Len(v))
Drawn(s, v)    == SubSeq(s, 1, Rounds2(v))

ProveWith(tr, o, r) ==
  CASE scheme = "Pedersen" ->
         PedersenProve(o, r, ProverChallenge(hiding, Gens, H0, tr, o.cm, Len(o.v)))
    [] scheme = "KZG" -> KzgProve(o, r, KzgChallenge(tr, o.cm))
    [] scheme = "IPA" -> IpaProve(hiding, Gens, H0, tr, o.cm, o.v, r, Drawn(Draw.l, o.v), Drawn(Draw.r, o.v))

Proved(k, r, p) ==
  /\ proverTr' = p.tr
  /\ sent' = IF p.ret # "Ok" THEN sent
             ELSE Append(sent, [k |-> k, r |-> r, inStep |-> "prover" \notin spoiled,
                                drawn |-> p.tr[Len(p.tr)], proof |-> p.proof])
  /\ spoiled' = IF p.ret # "Ok" /\ p.tr # proverTr THEN spoiled \union {"prover"} ELSE spoiled
  /\ last' = [ret |-> p.ret, own |-> (r = held[k].r), len |-> Len(held[k].v)]

Prove(k, r) ==
  /\ made < MaxProofs /\ made' = made + 1
  /\ Proved(k, r, ProveWith(proverTr, held[k], r))
  /\ UNCHANGED <<scheme, hiding, held, verifierTr>>

----------------------------------------------------------------------------
\* CommitmentScheme::verify, on the verifier's transcript.
ChallengeOf(tr, cm, pf) ==
  CASE scheme = "Pedersen" -> VerifierChallenge(tr, cm, pf)
    [] scheme = "KZG" -> KzgChallenge(tr, cm)
    [] scheme = "IPA" -> IpaChallenges(tr, cm, pf)

VerifyWithChallenge(cm, pf, ch) ==
  CASE scheme = "Pedersen" -> PedersenVerifyWithChallenge(hiding, Gens, H0, ch.e, cm, pf)
    [] scheme = "KZG" -> IF hiding THEN "NotSupportedYet"
                         ELSE IF KzgVerifyWithChallenge(ch.r, cm, pf) THEN "Ok"
                         ELSE "CommitmentVerificationFail"
    [] scheme = "IPA" -> IpaVerifyWithChallenge(hiding, Gens, H0, cm, pf, ch)

\* The proof is that of commitment cm, made with its own blinder.
IsFor(s, cm) == held[s.k].cm = cm /\ (hiding => s.r = held[s.k].r)

Verified(s, cm, ch) ==
  /\ verifierTr' = ch.tr
  /\ spoiled' = IF held[s.k].cm # cm THEN spoiled \union {"verifier"} ELSE spoiled
  /\ last' = [ret |-> VerifyWithChallenge(cm, s.proof, ch), isFor |-> IsFor(s, cm),
              honest |-> s.inStep /\ "verifier" \notin spoiled /\ IsFor(s, cm), cm |-> cm, proof |-> s.proof, ch |-> ch,
              redrawn |-> ch.tr[Len(ch.tr)] = s.drawn]

Verify(j) ==
  /\ sent # <<>>
  /\ sent' = Tail(sent)
  /\ Verified(Head(sent), held[j].cm, ChallengeOf(verifierTr, held[j].cm, Head(sent).proof))
  /\ UNCHANGED <<scheme, hiding, held, proverTr, made>>

----------------------------------------------------------------------------
Next ==
  \/ \E v \in Vectors, r \in Blinders : Commit(v, r)
  \/ \E i, j \in DOMAIN held, rho \in Rhos : Combine(i, j, rho)
  \/ \E k \in DOMAIN held : \E r \in Blinders \union {held[k].r} : Prove(k, r)
  \/ \E j \in DOMAIN held : Verify(j)

Spec == Init /\ [][Next]_vars

----------------------------------------------------------------------------
\* A proof is accepted if it was made for this commitment with its blinder and the
\* transcripts are in step, of one opening after another, of vectors of any length and of
\* combinations of commitments.  Otherwise it is not, unless the oracle gives the verifier
\* the same challenge again, but for a KZG proof of a constant polynomial, which opens at
\* every point (prove and verify of kzg.rs, pedersen.rs, ipa.rs).
AcceptedExactly ==
  "honest" \in DOMAIN last =>
    /\ last.honest => last.ret = "Ok"
    /\ last.ret = "Ok" =>
         last.isFor /\ (last.redrawn \/ (scheme = "KZG" /\ last.proof.proof = 0))

\* The transcripts agree whenever no proof is on its way, as long as no proof was taken for
\* that of another commitment and none refused after the transcript was touched.
TranscriptsInStep == spoiled = {} /\ sent = <<>> => proverTr = verifierTr

\* With its own blinder every vector committed to can be opened, but by IPA: the length
\* must be a power of two, and the generators of a single entry are never halved to the
\* one that is left of them otherwise (ipa.rs, the checks of the lengths).
CommittedOpens ==
  "own" \in DOMAIN last /\ last.own =>
    (last.ret = "Ok" <=> (scheme = "IPA" => last.len \in {2, 4}))

\* The gadget accepts exactly the openings that the native verifier accepts, and the
\* Pedersen gadget commits to the same (IPAGadget::verify, PedersenGadget::commit).
GadgetsAgree ==
  /\ "honest" \in DOMAIN last /\ scheme = "IPA" =>
       (IpaGadgetVerify(hiding, Gens, H0, last.cm, last.proof, last.ch, Len(last.proof.L))
          <=> last.ret = "Ok")
  /\ scheme # "KZG" => \A k \in DOMAIN held :
       held[k].cm = PedersenGadgetCommit(hiding, Gens, H0, held[k].v, held[k].r)
=============================================================================
