-------------------------- MODULE FoldingSchemeProofs --------------------------
(***************************************************************************)
(* What holds of every folding scheme: a prover's proof verifies at any    *)
(* time, and the scheme implements IVC, if the five functions it plugs     *)
(* into the FoldingScheme trait do what SchemeOk, VerifyOk and BindsOk     *)
(* say of one call.                                                        *)
(***************************************************************************)
EXTENDS FoldingScheme, TLAPS

CONSTANTS WellFormed(_),  \* holds of every struct the calls leave behind
          Consistent(_),  \* holds of them as long as no step failed
          Forged(_, _)    \* one struct's hash is that of the other's, different, claim

Step(c, ext) == [i |-> c.i + 1, z_0 |-> c.z_0, z_i |-> F(c.z_i, ext)]

FreshOk ==
  \A z \in Z0 : /\ WellFormed(FreshProver(z)) /\ Consistent(FreshProver(z))
                /\ ClaimOf(FreshProver(z)) = [i |-> 0, z_0 |-> z, z_i |-> z]

\* One call of prove_step that does not return early.
ProvedOk ==
  \A s : \A ext \in Ext, d \in Draws, multi \in BOOLEAN :
    WellFormed(s) /\ Precheck(s, multi) = "Ok" =>
      /\ WellFormed(Proved(s, ext, d))
      /\ ext \in BadExt => ClaimOf(Proved(s, ext, d)) = ClaimOf(s)
      /\ ext \notin BadExt =>
           /\ s.i <= UsizeMax
           /\ ClaimOf(Proved(s, ext, d)) = Step(ClaimOf(s), ext)
           /\ Consistent(s) => Consistent(Proved(s, ext, d))

\* NoProver is neither a struct nor a claim.
NoProverOk == \A s : WellFormed(s) => s # NoProver /\ ClaimOf(s) # NoProver

SchemeOk == FreshOk /\ ProvedOk

VerifyOk == \A s : WellFormed(s) /\ Consistent(s) => Verify(s)

\* verify accepts a struct of mixed-up fields for the claim of the one whose hash it
\* holds, or for no steps at all, unless that hash is forged.
MixedUp(a, b, mixed) == [k \in DOMAIN a |-> IF k \in mixed THEN b[k] ELSE a[k]]
NoSteps(s) == [i |-> 0, z_0 |-> s.z_0, z_i |-> s.z_0]
BindsOk ==
  \A a, b : \A mixed \in Mixed :
    LET pr == MixedUp(a, b, mixed)
    IN  WellFormed(a) /\ WellFormed(b) /\ Verify(pr) =>
          \/ ClaimOf(pr) \in {ClaimOf(a), NoSteps(a), NoSteps(b)}
          \/ Forged(a, pr)

\* Some way to mix up two published proofs keeps a hash and changes its claim.
Forgery == \E a, b \in sent, mixed \in Mixed : Forged(a, MixedUp(a, b, mixed))

----------------------------------------------------------------------------
Good(s) == WellFormed(s) /\ (failures = 0 => Consistent(s))

FInv ==
  /\ failures \in Nat
  /\ st = [p \in Party |-> st[p]]
  /\ \A p \in Provers : Good(st[p])
  /\ \A pr \in sent : Good(pr)

LEMMA FInit == Init => FInv
BY DEF Init, FInv, Provers

LEMMA InitProverGood ==
  ASSUME SchemeOk, FInv, NEW p \in Party, NEW z_0 \in Z0, InitProver(p, z_0)
  PROVE  FInv'
BY DEF SchemeOk, FreshOk, FInv, Good, Provers, InitProver

LEMMA ProveStepGood ==
  ASSUME SchemeOk, FInv, NEW p \in Party, NEW ext \in Ext, NEW multi \in BOOLEAN, NEW d \in Draws,
         ProveStep(p, ext, multi, d)
  PROVE  FInv'
<1>1. CASE Precheck(st[p], multi) # "Ok"
  BY <1>1 DEF ProveStep, FInv, Good, Provers
<1>2. CASE Precheck(st[p], multi) = "Ok"
  <2>1. /\ st[p] # NoProver /\ p \in Provers /\ Good(st[p])
        /\ st' = [st EXCEPT ![p] = Proved(st[p], ext, d)] /\ sent' = sent
        /\ ext \in BadExt => failures' = failures + 1
        /\ ext \notin BadExt => failures' = failures
    BY <1>2 DEF ProveStep, FInv, Provers
  <2>2. /\ WellFormed(Proved(st[p], ext, d))
        /\ ext \notin BadExt /\ Consistent(st[p]) => Consistent(Proved(st[p], ext, d))
    BY <1>2, <2>1 DEF SchemeOk, ProvedOk, Good
  <2>3. failures \in Nat /\ failures' \in Nat /\ (ext \in BadExt => failures' # 0)
    BY <2>1 DEF FInv
  <2>4. WellFormed(st'[p]) /\ (failures' = 0 => Consistent(st'[p]))
    BY <2>1, <2>2, <2>3 DEF Good, FInv
  <2>5. ASSUME NEW q \in Party, q # p PROVE st'[q] = st[q]
    BY <2>1, <2>5 DEF FInv
  <2>6. failures' = 0 => failures = 0
    BY <2>1, <2>3
  <2> QED
    BY <2>1, <2>3, <2>4, <2>5, <2>6 DEF FInv, Good, Provers
<1> QED
  BY <1>1, <1>2

LEMMA SendGood == ASSUME FInv, NEW p \in Party, Send(p) PROVE FInv'
BY DEF FInv, Good, Provers, Send

LEMMA ReceiveGood ==
  ASSUME FInv, NEW p \in Party, NEW pr \in sent, Receive(p, pr) PROVE FInv'
BY DEF FInv, Good, Provers, Receive

LEMMA VerifyGood ==
  ASSUME FInv, NEW a \in sent, NEW b \in sent, NEW mixed \in Mixed, VerifyProof(a, b, mixed)
  PROVE  FInv'
BY DEF FInv, Good, Provers, VerifyProof

LEMMA FNext == ASSUME SchemeOk PROVE FInv /\ [Next]_vars => FInv'
<1> SUFFICES ASSUME FInv, [Next]_vars PROVE FInv'
  OBVIOUS
<1>1. CASE UNCHANGED vars
  BY <1>1 DEF vars, FInv, Good, Provers
<1>2. CASE Next
  BY <1>2, InitProverGood, ProveStepGood, SendGood, ReceiveGood, VerifyGood DEF Next
<1> QED
  BY <1>1, <1>2

\* Every struct in the system stays as the scheme promises.
LEMMA FInvariant == ASSUME SchemeOk PROVE Spec => []FInv
BY FInit, FNext, PTL DEF Spec

\* ivc_proof returns a proof "which can be verified in the verify method": of every
\* prover, at any time, whoever started it and however often it changed hands, as
\* long as no step failed inside F's circuit.
THEOREM Completeness ==
  ASSUME SchemeOk, VerifyOk PROVE Spec => []UnfailedProofVerifies
<1>1. FInv => UnfailedProofVerifies
  BY DEF VerifyOk, FInv, Good, UnfailedProofVerifies, ProofVerifies
<1> QED
  BY <1>1, FInvariant, PTL

----------------------------------------------------------------------------
HeldBy(p) == IF st[p] = NoProver THEN NoProver ELSE ClaimOf(st[p])

\* What the provers hold changes as the structs do.
LEMMA HeldChanges ==
  ASSUME FInv, NEW p \in Party, NEW s, s # NoProver, st' = [st EXCEPT ![p] = s]
  PROVE  [q \in Party |-> HeldBy(q)]' = [[q \in Party |-> HeldBy(q)] EXCEPT ![p] = ClaimOf(s)]
<1>1. ASSUME NEW q \in Party PROVE st'[q] = IF q = p THEN s ELSE st[q]
  BY DEF FInv
<1>2. ASSUME NEW q \in Party PROVE HeldBy(q)' = IF q = p THEN ClaimOf(s) ELSE HeldBy(q)
  BY <1>1 DEF HeldBy
<1> QED
  BY <1>2

LEMMA InitBegins == Init => Abs!AInit
BY DEF Init, Abs!AInit, Returned

LEMMA InitProverBegins ==
  ASSUME SchemeOk, NoProverOk, FInv, NEW p \in Party, NEW z_0 \in Z0, InitProver(p, z_0)
  PROVE  Abs!Begin(p)
<1> DEFINE s == FreshProver(z_0)
<1>1. ClaimOf(s) = [i |-> 0, z_0 |-> z_0, z_i |-> z_0] /\ s # NoProver
  BY DEF SchemeOk, FreshOk, NoProverOk
<1>2. st' = [st EXCEPT ![p] = s] /\ verdict'.claim = NoProver /\ sent' = sent
  BY DEF InitProver, Returned
<1> HIDE DEF s
<1>3. [q \in Party |-> HeldBy(q)]' = [[q \in Party |-> HeldBy(q)] EXCEPT ![p] = ClaimOf(s)]
  BY <1>1, <1>2, HeldChanges
<1> QED
  BY <1>1, <1>2, <1>3 DEF Abs!Begin, HeldBy

LEMMA ProveStepAdvances ==
  ASSUME SchemeOk, NoProverOk, FInv,
         NEW p \in Party, NEW ext \in Ext, NEW multi \in BOOLEAN, NEW d \in Draws,
         ProveStep(p, ext, multi, d)
  PROVE  Abs!Advance(p) \/ Abs!Fail
<1>0. st[p] # NoProver /\ WellFormed(st[p]) /\ sent' = sent
  BY DEF ProveStep, FInv, Good, Provers
<1>1. CASE Precheck(st[p], multi) # "Ok"
  BY <1>0, <1>1 DEF ProveStep, Returned, Abs!Fail
<1>2. CASE Precheck(st[p], multi) = "Ok"
  <2> DEFINE s == Proved(st[p], ext, d)
             held == [q \in Party |-> HeldBy(q)]
  <2>1. st' = [st EXCEPT ![p] = s] /\ verdict'.claim = NoProver
    BY <1>2 DEF ProveStep, Returned
  <2>2. /\ WellFormed(s) /\ s # NoProver
        /\ ext \in BadExt => ClaimOf(s) = ClaimOf(st[p])
        /\ ext \notin BadExt => /\ st[p].i <= UsizeMax
                                /\ ClaimOf(s) = Step(ClaimOf(st[p]), ext)
    BY <1>0, <1>2 DEF SchemeOk, ProvedOk, NoProverOk
  <2> HIDE DEF s
  <2>3. held' = [held EXCEPT ![p] = ClaimOf(s)]
    BY <2>1, <2>2, HeldChanges
  <2>4. held[p] = ClaimOf(st[p]) /\ held[p] # NoProver
    BY <1>0 DEF HeldBy, NoProverOk
  <2>5. CASE ext \in BadExt
    <3>1. held' = held
      BY <2>2, <2>3, <2>4, <2>5
    <3> QED BY <1>0, <2>1, <3>1 DEF Abs!Fail, HeldBy
  <2>6. CASE ext \notin BadExt
    <3>1. held[p].i <= UsizeMax
      BY <2>2, <2>4, <2>6 DEF ClaimOf
    <3>2. held' = [held EXCEPT ![p] = [i |-> @.i + 1, z_0 |-> @.z_0, z_i |-> F(@.z_i, ext)]]
      BY <2>2, <2>3, <2>4, <2>6 DEF Step
    <3> QED BY <1>0, <2>1, <2>4, <2>6, <3>1, <3>2 DEF Abs!Advance, HeldBy
  <2> QED BY <2>5, <2>6
<1> QED
  BY <1>1, <1>2

LEMMA SendPublishes ==
  ASSUME NoProverOk, FInv, NEW p \in Party, Send(p) PROVE Abs!Publish(p)
<1>1. st[p] # NoProver /\ WellFormed(st[p]) /\ ClaimOf(st[p]) # NoProver
  BY DEF Send, FInv, Good, Provers, NoProverOk
<1>2. st' = st /\ sent' = sent \union {st[p]} /\ verdict'.claim = NoProver
  BY DEF Send, Returned
<1> QED
  BY <1>1, <1>2 DEF Abs!Publish

LEMMA ReceiveAdopts ==
  ASSUME NoProverOk, FInv, NEW p \in Party, NEW pr \in sent, Receive(p, pr)
  PROVE  Abs!Adopt(p)
<1>1. st' = [st EXCEPT ![p] = pr] /\ sent' = sent /\ verdict'.claim = NoProver /\ pr # NoProver
  BY DEF Receive, Returned, FInv, Good, NoProverOk
<1>2. [q \in Party |-> HeldBy(q)]' = [[q \in Party |-> HeldBy(q)] EXCEPT ![p] = ClaimOf(pr)]
  BY <1>1, HeldChanges
<1> QED
  BY <1>1, <1>2 DEF Abs!Adopt, HeldBy

LEMMA VerifyAccepts ==
  ASSUME BindsOk, FInv, ~Forgery,
         NEW a \in sent, NEW b \in sent, NEW mixed \in Mixed, VerifyProof(a, b, mixed)
  PROVE  Abs!Accept \/ Abs!Fail
<1> DEFINE pr == MixedUp(a, b, mixed)
<1>1. st' = st /\ sent' = sent
      /\ verdict'.claim = IF Verify(pr) THEN ClaimOf(pr) ELSE NoProver
  BY DEF VerifyProof, Returned, MixedUp
<1>2. CASE ~Verify(pr)
  BY <1>1, <1>2 DEF Abs!Fail
<1>3. CASE Verify(pr)
  <2>1. ClaimOf(pr) \in {ClaimOf(a), NoSteps(a), NoSteps(b)}
    BY <1>3 DEF BindsOk, Forgery, FInv, Good
  <2> HIDE DEF pr
  <2>2. ASSUME NEW c \in sent
        PROVE  NoSteps(c) = [i |-> 0, z_0 |-> ClaimOf(c).z_0, z_i |-> ClaimOf(c).z_0]
    BY DEF NoSteps, ClaimOf
  <2> QED BY <1>1, <1>3, <2>1, <2>2 DEF Abs!Accept, Abs!Trivial
<1> QED
  BY <1>2, <1>3

LEMMA StepRefines ==
  ASSUME SchemeOk, BindsOk, NoProverOk
  PROVE  FInv /\ ~Forgery /\ [Next]_vars => [Abs!ANext]_Abs!avars
<1> SUFFICES ASSUME FInv, ~Forgery, [Next]_vars PROVE [Abs!ANext]_Abs!avars
  OBVIOUS
<1>1. CASE UNCHANGED vars
  BY <1>1 DEF vars, Abs!avars
<1>2. CASE Next
  <2>1. CASE \E p \in Party : \E z_0 \in Z0 : InitProver(p, z_0)
    BY <2>1, InitProverBegins DEF Abs!ANext
  <2>2. CASE \E p \in Party : \E ext \in Ext, multi \in BOOLEAN, d \in Draws :
               ProveStep(p, ext, multi, d)
    BY <2>2, ProveStepAdvances DEF Abs!ANext
  <2>3. CASE \E p \in Party : Send(p)
    BY <2>3, SendPublishes DEF Abs!ANext
  <2>4. CASE \E p \in Party : \E pr \in sent : Receive(p, pr)
    BY <2>4, ReceiveAdopts DEF Abs!ANext
  <2>5. CASE \E a, b \in sent, mixed \in Mixed : VerifyProof(a, b, mixed)
    BY <2>5, VerifyAccepts DEF Abs!ANext
  <2> QED BY <1>2, <2>1, <2>2, <2>3, <2>4, <2>5 DEF Next
<1> QED
  BY <1>1, <1>2

\* Forgetting all but the claims, a scheme is an implementation of IVC as long as no
\* published hash is that of a second claim: every step is one of the abstract
\* specification's, or changes no claim.
THEOREM Refinement ==
  ASSUME SchemeOk, BindsOk, NoProverOk
  PROVE  Spec /\ []~Forgery => ImplementsIVC
<1>1. Spec => []FInv
  BY FInvariant
<1> QED
  BY <1>1, InitBegins, StepRefines, PTL DEF Spec, ImplementsIVC, Abs!ASpec

\* What AcceptedTrue speaks about.
Held      == [p \in Party |-> IF st[p] = NoProver THEN NoProver ELSE ClaimOf(st[p])]
Published == {ClaimOf(pr) : pr \in sent}
Accepted  == verdict.claim

\* The abstract specification in these terms.
LEMMA AbsActions ==
  /\ Abs!AInit => Held = [p \in Party |-> NoProver] /\ Published = {} /\ Accepted = NoProver
  /\ \A p \in Party :
       /\ Abs!Begin(p) =>
            /\ \E z \in Z0 : Held' = [Held EXCEPT ![p] = [i |-> 0, z_0 |-> z, z_i |-> z]]
            /\ Accepted' = NoProver /\ Published' = Published
       /\ Abs!Advance(p) =>
            /\ Held[p] # NoProver /\ Held[p].i <= UsizeMax
            /\ \E e \in Ext \ BadExt : Held' = [Held EXCEPT ![p] =
                 [i |-> Held[p].i + 1, z_0 |-> Held[p].z_0, z_i |-> F(Held[p].z_i, e)]]
            /\ Accepted' = NoProver /\ Published' = Published
       /\ Abs!Publish(p) =>
            /\ Held[p] # NoProver /\ Published' = Published \union {Held[p]}
            /\ Accepted' = NoProver /\ Held' = Held
       /\ Abs!Adopt(p) =>
            /\ \E c \in Published : Held' = [Held EXCEPT ![p] = c]
            /\ Accepted' = NoProver /\ Published' = Published
  /\ Abs!Fail => Accepted' = NoProver /\ Held' = Held /\ Published' = Published
  /\ Abs!Accept =>
       /\ \/ Accepted' \in Published
          \/ \E c \in Published : Accepted' = [i |-> 0, z_0 |-> c.z_0, z_i |-> c.z_0]
       /\ Held' = Held /\ Published' = Published
  /\ UNCHANGED Abs!avars => Held' = Held /\ Published' = Published /\ Accepted' = Accepted
  /\ Abs!AcceptedTrue <=> (Accepted # NoProver => Abs!True(Accepted))
<1>1. \A p \in Party :
       /\ Abs!Begin(p) =>
            /\ \E z \in Z0 : Held' = [Held EXCEPT ![p] = [i |-> 0, z_0 |-> z, z_i |-> z]]
            /\ Accepted' = NoProver /\ Published' = Published
  BY DEF Abs!Begin, Held, Published, Accepted
<1>2. \A p \in Party :
       Abs!Advance(p) =>
            /\ Held[p] # NoProver /\ Held[p].i <= UsizeMax
            /\ \E e \in Ext \ BadExt : Held' = [Held EXCEPT ![p] =
                 [i |-> Held[p].i + 1, z_0 |-> Held[p].z_0, z_i |-> F(Held[p].z_i, e)]]
            /\ Accepted' = NoProver /\ Published' = Published
  BY DEF Abs!Advance, Held, Published, Accepted
<1>3. \A p \in Party :
       Abs!Publish(p) =>
            /\ Held[p] # NoProver /\ Published' = Published \union {Held[p]}
            /\ Accepted' = NoProver /\ Held' = Held
  BY DEF Abs!Publish, Held, Published, Accepted
<1>4. \A p \in Party :
       Abs!Adopt(p) =>
            /\ \E c \in Published : Held' = [Held EXCEPT ![p] = c]
            /\ Accepted' = NoProver /\ Published' = Published
  BY DEF Abs!Adopt, Held, Published, Accepted
<1>5. Abs!AInit => Held = [p \in Party |-> NoProver] /\ Published = {} /\ Accepted = NoProver
  BY DEF Abs!AInit, Held, Published, Accepted
<1>6. Abs!Fail => Accepted' = NoProver /\ Held' = Held /\ Published' = Published
  BY DEF Abs!Fail, Held, Published, Accepted
<1>7. Abs!Accept =>
       /\ \/ Accepted' \in Published
          \/ \E c \in Published : Accepted' = [i |-> 0, z_0 |-> c.z_0, z_i |-> c.z_0]
       /\ Held' = Held /\ Published' = Published
  BY DEF Abs!Accept, Abs!Trivial, Held, Published, Accepted
<1>8. UNCHANGED Abs!avars => Held' = Held /\ Published' = Published /\ Accepted' = Accepted
  BY DEF Abs!avars, Held, Published, Accepted
<1>9. Abs!AcceptedTrue <=> (Accepted # NoProver => Abs!True(Accepted))
  BY DEF Abs!AcceptedTrue, Accepted
<1> QED
  BY <1>1, <1>2, <1>3, <1>4, <1>5, <1>6, <1>7, <1>8, <1>9

\* Every claim in the system is well-formed and true.
TrueClaim(c) == c \in Abs!Claim /\ Abs!True(c)

AInv ==
  /\ Held \in [Party -> Abs!Claim \union {NoProver}]
  /\ \A p \in Party : Held[p] # NoProver => TrueClaim(Held[p])
  /\ \A c \in Published : TrueClaim(c)
  /\ Accepted # NoProver => TrueClaim(Accepted)

\* The empty run leads from a state to itself: a claim of zero steps is true.
LEMMA StartSound ==
  ASSUME Abs!ConstantsOk, NEW z \in State
  PROVE  TrueClaim([i |-> 0, z_0 |-> z, z_i |-> z])
<1> DEFINE run == [k \in 0 .. 0 |-> z]
<1>1. run \in [0 .. 0 -> State] /\ run[0] = z
  OBVIOUS
<1>2. \A k \in 1 .. 0 : \E e \in Ext \ BadExt : run[k] = F(run[k - 1], e)
  OBVIOUS
<1>3. Abs!True([i |-> 0, z_0 |-> z, z_i |-> z])
  BY <1>1, <1>2 DEF Abs!True
<1> QED
  BY <1>3 DEF Abs!ConstantsOk, TrueClaim, Abs!Claim

\* One more application of F extends the run of a true claim.
LEMMA StepSound ==
  ASSUME Abs!ConstantsOk, NEW c, TrueClaim(c), c.i <= UsizeMax, NEW e \in Ext \ BadExt
  PROVE  TrueClaim([i |-> c.i + 1, z_0 |-> c.z_0, z_i |-> F(c.z_i, e)])
<1> DEFINE d == [i |-> c.i + 1, z_0 |-> c.z_0, z_i |-> F(c.z_i, e)]
<1>1. c \in Abs!Claim /\ c.i \in 0 .. UsizeMax /\ c.z_0 \in State /\ c.z_i \in State
  BY DEF Abs!ConstantsOk, TrueClaim, Abs!Claim
<1>2. F(c.z_i, e) \in State
  BY <1>1 DEF Abs!ConstantsOk
<1>3. d \in Abs!Claim
  BY <1>1, <1>2 DEF Abs!ConstantsOk, Abs!Claim
<1>4. PICK run \in [0 .. c.i -> State] :
        /\ run[0] = c.z_0 /\ run[c.i] = c.z_i
        /\ \A k \in 1 .. c.i : \E x \in Ext \ BadExt : run[k] = F(run[k - 1], x)
  BY DEF TrueClaim, Abs!True
<1> DEFINE longer == [k \in 0 .. c.i + 1 |-> IF k <= c.i THEN run[k] ELSE F(c.z_i, e)]
<1>5. longer \in [0 .. c.i + 1 -> State]
  BY <1>1, <1>2
<1>6. longer[0] = c.z_0 /\ longer[c.i + 1] = F(c.z_i, e)
  BY <1>1, <1>4
<1>7. ASSUME NEW k \in 1 .. c.i + 1
      PROVE  \E x \in Ext \ BadExt : longer[k] = F(longer[k - 1], x)
  <2>1. CASE k <= c.i
    <3>1. k \in 1 .. c.i /\ longer[k] = run[k] /\ longer[k - 1] = run[k - 1]
      BY <1>1, <2>1
    <3> QED BY <1>4, <3>1
  <2>2. CASE k = c.i + 1
    <3>1. longer[k] = F(c.z_i, e) /\ longer[k - 1] = c.z_i
      BY <1>1, <1>4, <2>2
    <3> QED BY <3>1
  <2> QED BY <1>1, <2>1, <2>2
<1>8. Abs!True(d)
  <2>1. d.i = c.i + 1 /\ d.z_0 = c.z_0 /\ d.z_i = F(c.z_i, e)
    OBVIOUS
  <2> HIDE DEF d, longer
  <2> QED BY <1>5, <1>6, <1>7, <2>1 DEF Abs!True
<1> QED
  BY <1>3, <1>8 DEF TrueClaim

\* Soundness: in every behaviour of the abstract scheme the verifier accepts only
\* claims that some run of F makes true.
THEOREM AcceptedTrueInvariant ==
  ASSUME Abs!ConstantsOk PROVE Abs!ASpec => []Abs!AcceptedTrue
<1>1. Abs!AInit => AInv
  BY AbsActions DEF AInv
<1>2. AInv /\ [Abs!ANext]_Abs!avars => AInv'
  <2> SUFFICES ASSUME AInv, [Abs!ANext]_Abs!avars PROVE AInv'
    OBVIOUS
  <2> USE DEF AInv
  <2>1. ASSUME NEW p \in Party, Abs!Begin(p) PROVE AInv'
    BY <2>1, AbsActions, StartSound DEF Abs!ConstantsOk, TrueClaim
  <2>2. ASSUME NEW p \in Party, Abs!Advance(p) PROVE AInv'
    <3>1. TrueClaim(Held[p]) /\ Held[p].i <= UsizeMax
      BY <2>2, AbsActions
    <3>2. PICK e \in Ext \ BadExt : Held' = [Held EXCEPT ![p] =
             [i |-> Held[p].i + 1, z_0 |-> Held[p].z_0, z_i |-> F(Held[p].z_i, e)]]
      BY <2>2, AbsActions
    <3>3. TrueClaim(Held'[p])
      BY <3>1, <3>2, StepSound
    <3>4. Published' = Published /\ Accepted' = NoProver
      BY <2>2, AbsActions
    <3> QED BY <3>2, <3>3, <3>4 DEF TrueClaim
  <2>3. ASSUME NEW p \in Party, Abs!Publish(p) PROVE AInv'
    BY <2>3, AbsActions
  <2>4. ASSUME NEW p \in Party, Abs!Adopt(p) PROVE AInv'
    BY <2>4, AbsActions DEF TrueClaim
  <2>5. CASE Abs!Fail
    BY <2>5, AbsActions
  <2>6. CASE Abs!Accept
    <3>1. ASSUME NEW c \in Published PROVE TrueClaim([i |-> 0, z_0 |-> c.z_0, z_i |-> c.z_0])
      <4>1. c.z_0 \in State
        BY DEF TrueClaim, Abs!Claim
      <4> QED BY <4>1, StartSound
    <3> QED BY <2>6, <3>1, AbsActions
  <2>7. CASE UNCHANGED Abs!avars
    BY <2>7, AbsActions
  <2> QED
    BY <2>1, <2>2, <2>3, <2>4, <2>5, <2>6, <2>7 DEF Abs!ANext
<1>3. AInv => Abs!AcceptedTrue
  BY AbsActions DEF AInv, TrueClaim
<1> QED
  BY <1>1, <1>2, <1>3, PTL DEF Abs!ASpec

\* What verify accepts is true: some run of F of that length leads from z_0 to z_i.
THEOREM Soundness ==
  ASSUME SchemeOk, BindsOk, NoProverOk, Abs!ConstantsOk
  PROVE  Spec /\ []~Forgery => []Abs!AcceptedTrue
BY AcceptedTrueInvariant, Refinement, PTL DEF ImplementsIVC
=============================================================================
