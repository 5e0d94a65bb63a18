------------------------------- MODULE Verdict -------------------------------
(***************************************************************************)
(* What the engine concludes of one control while evidence is submitted    *)
(* for it (engine/orchestrator/pipeline.py, with engine/risk/scorer.py and *)
(* engine/quality/sampler.py, floors.py and gate.py).  The pipeline runs   *)
(* over everything submitted so far, each time from nothing.               *)
(*                                                                         *)
(* Evidence is counted by kind.  Odds are logarithms in thousandths, so    *)
(* that Bayes' rule adds; scores are in ten-thousandths, rates in percent. *)
(* The confidence of a conclusion is left out.                             *)
(***************************************************************************)
EXTENDS Integers, FiniteSets, Functions

CONSTANTS EvidenceKinds, \* kinds of evidence: see KindsAssumption
          Priors,        \* log odds of a control before any evidence
          Populations,   \* population sizes, 0 for none given
          ExpectedRates, \* expected deviation rates
          ZSquares,      \* squares of the Z_SCORES, in ten-thousandths
          MaxItems,      \* bound: items submitted
          MaxFailing     \* bound: of them, failing ones

\* A kind has the score of score_evidence_tier, and what an item that passes or
\* fails adds to the odds or takes away: a likelihood of 0.92 against 0.15, drawn
\* to one half by tier and quality.
ASSUME KindsAssumption ==
  EvidenceKinds \subseteq [name : STRING, score : 0..10000, gain : Nat, loss : Nat]

\* cochran_sample_size raises for rates that are not within 0 and 1, and for a
\* population that is not positive.
ASSUME VerdictAssumption ==
  /\ IsFiniteSet(EvidenceKinds)
  /\ Priors \subseteq Int /\ Populations \subseteq Nat
  /\ ExpectedRates \subseteq 1..99 /\ ZSquares \subseteq Nat \ {0}
  /\ MaxItems \in Nat /\ MaxFailing \in Nat

VARIABLES control,  \* the control under audit
          passing,  \* passing[k]: items of the kind that support the control
          failing,  \* and that do not
          verdict   \* what the latest run returned

verdictVars == <<control, passing, failing, verdict>>

Sum(counts, worth(_)) ==
  SumFunction([k \in EvidenceKinds |-> counts[k] * worth(k)])
One(k)   == 1
Gain(k)  == k.gain
Loss(k)  == k.loss
Score(k) == k.score

CeilDiv(a, b) == (a + b - 1) \div b

(***************************************************************************)
(* The sample a control needs, and whether the evidence is one             *)
(***************************************************************************)

Tolerable(c) == IF c.material THEN 5 ELSE 10

\* cochran_sample_size raises ValueError.
Refused(c) == Tolerable(c) <= c.expected

Infinite(c) ==
  CeilDiv(c.zsquare * c.expected * (100 - c.expected), 10000 * Tolerable(c) * Tolerable(c))

\* Mutant: the population is left out.
Required_Infinite(c) == Infinite(c)

\* The sample size, after the correction for a finite population.
Required(c) ==
  IF c.population = 0 THEN Infinite(c)
  ELSE CeilDiv(Infinite(c) * c.population, c.population + Infinite(c) - 1)

Count(p, f) == Sum(p, One) + Sum(f, One)

\* Mutant: the scores are averaged.
Scores_Averaged(p, f) ==
  IF Count(p, f) = 0 THEN 0 ELSE (Sum(p, Score) + Sum(f, Score)) \div Count(p, f)

\* Failing items count towards the sample as passing ones do.
Scores(p, f) == Sum(p, Score) + Sum(f, Score)

Sufficiency(c, p, f) ==
  LET scores == Scores(p, f)
  IN  IF scores >= 8000 * Required(c) THEN "sufficient"
      ELSE IF scores >= 6000 * Required(c) THEN "marginal" ELSE "insufficient"

(***************************************************************************)
(* The conclusion                                                          *)
(***************************************************************************)

\* bayesian_update, and the thresholds: odds of 5 to 1 and of 5 to 2.
Odds(c, p, f) == c.prior + Sum(p, Gain) - Sum(f, Loss)
Effective == 1609
Partial   == 916

\* Mutant: the comparison is turned round.
DeviatesTooOften_Less(c, p, f) == 100 * Sum(f, One) < Tolerable(c) * Count(p, f)

DeviatesTooOften(c, p, f) == 100 * Sum(f, One) > Tolerable(c) * Count(p, f)

\* score_control: 1 is effective, 2 partially effective, and 3 not effective.
Scored(c, p, f) ==
  CASE Count(p, f) = 0 \/ DeviatesTooOften(c, p, f) -> 3
    [] OTHER -> IF Odds(c, p, f) >= Effective THEN 1
                ELSE IF Odds(c, p, f) >= Partial THEN 2 ELSE 3

\* Mutant: marginal evidence downgrades, insufficient evidence does not.
Downgraded_Marginal(tier, sufficiency) ==
  IF sufficiency = "marginal" /\ tier < 3 THEN tier + 1 ELSE tier

\* _adjust_for_sufficiency.
Downgraded(tier, sufficiency) ==
  IF sufficiency = "insufficient" /\ tier < 3 THEN tier + 1 ELSE tier

\* ReasoningPipeline.run; no verdict when the sample size is refused.
Run(c, p, f) ==
  IF Refused(c) THEN [tier |-> 3, sufficiency |-> "refused"]
  ELSE LET sufficiency == Sufficiency(c, p, f)
       IN  [tier |-> Downgraded(Scored(c, p, f), sufficiency),
            sufficiency |-> sufficiency]

\* enforce_quality_gate, with the default floor: the pipeline does not ask it.
GateBlocks(c, p, f) ==
  {r \in {"floor_not_met", "insufficient_evidence"} :
     IF r = "floor_not_met" THEN Count(p, f) < 3
     ELSE Sufficiency(c, p, f) = "insufficient"}

(***************************************************************************)
(* Evidence is submitted                                                   *)
(***************************************************************************)

NoItems == [k \in EvidenceKinds |-> 0]

VerdictInit ==
  /\ control \in [material : BOOLEAN, prior : Priors, population : Populations,
                  expected : ExpectedRates, zsquare : ZSquares]
  /\ passing = NoItems /\ failing = NoItems
  /\ verdict = Run(control, passing, failing)

Submit(k) ==
  /\ Count(passing, failing) < MaxItems
  /\ \/ passing' = [passing EXCEPT ![k] = @ + 1] /\ UNCHANGED failing
     \/ Sum(failing, One) < MaxFailing
        /\ failing' = [failing EXCEPT ![k] = @ + 1] /\ UNCHANGED passing
  /\ verdict' = Run(control, passing', failing')
  /\ UNCHANGED control

VerdictNext == \E k \in EvidenceKinds : Submit(k)

VerdictSpec == VerdictInit /\ [][VerdictNext]_verdictVars

(***************************************************************************)
(* Properties                                                              *)
(***************************************************************************)

Better(new, old) == new.tier < old.tier

\* Evidence that supports a control never worsens what is concluded of it, however
\* weak it is and whatever was submitted before (run, pipeline.py:154-228).
SupportNeverWorsens ==
  [][failing' = failing => ~Better(verdict, verdict')]_verdictVars

\* Evidence against a control improves its conclusion only where it makes up an
\* insufficient sample, and the rate of deviations stays tolerable
\* (assess_sufficiency, sampler.py:213-224).
FailureHelpsOnlyTheSample ==
  [][(failing' # failing /\ Better(verdict', verdict)) =>
       /\ verdict.sufficiency = "insufficient" /\ verdict'.sufficiency # "insufficient"
       /\ ~DeviatesTooOften(control, passing', failing')]_verdictVars

Strongest == {k \in EvidenceKinds : k.score = 10000}

\* A control of which everything was examined, with evidence of the first tier, has
\* a sufficient sample: no more is asked for than there is (cochran_sample_size,
\* sampler.py:160-167).
SampleFitsPopulation ==
  (/\ control.population > 0 /\ verdict.sufficiency # "refused"
   /\ \E k \in Strongest : passing[k] + failing[k] >= control.population)
    => verdict.sufficiency = "sufficient"

\* The gate "determines whether a control has sufficient reliable evidence to
\* proceed to conclusion generation" (gate.py:3-4).  The pipeline never asks it, and
\* so calls controls effective that the gate blocks: for the number of their items
\* only (floors.py:20), and only those that need three at most, since two items of
\* the first tier make up the marginal sample of three and no larger one.
GateAgrees ==
  (verdict.tier = 1 /\ GateBlocks(control, passing, failing) # {}) =>
    /\ GateBlocks(control, passing, failing) = {"floor_not_met"}
    /\ Required(control) * 6000 <= 2 * 10000

\* Conclusions follow the evidence, and the sample its population.
VerdictIsSound ==
  [](SampleFitsPopulation /\ GateAgrees) /\ SupportNeverWorsens /\ FailureHelpsOnlyTheSample
=============================================================================
