---------------------------- MODULE SecurityHub ----------------------------
(***************************************************************************)
(* The AWS Security Hub connector of the integration service: the page of  *)
(* findings it fetches, the compliance summaries and the posture score it  *)
(* computes from a page, and the evidence items the ASFF normalizer makes. *)
(* The findings live in AWS and change between two calls.                  *)
(*                                                                         *)
(* A finding is a record: `label` is its severity label, `active` its      *)
(* record state, `compliance` is NoCompliance or a record with the status, *)
(* the control id ("" when absent) and the sequence of standards ids.      *)
(* `missing` holds the fields that are empty, `age` the days since it was  *)
(* observed (-1: never), `hits` the audit terms in its text.  An item's    *)
(* scores are in hundredths, its quality in ten-thousandths.               *)
(***************************************************************************)
EXTENDS Integers, Sequences, SequencesExt, FiniteSets, FiniteSetsExt, Filters

CONSTANTS Shapes,      \* the findings AWS may report
          MaxFindings, \* bound: how many it reports
          Limits,      \* the limits callers ask for
          HubIds,      \* the ids of controls, rules and standards
          HubMaxPage, HubPage \* 100 and 10 in the code

VARIABLES hub,     \* the findings in AWS, in the order the API lists them
          hubRead  \* the last call, the page it fetched and what it answered

hubVars == <<hub, hubRead>>

NoCompliance == [status |-> "", control |-> "", standards |-> <<>>]

\* What an empty field costs an item's completeness.
Penalty == [title |-> 25, description |-> 15, id |-> 20, account |-> 10,
            resources |-> 20, observed |-> 10]

Labels == {"CRITICAL", "HIGH", "MEDIUM", "LOW", "INFORMATIONAL"}

Statuses == {"", "PASSED", "WARNING", "FAILED", "NOT_AVAILABLE"}

HubFindings == [label : Labels, active : BOOLEAN, generator : HubIds,
                compliance : [status : Statuses, control : HubIds \cup {""},
                              standards : Seq(HubIds)],
                missing : SUBSET DOMAIN Penalty, age : Int, remedied : BOOLEAN,
                typed : BOOLEAN, hits : Nat]

----------------------------------------------------------------------------
(* The page and the answers computed from it.                              *)

HubEffectiveLimit(l) == IF l \in 1..HubMaxPage THEN l ELSE HubPage

\* One GET, without following the next token.
FetchFindings(l) == SubSeq(hub, 1, Min({Len(hub), HubEffectiveLimit(l)}))

FriendlyStandardName(id) == IF id = "fsbp" THEN "soc2" ELSE id

\* Summaries group by standard and control; a finding without a control id
\* goes under the id of the rule that made it.
ControlOf(f) == IF f.compliance.control = "" THEN f.generator ELSE f.compliance.control

ControlKeys(page) ==
  UNION {{<<FriendlyStandardName(s), ControlOf(f)>> : s \in ToSet(f.compliance.standards)}
         : f \in ToSet(page)}

Names(f, key) == \E s \in ToSet(f.compliance.standards) :
                   <<FriendlyStandardName(s), ControlOf(f)>> = key

\* The statuses under a control, in the order of the page.  A finding that names
\* a standard twice adds its status twice in the code; no answer tells.
StatusesFor(page, key) ==
  LET naming == Filtered(page, {i \in DOMAIN page : Names(page[i], key)})
  IN [k \in DOMAIN naming |-> naming[k].compliance.status]

AggregateControlStatus_LastWins(statuses) == Last(statuses)
AggregateControlStatus(statuses) ==
  LET seen == ToSet(statuses)
  IN IF "FAILED" \in seen THEN "FAILED"
     ELSE IF "WARNING" \in seen THEN "WARNING"
     ELSE IF "PASSED" \in seen THEN "PASSED" ELSE "NOT_AVAILABLE"

KeysUnder(page, std) == {k \in ControlKeys(page) : k[1] = std}
KeysWith(page, std, st) ==
  {k \in KeysUnder(page, std) : AggregateControlStatus(StatusesFor(page, k)) = st}

\* A control that is neither passed nor failed counts as a warning.
Summary(page, std) ==
  LET total  == Cardinality(KeysUnder(page, std))
      passed == Cardinality(KeysWith(page, std, "PASSED"))
      failed == Cardinality(KeysWith(page, std, "FAILED"))
  IN [total |-> total, passed |-> passed, failed |-> failed,
      warning |-> total - passed - failed, score |-> (10000 * passed) \div total]

BuildComplianceSummaries(page) ==
  [std \in {k[1] : k \in ControlKeys(page)} |-> Summary(page, std)]

Weight(f) == CASE f.label = "CRITICAL" -> 10 [] f.label = "HIGH" -> 5
               [] f.label = "MEDIUM" -> 2 [] f.label = "LOW" -> 1 [] OTHER -> 0

Fails(f) == f.compliance.status = "FAILED"

\* The positions the two weights add up.
Priced(page) == {i \in DOMAIN page : page[i].active}
FailedPriced_Archived(page) == {i \in DOMAIN page : Fails(page[i])}
FailedPriced(page) == {i \in DOMAIN page : page[i].active /\ Fails(page[i])}

TotalWeight(page, P) == SumFunctionOnSet([i \in P |-> Weight(page[i])], P)

\* 100, with the four decimals the code keeps.
FullScore == 1000000

CalculateSecurityScore(page) ==
  LET total == TotalWeight(page, Priced(page))
  IN IF total = 0 THEN FullScore
     ELSE (FullScore * (total - TotalWeight(page, FailedPriced(page)))) \div total

----------------------------------------------------------------------------
(* The evidence item of a finding.                                         *)

MapASFFSeverity(label) ==
  IF label \in {"CRITICAL", "HIGH", "MEDIUM", "LOW"} THEN label ELSE "INFORMATIONAL"

ScoreCompleteness(f) == 100 - SumFunctionOnSet(Penalty, f.missing)

ScoreCurrency(f) == CASE f.age < 0 -> 20          [] f.age \in 0..1 -> 100
                      [] f.age \in 2..7 -> 95     [] f.age \in 8..30 -> 90
                      [] f.age \in 31..90 -> 75   [] f.age \in 91..180 -> 55
                      [] OTHER -> 25

ScoreReliability(f) == IF f.compliance.status # "" THEN 95 ELSE 90

ScoreCorroboration(f) == 20 + (IF f.compliance # NoCompliance THEN 35 ELSE 0)
                            + (IF f.remedied THEN 25 ELSE 0)
                            + (IF f.typed THEN 20 ELSE 0)

ScoreRelevance(f) == CASE f.hits >= 5 -> 95 [] f.hits \in 3..4 -> 80
                       [] f.hits \in 1..2 -> 60 [] OTHER -> 40

Deficiencies_NoCorroboration(f) == f.missing
  \cup {d \in {"stale"} : f.age < 0 \/ f.age > 90} \cup {d \in {"irrelevant"} : f.hits = 0}
Deficiencies(f) == f.missing
  \cup {d \in {"stale"} : f.age < 0 \/ f.age > 90}
  \cup {d \in {"uncorroborated"} : ScoreCorroboration(f) < 50}
  \cup {d \in {"irrelevant"} : f.hits = 0}

ScoreEvidence(f) == 25 * ScoreCompleteness(f) + 20 * ScoreCurrency(f)
                  + 25 * ScoreReliability(f) + 15 * ScoreCorroboration(f)
                  + 15 * ScoreRelevance(f)

NormalizeFinding(f) ==
  [risk |-> MapASFFSeverity(f.label), quality |-> ScoreEvidence(f),
   deficiencies |-> Deficiencies(f), tier |-> 6,
   standards |-> [i \in DOMAIN f.compliance.standards |->
                   FriendlyStandardName(f.compliance.standards[i])]]

----------------------------------------------------------------------------
(* In mock mode the page is a list of ten templates, repeated to the limit. *)

Template(label, status, control, standards, hits) ==
  [label |-> label, active |-> TRUE, generator |-> control, missing |-> {}, age |-> 0,
   compliance |-> [status |-> status, control |-> control, standards |-> standards],
   remedied |-> TRUE, typed |-> TRUE, hits |-> hits]

MockTemplates ==
  <<Template("CRITICAL", "FAILED", "IAM.1", <<"cis", "pci">>, 1),
    Template("HIGH", "FAILED", "S3.4", <<"cis", "pci", "fsbp">>, 2),
    Template("HIGH", "FAILED", "EC2.13", <<"cis", "pci">>, 3),
    Template("MEDIUM", "FAILED", "RDS.3", <<"pci", "fsbp">>, 2),
    Template("HIGH", "FAILED", "Lambda.3", <<"fsbp">>, 2),
    Template("MEDIUM", "FAILED", "IAM.10", <<"cis", "pci">>, 2),
    Template("CRITICAL", "PASSED", "S3.2", <<"cis", "fsbp">>, 2),
    Template("HIGH", "FAILED", "CloudTrail.1", <<"cis", "pci", "fsbp">>, 0),
    Template("MEDIUM", "FAILED", "KMS.4", <<"cis", "fsbp">>, 1),
    Template("LOW", "WARNING", "EC2.166", <<"fsbp">>, 2)>>

ASSUME HubAssumption == /\ Shapes \cup ToSet(MockTemplates) \subseteq HubFindings
                        /\ HubMaxPage \in Nat \ {0} /\ HubPage \in Nat \ {0}
                        /\ Limits \subseteq Int

MockFindingsPage(l) == [i \in 1..HubEffectiveLimit(l) |->
                         MockTemplates[((i - 1) % Len(MockTemplates)) + 1]]

PageOf(mock, l) == IF mock THEN MockFindingsPage(l) ELSE FetchFindings(l)

----------------------------------------------------------------------------
(* AWS, and the calls.                                                     *)

Answer(call, page, value) == [call |-> call, page |-> page, value |-> value]

HubInit == hub = <<>> /\ hubRead = Answer("none", <<>>, <<>>)

HubReports(f) == /\ Len(hub) < MaxFindings
                    /\ hub' = Append(hub, f)
                    /\ UNCHANGED hubRead

RecheckFinding(i) == /\ hub[i].compliance # NoCompliance
                     /\ \E st \in {"PASSED", "FAILED"} :
                          hub' = [hub EXCEPT ![i].compliance.status = st]
                     /\ UNCHANGED hubRead

ArchiveFinding(i) == /\ hub[i].active
                     /\ hub' = [hub EXCEPT ![i].active = FALSE]
                     /\ UNCHANGED hubRead

FetchComplianceResults(mock) ==
  LET page == PageOf(mock, HubMaxPage)
  IN /\ hubRead' = Answer("compliance", page, BuildComplianceSummaries(page))
     /\ UNCHANGED hub

FetchSecurityScore(mock) ==
  LET page == PageOf(mock, HubMaxPage)
  IN /\ hubRead' = Answer("score", page, CalculateSecurityScore(page))
     /\ UNCHANGED hub

FetchEvidenceItems(mock, l) ==
  LET page == PageOf(mock, l)
  IN /\ hubRead' = Answer("evidence", page,
                           [i \in DOMAIN page |-> NormalizeFinding(page[i])])
     /\ UNCHANGED hub

HubNext == \/ \E f \in Shapes : HubReports(f)
           \/ \E i \in DOMAIN hub : RecheckFinding(i) \/ ArchiveFinding(i)
           \/ \E mock \in BOOLEAN : \/ FetchComplianceResults(mock)
                                   \/ FetchSecurityScore(mock)
                                   \/ \E l \in Limits : FetchEvidenceItems(mock, l)

HubSpec == HubInit /\ [][HubNext]_hubVars

----------------------------------------------------------------------------
(* Properties.                                                             *)

\* A standard's counts add up, and it scores full marks only when no finding
\* of the page failed or warned against any of its controls, in whatever order
\* AWS lists them (buildComplianceSummaries, aggregateControlStatus).
FullMarksMeanClean ==
  hubRead.call = "compliance" => \A std \in DOMAIN hubRead.value :
    LET s == hubRead.value[std]
        named(f) == std \in {FriendlyStandardName(x) : x \in ToSet(f.compliance.standards)}
    IN /\ s.passed + s.failed + s.warning = s.total
       /\ s.score = 10000 => \A f \in ToSet(hubRead.page) :
            named(f) => f.compliance.status \notin {"FAILED", "WARNING"}

\* A score and the summaries of the same page disagree only on findings one of
\* them leaves out: the score skips archived and weightless findings, the
\* summaries skip findings that name no standard (calculateSecurityScore against
\* buildComplianceSummaries).
ScoreAgreesWithSummaries ==
  hubRead.call = "score" =>
    LET failing == {f \in ToSet(hubRead.page) : Fails(f)}
        summaries == BuildComplianceSummaries(hubRead.page)
    IN /\ hubRead.value < FullScore <=> \E f \in failing : f.active /\ Weight(f) > 0
       /\ (\E std \in DOMAIN summaries : summaries[std].failed > 0)
            <=> \E f \in failing : f.compliance.standards # <<>>

\* Fixing or archiving a failed finding never lowers the score, whatever else
\* the page holds (calculateSecurityScore leaves archived findings out of both
\* weights).
FixingNeverHurts ==
  \A i \in DOMAIN hub : Fails(hub[i]) =>
    /\ CalculateSecurityScore([hub EXCEPT ![i].compliance.status = "PASSED"])
         >= CalculateSecurityScore(hub)
    /\ CalculateSecurityScore([hub EXCEPT ![i].active = FALSE])
         >= CalculateSecurityScore(hub)

SaysWhy(item) == /\ item.quality \in 0..10000
                 /\ item.quality < 7500 => item.deficiencies # {}

\* An evidence item of poor quality says why: below 0.75 it lists a deficiency,
\* and its aggregate stays within the scale (scoreEvidence).
PoorEvidenceSaysWhy ==
  hubRead.call = "evidence" => \A i \in DOMAIN hubRead.value : SaysWhy(hubRead.value[i])

\* The three readings of one page of findings agree and rate it soundly: a full
\* score means no failure, a repair never costs points, and a poor item says why
\* (aws_security_hub.go, asff_normalizer.go).
ReadingsAgree ==
  FullMarksMeanClean /\ ScoreAgreesWithSummaries /\ FixingNeverHurts /\ PoorEvidenceSaysWhy
============================================================================
