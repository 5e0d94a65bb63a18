------------------------------- MODULE Evidence -------------------------------
(***************************************************************************)
(* The evidence service (services/evidence): evidence is ingested, put in  *)
(* one of six tiers, scored against the other evidence of its control, and *)
(* read back to say whether a control has enough of it.                    *)
(*                                                                         *)
(* The three maps share a lock, but a request takes it once per call: the  *)
(* evidence, its tier, the peers and the score are separate steps, and so  *)
(* are the two reads of the sufficiency handler.                           *)
(*                                                                         *)
(* Abstracted: of the text, how many keywords of each tier and how many    *)
(* relevant terms it has; of the collection date, its age in days.         *)
(*                                                                         *)
(* A score of the classifier is in tenths of a percent, and what float64   *)
(* makes of the sum shows in its last digit.  The scorer's dimensions are  *)
(* percentages and an aggregate is in hundredths of a percent, without     *)
(* rounding: roundScore may store one hundredth less, and an average that  *)
(* is exactly the threshold may be compared one rounding below it.         *)
(***************************************************************************)
EXTENDS Integers, Sequences, FiniteSets, Functions

CONSTANTS EvidenceIds,  \* the ids evidence can get
          Batches,      \* the sequences of requests clients send, most of one
          Ratings,      \* the risk ratings sufficiency is asked for
          Ingests       \* POST /evidence requests being served

VARIABLES evidence,     \* Save: the request stored under each id, or NoItem
          tiers,        \* SaveClassification
          scores,       \* SaveQualityScore: peers counted and aggregate
          ingest,       \* what each request being served is doing
          reader        \* the sufficiency handler, then its answer

evidenceVars == <<evidence, tiers, scores, ingest, reader>>

\* A request holds its control, whether it is valid and parses, and what the
\* classifier and the scorer look at.
Sources == {"manual_upload", "api_integration", "automated_scan", "screenshot",
            "log_export", "configuration_export"}
ValidRequest == [control : STRING, valid : {TRUE}, hits : [1..6 -> Nat], source : Sources,
                 format : STRING, described : BOOLEAN, content : BOOLEAN, tags : Nat,
                 age : Int, terms : Nat]
OtherRequest == [control : STRING, valid : {FALSE}]

\* A batch without items is answered and changes nothing.
ASSUME EvidenceAssumption ==
  /\ IsFiniteSet(EvidenceIds)
  /\ Batches \subseteq Seq(ValidRequest \cup OtherRequest) \ {<<>>}
  /\ Ratings \subseteq {"critical", "high", "medium", "low", "informational"}

NoItem   == [control |-> "none"]
NoTier   == [tier |-> 0, confidence |-> 0]
NoScore  == [peers |-> 0, aggregate |-> 0]
NoIngest == [phase |-> "idle"]
NoReader == [phase |-> "idle"]

EvidenceInit == /\ evidence = [e \in EvidenceIds |-> NoItem]
                /\ tiers = [e \in EvidenceIds |-> NoTier]
                /\ scores = [e \in EvidenceIds |-> NoScore]
                /\ ingest = [h \in Ingests |-> NoIngest]
                /\ reader = NoReader

Lesser(a, b) == IF a < b THEN a ELSE b
Points(cond, n) == IF cond THEN n ELSE 0

(***************************************************************************)
(* The classifier                                                          *)
(***************************************************************************)

TierSources == <<{"manual_upload", "configuration_export"},
                 {"manual_upload", "configuration_export"},
                 {"manual_upload"},
                 {"manual_upload"},
                 {"screenshot", "log_export", "configuration_export", "automated_scan"},
                 {"api_integration", "automated_scan"}>>

TierFormats == <<{}, {}, {}, {}, {}, {"log", "json"}>>

FromSource(item, tier) == item.source \in TierSources[tier]
InFormat(item, tier)   == item.format \in TierFormats[tier]

\* The percentages that scoreRule adds up: keywords, source, format.
ExactScore(item, tier) ==
  IF item.hits[tier] = 0 THEN 0
  ELSE Lesser(80, 50 + 5 * item.hits[tier]) + Points(FromSource(item, tier), 10)
                                            + Points(InFormat(item, tier), 5)

\* How far the float64 sum is from the number nearest to the exact one, in units
\* of the last place: 0.50 + 0.05 + 0.10 + 0.05 is one above 0.50 + 4 * 0.05 (each
\* operation rounded, as on amd64).
Rounding(item, tier) ==
  LET hits == item.hits[tier]
  IN  CASE /\ InFormat(item, tier)
           /\ hits = 1 \/ hits >= 6 \/ (hits = 3 /\ ~FromSource(item, tier)) -> 1
        [] ~InFormat(item, tier) /\ FromSource(item, tier) /\ hits = 4 -> -1
        [] OTHER -> 0

\* scoreRule, as computed.
ScoreRule(item, tier) == 10 * ExactScore(item, tier) + Rounding(item, tier)

\* Mutant: a later rule wins a tie.
Beats_OrTies(score, best) == score >= best

Beats(score, best) == score > best

\* One turn of the loop over the rules.
Consider(item, best, tier) ==
  IF Beats(ScoreRule(item, tier), best.confidence)
  THEN [tier |-> tier, confidence |-> ScoreRule(item, tier)] ELSE best

\* Classify: the best score above the default; the default is L5.
Classify(item) ==
  LET one   == Consider(item, [tier |-> 5, confidence |-> 400], 1)
      two   == Consider(item, one, 2)
      three == Consider(item, two, 3)
      four  == Consider(item, three, 4)
      five  == Consider(item, four, 5)
  IN  Consider(item, five, 6)

(***************************************************************************)
(* The scorer.  The title is required, and neither a file nor a hash is    *)
(* set by Ingest; the provenance chain is the one entry it writes.         *)
(***************************************************************************)

Completeness(item) == 100 - Points(~item.described, 15) - Points(~item.content, 40)
                          - Points(item.tags = 0, 5)

Currency(item) == CASE item.age <= 30 -> 100         [] item.age \in 31..90 -> 90
                    [] item.age \in 91..180 -> 75    [] item.age \in 181..365 -> 55
                    [] item.age \in 366..730 -> 30   [] OTHER -> 10

ReliabilityBase == [api_integration |-> 90, automated_scan |-> 85,
                    configuration_export |-> 85, log_export |-> 80,
                    screenshot |-> 60, manual_upload |-> 50]

Reliability(item) == ReliabilityBase[item.source] + 2

Corroboration(peers) == CASE peers = 0 -> 20 [] peers = 1 -> 50 [] peers = 2 -> 70
                          [] peers = 3 -> 85 [] OTHER -> 100

Relevance(item) == Points(item.tags > 0, 20)
                   + CASE item.terms >= 5 -> 80 [] item.terms \in 3..4 -> 65
                       [] item.terms \in 1..2 -> 50 [] OTHER -> 40

Aggregate(item, peers) ==
  25 * Completeness(item) + 20 * Currency(item) + 25 * Reliability(item)
  + 15 * Corroboration(peers) + 15 * Relevance(item)

(***************************************************************************)
(* POST /evidence                                                          *)
(***************************************************************************)

Stored == {e \in EvidenceIds : evidence[e] # NoItem}

\* FindByControlID.
OfControl(c) == {e \in Stored : evidence[e].control = c}

\* One request, or a batch that is served item by item.
IngestEvidence(h, requests) ==
  /\ ingest[h] = NoIngest
  /\ ingest' = [ingest EXCEPT ![h] = [phase |-> "next", rest |-> requests]]
  /\ UNCHANGED <<evidence, tiers, scores, reader>>

\* What follows an item: the next of the batch, or the answer.
Following(h) == LET rest == Tail(ingest[h].rest)
                IN  IF rest = <<>> THEN NoIngest ELSE [phase |-> "next", rest |-> rest]

\* Ingest refuses the item.
RefuseItem(h) ==
  /\ ingest[h].phase = "next" /\ ~Head(ingest[h].rest).valid
  /\ ingest' = [ingest EXCEPT ![h] = Following(h)]
  /\ UNCHANGED <<evidence, tiers, scores, reader>>

SaveEvidence(h) ==
  /\ ingest[h].phase = "next" /\ Head(ingest[h].rest).valid
  /\ \E e \in EvidenceIds \ Stored :
       /\ evidence' = [evidence EXCEPT ![e] = Head(ingest[h].rest)]
       /\ ingest' = [ingest EXCEPT ![h] = [phase |-> "saved", rest |-> @.rest, id |-> e]]
  /\ UNCHANGED <<tiers, scores, reader>>

SaveClassification(h) ==
  /\ ingest[h].phase = "saved"
  /\ tiers' = [tiers EXCEPT ![ingest[h].id] = Classify(evidence[ingest[h].id])]
  /\ ingest' = [ingest EXCEPT ![h].phase = "classified"]
  /\ UNCHANGED <<evidence, scores, reader>>

\* Mutant: the item is counted with its peers.
Peers_WithSelf(e) == OfControl(evidence[e].control)

Peers(e) == OfControl(evidence[e].control) \ {e}

FindPeers(h) ==
  /\ ingest[h].phase = "classified"
  /\ ingest' = [ingest EXCEPT ![h] = [phase |-> "counted", rest |-> @.rest, id |-> @.id,
                                      peers |-> Cardinality(Peers(@.id))]]
  /\ UNCHANGED <<evidence, tiers, scores, reader>>

SaveQualityScore(h) ==
  /\ ingest[h].phase = "counted"
  /\ scores' = [scores EXCEPT ![ingest[h].id] =
       [peers |-> ingest[h].peers,
        aggregate |-> Aggregate(evidence[ingest[h].id], ingest[h].peers)]]
  /\ ingest' = [ingest EXCEPT ![h] = Following(h)]
  /\ UNCHANGED <<evidence, tiers, reader>>

\* POST /evidence/{id}/classify, which may come before the request that stores
\* the evidence has classified it.
ClassifyEvidence(e) ==
  /\ e \in Stored
  /\ tiers' = [tiers EXCEPT ![e] = Classify(evidence[e])]
  /\ UNCHANGED <<evidence, scores, ingest, reader>>

(***************************************************************************)
(* GET /controls/{controlId}/sufficiency                                   *)
(***************************************************************************)

Thresholds == [critical |-> [count |-> 5, score |-> 80], high |-> [count |-> 4, score |-> 70],
               medium |-> [count |-> 3, score |-> 60], low |-> [count |-> 2, score |-> 50],
               informational |-> [count |-> 1, score |-> 40]]

\* The first read.
ReadEvidence(c, rating) ==
  /\ reader.phase # "read"
  /\ reader' = [phase |-> "read", control |-> c, rating |-> rating,
                count |-> Cardinality(OfControl(c))]
  /\ UNCHANGED <<evidence, tiers, scores, ingest>>

\* FindQualityScoresByControlID.
ScoredOf(c) == {e \in OfControl(c) : scores[e] # NoScore}

Total(es) == SumFunction([e \in es |-> scores[e].aggregate])

\* Mutant: without scores there is no gap in them.
Evaluate_NoScores(rating, count, scored) ==
  /\ count >= Thresholds[rating].count
  /\ Total(scored) >= 100 * Thresholds[rating].score * Cardinality(scored)

\* Evaluate: no gap in the count and none in the average, which is 0 without
\* scores.
Evaluate(rating, count, scored) ==
  /\ count >= Thresholds[rating].count
  /\ scored # {}
  /\ Total(scored) >= 100 * Thresholds[rating].score * Cardinality(scored)

\* The second read, and the answer.
AnswerSufficiency ==
  /\ reader.phase = "read"
  /\ reader' = [phase |-> "answered", control |-> reader.control, rating |-> reader.rating,
                sufficient |-> Evaluate(reader.rating, reader.count, ScoredOf(reader.control))]
  /\ UNCHANGED <<evidence, tiers, scores, ingest>>

Controls == {r.control : r \in UNION {Range(b) : b \in Batches}}

EvidenceNext ==
  \/ \E h \in Ingests : \/ \E requests \in Batches : IngestEvidence(h, requests)
                        \/ RefuseItem(h) \/ SaveEvidence(h) \/ SaveClassification(h)
                        \/ FindPeers(h) \/ SaveQualityScore(h)
  \/ \E e \in EvidenceIds : ClassifyEvidence(e)
  \/ \E c \in Controls, rating \in Ratings : ReadEvidence(c, rating)
  \/ AnswerSufficiency

EvidenceSpec == EvidenceInit /\ [][EvidenceNext]_evidenceVars

(***************************************************************************)
(* Properties                                                              *)
(***************************************************************************)

\* The evidence counted with a score still to come is what requests being served
\* hold, one item each.
InFlight(c) == {e \in OfControl(c) \ ScoredOf(c) :
                  \E h \in Ingests : "id" \in DOMAIN ingest[h] /\ ingest[h].id = e}

\* A control is called sufficient only when enough evidence of that control is
\* stored, whatever was stored and scored between its two reads: those scored, all
\* but one per request being served, have a high enough average, and one of them at
\* least a score that high (getControlSufficiency, handler.go:232-259).
SufficientIsBacked ==
  [][(reader'.phase = "answered" /\ reader.phase = "read" /\ reader'.sufficient) =>
       LET c == reader.control
           scored == ScoredOf(c)
           needed == Thresholds[reader.rating]
       IN  /\ Cardinality(scored \cup InFlight(c)) >= needed.count
           /\ Cardinality(scored) >= 1
           /\ Total(scored) >= 100 * needed.score * Cardinality(scored)
           /\ \E e \in scored : scores[e].aggregate >= 100 * needed.score]_reader

\* Once everything is scored, the evidence of a control can be put in an order in
\* which each item counted those before it, and none counted more than there
\* are: whatever requests overlapped, none went unseen (handleSingleIngest,
\* handler.go:110-134).
CorroborationSeesEarlier ==
  \A c \in Controls :
    (ScoredOf(c) = OfControl(c)) =>
      \A n \in 0..Cardinality(EvidenceIds) :
        /\ Cardinality({e \in OfControl(c) : scores[e].peers < n}) <= n
        /\ \A e \in OfControl(c) : scores[e].peers < Cardinality(OfControl(c))

\* A stored tier is the one whose rule has the highest computed score, the higher
\* tier on a tie, and L5 only by its own rule or when no rule fits.  Rounding
\* decides between equal sums only: no rule's exact sum is above that of the stored
\* tier (Classify, classifier.go:93-119).
BestTierIsStored ==
  \A e \in EvidenceIds : tiers[e] # NoTier =>
    LET item == evidence[e]
        t == tiers[e].tier
    IN  \/ /\ ScoreRule(item, t) > 400
           /\ \A u \in 1..6 : /\ u < t => ScoreRule(item, u) < ScoreRule(item, t)
                             /\ ScoreRule(item, u) <= ScoreRule(item, t)
                             /\ ExactScore(item, u) <= ExactScore(item, t)
        \/ t = 5 /\ \A u \in 1..6 : item.hits[u] = 0

\* An item gets the tier of the rule with the best computed score and a score that
\* counted the items before it, and a control is called sufficient only on an
\* average of such scores (handler.go:110-134, 232-259, classifier.go:93-119).
EvidenceIsWeighed == [](CorroborationSeesEarlier /\ BestTierIsStored) /\ SufficientIsBacked
=============================================================================
