-------------------------- MODULE ServiceNowExport --------------------------
(***************************************************************************)
(* The export of an engagement's findings to ServiceNow: one POST for the  *)
(* compliance item of a finding, one for its risk entry when it is         *)
(* critical or high, one for its remediation task when it carries a        *)
(* recommendation.  The records live in ServiceNow; a POST may be refused, *)
(* or done and its answer lost.  The first failure ends the export with    *)
(* 502 and nothing is taken back, and the caller may ask again.            *)
(*                                                                         *)
(* A finding is [id, severity, asset, recommended].  A record carries the  *)
(* finding it is for and the fields computed from its severity.            *)
(***************************************************************************)
EXTENDS Naturals, Sequences, SequencesExt, FiniteSets, Filters

CONSTANTS Exporters,  \* requests that may run at once
          Requests,   \* bodies callers send: sequences of findings
          MaxRecords  \* bound: compliance items ServiceNow holds

Findings == UNION {ToSet(body) : body \in Requests}

ASSUME BodiesAssumption == Requests \subseteq Seq(Findings)

VARIABLES tables,   \* what ServiceNow holds
          export,   \* each request
          broken    \* ids of the findings some export stopped at

exportVars == <<tables, export, broken>>

----------------------------------------------------------------------------
(* The records of a finding.                                               *)

SeverityToSNPriority(s) == CASE s = "critical" -> 1 [] s = "high" -> 2
                             [] s = "medium" -> 3 [] s = "low" -> 4 [] OTHER -> 5

SeverityToRiskScore(s) == CASE s = "critical" -> 90 [] s = "high" -> 70
                            [] s = "medium" -> 50 [] s = "low" -> 25 [] OTHER -> 10

DueDays(s) == CASE s = "critical" -> 7 [] s = "high" -> 30
                [] s = "medium" -> 90 [] OTHER -> 180

ResolveCMDBCI(asset) == IF asset = "" THEN "aiauditor_default_ci" ELSE asset

NeedsRisk(f) == f.severity \in {"critical", "high"}

GRCItem(f, sysID) == [sysID |-> sysID, source |-> f.id,
                      priority |-> SeverityToSNPriority(f.severity)]

\* createRiskEntry names no owner, mockExport does.
RiskEntry(f) == [source |-> f.id, score |-> SeverityToRiskScore(f.severity),
                 cmdbCI |-> ResolveCMDBCI(f.asset), owner |-> "none"]
MockRiskEntry(f) == [RiskEntry(f) EXCEPT !.owner = "aiauditor_integration"]

RemediationTask(f, item) == [source |-> f.id, item |-> item, due |-> DueDays(f.severity),
                             priority |-> SeverityToSNPriority(f.severity)]

NoResult == [items |-> <<>>, risks |-> <<>>, tasks |-> <<>>]

\* The findings, by position, that get a risk entry and a task.
Risky(findings)   == {i \in DOMAIN findings : NeedsRisk(findings[i])}
Advised(findings) == {i \in DOMAIN findings : findings[i].recommended}

\* Mock mode computes the whole answer at once; its ids count the findings.
MockExport(findings) ==
  [items |-> [i \in DOMAIN findings |-> GRCItem(findings[i], i)],
   risks |-> Filtered([i \in DOMAIN findings |-> MockRiskEntry(findings[i])], Risky(findings)),
   tasks |-> Filtered([i \in DOMAIN findings |-> RemediationTask(findings[i], i)],
                      Advised(findings))]

----------------------------------------------------------------------------
(* A live export: `pos` is the finding in hand, `step` the record it is    *)
(* about to create, `item` the id ServiceNow gave the finding's item.      *)

NoExport == [step |-> "idle", findings |-> <<>>, pos |-> 0, item |-> 0,
             result |-> NoResult, status |-> 0]

ExportInit == /\ tables = NoResult
              /\ export = [e \in Exporters |-> NoExport]
              /\ broken = {}

NextStep_TaskInsteadOfRisk(r) ==
  LET f == r.findings[r.pos]
  IN IF r.step = "item" /\ f.recommended THEN [r EXCEPT !.step = "task"]
     ELSE IF r.step = "item" /\ NeedsRisk(f) THEN [r EXCEPT !.step = "risk"]
     ELSE IF r.pos < Len(r.findings) THEN [r EXCEPT !.step = "item", !.pos = @ + 1]
     ELSE [r EXCEPT !.step = "idle", !.status = 200]

\* The step after the ones already done for the finding at `pos`.
NextStep(r) ==
  LET f == r.findings[r.pos]
  IN IF r.step = "item" /\ NeedsRisk(f) THEN [r EXCEPT !.step = "risk"]
     ELSE IF r.step \in {"item", "risk"} /\ f.recommended THEN [r EXCEPT !.step = "task"]
     ELSE IF r.pos < Len(r.findings) THEN [r EXCEPT !.step = "item", !.pos = @ + 1]
     ELSE [r EXCEPT !.step = "idle", !.status = 200]

\* The route names no connector, so the handler falls back to ServiceNow's.
ExportToServiceNow(e, findings) ==
  /\ export[e].step = "idle"
  /\ export' = [export EXCEPT ![e] =
       IF findings = <<>> THEN [NoExport EXCEPT !.status = 200]
       ELSE [NoExport EXCEPT !.findings = findings, !.step = "item", !.pos = 1]]
  /\ UNCHANGED <<tables, broken>>

InHand(e) == export[e].findings[export[e].pos]

CreateGRCItem(e) ==
  LET sysID == Len(tables.items) + 1
      item == GRCItem(InHand(e), sysID)
  IN /\ export[e].step = "item" /\ sysID <= MaxRecords
     /\ tables' = [tables EXCEPT !.items = Append(@, item)]
     /\ export' = [export EXCEPT ![e] =
          NextStep([export[e] EXCEPT !.item = sysID, !.result.items = Append(@, item)])]
     /\ UNCHANGED broken

CreateRiskEntry(e) ==
  /\ export[e].step = "risk"
  /\ tables' = [tables EXCEPT !.risks = Append(@, RiskEntry(InHand(e)))]
  /\ export' = [export EXCEPT ![e] =
       NextStep([export[e] EXCEPT !.result.risks = Append(@, RiskEntry(InHand(e)))])]
  /\ UNCHANGED broken

CreateRemediationTask_LatestItem(e) ==
  LET task == RemediationTask(InHand(e), Len(tables.items))
  IN /\ export[e].step = "task"
     /\ tables' = [tables EXCEPT !.tasks = Append(@, task)]
     /\ export' = [export EXCEPT ![e] =
          NextStep([export[e] EXCEPT !.result.tasks = Append(@, task)])]
     /\ UNCHANGED broken

CreateRemediationTask(e) ==
  LET task == RemediationTask(InHand(e), export[e].item)
  IN /\ export[e].step = "task"
     /\ tables' = [tables EXCEPT !.tasks = Append(@, task)]
     /\ export' = [export EXCEPT ![e] =
          NextStep([export[e] EXCEPT !.result.tasks = Append(@, task)])]
     /\ UNCHANGED broken

Stopped(e) == /\ export' = [export EXCEPT ![e] = [NoExport EXCEPT !.status = 502]]
              /\ broken' = broken \cup {InHand(e).id}

PostRefused(e) == /\ export[e].step # "idle"
                  /\ Stopped(e)
                  /\ UNCHANGED tables

\* The record is there and the exporter does not know.
AnswerLost(e) ==
  LET sysID == Len(tables.items) + 1
  IN /\ CASE export[e].step = "item" ->
               /\ sysID <= MaxRecords
               /\ tables' = [tables EXCEPT !.items = Append(@, GRCItem(InHand(e), sysID))]
          [] export[e].step = "risk" ->
               tables' = [tables EXCEPT !.risks = Append(@, RiskEntry(InHand(e)))]
          [] export[e].step = "task" ->
               tables' = [tables EXCEPT
                 !.tasks = Append(@, RemediationTask(InHand(e), export[e].item))]
          [] OTHER -> FALSE
     /\ Stopped(e)

ExportNext == \E e \in Exporters :
  \/ \E body \in Requests : ExportToServiceNow(e, body)
  \/ CreateGRCItem(e) \/ CreateRiskEntry(e) \/ CreateRemediationTask(e)
  \/ PostRefused(e) \/ AnswerLost(e)

ExportSpec == ExportInit /\ [][ExportNext]_exportVars

----------------------------------------------------------------------------
(* Properties.                                                             *)

\* What a live export answers is what mock mode would answer for the same
\* findings, up to the ids ServiceNow gives and the owner of a risk, which only mock
\* mode fills in (liveExport against mockExport, servicenow.go:235-244 and 335-346).
LiveAnswersLikeMock ==
  \A e \in Exporters : export[e].status = 200 =>
    LET live == export[e].result
        mock == MockExport(export[e].findings)
    IN /\ [i \in DOMAIN live.items |-> [live.items[i] EXCEPT !.sysID = i]] = mock.items
       /\ live.risks = [i \in DOMAIN mock.risks |-> [mock.risks[i] EXCEPT !.owner = "none"]]
       /\ live.tasks = [i \in DOMAIN mock.tasks |->
                          [mock.tasks[i] EXCEPT !.item = live.items[mock.tasks[i].item].sysID]]

\* A task in ServiceNow points at an item of its own finding, whatever failed
\* and whoever else exports at the same time.
TasksPointAtTheirItem ==
  \A t \in ToSet(tables.tasks) :
    /\ t.item \in DOMAIN tables.items
    /\ tables.items[t.item].source = t.source

InProgress(id) == \E e \in Exporters : export[e].step # "idle"
                    /\ \E k \in 1..export[e].pos : export[e].findings[k].id = id

\* An item of a critical or high finding goes without a risk entry only while
\* an export of it is under way or after one broke off on it; every other
\* half-exported finding would be a step the loop skips.
MissingRiskIsExplained ==
  \A i \in DOMAIN tables.items :
    LET item == tables.items[i]
    IN item.priority <= 2 =>
         \/ \E r \in ToSet(tables.risks) : r.source = item.source
         \/ InProgress(item.source) \/ item.source \in broken

\* What exports leave in ServiceNow, whatever failed and whoever else exports, is
\* what they answered or a known part of it (liveExport, servicenow.go:93-129).
ExportIsExplained == TasksPointAtTheirItem /\ MissingRiskIsExplained /\ LiveAnswersLikeMock
=============================================================================
