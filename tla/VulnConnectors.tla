--------------------------- MODULE VulnConnectors ---------------------------
(***************************************************************************)
(* The vulnerability connectors of the integration service (Qualys,        *)
(* Tenable, CrowdStrike) and the three routes that use them.  A scanner is *)
(* a system of its own: it reports and closes findings and enrols and      *)
(* retires devices while a request walks through its calls.  Qualys and    *)
(* Tenable take one call for findings and one for devices; CrowdStrike     *)
(* takes three for each: a token, the ids, then the details of those ids.  *)
(*                                                                         *)
(* A finding is [id, host, cvss3, cvss2, label]: the id is what the        *)
(* connector makes of the scanner's keys (host and QID, plugin, detection) *)
(* and may repeat; the host is one of the scanner's devices or not, and    *)
(* NoHost when none is told; scores in tenths, 0 when absent, the label a  *)
(* level of 0 to 4.  Severities are levels too: 4 critical, 3 high, 2      *)
(* medium, 1 low, 0 informational, -1 none.                                *)
(***************************************************************************)
EXTENDS Integers, Sequences, SequencesExt, FiniteSets, FiniteSetsExt, Filters

CONSTANTS Providers,   \* the connectors asked for, registered or not
          Hosts,       \* devices a scanner may manage
          Reports,     \* findings a scanner may report
          MaxMoves,    \* bound: changes the scanner makes during a behaviour
          MaxPage, DefaultPage   \* 100 and 10 in the code

\* A CVSS score is a number (fetchVulnsFromAPI of each connector decodes it as one).
ASSUME ScannerAssumption == DefaultPage \in Nat /\ \A f \in Reports : f.cvss3 \in Int

VARIABLES scanner,  \* what the remote system holds
          vreq      \* the request in progress

vulnVars == <<scanner, vreq>>

Registered == {"qualys", "tenable", "crowdstrike"}
Routes == {"vulnerabilities", "endpoints", "evidence"}

\* The empty host id of a vulnerability without affected hosts (tenable.go:149-154).
NoHost == -1

----------------------------------------------------------------------------
(* Severities.                                                             *)

NormalizeCVSS3(score) == CASE score >= 90 -> 4 [] score \in 70..89 -> 3
                           [] score \in 40..69 -> 2 [] score \in 1..39 -> 1 [] OTHER -> 0

NormalizeCVSS2(score) == CASE score >= 70 -> 3 [] score \in 40..69 -> 2
                           [] score \in 1..39 -> 1 [] OTHER -> 0

NormalizeSeverityLabel(label) == IF label \in 0..4 THEN label ELSE -1

TenableSeverityFromInt(s) == IF s \in 1..4 THEN s ELSE 0

\* Qualys falls through its three sources, each only when the one before said
\* informational.
QualysSeverity(f) ==
  LET third == NormalizeCVSS3(f.cvss3)
      second == IF third = 0 /\ f.cvss2 > 0 THEN NormalizeCVSS2(f.cvss2) ELSE third
  IN IF second = 0 THEN NormalizeSeverityLabel(f.label) ELSE second

TenableSeverity_LabelFirst(f) ==
  IF f.label > 0 THEN TenableSeverityFromInt(f.label) ELSE NormalizeCVSS3(f.cvss3)
TenableSeverity(f) ==
  IF f.cvss3 > 0 THEN NormalizeCVSS3(f.cvss3) ELSE TenableSeverityFromInt(f.label)

----------------------------------------------------------------------------
(* Pages.  The routes pass no limit, so every call asks for the default.   *)

EffectiveLimit(l) == IF l \in 1..MaxPage THEN l ELSE DefaultPage

FirstOf(s) == SubSeq(s, 1, Min({Len(s), EffectiveLimit(0)}))

\* Qualys counts hosts against the limit and lists every finding of each.
AffectedHosts ==
  LET host == [i \in DOMAIN scanner.findings |-> scanner.findings[i].host]
  IN  Filtered(host, {i \in DOMAIN host : \A j \in 1..(i - 1) : host[j] # host[i]})
QualysPage ==
  Filtered(scanner.findings, {i \in DOMAIN scanner.findings :
                               scanner.findings[i].host \in ToSet(FirstOf(AffectedHosts))})

Normalized(provider, page) ==
  [i \in DOMAIN page |-> [id |-> page[i].id, host |-> page[i].host,
                          severity |-> IF provider = "qualys" THEN QualysSeverity(page[i])
                                       ELSE TenableSeverity(page[i])]]

\* In mock mode the adapters answer fixed lists, within the page of the code.
MockPage == 10

\* Scores and hosts are walked side by side, each from its start when it ends.
Crossed_OneIndex(scores, hosts) ==
  [i \in 1..Min({MockPage, Len(scores) * hosts}) |->
    LET h == (i - 1) % hosts
    IN [id |-> <<h, h>>, host |-> h + 1, severity |-> NormalizeCVSS3(scores[h + 1])]]
Crossed(scores, hosts) ==
  [i \in 1..Min({MockPage, Len(scores) * hosts}) |->
    LET d == (i - 1) % Len(scores)
        h == (i - 1) % hosts
    IN [id |-> <<d, h>>, host |-> h + 1, severity |-> NormalizeCVSS3(scores[d + 1])]]

QualysMock == Crossed(<<98, 100, 53, 81, 40, 75, 91, 78, 50, 37>>, 3)
TenableMock == Crossed(<<98, 91, 0, 58, 53, 53, 88, 53, 98, 67>>, 3)
CrowdStrikeDetections == LET hosts == <<1, 2, 1, 4, 2, 3, 5, 1>>
                             levels == <<4, 3, 3, 2, 2, 1, 4, 3>>
                         IN [i \in DOMAIN hosts |->
                              [id |-> i, hosts |-> <<hosts[i]>>, severity |-> levels[i]]]

\* A detection becomes a finding on the first of its hosts.
EventsToFindings(events) ==
  [i \in DOMAIN events |-> [id |-> events[i].id, host |-> events[i].hosts[1],
                            severity |-> events[i].severity]]

MockFindings(p) == CASE p = "qualys" -> QualysMock [] p = "tenable" -> TenableMock
                     [] OTHER -> EventsToFindings(CrowdStrikeDetections)

QualysHostsMock == [i \in 1..4 |-> i]
TenableAssetsMock == [i \in 1..4 |-> i]
CrowdStrikeDevicesMock == [i \in 1..5 |-> i]
MockEndpoints(p) == CASE p = "qualys" -> QualysHostsMock [] p = "tenable" -> TenableAssetsMock
                      [] OTHER -> CrowdStrikeDevicesMock

VulnFindingToEvidence(f) == [category |-> "vulnerability", id |-> <<"vuln", f.id>>, host |-> f.host]
EndpointDeviceToEvidence(d) == [category |-> "endpoint", id |-> <<"host", d>>, host |-> d]

VulnEvidence(findings, devices) ==
  [i \in DOMAIN findings |-> VulnFindingToEvidence(findings[i])]
    \o [i \in DOMAIN devices |-> EndpointDeviceToEvidence(devices[i])]

----------------------------------------------------------------------------
(* A request.  `calm` says that the scanner has not changed since it began *)
(* (the model's own note, nothing in the code knows).                      *)

NoRequest == [provider |-> "qualys", route |-> "evidence", mock |-> FALSE, phase |-> "idle",
              ids |-> <<>>, findings |-> <<>>, devices |-> <<>>, evidence |-> <<>>,
              status |-> 0, calm |-> TRUE]

VulnInit == /\ scanner = [devices |-> <<>>, findings |-> <<>>, moves |-> 0]
            /\ vreq = NoRequest

FirstPhase(p, route) ==
  IF p = "crowdstrike" THEN IF route = "endpoints" THEN "device_token" ELSE "token"
  ELSE IF route = "endpoints" THEN "devices" ELSE "findings"

\* resolveVulnConnector answers 404 for a name nobody registered.
StartRequest(p, route, mock) ==
  /\ vreq.phase \in {"idle", "done"}
  /\ vreq' = IF p \in Registered
             THEN [NoRequest EXCEPT !.provider = p, !.route = route, !.mock = mock,
                                    !.phase = FirstPhase(p, route)]
             ELSE [NoRequest EXCEPT !.provider = p, !.route = route,
                                    !.phase = "done", !.status = 404]
  /\ UNCHANGED scanner

Done(r) == [r EXCEPT !.phase = "done", !.status = 200, !.ids = <<>>,
                     !.evidence = IF r.route = "evidence"
                                  THEN VulnEvidence(r.findings, r.devices) ELSE <<>>]

AfterFindings(findings) ==
  LET r == [vreq EXCEPT !.findings = findings, !.ids = <<>>]
  IN IF r.route = "vulnerabilities" THEN Done(r)
     ELSE [r EXCEPT !.phase = FirstPhase(r.provider, "endpoints")]

AnswerMock ==
  /\ vreq.mock /\ vreq.phase \notin {"idle", "done"}
  /\ vreq' = Done([vreq EXCEPT
                     !.findings = IF vreq.route = "endpoints" THEN <<>>
                                    ELSE MockFindings(vreq.provider),
                     !.devices = IF vreq.route = "vulnerabilities" THEN <<>>
                                   ELSE MockEndpoints(vreq.provider)])
  /\ UNCHANGED scanner

Live(phase) == ~vreq.mock /\ vreq.phase = phase

LiveOf(provider, phase) == Live(phase) /\ vreq.provider = provider

QualysVulns == /\ LiveOf("qualys", "findings")
               /\ vreq' = AfterFindings(Normalized("qualys", QualysPage))
               /\ UNCHANGED scanner

TenableVulns == /\ LiveOf("tenable", "findings")
                /\ vreq' = AfterFindings(Normalized("tenable", FirstOf(scanner.findings)))
                /\ UNCHANGED scanner

QualysHosts == /\ LiveOf("qualys", "devices")
               /\ vreq' = Done([vreq EXCEPT !.devices = FirstOf(scanner.devices)])
               /\ UNCHANGED scanner

TenableAssets == /\ LiveOf("tenable", "devices")
                 /\ vreq' = Done([vreq EXCEPT !.devices = FirstOf(scanner.devices)])
                 /\ UNCHANGED scanner

BearerToken ==
  /\ Live("token") \/ Live("device_token")
  /\ vreq' = [vreq EXCEPT !.phase = IF @ = "token" THEN "ids" ELSE "device_ids"]
  /\ UNCHANGED scanner

\* No ids ends the fetch without the second call.
QueryDetectionIds ==
  /\ Live("ids")
  /\ LET page == FirstOf(scanner.findings)
     IN vreq' = IF page = <<>> THEN AfterFindings(<<>>)
                ELSE [vreq EXCEPT !.phase = "summaries", !.ids = [i \in DOMAIN page |-> page[i].id]]
  /\ UNCHANGED scanner

SummarizeDetections ==
  /\ Live("summaries")
  /\ LET found == Filtered(scanner.findings, {i \in DOMAIN scanner.findings :
                                               scanner.findings[i].id \in ToSet(vreq.ids)})
         events == [i \in DOMAIN found |->
                     [id |-> found[i].id, hosts |-> <<found[i].host>>,
                      severity |-> NormalizeSeverityLabel(found[i].label)]]
     IN vreq' = AfterFindings(EventsToFindings(events))
  /\ UNCHANGED scanner

QueryDeviceIds ==
  /\ Live("device_ids")
  /\ LET page == FirstOf(scanner.devices)
     IN vreq' = IF page = <<>> THEN Done(vreq)
                ELSE [vreq EXCEPT !.phase = "details", !.ids = page]
  /\ UNCHANGED scanner

DeviceDetails ==
  /\ Live("details")
  /\ vreq' = Done([vreq EXCEPT !.devices =
                     Filtered(scanner.devices, {i \in DOMAIN scanner.devices :
                                                 scanner.devices[i] \in ToSet(vreq.ids)})])
  /\ UNCHANGED scanner

\* Any call may fail or run into the 30 seconds: 502, and nothing of what was
\* fetched before is answered.
FailedCall_Partial == Done(vreq)
FailedCall == [vreq EXCEPT !.phase = "done", !.status = 502, !.ids = <<>>,
                           !.findings = <<>>, !.devices = <<>>]

CallFails == /\ ~vreq.mock /\ vreq.phase \notin {"idle", "done"}
             /\ vreq' = FailedCall
             /\ UNCHANGED scanner

----------------------------------------------------------------------------
(* The scanner.  It lists each device once; what it reports, of which      *)
(* host and how often is its own affair.                                   *)

Moved(s) == /\ scanner.moves < MaxMoves
            /\ scanner' = [s EXCEPT !.moves = @ + 1]
            /\ vreq' = [vreq EXCEPT !.calm = vreq.phase = "idle"]

ScannerReports(f) == Moved([scanner EXCEPT !.findings = Append(@, f)])

CloseFinding(i) == Moved([scanner EXCEPT !.findings = RemoveAt(@, i)])

EnrolDevice(h) == /\ h \notin ToSet(scanner.devices)
                  /\ Moved([scanner EXCEPT !.devices = Append(@, h)])

RetireDevice(h) ==
  /\ h \in ToSet(scanner.devices)
  /\ Moved([scanner EXCEPT !.devices = Filtered(@, {i \in DOMAIN @ : @[i] # h})])

VulnNext == \/ \E p \in Providers, r \in Routes, m \in BOOLEAN : StartRequest(p, r, m)
            \/ AnswerMock \/ QualysVulns \/ TenableVulns \/ QualysHosts \/ TenableAssets
            \/ BearerToken \/ QueryDetectionIds \/ SummarizeDetections
            \/ QueryDeviceIds \/ DeviceDetails \/ CallFails
            \/ \E f \in Reports : ScannerReports(f)
            \/ \E i \in DOMAIN scanner.findings : CloseFinding(i)
            \/ \E h \in Hosts : EnrolDevice(h) \/ RetireDevice(h)

VulnSpec == VulnInit /\ [][VulnNext]_vulnVars

----------------------------------------------------------------------------
(* Properties.                                                             *)

ItemsOf(category) == {e \in ToSet(vreq.evidence) : e.category = category}

\* An evidence answer names a host it does not list only when the scanner does not
\* list it either, moved between the calls that make up the answer, or has more
\* devices than a page (FetchEvidence reads findings, then devices, with no snapshot).
UnknownHostIsExplained ==
  (vreq.route = "evidence" /\ vreq.status = 200) =>
    \A e \in ItemsOf("vulnerability") :
      \/ \E d \in ItemsOf("endpoint") : d.host = e.host
      \/ /\ ~vreq.mock
         /\ ~vreq.calm \/ Len(scanner.devices) > DefaultPage \/ e.host \notin ToSet(scanner.devices)

PositionsOf(category) == {i \in DOMAIN vreq.evidence : vreq.evidence[i].category = category}

\* When the scanner did not move, a 200 holds both pages whole: no failed call
\* is answered as an empty list.
CalmAnswerIsWhole ==
  (vreq.route = "evidence" /\ vreq.status = 200 /\ vreq.calm /\ ~vreq.mock) =>
    /\ Cardinality(PositionsOf("endpoint")) = Len(FirstOf(scanner.devices))
    /\ Cardinality(PositionsOf("vulnerability")) >= Len(FirstOf(scanner.findings))

ReportedTwice == \E i, j \in DOMAIN scanner.findings :
                   i # j /\ scanner.findings[i].id = scanner.findings[j].id

\* Two items of an answer carry one id only when the scanner reports one id twice
\* or moved meanwhile: two of one host and QID (qualys.go:162), of one plugin.  The
\* mock lists are walked side by side, so their lengths must not share a factor.
RepeatedIdIsReported ==
  vreq.status = 200 =>
    \/ \A i, j \in DOMAIN vreq.evidence : i # j => vreq.evidence[i].id # vreq.evidence[j].id
    \/ ~vreq.mock /\ (~vreq.calm \/ ReportedTwice)

\* Scanners that both read a CVSS 3 score rate it alike, a scored finding is
\* never informational, and a higher score is never a lower severity
\* (fetchVulnsFromAPI of Qualys and Tenable).
ScoresRateAlike ==
  \A f, g \in ToSet(scanner.findings) : f.cvss3 > 0 /\ g.cvss3 > 0 =>
    /\ QualysSeverity(f) = TenableSeverity(f)
    /\ QualysSeverity(f) > 0
    /\ f.cvss3 <= g.cvss3 => QualysSeverity(f) <= TenableSeverity(g)

\* The evidence answered of a scanner is whole, an id it repeats and a host it does
\* not list are the scanner's own, and its severities are comparable, but for moves
\* between the calls (handler.go of the service, the scanners' connectors).
ScanIsExplained ==
  UnknownHostIsExplained /\ CalmAnswerIsWhole /\ RepeatedIdIsReported /\ ScoresRateAlike
=============================================================================
