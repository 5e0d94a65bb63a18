---------------------------- MODULE MCIntegration ----------------------------
(***************************************************************************)
(* The integration service for TLC: the sync loop around its breaker, and  *)
(* the adapters' answers.  They share no state, so a behaviour belongs to  *)
(* one of them.                                                            *)
(***************************************************************************)
EXTENDS IamSync, IamSnapshot, SecurityHub, VulnConnectors, ServiceNowExport

CONSTANTS loop, p1, p2    \* model values

VARIABLE part

\* A sync maps two MFA items around one of provisioning.
TwoPosts      == {p1, p2}
MfaProvisionMfa == <<"mfa", "provisioning", "mfa">>

\* Someone active with a security key, someone disabled long ago, and someone
\* who has never signed in.
ThreeAccounts ==
  {[id |-> 1, status |-> "active", factors |-> <<<<1, "fido2">>>>, login |-> 5, apps |-> TRUE],
   [id |-> 2, status |-> "inactive", factors |-> <<>>, login |-> 400, apps |-> TRUE],
   [id |-> 3, status |-> "active", factors |-> <<<<1, "sms">>, <<2, "totp">>>>, login |-> -1,
    apps |-> FALSE]}
TwoEvents ==
  {[id |-> 1, actor |-> 1, outcome |-> "SUCCESS", level |-> "INFO"],
   [id |-> 2, actor |-> 3, outcome |-> "DENY", level |-> "ERROR"]}

\* The ids of controls and standards may be anything.
AnyText == STRING

\* A failed and a passed check of one control, a warning and a failure that name
\* no control, and a finding without compliance.
Failed == [label |-> "HIGH", active |-> TRUE, generator |-> "g1",
           compliance |-> [status |-> "FAILED", control |-> "c1",
                           standards |-> <<"cis", "soc2">>],
           missing |-> {}, age |-> 3, remedied |-> TRUE, typed |-> TRUE, hits |-> 5]
FiveShapes ==
  {Failed,
   [Failed EXCEPT !.label = "CRITICAL", !.missing = {"title", "observed"}, !.age = -1,
                  !.compliance = [status |-> "PASSED", control |-> "c1",
                                  standards |-> <<"cis">>]],
   [Failed EXCEPT !.label = "LOW", !.age = 100, !.hits = 0,
                  !.compliance = [status |-> "WARNING", control |-> "",
                                  standards |-> <<"fsbp", "soc2">>]],
   [Failed EXCEPT !.label = "MEDIUM", !.age = 60, !.hits = 1, !.remedied = FALSE,
                  !.typed = FALSE, !.compliance = NoCompliance],
   [Failed EXCEPT !.label = "INFORMATIONAL",
                  !.compliance = [status |-> "FAILED", control |-> "", standards |-> <<>>]]}

\* Two of one id, and one without a host.
ThreeReports ==
  {[id |-> 1, host |-> 0, cvss3 |-> 98, cvss2 |-> 93, label |-> 3],
   [id |-> 2, host |-> NoHost, cvss3 |-> 69, cvss2 |-> 0, label |-> 4],
   [id |-> 1, host |-> 0, cvss3 |-> 0, cvss2 |-> 43, label |-> 5]}

Critical  == [id |-> 1, severity |-> "critical", asset |-> "", recommended |-> TRUE]
Medium    == [id |-> 2, severity |-> "medium", asset |-> "db", recommended |-> FALSE]
Low       == [id |-> 3, severity |-> "low", asset |-> "db", recommended |-> TRUE]
FewBodies == {<<>>, <<Critical>>, <<Medium, Critical>>, <<Critical, Low>>}

MCInit == /\ part \in {"sync", "snapshot", "hub", "scanner", "export"}
          /\ Init /\ SnapshotInit /\ HubInit /\ VulnInit /\ ExportInit
          /\ part # "sync" => ~up

\* Parts that run out of what the bounds allow may stay where they are.
MCNext ==
  /\ UNCHANGED part
  /\ \/ part = "sync" /\ Next
        /\ UNCHANGED <<snapshotVars, hubVars, vulnVars, exportVars>>
     \/ part = "snapshot" /\ SnapshotNext
        /\ UNCHANGED <<vars, hubVars, vulnVars, exportVars>>
     \/ part = "hub" /\ HubNext
        /\ UNCHANGED <<vars, snapshotVars, vulnVars, exportVars>>
     \/ part = "scanner" /\ VulnNext
        /\ UNCHANGED <<vars, snapshotVars, hubVars, exportVars>>
     \/ part = "export" /\ ExportNext
        /\ UNCHANGED <<vars, snapshotVars, hubVars, vulnVars>>
     \/ part # "sync" /\ UNCHANGED <<vars, snapshotVars, hubVars, vulnVars, exportVars>>

\* Only the sync loop has to go on.
MCSpec == /\ MCInit
          /\ [][MCNext]_<<part, vars, snapshotVars, hubVars, vulnVars, exportVars>>
          /\ part = "sync" => Fairness
===============================================================================
