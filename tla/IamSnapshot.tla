---------------------------- MODULE IamSnapshot ----------------------------
(***************************************************************************)
(* One sync of an identity provider: the calls of the Entra ID and Okta    *)
(* adapters, made one after the other while the directory changes, and the *)
(* evidence items made of the snapshot they put together.                  *)
(*                                                                         *)
(* A directory user is [id, status, factors, login, apps]: `factors` the   *)
(* enrolled MFA factors <<id, kind>>, `login` the days since the last      *)
(* login (-1: never), `apps` whether applications are still assigned.  A   *)
(* log event is [id, actor, outcome, level], an access review              *)
(* [id, decision].  Scores are in hundredths.                              *)
(***************************************************************************)
EXTENDS Integers, Sequences, SequencesExt, FiniteSets, FiniteSetsExt, Filters

CONSTANTS Accounts,   \* the users a directory may hold
          Events,     \* the events it may log
          MaxChanges, \* bound: changes to the directory during a behaviour
          UserPage, LogPage  \* the providers' page sizes, 200 and 100 for Okta

VARIABLES directory,  \* what the provider holds
          fetch       \* the sync in progress and its snapshot

snapshotVars == <<directory, fetch>>

Person(id, status, factors, login, apps) ==
  [id |-> id, status |-> status, factors |-> factors, login |-> login, apps |-> apps]
Logged(id, actor, outcome, level) ==
  [id |-> id, actor |-> actor, outcome |-> outcome, level |-> level]

ASSUME AccountsAssumption ==
  /\ UserPage \in Nat /\ LogPage \in Nat
  /\ \A u \in Accounts : /\ u = Person(u.id, u.status, u.factors, u.login, u.apps)
                         /\ u.factors \in Seq(ToSet(u.factors)) /\ u.login \in Int

----------------------------------------------------------------------------
(* Evidence.                                                               *)

SeverityFromScore(score) == CASE score >= 90 -> "info" [] score \in 70..89 -> "low"
                              [] score \in 50..69 -> "medium" [] score \in 30..49 -> "high"
                              [] OTHER -> "critical"

MfaFactorScore(kind) == CASE kind \in {"fido2", "webauthn", "hardware_otp"} -> 100
                          [] kind \in {"totp", "hotp"} -> 90
                          [] kind = "push" -> 80 [] kind = "otp" -> 70
                          [] kind = "email" -> 60 [] OTHER -> 50

UserProvisioningScore(u) ==
  IF u.status # "active" THEN IF u.apps THEN 20 ELSE 30
  ELSE CASE u.login < 0 -> 40          [] u.login \in 0..30 -> 100
         [] u.login \in 31..90 -> 80   [] OTHER -> 50

SystemLogScore(e) ==
  CASE e.outcome \in {"SUCCESS", "ALLOW"} -> 90
    [] e.outcome \in {"FAILURE", "DENY"} ->
         (CASE e.level = "ERROR" -> 20 [] e.level = "WARN" -> 40 [] OTHER -> 60)
    [] OTHER -> 70

OktaSeverity(level) == CASE level = "ERROR" -> "high" [] level = "WARN" -> "medium"
                         [] level = "INFO" -> "low" [] OTHER -> "info"

ConditionalAccess(state) ==
  CASE state = "enabled" -> [score |-> 90, severity |-> "info"]
    [] state = "enabledForReportingButNotEnforced" -> [score |-> 50, severity |-> "medium"]
    [] state = "disabled" -> [score |-> 10, severity |-> "high"]
    [] OTHER -> [score |-> 30, severity |-> "medium"]

Item(type, subject, score) == [type |-> type, subject |-> subject, score |-> score,
                               severity |-> SeverityFromScore(score)]

MfaEvidence(u) == IF u.factors = <<>> THEN <<Item("mfa", <<u.id, 0>>, 0)>>
                  ELSE [k \in DOMAIN u.factors |->
                         Item("mfa", <<u.id, u.factors[k][1]>>, MfaFactorScore(u.factors[k][2]))]

UserEvidence(u) == Append(MfaEvidence(u), Item("user", <<u.id, 0>>, UserProvisioningScore(u)))

LogEvidence(e) == [Item("log", <<e.id, 0>>, SystemLogScore(e))
                     EXCEPT !.severity = OktaSeverity(e.level)]

ReviewEvidence(r) ==
  Item("review", <<r.id, 0>>, CASE r.decision = "deny" -> 100
                                [] r.decision = "approve" -> 85 [] OTHER -> 40)

GroupEvidence(g) == Item("group", <<g, 0>>, 90)

PolicyEvidence(p) == [Item("policy", <<p.id, 0>>, ConditionalAccess(p.state).score)
                        EXCEPT !.severity = ConditionalAccess(p.state).severity]

MapSnapshot(s) ==
  FlattenSeq([i \in DOMAIN s.users |-> UserEvidence(s.users[i])])
    \o [i \in DOMAIN s.reviews |-> ReviewEvidence(s.reviews[i])]
    \o [i \in DOMAIN s.groups |-> GroupEvidence(s.groups[i])]
    \o [i \in DOMAIN s.policies |-> PolicyEvidence(s.policies[i])]
    \o [i \in DOMAIN s.logs |-> LogEvidence(s.logs[i])]

----------------------------------------------------------------------------
(* The calls.  Neither adapter reads factors, groups of a user or assigned *)
(* applications; Entra ID does not read the last login either.             *)

FirstPage(s, size) == SubSeq(s, 1, Min({Len(s), size}))

EntraUser_RecentLogin(u) == [u EXCEPT !.factors = <<>>, !.login = 0, !.apps = FALSE]
EntraUser(u) == [u EXCEPT !.factors = <<>>, !.login = -1, !.apps = FALSE,
                          !.status = IF @ = "active" THEN "active" ELSE "inactive"]

OktaUser(u) == [u EXCEPT !.factors = <<>>, !.apps = FALSE]

\* Okta is asked for active users only, and for the newest events first.
ActiveUsers(users) == Filtered(users, {i \in DOMAIN users : users[i].status = "active"})

OktaUsers_OneShort(users) ==
  LET page == FirstPage(ActiveUsers(users), UserPage - 1)
  IN [i \in DOMAIN page |-> OktaUser(page[i])]
OktaUsers(users) == LET page == FirstPage(ActiveUsers(users), UserPage)
                    IN [i \in DOMAIN page |-> OktaUser(page[i])]
OktaLogs(logs) == FirstPage(Reverse(logs), LogPage)

EntraUsers(users) == LET page == FirstPage(users, UserPage)
                     IN [i \in DOMAIN page |-> EntraUser(page[i])]

EmptySnapshot == [users |-> <<>>, reviews |-> <<>>, groups |-> <<>>, policies |-> <<>>, logs |-> <<>>]
NoFetch == [provider |-> "okta", phase |-> "idle", parts |-> EmptySnapshot,
            evidence |-> <<>>, seen |-> <<>>, live |-> TRUE]

\* What the adapters answer in mock mode.
OktaMock_OneFactorId == [EmptySnapshot EXCEPT
  !.users = <<Person(1, "active", <<<<1, "push">>, <<1, "totp">>>>, 1, TRUE)>>]
OktaMock == [EmptySnapshot EXCEPT
  !.users = <<Person(1, "active", <<<<1, "push">>, <<2, "totp">>>>, 1, TRUE),
              Person(2, "active", <<<<3, "sms">>>>, 45, TRUE),
              Person(3, "suspended", <<>>, 45, TRUE),
              Person(4, "active", <<>>, -1, TRUE)>>,
  !.logs = <<Logged(1, 1, "SUCCESS", "INFO"), Logged(2, 2, "SUCCESS", "INFO"),
             Logged(3, 3, "FAILURE", "WARN"), Logged(4, 0, "SUCCESS", "ERROR"),
             Logged(5, 1, "ALLOW", "INFO")>>]

EntraMock == [EmptySnapshot EXCEPT
  !.users = <<Person(1, "active", <<<<1, "fido2">>, <<2, "totp">>>>, 7, FALSE),
              Person(2, "active", <<<<3, "sms">>>>, 7, FALSE),
              Person(3, "inactive", <<>>, 400, TRUE),
              Person(4, "active", <<>>, -1, FALSE)>>,
  !.reviews = <<[id |-> 1, decision |-> "deny"], [id |-> 2, decision |-> "approve"]>>,
  !.groups = <<"engineering", "admins", "finance">>,
  !.policies = <<[id |-> "mfa", state |-> "enabled"], [id |-> "legacy", state |-> "enabled"],
                 [id |-> "device", state |-> "enabledForReportingButNotEnforced"]>>]

SnapshotInit ==
  /\ directory = [users |-> <<>>, logs |-> <<>>, groups |-> <<"engineering">>,
                  policies |-> <<[id |-> "mfa", state |-> "enabled"]>>, changes |-> 0]
  /\ fetch = NoFetch

StartFetch(p) == /\ fetch.phase \in {"idle", "done", "failed"}
                 /\ fetch' = [NoFetch EXCEPT !.provider = p, !.phase = "users"]
                 /\ UNCHANGED directory

MockSync(p) ==
  LET parts == IF p = "okta" THEN OktaMock ELSE EntraMock
  IN /\ fetch.phase \in {"idle", "done", "failed"}
     /\ fetch' = [NoFetch EXCEPT !.provider = p, !.phase = "done", !.live = FALSE,
                                 !.parts = parts, !.evidence = MapSnapshot(parts)]
     /\ UNCHANGED directory

UsersOf(p, users) == IF p = "okta" THEN OktaUsers(users) ELSE EntraUsers(users)

\* `seen` is the model's own note of the directory at the first call.
FetchUsers ==
  /\ fetch.phase = "users"
  /\ fetch' = [fetch EXCEPT
       !.parts.users = UsersOf(fetch.provider, directory.users),
       !.phase = IF fetch.provider = "okta" THEN "logs" ELSE "reviews",
       !.seen = directory.users]
  /\ UNCHANGED directory

\* Whatever status the provider answers, the reviews are an empty list.
FetchAccessReviews == /\ fetch.phase = "reviews"
                      /\ fetch' = [fetch EXCEPT !.phase = "groups"]
                      /\ UNCHANGED directory

FetchGroups == /\ fetch.phase = "groups"
               /\ fetch' = [fetch EXCEPT !.phase = "policies",
                                         !.parts.groups = directory.groups]
               /\ UNCHANGED directory

Finished(parts) == [fetch EXCEPT !.phase = "done", !.parts = parts,
                                 !.evidence = MapSnapshot(parts)]

FetchPolicies ==
  /\ fetch.phase = "policies"
  /\ fetch' = Finished([fetch.parts EXCEPT !.policies = directory.policies])
  /\ UNCHANGED directory

FetchSystemLogs ==
  /\ fetch.phase = "logs"
  /\ fetch' = Finished([fetch.parts EXCEPT !.logs = OktaLogs(directory.logs)])
  /\ UNCHANGED directory

\* One failed call fails the sync; the parts read so far are dropped.
FetchFails == /\ fetch.phase \notin {"idle", "done", "failed"}
              /\ fetch' = [NoFetch EXCEPT !.provider = fetch.provider, !.phase = "failed"]
              /\ UNCHANGED directory

----------------------------------------------------------------------------
(* The directory.  An event is logged for a user it holds, under an id of  *)
(* its own.                                                                *)

DirectoryChange(d) == /\ directory.changes < MaxChanges
                      /\ directory' = [d EXCEPT !.changes = @ + 1]
                      /\ UNCHANGED fetch

AddAccount(u) == /\ \A v \in ToSet(directory.users) : v.id # u.id
                 /\ DirectoryChange([directory EXCEPT !.users = Append(@, u)])

RemoveAccount(i) == DirectoryChange([directory EXCEPT !.users = RemoveAt(@, i)])

LogEvent(e) == /\ \E u \in ToSet(directory.users) : u.id = e.actor
               /\ \A f \in ToSet(directory.logs) : f.id # e.id
               /\ DirectoryChange([directory EXCEPT !.logs = Append(@, e)])

SetPolicy(state) == /\ directory.policies[1].state # state
                    /\ DirectoryChange([directory EXCEPT !.policies[1].state = state])

SnapshotNext ==
  \/ \E p \in {"okta", "entraid"} : StartFetch(p) \/ MockSync(p)
  \/ FetchUsers \/ FetchAccessReviews \/ FetchGroups \/ FetchPolicies \/ FetchSystemLogs
  \/ FetchFails
  \/ \E u \in Accounts : AddAccount(u)
  \/ \E i \in DOMAIN directory.users : RemoveAccount(i)
  \/ \E e \in Events : LogEvent(e)
  \/ \E state \in {"disabled", "enabledForReportingButNotEnforced"} : SetPolicy(state)

SnapshotSpec == SnapshotInit /\ [][SnapshotNext]_snapshotVars

----------------------------------------------------------------------------
(* Properties.                                                             *)

Snapped == {u.id : u \in ToSet(fetch.parts.users)}

\* An event in the snapshot names a user of the snapshot, unless the user was not
\* there or not active when the users were read, or a page cut the users off
\* (Okta's two calls are not one snapshot).
UnknownActorIsExplained ==
  (fetch.phase = "done" /\ fetch.live) => \A e \in ToSet(fetch.parts.logs) :
    \/ e.actor \in Snapped
    \/ \A u \in ToSet(fetch.seen) : u.id = e.actor => u.status # "active"
    \/ Len(fetch.seen) > UserPage

\* What a live sync reports of an active user is never better than what the
\* directory showed: the fields the adapters leave out can only lower a score
\* (mfaEvidenceFromUser and userProvisioningScore read absence as the bad case).
ActiveUsersAreNotFlattered ==
  fetch.phase = "done" => \A u \in ToSet(fetch.seen) :
    (u.status = "active" /\ u.id \in Snapped) =>
      \A it \in ToSet(fetch.evidence) :
        (it.type \in {"mfa", "user"} /\ it.subject[1] = u.id) =>
          \E truth \in ToSet(UserEvidence(u)) :
            truth.type = it.type /\ it.score <= truth.score

\* The ids of the items of one snapshot differ, whatever the provider: an id is
\* put together of the kind and of ids the provider gives, a factor's under its
\* user's (MapSnapshotToEvidence).
SnapshotIdsDiffer ==
  \A i, j \in DOMAIN fetch.evidence :
    (fetch.evidence[i].type = fetch.evidence[j].type
       /\ fetch.evidence[i].subject = fetch.evidence[j].subject) => i = j

\* The comment on EvidenceItem.Severity: the label is derived from the score.
SeverityTellsScore ==
  \A it \in ToSet(fetch.evidence) : it.severity = SeverityFromScore(it.score)

\* What a sync makes of a directory read in several calls is whole, distinct and
\* no better than what was there, but for changes between the calls
\* (Sync of the Okta and Entra ID adapters, MapSnapshotToEvidence).
SnapshotIsExplained ==
  UnknownActorIsExplained /\ ActiveUsersAreNotFlattered /\ SnapshotIdsDiffer
=============================================================================
