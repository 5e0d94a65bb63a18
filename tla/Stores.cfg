\* Two organisations' trails, two requests on the sessions of a user, three
\* controls and two assessors, two deliveries and two workers.
SPECIFICATION MCSpec
CONSTANTS
  m1 = m1
  m2 = m2
  m3 = m3
  o1 = o1
  o2 = o2
  Orgs <- TwoOrgs
  Types = {"user_action"}
  Appenders <- TwoCalls
  MaxEvents = 3
  Users = {"u"}
  Handlers <- TwoCalls
  MaxTokens = 3
  MaxExtra = 2
  Controls <- ThreeOf
  Keys = {1, 2}
  PageSize = 1
  Assessors <- TwoCalls
  Hooks <- TwoOrgs
  Workers <- TwoCalls
  MaxAttempts = 2
  BatchSize = 2
  MaxAccepted = 2
SYMMETRY Symmetry
INVARIANTS LinksPointBack TokensFollowSignIns
PROPERTIES EndedIsFinal ControlsAreKept DeliveriesAreExplained
