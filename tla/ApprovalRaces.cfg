\* One workflow that two requests race for.
SPECIFICATION Spec
CONSTANTS
  Ids = {w1}
  Orgs = {o1}
  Requests = {r1, r2}
  MaxHistory = 5
INVARIANTS StoredIsCoherent LockedWasSignedOff EntriesWereAnswered
