\* Two workflows of two organisations, one request at a time.
SPECIFICATION Spec
CONSTANTS
  Ids = {w1, w2}
  Orgs = {o1, o2}
  Requests = {r1}
  MaxHistory = 4
INVARIANT AnsweredIsKept
PROPERTY Refines
