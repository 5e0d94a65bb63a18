CONSTANTS
  Orgs = {org1}
  Types = {"user_action"}
  Appenders = {a1, a2}
  MaxEvents = 2
SPECIFICATION Spec
INVARIANT Unforked
