\* One delivery with three attempts in flight, or two of two subscriptions with one;
\* a row in each of two tables.
SPECIFICATION MCSpec
CONSTANTS
  u1 = u1
  u2 = u2
  s1 = s1
  s2 = s2
  s3 = s3
  f1 = f1
  e1 = e1
  Subs <- TwoSubs
  MaxRows = 2
  Slots <- ThreeSlots
  BatchSize = 1
  MaxLosses = 2
  Tables <- TwoTables
  MaxVersion = 2
  MaxDrops = 2
INVARIANTS SyncTypeOK NotGivenUpEarly StaleIsExplained
PROPERTIES SettlesForGood Converges
