CONSTANTS
  Txn = {t1, t2}
  t1 = t1
  t2 = t2
  Nobody = Nobody
  NumFiles = 2
  NumLabels = 2
  Name = {red, blue}
  red = red
  blue = blue
  Unused = Unused
SPECIFICATION Spec
SYMMETRY Transactions
INVARIANTS
  TypeOK
  LinksStand
  TrailMatchesLinks
PROPERTIES ImplementsContract
CHECK_DEADLOCK FALSE
