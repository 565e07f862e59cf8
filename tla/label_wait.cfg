CONSTANTS
  Txn = {t1, t2}
  t1 = t1
  t2 = t2
  Nobody = Nobody
  NumFiles = 2
  NumLabels = 1
  Name = {red}
  red = red
  Unused = Unused
SPECIFICATION CreatedSpec
SYMMETRY Transactions
INVARIANTS
  NeverWaitInCycle
CHECK_DEADLOCK FALSE
