CONSTANTS
  Txn = {t1, t2}
  t1 = t1
  t2 = t2
  Nobody = Nobody
  NumDrives = 1
  NumFiles = 2
  Segment = {a}
  a = a
  Stem = {report}
  report = report
  MaxDepth = 2
  Unused = Unused
  Gone = Gone
  Gestures = {"request_upload", "move_folder"}
SPECIFICATION DrivesSpec
SYMMETRY Transactions
INVARIANTS
  FolderMoveNeverBroken
CHECK_DEADLOCK FALSE
