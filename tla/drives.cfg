CONSTANTS
  Txn = {t1, t2}
  t1 = t1
  t2 = t2
  Nobody = Nobody
  NumDrives = 2
  NumFiles = 2
  Segment = {a}
  a = a
  Stem = {report}
  report = report
  MaxDepth = 2
  Unused = Unused
  Gone = Gone
  Gestures = {"request_upload", "update_file", "move_folder", "delete_folder", "delete_drive", "freeze_drive"}
SPECIFICATION DrivesSpec
SYMMETRY Transactions
INVARIANTS
  TypeOK
  OthersNeverBroken
  TakenWhole
CHECK_DEADLOCK FALSE
CONSTRAINT FoldersNest
