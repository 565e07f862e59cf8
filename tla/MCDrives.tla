------------------------------ MODULE MCDrives ------------------------------
(* Small instances of Drives for TLC. *)
EXTENDS Drives, TLC

Transactions == Permutations(Txn)

(* Two drives there, or one to create; no file yet. *)
DrivesInit ==
  /\ drives \in {[d \in Drive |-> "there"], [d \in Drive |-> IF d = 1 THEN Unused ELSE Gone]}
  /\ place = [f \in File |-> Unused]
  /\ pending = {}
  /\ holder = [r \in Row |-> Nobody]
  /\ txn = [t \in Txn |-> Idle]

DrivesSpec == DrivesInit /\ [][Next]_vars

(* Folders nest in folders where the first drive is the only one left. *)
Flat(path) == Len(path) <= 1
FoldersNest ==
  (drives[1] = Gone \/ \E d \in Drive \ {1} : drives[d] # Gone) =>
    /\ \A f \in FilesThere : Flat(place[f].path)
    /\ \A t \in Txn : /\ Flat(txn[t].prefix) /\ Flat(txn[t].new)
                      /\ txn[t].to # Unused => Flat(txn[t].to.path)
=============================================================================
