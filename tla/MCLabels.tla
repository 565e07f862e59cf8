------------------------------ MODULE MCLabels ------------------------------
(* Small instances of Labels for TLC. *)
EXTENDS Labels, TLC

Transactions == Permutations(Txn)

(* The run that ends in a finding starts at a catalogue whose labels were created. *)
CreatedInit ==
  /\ files = File
  /\ name \in {n \in [Label -> Name] : \A l, m \in Label : n[l] = n[m] => l = m}
  /\ links = {}
  /\ trail = [f \in File |-> {}]
  /\ holder = [r \in Row |-> Nobody]
  /\ txn = [t \in Txn |-> Idle]

CreatedSpec == CreatedInit /\ [][Next]_vars
=============================================================================
