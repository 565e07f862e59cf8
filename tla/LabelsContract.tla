---------------------------- MODULE LabelsContract ----------------------------
(***************************************************************************)
(* What the label catalogue promises its callers, however its gestures     *)
(* interleave: each one happens at a single moment, whole, on labels and   *)
(* files that are there at that moment, or leaves the catalogue as it is.  *)
(* It is what the repository's README says of CreateLabel, UpdateLabel,    *)
(* DeleteLabel and SetFileLabels.                                          *)
(***************************************************************************)

CONSTANTS File, Label, Name,
          Unused  \* what a label that is not there has for a name

VARIABLES
  files,  \* the files there are
  name,   \* the name of each label
  links   \* <<file, label>>: the labels on each file

contractVars == <<files, name, links>>

ContractInit ==
  /\ files = File
  /\ name = [l \in Label |-> Unused]
  /\ links = {}

(* A new name is no label's; a create may be of a label that is there. *)
Create(l, n) ==
  /\ \A m \in Label : name[m] # n
  /\ name' = [name EXCEPT ![l] = n]
  /\ UNCHANGED <<files, links>>

Rename(l, n) ==
  /\ name[l] \in Name
  /\ \A m \in Label \ {l} : name[m] # n
  /\ name' = [name EXCEPT ![l] = n]
  /\ UNCHANGED <<files, links>>

(* The labels of a file become those asked for: all of them, and no other. *)
Assign(f, wanted) ==
  /\ f \in files
  /\ \A l \in wanted : name[l] \in Name
  /\ links' = {link \in links : link[1] # f} \cup ({f} \X wanted)
  /\ UNCHANGED <<files, name>>

(* No file keeps a label that goes, nor a file that goes its labels. *)
Delete(l) ==
  /\ name[l] \in Name
  /\ name' = [name EXCEPT ![l] = Unused]
  /\ links' = {link \in links : link[2] # l}
  /\ UNCHANGED files

Remove(f) ==
  /\ f \in files
  /\ files' = files \ {f}
  /\ links' = {link \in links : link[1] # f}
  /\ UNCHANGED name

ContractNext ==
  \/ \E l \in Label, n \in Name : Create(l, n) \/ Rename(l, n)
  \/ \E f \in File, wanted \in SUBSET Label : Assign(f, wanted)
  \/ \E l \in Label : Delete(l)
  \/ \E f \in File : Remove(f)

ContractSpec == ContractInit /\ [][ContractNext]_contractVars
=============================================================================
