---------------------------- MODULE ChainContract ----------------------------
(***************************************************************************)
(* What a processing chain promises of a file, whatever jobs, messages and *)
(* crashes it takes: the steps of the snapshot run one at a time and in    *)
(* order, the next one only after the previous one was reported done; the  *)
(* file is READY only past the last step; any failure, cancel or freeze    *)
(* ends the chain, and a chain that ended starts again at its first step.  *)
(* It is the contract of the section "The chain, one step at a time" of    *)
(* the repository's README.                                                *)
(***************************************************************************)
EXTENDS Naturals

CONSTANT MaxSteps  \* bound: steps of a chain

VARIABLES
  phase,    \* "idle", "waiting" for the source, "running" a step, "held" between two, "gone"
  step,     \* the step the chain is at, from 0
  length,   \* the number of steps of the chain
  outcome   \* how the last chain ended; "none" while one runs

contractVars == <<phase, step, length, outcome>>

ContractInit ==
  /\ phase = "idle"
  /\ step = 0
  /\ length = 0
  /\ outcome = "ready"

Start ==
  /\ phase = "idle"
  /\ phase' \in {"waiting", "running"}
  /\ step' = 0
  /\ length' \in 1..MaxSteps
  /\ outcome' = "none"

SourceReady ==
  /\ phase = "waiting"
  /\ phase' = "running"
  /\ UNCHANGED <<step, length, outcome>>

StepDone ==
  /\ phase = "running"
  /\ step + 1 < length
  /\ phase' = "held"
  /\ UNCHANGED <<step, length, outcome>>

NextStep ==
  /\ phase = "held"
  /\ phase' = "running"
  /\ step' = step + 1
  /\ UNCHANGED <<length, outcome>>

LastStepDone ==
  /\ phase = "running"
  /\ step + 1 >= length
  /\ phase' = "idle"
  /\ outcome' = "ready"
  /\ UNCHANGED <<step, length>>

Stop ==
  /\ phase \in {"waiting", "running", "held"}
  /\ phase' = "idle"
  /\ outcome' = "failed"
  /\ UNCHANGED <<step, length>>

Remove ==
  /\ phase # "gone"
  /\ phase' = "gone"
  /\ step' = 0
  /\ length' = 0
  /\ outcome' = "none"

ContractNext ==
  \/ Start \/ SourceReady \/ StepDone \/ NextStep \/ LastStepDone \/ Stop \/ Remove

ContractSpec == ContractInit /\ [][ContractNext]_contractVars
=============================================================================
