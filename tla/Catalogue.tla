----------------------------- MODULE Catalogue ------------------------------
(***************************************************************************)
(* The copy of Jobs' runner-type catalogue (catalogue/watch.rs): every pod *)
(* of the host opens a watch of the bucket, scans it, then follows the     *)
(* watch, all of them writing the one table drive.known_runner_type.  A    *)
(* fault, or the end of its process, takes a pod back to the start.        *)
(*                                                                         *)
(* The bucket and its watch are external: a scan reads one entry at a      *)
(* time, and a watch gives every change made after it opened, in order.    *)
(* The pause between two attempts is left out, and so is seen_at.          *)
(***************************************************************************)
EXTENDS Naturals, Sequences

CONSTANTS Pod,
          Type,        \* the runner types
          MaxChanges,  \* the changes Jobs makes
          MaxFaults    \* the faults of the watches, all pods together

ASSUME CatalogueAssumption ==
  /\ Pod # {}
  /\ MaxChanges \in Nat /\ MaxFaults \in Nat

(* What the bucket holds under a type's key: "foreign" is an entry parse does
   not trust, "garbled" no JSON at all. *)
Entry == {"none", "active", "deprecated", "foreign", "garbled"}

Known == {"none", "active", "deprecated"}

VARIABLES
  bucket,   \* Jobs' catalogue
  changes,  \* made so far
  copy,     \* drive.known_runner_type
  pods,     \* where each pod's watch is
  faults    \* met so far

vars == <<bucket, changes, copy, pods, faults>>

(* Before its first attempt and after each fault. *)
Paused == [at |-> "paused", todo |-> {}, entries |-> [type \in Type |-> "none"],
           present |-> {}, queue |-> <<>>]

Change == [type : Type, entry : Entry]

Sync == [at : {"paused", "scan", "apply", "live"},
         todo : SUBSET Type,           \* still to scan, or to apply
         entries : [Type -> Entry],    \* what the scan read
         present : SUBSET Type,        \* the types among them the copy took
         queue : Seq(Change)]          \* what the watch has yet to give

TypeOK ==
  /\ bucket \in [Type -> Entry] /\ copy \in [Type -> Known]
  /\ pods \in [Pod -> Sync]
  /\ changes \in 0..MaxChanges /\ faults \in 0..MaxFaults

Init ==
  /\ bucket \in [Type -> {"none", "active"}]
  /\ copy = [type \in Type |-> "none"]
  /\ pods = [p \in Pod |-> Paused]
  /\ changes = 0 /\ faults = 0

-----------------------------------------------------------------------------
(* Mutation: the watch is opened once the scan is applied. *)
WatchOpenedLast(p) == pods[p].at = "live"

Watching(p) == pods[p].at # "paused"

(* Jobs publishes a type, changes it or retires it. *)
JobsPublishes(type, entry) ==
  /\ changes < MaxChanges /\ bucket[type] # entry
  /\ bucket' = [bucket EXCEPT ![type] = entry]
  /\ changes' = changes + 1
  /\ pods' = [p \in Pod |->
       IF Watching(p)
       THEN [pods[p] EXCEPT !.queue = Append(@, [type |-> type, entry |-> entry])]
       ELSE pods[p]]
  /\ UNCHANGED <<copy, faults>>

(* Mutation: an entry of another wire version is taken. *)
Trusted(entry) == IF entry \in {"none", "garbled"} THEN "none" ELSE entry

(* What the copy takes of an entry, forgetting a type it does not trust. *)
Parse(entry) == IF entry \in Known THEN entry ELSE "none"

Apply(type, entry) == copy' = [copy EXCEPT ![type] = Parse(entry)]

OpenWatch(p) ==
  /\ pods[p].at = "paused"
  /\ pods' = [pods EXCEPT ![p].at = "scan", ![p].todo = Type]
  /\ UNCHANGED <<bucket, changes, copy, faults>>

(* The scan gives up on a value that is not JSON. *)
ScanEntry(p) ==
  /\ pods[p].at = "scan"
  /\ \E type \in pods[p].todo :
       pods' = IF bucket[type] = "garbled" THEN [pods EXCEPT ![p] = Paused]
               ELSE [pods EXCEPT ![p].todo = @ \ {type}, ![p].entries[type] = bucket[type]]
  /\ UNCHANGED <<bucket, changes, copy, faults>>

Scanned(p) ==
  /\ pods[p].at = "scan" /\ pods[p].todo = {}
  /\ pods' = [pods EXCEPT ![p].at = "apply",
                          ![p].todo = {type \in Type : pods[p].entries[type] # "none"}]
  /\ UNCHANGED <<bucket, changes, copy, faults>>

ApplyPut(p) ==
  /\ pods[p].at = "apply"
  /\ \E type \in pods[p].todo :
       LET entry == pods[p].entries[type]
       IN /\ Apply(type, entry)
          /\ pods' = [pods EXCEPT ![p].todo = @ \ {type},
                                  ![p].present = IF Parse(entry) # "none" THEN @ \cup {type} ELSE @]
  /\ UNCHANGED <<bucket, changes, faults>>

(* Mutation: what the scan did not find is kept. *)
KeepAll(p) == copy

Retained(p) == [type \in Type |-> IF type \in pods[p].present THEN copy[type] ELSE "none"]

Retain(p) ==
  /\ pods[p].at = "apply" /\ pods[p].todo = {}
  /\ copy' = Retained(p)
  /\ pods' = [pods EXCEPT ![p] = [Paused EXCEPT !.at = "live", !.queue = pods[p].queue]]
  /\ UNCHANGED <<bucket, changes, faults>>

(* A put, a delete, or a value that does not decode. *)
FollowWatch(p) ==
  /\ pods[p].at = "live" /\ pods[p].queue # <<>>
  /\ LET change == Head(pods[p].queue)
     IN Apply(change.type, change.entry)
  /\ pods' = [pods EXCEPT ![p].queue = Tail(@)]
  /\ UNCHANGED <<bucket, changes, faults>>

(* The broker or the database fails, the watch ends, or the pod restarts. *)
Fault(p) ==
  /\ pods[p].at # "paused" /\ faults < MaxFaults
  /\ pods' = [pods EXCEPT ![p] = Paused]
  /\ faults' = faults + 1
  /\ UNCHANGED <<bucket, changes, copy>>

SyncOnce(p) == \/ OpenWatch(p) \/ ScanEntry(p) \/ Scanned(p)
               \/ ApplyPut(p) \/ Retain(p) \/ FollowWatch(p)

Next ==
  \/ \E type \in Type, entry \in Entry : JobsPublishes(type, entry)
  \/ \E p \in Pod : SyncOnce(p) \/ Fault(p)

Spec == Init /\ [][Next]_vars

(* The task of a pod is spawned once and pauses for a minute at most: it
   always takes its next step. *)
FairSpec == Spec /\ \A p \in Pod : WF_vars(SyncOnce(p))

-----------------------------------------------------------------------------
Catalogue == [type \in Type |-> IF bucket[type] \in Known THEN bucket[type] ELSE "none"]

(* Once every pod follows its watch and has nothing left of it, the copy reads
   as the bucket does, whatever changed during the scans and whichever pod
   wrote last (catalogue/watch.rs, sync_once). *)
FollowedIsCurrent ==
  (\A p \in Pod : pods[p].at = "live" /\ pods[p].queue = <<>>) => copy = Catalogue

(* Once Jobs changes its catalogue no more, and unless it left a value there
   that is no JSON, the copy comes to read as it and stays so, whatever faults
   the pods met (README.md, "two pods converge"). *)
CopyConverges ==
  <>[](\A type \in Type : bucket[type] # "garbled") => <>[](copy = Catalogue)
=============================================================================
