--------------------------- MODULE CatalogueProofs ---------------------------
(***************************************************************************)
(* Proofs about Catalogue, for any pods, runner types, number of changes   *)
(* and number of faults.                                                   *)
(*                                                                         *)
(* That the copy is current once every watch is followed to its end says   *)
(* nothing of the states on the way, where it may read as anything.  IInv  *)
(* says of each pod that what its watch has yet to give ends with what the *)
(* bucket holds, and of each type that the copy reads as the bucket does   *)
(* or a pod is still to write it.                                          *)
(***************************************************************************)
EXTENDS Catalogue, SequenceTheorems, TLAPS

(* The watch of p has yet to give a change of the type. *)
Changed(p, type) == \E i \in DOMAIN pods[p].queue : pods[p].queue[i].type = type

(* A pod without a watch has nothing to be given. *)
PausedUnwatched == \A p \in Pod : pods[p].at = "paused" => pods[p].queue = <<>>

(* The last change of a type that a watch has yet to give is what the bucket
   holds. *)
QueuesEndCurrent ==
  \A p \in Pod : \A i \in DOMAIN pods[p].queue :
    LET change == pods[p].queue[i]
    IN \/ bucket[change.type] = change.entry
       \/ \E j \in DOMAIN pods[p].queue : j > i /\ pods[p].queue[j].type = change.type

(* What a pod scanned of a type is what the bucket holds, unless its watch
   has yet to give a change of it. *)
ScanCurrent ==
  \A p \in Pod, type \in Type :
    \/ Changed(p, type)
    \/ pods[p].at \in {"paused", "live"}
    \/ pods[p].at = "scan" /\ type \in pods[p].todo
    \/ pods[p].entries[type] = bucket[type]

(* No type counts as taken before the scan is applied. *)
PresentWhenApplied == \A p \in Pod : pods[p].at \in {"paused", "scan"} => pods[p].present = {}

(* The copy took what the scan found of each type, or is still to. *)
AppliedAsScanned ==
  \A p \in Pod, type \in Type :
    pods[p].at = "apply" =>
      /\ type \in pods[p].present => Parse(pods[p].entries[type]) # "none"
      /\ type \notin pods[p].present \cup pods[p].todo => Parse(pods[p].entries[type]) = "none"

(* The pod is still to write the type, and the last value it writes is the one
   the bucket holds now. *)
Owes(p, type) ==
  \/ pods[p].at \in {"paused", "scan"}
  \/ Changed(p, type)
  \/ pods[p].at = "apply" /\ type \notin pods[p].present

CurrentOrOwed ==
  \A type \in Type : copy[type] = Parse(bucket[type]) \/ \E p \in Pod : Owes(p, type)

IInv ==
  /\ TypeOK
  /\ PausedUnwatched
  /\ QueuesEndCurrent
  /\ ScanCurrent
  /\ PresentWhenApplied
  /\ AppliedAsScanned
  /\ CurrentOrOwed

(* The fields of a pod's record are of their types. *)
LEMMA SyncFields ==
  ASSUME TypeOK, NEW p \in Pod
  PROVE  /\ pods[p] \in Sync
         /\ pods[p].at \in {"paused", "scan", "apply", "live"}
         /\ pods[p].todo \in SUBSET Type
         /\ pods[p].entries \in [Type -> Entry]
         /\ pods[p].present \in SUBSET Type
         /\ pods[p].queue \in Seq(Change)
  BY DEF TypeOK, Sync

(* What the copy takes of an entry is a value of the copy. *)
LEMMA ParseKnown == \A entry \in Entry : Parse(entry) \in Known
  BY DEF Parse, Known, Entry

(* The state of a pod at its start is of its type. *)
LEMMA PausedSync == Paused \in Sync
<1>1. <<>> \in Seq(Change)
  OBVIOUS
<1> QED
  BY <1>1 DEF Paused, Sync, Entry

(* The invariant holds at first: every pod is still to write every type. *)
LEMMA InitIInv == Init => IInv
<1> SUFFICES ASSUME Init PROVE IInv
  OBVIOUS
<1>1. TypeOK
  BY PausedSync, CatalogueAssumption DEF Init, TypeOK, Entry, Known
<1>2. \A p \in Pod : pods[p] = Paused
  BY DEF Init
<1>3. PausedUnwatched /\ QueuesEndCurrent /\ ScanCurrent /\ PresentWhenApplied /\ AppliedAsScanned
  BY <1>2 DEF Paused, PausedUnwatched, QueuesEndCurrent, ScanCurrent, PresentWhenApplied,
     AppliedAsScanned
<1>4. CurrentOrOwed
  <2>1. PICK p \in Pod : TRUE
    BY CatalogueAssumption
  <2> QED
    BY <1>2, <2>1 DEF CurrentOrOwed, Owes, Paused
<1> QED
  BY <1>1, <1>3, <1>4 DEF IInv

(* A change Jobs makes is the last one every open watch has to give, and owed
   by every pod. *)
LEMMA JobsPublishesIInv ==
  ASSUME IInv, NEW type \in Type, NEW entry \in Entry, JobsPublishes(type, entry)
  PROVE  IInv'
<1> DEFINE change == [type |-> type, entry |-> entry]
<1>1. change \in Change
  BY DEF Change
<1>2. \A p \in Pod :
        /\ pods'[p] \in Sync
        /\ pods'[p].at = pods[p].at /\ pods'[p].todo = pods[p].todo
        /\ pods'[p].entries = pods[p].entries /\ pods'[p].present = pods[p].present
        /\ pods'[p].queue = IF pods[p].at = "paused" THEN <<>>
                            ELSE Append(pods[p].queue, change)
  <2> SUFFICES ASSUME NEW p \in Pod
               PROVE  /\ pods'[p] \in Sync
                      /\ pods'[p].at = pods[p].at /\ pods'[p].todo = pods[p].todo
                      /\ pods'[p].entries = pods[p].entries
                      /\ pods'[p].present = pods[p].present
                      /\ pods'[p].queue = IF pods[p].at = "paused" THEN <<>>
                                          ELSE Append(pods[p].queue, change)
    OBVIOUS
  <2>1. pods[p] \in Sync /\ pods[p].queue \in Seq(Change)
    BY SyncFields DEF IInv
  <2> DEFINE queue == Append(pods[p].queue, change)
  <2>2. queue \in Seq(Change)
    BY <1>1, <2>1, AppendProperties
  <2>3. pods'[p] = IF pods[p].at = "paused" THEN pods[p] ELSE [pods[p] EXCEPT !.queue = queue]
    BY DEF JobsPublishes, Watching
  <2>4. pods[p].at = "paused" => pods[p].queue = <<>>
    BY DEF IInv, PausedUnwatched
  <2> HIDE DEF queue
  <2>5. CASE pods[p].at = "paused"
    BY <2>1, <2>3, <2>4, <2>5
  <2>6. CASE pods[p].at # "paused"
    BY <2>1, <2>2, <2>3, <2>6 DEF Sync, queue
  <2> QED
    BY <2>5, <2>6
<1>3. TypeOK'
  <2>1. pods' = [p \in Pod |-> pods'[p]]
    BY DEF JobsPublishes
  <2>2. pods' \in [Pod -> Sync]
    BY <1>2, <2>1
  <2> QED
    BY <2>2, CatalogueAssumption DEF IInv, TypeOK, JobsPublishes
<1>4. \A p \in Pod : pods[p].at # "paused" =>
        /\ DOMAIN pods'[p].queue = 1..(Len(pods[p].queue) + 1)
        /\ DOMAIN pods[p].queue = 1..Len(pods[p].queue)
        /\ Len(pods[p].queue) \in Nat
        /\ \A i \in DOMAIN pods[p].queue : pods'[p].queue[i] = pods[p].queue[i]
        /\ pods'[p].queue[Len(pods[p].queue) + 1] = change
  <2> SUFFICES ASSUME NEW p \in Pod, pods[p].at # "paused"
               PROVE  /\ DOMAIN pods'[p].queue = 1..(Len(pods[p].queue) + 1)
                      /\ DOMAIN pods[p].queue = 1..Len(pods[p].queue)
                      /\ Len(pods[p].queue) \in Nat
                      /\ \A i \in DOMAIN pods[p].queue : pods'[p].queue[i] = pods[p].queue[i]
                      /\ pods'[p].queue[Len(pods[p].queue) + 1] = change
    OBVIOUS
  <2> DEFINE queue == pods[p].queue
  <2>1. queue \in Seq(Change) /\ pods'[p].queue = Append(queue, change)
    BY <1>2, SyncFields DEF IInv
  <2> HIDE DEF queue, change
  <2>2. /\ Append(queue, change) \in Seq(Change)
        /\ Len(Append(queue, change)) = Len(queue) + 1
        /\ \A i \in 1..Len(queue) : Append(queue, change)[i] = queue[i]
        /\ Append(queue, change)[Len(queue) + 1] = change
    BY <1>1, <2>1, AppendProperties
  <2>3. /\ DOMAIN queue = 1..Len(queue) /\ Len(queue) \in Nat
        /\ DOMAIN Append(queue, change) = 1..Len(Append(queue, change))
    BY <2>1, <2>2
  <2> QED
    BY <2>1, <2>2, <2>3 DEF queue
<1>5. bucket' = [bucket EXCEPT ![type] = entry] /\ UNCHANGED copy
  BY DEF JobsPublishes
<1>6. PausedUnwatched'
  BY <1>2 DEF PausedUnwatched
<1>7. QueuesEndCurrent'
  <2> SUFFICES ASSUME NEW p \in Pod, NEW i \in DOMAIN pods'[p].queue
               PROVE  \/ bucket'[pods'[p].queue[i].type] = pods'[p].queue[i].entry
                      \/ \E j \in DOMAIN pods'[p].queue :
                           j > i /\ pods'[p].queue[j].type = pods'[p].queue[i].type
    BY DEF QueuesEndCurrent
  <2>1. pods[p].at # "paused"
    BY <1>2
  <2>2. CASE i = Len(pods[p].queue) + 1
    BY <2>1, <2>2, <1>4, <1>5 DEF IInv, TypeOK
  <2>3. CASE i # Len(pods[p].queue) + 1
    <3>1. i \in DOMAIN pods[p].queue /\ pods'[p].queue[i] = pods[p].queue[i]
      BY <2>1, <2>3, <1>4
    <3>2. CASE pods[p].queue[i].type = type
      BY <2>1, <3>1, <3>2, <1>4
    <3>3. CASE pods[p].queue[i].type # type
      BY <2>1, <3>1, <3>3, <1>4, <1>5 DEF IInv, QueuesEndCurrent, TypeOK
    <3> QED
      BY <3>2, <3>3
  <2> QED
    BY <2>2, <2>3
<1>8. \A p \in Pod, tau \in Type :
        /\ Changed(p, tau) => Changed(p, tau)'
        /\ pods[p].at # "paused" => Changed(p, type)'
  <2> SUFFICES ASSUME NEW p \in Pod, pods[p].at # "paused"
               PROVE  /\ \A tau \in Type : Changed(p, tau) => Changed(p, tau)'
                      /\ Changed(p, type)'
    BY DEF Changed, IInv, PausedUnwatched
  <2> QED
    BY <1>4 DEF Changed
<1>9. ScanCurrent' /\ PresentWhenApplied' /\ AppliedAsScanned'
  BY <1>2, <1>5, <1>8 DEF IInv, TypeOK, ScanCurrent, PresentWhenApplied, AppliedAsScanned
<1>10. CurrentOrOwed'
  <2>1. \A p \in Pod, tau \in Type : Owes(p, tau) => Owes(p, tau)'
    BY <1>2, <1>8 DEF Owes
  <2>2. \A p \in Pod : Owes(p, type)'
    BY <1>2, <1>8 DEF Owes
  <2>3. Pod # {}
    BY CatalogueAssumption
  <2> QED
    BY <2>1, <2>2, <2>3, <1>5 DEF IInv, TypeOK, CurrentOrOwed
<1> QED
  BY <1>3, <1>6, <1>7, <1>9, <1>10 DEF IInv

(* What a watch has yet to give once it gave its first change. *)
LEMMA TailOfQueue ==
  ASSUME NEW queue \in Seq(Change), queue # <<>>
  PROVE  /\ Len(queue) \in Nat \ {0} /\ DOMAIN queue = 1..Len(queue)
         /\ Tail(queue) \in Seq(Change)
         /\ DOMAIN Tail(queue) = 1..(Len(queue) - 1)
         /\ \A i \in DOMAIN Tail(queue) : Tail(queue)[i] = queue[i + 1]
         /\ Head(queue) = queue[1] /\ Head(queue) \in Change
<1>1. Len(queue) \in Nat \ {0} /\ DOMAIN queue = 1..Len(queue)
  OBVIOUS
<1>2. /\ Tail(queue) \in Seq(Change) /\ Len(Tail(queue)) = Len(queue) - 1
      /\ \A i \in 1..Len(Tail(queue)) : Tail(queue)[i] = queue[i + 1]
      /\ Head(queue) \in Change
  BY HeadTailProperties
<1>3. DOMAIN Tail(queue) = 1..Len(Tail(queue))
  BY <1>2
<1>4. Head(queue) = queue[1]
  OBVIOUS
<1> QED
  BY <1>1, <1>2, <1>3, <1>4

(* A step of one pod keeps the invariant if what it leaves in that pod does,
   and if the copy is right about each type, is still owed it by that pod, or
   is left as it was by a pod that did not owe it. *)
LEMMA StepOfPod ==
  ASSUME IInv, NEW p \in Pod,
         \A q \in Pod \ {p} : pods'[q] = pods[q],
         TypeOK', UNCHANGED bucket,
         pods'[p].at = "paused" => pods'[p].queue = <<>>,
         pods'[p].at \in {"paused", "scan"} => pods'[p].present = {},
         \/ pods'[p].queue = pods[p].queue
         \/ pods'[p].queue = <<>>
         \/ pods[p].queue # <<>> /\ pods'[p].queue = Tail(pods[p].queue),
         \A type \in Type :
           \/ Changed(p, type)'
           \/ pods'[p].at \in {"paused", "live"}
           \/ pods'[p].at = "scan" /\ type \in pods'[p].todo
           \/ pods'[p].entries[type] = bucket[type],
         \A type \in Type :
           pods'[p].at = "apply" =>
             /\ type \in pods'[p].present => Parse(pods'[p].entries[type]) # "none"
             /\ type \notin pods'[p].present \cup pods'[p].todo
                  => Parse(pods'[p].entries[type]) = "none",
         \A type \in Type :
           \/ copy'[type] = Parse(bucket[type])
           \/ Owes(p, type)'
           \/ copy'[type] = copy[type] /\ ~Owes(p, type)
  PROVE  IInv'
<1> USE DEF IInv
<1>1. PausedUnwatched'
  BY DEF PausedUnwatched
<1>2. QueuesEndCurrent'
  <2> SUFFICES ASSUME NEW q \in Pod, NEW i \in DOMAIN pods'[q].queue
               PROVE  \/ bucket[pods'[q].queue[i].type] = pods'[q].queue[i].entry
                      \/ \E j \in DOMAIN pods'[q].queue :
                           j > i /\ pods'[q].queue[j].type = pods'[q].queue[i].type
    BY DEF QueuesEndCurrent
  <2>1. CASE pods'[q].queue = pods[q].queue
    BY <2>1 DEF QueuesEndCurrent
  <2>2. CASE pods'[q].queue # pods[q].queue
    <3>1. q = p /\ pods[p].queue # <<>> /\ pods'[p].queue = Tail(pods[p].queue)
      BY <2>2
    <3> DEFINE queue == pods[p].queue
    <3>2. queue \in Seq(Change)
      BY SyncFields
    <3>3. \A k \in DOMAIN queue : \/ bucket[queue[k].type] = queue[k].entry
                                  \/ \E j \in DOMAIN queue : j > k /\ queue[j].type = queue[k].type
      BY DEF QueuesEndCurrent
    <3> HIDE DEF queue
    <3>4. /\ Len(queue) \in Nat /\ DOMAIN queue = 1..Len(queue)
          /\ DOMAIN Tail(queue) = 1..(Len(queue) - 1)
          /\ \A k \in DOMAIN Tail(queue) : Tail(queue)[k] = queue[k + 1]
      BY <3>1, <3>2, TailOfQueue DEF queue
    <3>5. i \in DOMAIN Tail(queue)
      BY <3>1 DEF queue
    <3>6. CASE bucket[queue[i + 1].type] = queue[i + 1].entry
      BY <3>1, <3>4, <3>5, <3>6 DEF queue
    <3>7. CASE \E j \in DOMAIN queue : j > i + 1 /\ queue[j].type = queue[i + 1].type
      <4>1. PICK j \in DOMAIN queue : j > i + 1 /\ queue[j].type = queue[i + 1].type
        BY <3>7
      <4>2. j - 1 \in DOMAIN Tail(queue) /\ j - 1 > i /\ Tail(queue)[j - 1] = queue[j]
        BY <3>4, <3>5, <4>1
      <4> QED
        BY <3>1, <3>4, <3>5, <4>1, <4>2 DEF queue
    <3> QED
      BY <3>3, <3>4, <3>5, <3>6, <3>7
  <2> QED
    BY <2>1, <2>2
<1>3. \A q \in Pod \ {p}, type \in Type :
        (Changed(q, type)' <=> Changed(q, type)) /\ (Owes(q, type)' <=> Owes(q, type))
  BY DEF Changed, Owes
<1>4. PresentWhenApplied'
  BY DEF PresentWhenApplied
<1>5. ScanCurrent'
  <2> SUFFICES ASSUME NEW q \in Pod, NEW type \in Type
               PROVE  \/ Changed(q, type)'
                      \/ pods'[q].at \in {"paused", "live"}
                      \/ pods'[q].at = "scan" /\ type \in pods'[q].todo
                      \/ pods'[q].entries[type] = bucket[type]
    BY DEF ScanCurrent
  <2> QED
    BY <1>3 DEF ScanCurrent
<1>6. AppliedAsScanned'
  BY DEF AppliedAsScanned
<1>7. CurrentOrOwed'
  <2> SUFFICES ASSUME NEW type \in Type, copy'[type] # Parse(bucket[type])
               PROVE  \E q \in Pod : Owes(q, type)'
    BY DEF CurrentOrOwed
  <2>1. CASE Owes(p, type)'
    BY <2>1
  <2>2. CASE copy'[type] = copy[type] /\ ~Owes(p, type)
    <3>1. PICK q \in Pod : Owes(q, type)
      BY <2>2 DEF CurrentOrOwed
    <3> QED
      BY <1>3, <2>2, <3>1
  <2> QED
    BY <2>1, <2>2
<1> QED
  BY <1>1, <1>2, <1>4, <1>5, <1>6, <1>7

(* A watch that opens, or starts again after a fault, owes every type. *)
LEMMA OpenWatchIInv ==
  ASSUME IInv, NEW p \in Pod, OpenWatch(p)
  PROVE  IInv'
<1>1. pods[p] \in Sync
  BY SyncFields DEF IInv
<1>2. pods' = [pods EXCEPT ![p].at = "scan", ![p].todo = Type] /\ UNCHANGED <<bucket, copy>>
  BY DEF OpenWatch
<1>3. /\ pods'[p] \in Sync
      /\ \A q \in Pod \ {p} : pods'[q] = pods[q]
      /\ pods'[p].at = "scan" /\ pods'[p].todo = Type
      /\ pods'[p].present = {} /\ pods'[p].queue = pods[p].queue
  <2>1. pods[p].present = {}
    BY DEF IInv, PresentWhenApplied, OpenWatch
  <2> QED
    BY <1>1, <1>2, <2>1 DEF Sync, IInv, TypeOK
<1>4. TypeOK'
  BY <1>1, <1>3 DEF IInv, TypeOK, OpenWatch
<1>5. \A type \in Type : Owes(p, type)'
  BY <1>3 DEF Owes
<1> QED
  BY <1>2, <1>3, <1>4, <1>5, StepOfPod

(* The same after a fault, wherever the pod was. *)
LEMMA PausedIInv ==
  ASSUME IInv, NEW p \in Pod, pods' = [pods EXCEPT ![p] = Paused],
         UNCHANGED <<bucket, changes, copy>>, faults' \in 0..MaxFaults
  PROVE  IInv'
<1>1. /\ \A q \in Pod \ {p} : pods'[q] = pods[q]
      /\ pods'[p].at = "paused" /\ pods'[p].queue = <<>> /\ pods'[p].present = {}
  BY DEF IInv, TypeOK, Paused
<1>2. TypeOK'
  BY PausedSync DEF IInv, TypeOK
<1>3. \A type \in Type : Owes(p, type)'
  BY <1>1 DEF Owes
<1> QED
  BY <1>1, <1>2, <1>3, StepOfPod

(* An entry is scanned as the bucket holds it. *)
LEMMA ScanEntryIInv ==
  ASSUME IInv, NEW p \in Pod, ScanEntry(p)
  PROVE  IInv'
<1>1. PICK type \in pods[p].todo :
        pods' = IF bucket[type] = "garbled" THEN [pods EXCEPT ![p] = Paused]
                ELSE [pods EXCEPT ![p].todo = @ \ {type}, ![p].entries[type] = bucket[type]]
  BY DEF ScanEntry
<1>2. UNCHANGED <<bucket, changes, copy, faults>> /\ pods[p].at = "scan"
  BY DEF ScanEntry
<1>3. CASE bucket[type] = "garbled"
  BY <1>1, <1>2, <1>3, PausedIInv DEF IInv, TypeOK
<1>4. CASE bucket[type] # "garbled"
  <2>1. /\ pods[p] \in Sync /\ pods[p].todo \in SUBSET Type
        /\ pods[p].entries \in [Type -> Entry] /\ type \in Type /\ bucket \in [Type -> Entry]
        /\ pods \in [Pod -> Sync]
    BY <1>1, SyncFields DEF IInv, TypeOK
  <2> DEFINE todo == pods[p].todo \ {type}
             entries == [pods[p].entries EXCEPT ![type] = bucket[type]]
  <2>2. pods' = [pods EXCEPT ![p] = [pods[p] EXCEPT !.todo = todo, !.entries = entries]]
    BY <1>1, <1>4, <2>1 DEF Sync
  <2>3. todo \in SUBSET Type /\ entries \in [Type -> Entry]
    BY <2>1
  <2>4. \A tau \in Type : entries[tau] = IF tau = type THEN bucket[type] ELSE pods[p].entries[tau]
    BY <2>1
  <2>5. todo = pods[p].todo \ {type}
    OBVIOUS
  <2> HIDE DEF todo, entries
  <2>6. /\ pods'[p] \in Sync
        /\ \A q \in Pod \ {p} : pods'[q] = pods[q]
        /\ pods'[p].at = "scan" /\ pods'[p].todo = todo /\ pods'[p].entries = entries
        /\ pods'[p].present = {} /\ pods'[p].queue = pods[p].queue
    BY <1>2, <2>1, <2>2, <2>3 DEF Sync, IInv, PresentWhenApplied
  <2>7. TypeOK'
    BY <1>2, <2>1, <2>2, <2>6 DEF IInv, TypeOK
  <2>8. \A tau \in Type : Owes(p, tau)'
    BY <2>6 DEF Owes
  <2>9. \A tau \in Type : Changed(p, tau)' <=> Changed(p, tau)
    BY <2>6 DEF Changed
  <2>10. \A tau \in Type : \/ Changed(p, tau)'
                           \/ pods'[p].at = "scan" /\ tau \in pods'[p].todo
                           \/ pods'[p].entries[tau] = bucket[tau]
    BY <1>2, <2>4, <2>5, <2>6, <2>9 DEF IInv, ScanCurrent
  <2> QED
    BY <1>2, <2>6, <2>7, <2>8, <2>10, StepOfPod
<1> QED
  BY <1>3, <1>4

(* Once its scan is done a pod is to take every entry it found. *)
LEMMA ScannedIInv ==
  ASSUME IInv, NEW p \in Pod, Scanned(p)
  PROVE  IInv'
<1> DEFINE found == {type \in Type : pods[p].entries[type] # "none"}
<1>1. /\ pods[p] \in Sync /\ pods \in [Pod -> Sync]
      /\ pods[p].at = "scan" /\ pods[p].todo = {} /\ found \in SUBSET Type
  BY SyncFields DEF IInv, TypeOK, Scanned
<1>2. /\ pods' = [pods EXCEPT ![p] = [pods[p] EXCEPT !.at = "apply", !.todo = found]]
      /\ UNCHANGED <<bucket, changes, copy, faults>>
  BY <1>1 DEF Scanned, Sync
<1>3. \A type \in Type : type \notin found => Parse(pods[p].entries[type]) = "none"
  BY DEF Parse, Known
<1>4. pods[p].present = {}
  BY <1>1 DEF IInv, PresentWhenApplied
<1> HIDE DEF found
<1>5. /\ pods'[p] \in Sync
      /\ \A q \in Pod \ {p} : pods'[q] = pods[q]
      /\ pods'[p].at = "apply" /\ pods'[p].todo = found
      /\ pods'[p].entries = pods[p].entries /\ pods'[p].present = {}
      /\ pods'[p].queue = pods[p].queue
  BY <1>1, <1>2, <1>4 DEF Sync
<1>6. TypeOK'
  BY <1>1, <1>2, <1>5 DEF IInv, TypeOK
<1>7. \A type \in Type : Owes(p, type)'
  BY <1>5 DEF Owes
<1>8. \A type \in Type : Changed(p, type)' <=> Changed(p, type)
  BY <1>5 DEF Changed
<1>9. \A type \in Type : Changed(p, type)' \/ pods'[p].entries[type] = bucket[type]
  BY <1>1, <1>5, <1>8 DEF IInv, ScanCurrent
<1> QED
  BY <1>2, <1>3, <1>5, <1>6, <1>7, <1>9, StepOfPod

(* An entry the copy takes is the one the bucket holds, unless the watch has
   yet to give a change of it. *)
LEMMA ApplyPutIInv ==
  ASSUME IInv, NEW p \in Pod, ApplyPut(p)
  PROVE  IInv'
<1>1. PICK type \in pods[p].todo :
        /\ Apply(type, pods[p].entries[type])
        /\ pods' = [pods EXCEPT ![p].todo = @ \ {type},
                                ![p].present = IF Parse(pods[p].entries[type]) # "none"
                                               THEN @ \cup {type} ELSE @]
  BY DEF ApplyPut
<1>2. /\ pods[p] \in Sync /\ pods \in [Pod -> Sync]
      /\ pods[p].todo \in SUBSET Type /\ pods[p].present \in SUBSET Type
      /\ pods[p].entries \in [Type -> Entry] /\ copy \in [Type -> Known]
      /\ pods[p].at = "apply" /\ type \in Type
      /\ UNCHANGED <<bucket, changes, faults>>
  BY SyncFields DEF IInv, TypeOK, ApplyPut
<1> DEFINE entry == pods[p].entries[type]
           todo == pods[p].todo \ {type}
           present == IF Parse(entry) # "none" THEN pods[p].present \cup {type}
                      ELSE pods[p].present
<1>3. pods' = [pods EXCEPT ![p] = [pods[p] EXCEPT !.todo = todo, !.present = present]]
  BY <1>1, <1>2 DEF Sync
<1>4. todo \in SUBSET Type /\ present \in SUBSET Type
  BY <1>2
<1>5. /\ copy' \in [Type -> Known]
      /\ copy'[type] = Parse(entry)
      /\ \A tau \in Type \ {type} : copy'[tau] = copy[tau]
  BY <1>1, <1>2, ParseKnown DEF Apply
<1>6. /\ \A tau \in Type \ {type} : /\ (tau \in todo <=> tau \in pods[p].todo)
                                     /\ (tau \in present <=> tau \in pods[p].present)
      /\ type \in present => Parse(entry) # "none"
      /\ type \notin present => Parse(entry) = "none"
  BY <1>2 DEF IInv, AppliedAsScanned
<1> HIDE DEF todo, present
<1>7. /\ pods'[p] \in Sync
      /\ \A q \in Pod \ {p} : pods'[q] = pods[q]
      /\ pods'[p].at = "apply" /\ pods'[p].todo = todo /\ pods'[p].present = present
      /\ pods'[p].entries = pods[p].entries /\ pods'[p].queue = pods[p].queue
  BY <1>2, <1>3, <1>4 DEF Sync
<1>8. TypeOK'
  BY <1>2, <1>3, <1>5, <1>7 DEF IInv, TypeOK
<1>9. \A tau \in Type : Changed(p, tau)' <=> Changed(p, tau)
  BY <1>7 DEF Changed
<1>10. \A tau \in Type : Changed(p, tau)' \/ pods'[p].entries[tau] = bucket[tau]
  BY <1>2, <1>7, <1>9 DEF IInv, ScanCurrent
<1>11. \A tau \in Type :
         /\ tau \in present => Parse(pods'[p].entries[tau]) # "none"
         /\ tau \notin present \cup todo => Parse(pods'[p].entries[tau]) = "none"
  BY <1>2, <1>6, <1>7 DEF IInv, AppliedAsScanned
<1>12. \A tau \in Type :
         \/ copy'[tau] = Parse(bucket[tau])
         \/ Owes(p, tau)'
         \/ copy'[tau] = copy[tau] /\ ~Owes(p, tau)
  <2>1. copy'[type] = Parse(bucket[type]) \/ Owes(p, type)'
    BY <1>2, <1>5, <1>7, <1>10 DEF Owes
  <2>2. \A tau \in Type \ {type} : Owes(p, tau)' <=> Owes(p, tau)
    BY <1>2, <1>6, <1>7, <1>9 DEF Owes
  <2> QED
    BY <1>5, <2>1, <2>2
<1> QED
  BY <1>2, <1>7, <1>8, <1>10, <1>11, <1>12, StepOfPod

(* The types the scan did not find are forgotten: the bucket does not hold
   them, unless the watch has yet to give a change of them. *)
LEMMA RetainIInv ==
  ASSUME IInv, NEW p \in Pod, Retain(p)
  PROVE  IInv'
<1>1. /\ pods[p] \in Sync /\ pods \in [Pod -> Sync] /\ pods[p].queue \in Seq(Change)
      /\ copy \in [Type -> Known]
      /\ pods[p].at = "apply" /\ pods[p].todo = {}
      /\ pods' = [pods EXCEPT ![p] = [Paused EXCEPT !.at = "live", !.queue = pods[p].queue]]
      /\ copy' = Retained(p)
      /\ UNCHANGED <<bucket, changes, faults>>
  BY SyncFields DEF IInv, TypeOK, Retain
<1>2. /\ pods'[p] \in Sync
      /\ \A q \in Pod \ {p} : pods'[q] = pods[q]
      /\ pods'[p].at = "live" /\ pods'[p].queue = pods[p].queue
  BY <1>1, PausedSync DEF Sync, Paused
<1>3. /\ copy' \in [Type -> Known]
      /\ \A type \in Type : copy'[type] = IF type \in pods[p].present THEN copy[type] ELSE "none"
  BY <1>1 DEF Retained, Known
<1>4. TypeOK'
  BY <1>1, <1>2, <1>3 DEF IInv, TypeOK
<1>5. \A type \in Type : Changed(p, type)' <=> Changed(p, type)
  BY <1>2 DEF Changed
<1>6. \A type \in Type :
        \/ copy'[type] = Parse(bucket[type])
        \/ Owes(p, type)'
        \/ copy'[type] = copy[type] /\ ~Owes(p, type)
  <2> SUFFICES ASSUME NEW type \in Type, ~Changed(p, type)
               PROVE  \/ copy'[type] = Parse(bucket[type])
                      \/ copy'[type] = copy[type] /\ ~Owes(p, type)
    BY <1>5 DEF Owes, Changed
  <2>1. CASE type \in pods[p].present
    BY <1>1, <1>3, <2>1 DEF Owes
  <2>2. CASE type \notin pods[p].present
    <3>1. pods[p].entries[type] = bucket[type]
      BY <1>1 DEF IInv, ScanCurrent
    <3>2. Parse(pods[p].entries[type]) = "none"
      BY <1>1, <2>2 DEF IInv, AppliedAsScanned
    <3> QED
      BY <1>3, <2>2, <3>1, <3>2
  <2> QED
    BY <2>1, <2>2
<1> QED
  BY <1>1, <1>2, <1>4, <1>6, StepOfPod

(* A change the watch gives is the one the bucket holds, or another change of
   its type comes after it. *)
LEMMA FollowWatchIInv ==
  ASSUME IInv, NEW p \in Pod, FollowWatch(p)
  PROVE  IInv'
<1> SUFFICES ASSUME NEW changed, NEW entry,
                    changed = Head(pods[p].queue).type, entry = Head(pods[p].queue).entry
             PROVE  IInv'
  OBVIOUS
<1> DEFINE queue == pods[p].queue
<1>1. /\ pods[p] \in Sync /\ pods \in [Pod -> Sync] /\ queue \in Seq(Change)
      /\ copy \in [Type -> Known] /\ bucket \in [Type -> Entry]
      /\ pods[p].at = "live" /\ queue # <<>>
      /\ Apply(changed, entry)
      /\ UNCHANGED <<bucket, changes, faults>>
  BY SyncFields DEF IInv, TypeOK, FollowWatch
<1>2. pods' = [pods EXCEPT ![p] = [pods[p] EXCEPT !.queue = Tail(queue)]]
  BY <1>1 DEF FollowWatch, Sync
<1>3. \A i \in DOMAIN queue : \/ bucket[queue[i].type] = queue[i].entry
                             \/ \E j \in DOMAIN queue : j > i /\ queue[j].type = queue[i].type
  BY DEF IInv, QueuesEndCurrent
<1> HIDE DEF queue
<1>4. /\ Len(queue) \in Nat \ {0} /\ DOMAIN queue = 1..Len(queue)
      /\ Tail(queue) \in Seq(Change)
      /\ DOMAIN Tail(queue) = 1..(Len(queue) - 1)
      /\ \A i \in DOMAIN Tail(queue) : Tail(queue)[i] = queue[i + 1]
      /\ changed = queue[1].type /\ entry = queue[1].entry
      /\ changed \in Type /\ entry \in Entry
  BY <1>1, TailOfQueue DEF Change, queue
<1>5. /\ pods'[p] \in Sync
      /\ \A q \in Pod \ {p} : pods'[q] = pods[q]
      /\ pods'[p].at = "live" /\ pods'[p].queue = Tail(queue)
  <2> DEFINE rest == Tail(queue)
  <2>1. rest \in Seq(Change)
    BY <1>4
  <2> HIDE DEF rest
  <2>2. [pods[p] EXCEPT !.queue = rest] \in Sync
    BY <1>1, <2>1 DEF Sync
  <2>3. /\ [pods[p] EXCEPT !.queue = rest].at = "live"
        /\ [pods[p] EXCEPT !.queue = rest].queue = rest
    BY <1>1 DEF Sync
  <2>4. pods'[p] = [pods[p] EXCEPT !.queue = rest] /\ \A q \in Pod \ {p} : pods'[q] = pods[q]
    BY <1>1, <1>2 DEF rest
  <2> QED
    BY <2>2, <2>3, <2>4 DEF rest
<1>6. /\ copy' \in [Type -> Known]
      /\ copy'[changed] = Parse(entry)
      /\ \A type \in Type \ {changed} : copy'[type] = copy[type]
  BY <1>1, <1>4, ParseKnown DEF Apply
<1>7. TypeOK'
  <2>1. pods' \in [Pod -> Sync]
    BY <1>1, <1>2, <1>5
  <2> QED
    BY <1>1, <1>6, <2>1 DEF IInv, TypeOK
<1>8. \A type \in Type :
        /\ Owes(p, type)' <=> Changed(p, type)'
        /\ Owes(p, type) <=> Changed(p, type)
  BY <1>1, <1>5 DEF Owes
<1>9. \A type \in Type \ {changed} : Changed(p, type) => Changed(p, type)'
  <2> SUFFICES ASSUME NEW type \in Type \ {changed},
                      NEW i \in DOMAIN queue, queue[i].type = type
               PROVE  \E j \in DOMAIN Tail(queue) : Tail(queue)[j].type = type
    BY <1>5 DEF Changed, queue
  <2>1. i # 1
    BY <1>4
  <2>2. i - 1 \in DOMAIN Tail(queue) /\ Tail(queue)[i - 1] = queue[i]
    BY <1>4, <2>1
  <2> QED
    BY <2>2
<1>10. Changed(p, changed)' \/ bucket[changed] = entry
  <2> SUFFICES ASSUME bucket[changed] # entry
               PROVE  \E j \in DOMAIN Tail(queue) : Tail(queue)[j].type = changed
    BY <1>5 DEF Changed
  <2>1. PICK j \in DOMAIN queue : j > 1 /\ queue[j].type = changed
    BY <1>3, <1>4
  <2>2. j - 1 \in DOMAIN Tail(queue) /\ Tail(queue)[j - 1] = queue[j]
    BY <1>4, <2>1
  <2> QED
    BY <2>1, <2>2
<1>11. \A type \in Type :
         \/ copy'[type] = Parse(bucket[type])
         \/ Owes(p, type)'
         \/ copy'[type] = copy[type] /\ ~Owes(p, type)
  BY <1>6, <1>8, <1>9, <1>10
<1>12. pods'[p].queue = Tail(pods[p].queue) /\ pods[p].queue # <<>>
  BY <1>1, <1>5 DEF queue
<1> QED
  BY <1>1, <1>5, <1>7, <1>11, <1>12, StepOfPod

(* Every step keeps the invariant. *)
LEMMA NextIInv == IInv /\ [Next]_vars => IInv'
<1> SUFFICES ASSUME IInv, [Next]_vars PROVE IInv'
  OBVIOUS
<1>1. ASSUME NEW type \in Type, NEW entry \in Entry, JobsPublishes(type, entry) PROVE IInv'
  BY <1>1, JobsPublishesIInv
<1>2. ASSUME NEW p \in Pod, SyncOnce(p) PROVE IInv'
  BY <1>2, OpenWatchIInv, ScanEntryIInv, ScannedIInv, ApplyPutIInv, RetainIInv, FollowWatchIInv
     DEF SyncOnce
<1>3. ASSUME NEW p \in Pod, Fault(p) PROVE IInv'
  <2>1. faults' \in 0..MaxFaults
    BY <1>3, CatalogueAssumption DEF Fault, IInv, TypeOK
  <2> QED
    BY <1>3, <2>1, PausedIInv DEF Fault
<1>4. CASE UNCHANGED vars
  BY <1>4 DEF vars, IInv, TypeOK, PausedUnwatched, QueuesEndCurrent, ScanCurrent,
     PresentWhenApplied, AppliedAsScanned, CurrentOrOwed, Changed, Owes
<1> QED
  BY <1>1, <1>2, <1>3, <1>4 DEF Next

(* The invariant holds of every reachable state. *)
THEOREM Invariant == Spec => []IInv
  BY InitIInv, NextIInv, PTL DEF Spec

(* The copy, the pods and their watches stay of their types. *)
THEOREM TypeCorrect == Spec => []TypeOK
<1>1. IInv => TypeOK
  BY DEF IInv
<1> QED
  BY <1>1, Invariant, PTL

(* Once every pod has followed its watch to the end, the copy reads as the
   bucket does (catalogue/watch.rs, sync_once): nobody owes it anything. *)
THEOREM CopyCurrent == Spec => []FollowedIsCurrent
<1>1. IInv => FollowedIsCurrent
  <2> SUFFICES ASSUME IInv, \A p \in Pod : pods[p].at = "live" /\ pods[p].queue = <<>>
               PROVE  copy = Catalogue
    BY DEF FollowedIsCurrent
  <2>1. \A p \in Pod, type \in Type : ~Owes(p, type)
    BY DEF Owes, Changed
  <2>2. \A type \in Type : copy[type] = Parse(bucket[type])
    BY <2>1 DEF IInv, CurrentOrOwed
  <2> QED
    BY <2>2 DEF IInv, TypeOK, Catalogue, Parse
<1> QED
  BY <1>1, Invariant, PTL

=============================================================================
