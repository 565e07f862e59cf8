----------------------------- MODULE LabelsProofs -----------------------------
(***************************************************************************)
(* Proofs about Labels, for any files, labels, names and transactions.     *)
(*                                                                         *)
(* That a link stands, that names are unique and that the trail tells the  *)
(* links rest on what each gesture still knows of the catalogue while the  *)
(* others write: the file it holds keeps the labels it read, no file gains *)
(* the label it holds, and no name is given while it has the names' lock.  *)
(* TxnInv gathers them.  From it too, Labels implements LabelsContract:    *)
(* what a gesture that commits acts on is held, and so still there.        *)
(***************************************************************************)
EXTENDS Labels, WellFoundedInduction, TLAPS

Transaction ==
  [gesture : Gesture, at : Place, file : File \cup {0}, label : Label \cup {0},
   wanted : SUBSET Label, name : Name \cup {Unused}, todo : SUBSET Nat,
   loaded : SUBSET Nat, current : SUBSET Label]

(* A deletion that has files locked, a save that has the lock of the names. *)
Detaching(t) ==
  \/ txn[t].at \in {"files", "again", "late"}
  \/ txn[t].at = "label" /\ txn[t].gesture = "delete_label"

Naming(t) ==
  \/ txn[t].at \in {"check", "write"}
  \/ txn[t].at = "label" /\ txn[t].gesture # "delete_label"

(* What a transaction is about. *)
WellFormed(t) ==
  /\ txn[t].at \in {"file", "current", "labels"} => txn[t].file \in File
  /\ txn[t].at \in Place \ {"idle", "file", "current", "labels"} => txn[t].label \in Label
  /\ Naming(t) \/ txn[t].at = "names" => txn[t].name \in Name /\ txn[t].gesture # "delete_label"
  /\ txn[t].at = "seen" => txn[t].gesture = "delete_label"
  /\ txn[t].at = "files" => txn[t].gesture = "delete_label"
  /\ txn[t].at \in {"file", "current", "seen"} => txn[t].loaded = {}
  /\ txn[t].at = "labels" => txn[t].todo \cup txn[t].loaded \subseteq Label
  /\ txn[t].at \in {"files", "late"} => txn[t].todo \subseteq File
  /\ Detaching(t) => txn[t].loaded \subseteq File

(* The rows it has locked. *)
HoldsItsLocks(t) ==
  /\ txn[t].at \in {"current", "labels"} => holder[FileRow(txn[t].file)] = t
  /\ txn[t].at = "labels" => \A l \in txn[t].loaded : holder[LabelRow(l)] = t
  /\ Detaching(t) => \A f \in txn[t].loaded : holder[FileRow(f)] = t
  /\ txn[t].at \in {"again", "late"} => holder[LabelRow(txn[t].label)] = t
  /\ Naming(t) => holder[Names] = t
  /\ txn[t].at \in {"check", "write"} /\ txn[t].gesture # "create_label" =>
       holder[LabelRow(txn[t].label)] = t

(* What it read is still so. *)
StillKnows(t) ==
  /\ txn[t].at = "labels" => txn[t].current = LabelsOf(txn[t].file)
  /\ txn[t].at = "late" => FilesWith(txn[t].label) \subseteq txn[t].loaded \cup txn[t].todo
  /\ txn[t].at = "write" => ~Taken(t)

TxnInv(t) == WellFormed(t) /\ HoldsItsLocks(t) /\ StillKnows(t)

IInv ==
  /\ TypeOK
  /\ \A t \in Txn : TxnInv(t)
  /\ LinksStand
  /\ NamesUnique
  /\ TrailMatchesLinks

-----------------------------------------------------------------------------
(* A set of keys has a first one, and load_many asks for that. *)
LEMMA FirstKey ==
  ASSUME NEW keys \in SUBSET Nat, keys # {}
  PROVE  Min(keys) \in keys
<1> DEFINE Less == {pair \in Nat \X Nat : pair[1] < pair[2]}
<1>1. IsWellFoundedOn(Less, Nat)
  BY NatLessThanWellFounded DEF OpToRel
<1> HIDE DEF Less
<1>2. PICK first \in keys : \A key \in keys : <<key, first>> \notin Less
  BY <1>1, WFMin
<1>3. \A key \in keys : first <= key
  <2> SUFFICES ASSUME NEW key \in keys, key < first PROVE FALSE
    OBVIOUS
  <2>1. <<key, first>> \in Less
    BY DEF Less
  <2> QED
    BY <1>2, <2>1
<1> QED
  BY <1>3 DEF Min

(* Rows are told apart. *)
LEMMA RowsApart ==
  /\ \A f \in File : FileRow(f) \in Row
  /\ \A l \in Label : LabelRow(l) \in Row
  /\ Names \in Row
  /\ \A f, g \in File : FileRow(f) = FileRow(g) => f = g
  /\ \A l, m \in Label : LabelRow(l) = LabelRow(m) => l = m
  /\ \A f \in File, l \in Label : FileRow(f) # LabelRow(l)
  /\ \A f \in File : FileRow(f) # Names
  /\ \A l \in Label : LabelRow(l) # Names
  BY DEF Row, FileRow, LabelRow, Names, File, Label

(* The types, and what is assumed of the constants. *)
LEMMA Typed ==
  ASSUME IInv
  PROVE  /\ txn \in [Txn -> Transaction]
         /\ holder \in [Row -> Txn \cup {Nobody}]
         /\ name \in [Label -> Name \cup {Unused}]
         /\ links \subseteq File \X Label
         /\ files \subseteq File
         /\ trail \in [File -> SUBSET Label]
         /\ Nobody \notin Txn /\ Unused \notin Name
         /\ \A t \in Txn : TxnInv(t)
         /\ \A row \in Row : holder[row] # Nobody => There(row) /\ txn[holder[row]].at # "idle"
  BY LabelsAssumption DEF IInv, TypeOK, Transaction

(* A file held is there, and so is a label held. *)
LEMMA HeldIsThere ==
  ASSUME IInv, NEW t \in Txn
  PROVE  /\ \A f \in File : holder[FileRow(f)] = t => f \in files
         /\ \A l \in Label : holder[LabelRow(l)] = t => l \in LabelsThere
<1>1. files \subseteq File /\ LabelsThere \subseteq Label
  BY Typed DEF LabelsThere
<1>2. \A f \in File : There(FileRow(f)) => f \in files
  BY <1>1, RowsApart DEF There
<1>3. \A l \in Label : There(LabelRow(l)) => l \in LabelsThere
  BY <1>1, RowsApart DEF There
<1> QED
  BY <1>2, <1>3, RowsApart, Typed

(* The step of a transaction on its locks: those of the others stay theirs. *)
LocksOf(t) ==
  /\ holder' \in [Row -> Txn \cup {Nobody}]
  /\ \A row \in Row : holder'[row] = holder[row]
                      \/ (holder[row] \in {Nobody, t} /\ holder'[row] \in {Nobody, t})

(* A row is locked, if it is there. *)
LEMMA LocksOne ==
  ASSUME IInv, NEW t \in Txn, NEW row \in Row, Lock(t, row)
  PROVE  /\ LocksOf(t)
         /\ There(row) => holder'[row] = t
         /\ \A r \in Row : holder[r] = t => holder'[r] = t
         /\ \A r \in Row : holder'[r] # holder[r] => There(r)
  BY Typed DEF Lock, LockRow, LocksOf

(* All it holds is freed. *)
LEMMA LocksFreed ==
  ASSUME IInv, NEW t \in Txn, ReleaseAll(t)
  PROVE  /\ LocksOf(t)
         /\ \A row \in Row : holder'[row] # t
         /\ \A row \in Row : holder'[row] # holder[row] => holder'[row] = Nobody
  BY Typed DEF ReleaseAll, LocksOf

-----------------------------------------------------------------------------
(* What the step of another leaves to a transaction: its locks, the labels of
   the files it holds, and the labels it holds on no further file.  Names are
   taken only with their lock. *)
Undisturbed(u) ==
  /\ txn'[u] = txn[u]
  /\ \A row \in Row : holder[row] = u => holder'[row] = u
  /\ \A f \in File : holder[FileRow(f)] = u => LabelsOf(f)' = LabelsOf(f)
  /\ \A l \in Label : holder[LabelRow(l)] = u => FilesWith(l)' \subseteq FilesWith(l)
  /\ holder[Names] # u \/ \A l \in Label : name'[l] = name[l] \/ name'[l] = Unused

(* Then it still knows what it knew. *)
LEMMA UndisturbedKeeps ==
  ASSUME IInv, NEW u \in Txn, Undisturbed(u)
  PROVE  TxnInv(u)'
<1>1. TxnInv(u) /\ txn[u] \in Transaction
  BY Typed
<1>2. WellFormed(u)'
  BY <1>1 DEF TxnInv, WellFormed, Naming, Detaching, Undisturbed
<1>3. HoldsItsLocks(u)'
  <2>1. \A l \in Label : holder[LabelRow(l)] = u => holder'[LabelRow(l)] = u
    BY RowsApart DEF Undisturbed
  <2>2. \A f \in File : holder[FileRow(f)] = u => holder'[FileRow(f)] = u
    BY RowsApart DEF Undisturbed
  <2>3. holder[Names] = u => holder'[Names] = u
    BY RowsApart DEF Undisturbed
  <2> QED
    BY <1>1, <2>1, <2>2, <2>3
       DEF TxnInv, WellFormed, HoldsItsLocks, Naming, Detaching, Undisturbed, Place
<1>4. StillKnows(u)'
  <2>1. txn[u].at = "labels" => txn[u].current = LabelsOf(txn[u].file)'
    BY <1>1 DEF TxnInv, StillKnows, HoldsItsLocks, WellFormed, Undisturbed
  <2>2. txn[u].at = "late" => FilesWith(txn[u].label)' \subseteq txn[u].loaded \cup txn[u].todo
    BY <1>1 DEF TxnInv, StillKnows, HoldsItsLocks, WellFormed, Undisturbed, Place
  <2>3. txn[u].at = "write" => ~Taken(u)'
    <3> SUFFICES ASSUME txn[u].at = "write" PROVE ~Taken(u)'
      OBVIOUS
    <3>1. /\ ~Taken(u) /\ txn'[u] = txn[u] /\ txn[u].name \in Name /\ Unused \notin Name
          /\ \A l \in Label : name'[l] = name[l] \/ name'[l] = Unused
      BY <1>1, Typed DEF TxnInv, StillKnows, HoldsItsLocks, WellFormed, Naming, Undisturbed
    <3>2. \A except : NameTaken(txn[u].name, except)' => NameTaken(txn[u].name, except)
      BY <3>1 DEF NameTaken
    <3> QED
      BY <3>1, <3>2 DEF Taken, NameTaken
  <2> QED
    BY <2>1, <2>2, <2>3 DEF StillKnows, Undisturbed, LabelsOf, FilesWith
<1> QED
  BY <1>2, <1>3, <1>4 DEF TxnInv

(* A transaction that is idle knows nothing. *)
LEMMA IdleKeeps ==
  ASSUME NEW t, txn'[t] = Idle
  PROVE  TxnInv(t)'
  BY DEF Idle, TxnInv, WellFormed, HoldsItsLocks, StillKnows, Detaching, Naming

(* Idle is a transaction. *)
LEMMA IdleTyped == Idle \in Transaction
  BY DEF Idle, Transaction, Gesture, Place

(* What a step of a transaction that writes nothing has to show. *)
LEMMA GestureStep ==
  ASSUME IInv, NEW t \in Txn, NEW new \in Transaction, txn' = [txn EXCEPT ![t] = new],
         UNCHANGED catalogue, LocksOf(t),
         \A row \in Row : holder'[row] # holder[row] => holder'[row] = Nobody \/ There(row),
         new.at = "idle" => \A row \in Row : holder'[row] # t,
         TxnInv(t)'
  PROVE  IInv'
<1>1. UNCHANGED <<files, name, links, trail>> /\ txn' \in [Txn -> Transaction] /\ txn'[t] = new
  BY Typed DEF catalogue
<1>2. There(Names)' /\ \A row : There(row)' <=> There(row)
  BY <1>1 DEF There, LabelsThere
<1>3. \A row \in Row : holder'[row] # Nobody => There(row)' /\ txn'[holder'[row]].at # "idle"
  BY <1>1, <1>2, Typed DEF LocksOf
<1>4. TypeOK'
  BY <1>1, <1>3 DEF IInv, TypeOK, LocksOf, Transaction
<1>5. \A u \in Txn : TxnInv(u)'
  <2> SUFFICES ASSUME NEW u \in Txn \ {t} PROVE TxnInv(u)'
    OBVIOUS
  <2>1. Undisturbed(u)
    BY <1>1, Typed DEF Undisturbed, LocksOf, LabelsOf, FilesWith
  <2> QED
    BY <2>1, UndisturbedKeeps
<1>6. LinksStand' /\ NamesUnique' /\ TrailMatchesLinks'
  BY <1>1 DEF IInv, LinksStand, NamesUnique, TrailMatchesLinks, LabelsOf, LabelsThere
<1> QED
  BY <1>4, <1>5, <1>6 DEF IInv

(* A step that locks nothing. *)
LEMMA NoLock ==
  ASSUME IInv, NEW t \in Txn, UNCHANGED holder
  PROVE  /\ LocksOf(t)
         /\ \A row \in Row : holder'[row] # holder[row] => holder'[row] = Nobody \/ There(row)
  BY Typed DEF LocksOf

(* A transaction that goes on to the next place. *)
LEMMA GoesTo ==
  ASSUME IInv, NEW t \in Txn, NEW place \in Place, GoTo(t, place)
  PROVE  \E new \in Transaction :
           /\ txn' = [txn EXCEPT ![t] = new] /\ txn'[t] = new
           /\ new.gesture = txn[t].gesture /\ new.at = place
           /\ new.file = txn[t].file /\ new.label = txn[t].label
           /\ new.wanted = txn[t].wanted /\ new.name = txn[t].name
           /\ new.todo = txn[t].todo /\ new.loaded = txn[t].loaded
           /\ new.current = txn[t].current
<1> DEFINE new == [txn[t] EXCEPT !.at = place]
<1>1. /\ new \in Transaction
      /\ new.gesture = txn[t].gesture /\ new.at = place
      /\ new.file = txn[t].file /\ new.label = txn[t].label
      /\ new.wanted = txn[t].wanted /\ new.name = txn[t].name
      /\ new.todo = txn[t].todo /\ new.loaded = txn[t].loaded
      /\ new.current = txn[t].current
  BY Typed DEF Transaction
<1>2. txn' = [txn EXCEPT ![t] = new]
  BY Typed DEF GoTo
<1> HIDE DEF new
<1>3. txn'[t] = new
  BY <1>2, Typed
<1> QED
  BY <1>1, <1>2, <1>3

(* A refusal, or a rollback. *)
LEMMA RefusedIInv ==
  ASSUME IInv, NEW t \in Txn, Refused(t)
  PROVE  IInv'
<1>1. txn' = [txn EXCEPT ![t] = Idle] /\ txn'[t] = Idle
  BY Typed DEF Refused, End
<1>2. /\ LocksOf(t)
      /\ \A row \in Row : holder'[row] # t
      /\ \A row \in Row : holder'[row] # holder[row] => holder'[row] = Nobody
  BY LocksFreed DEF Refused, End
<1> QED
  BY <1>1, <1>2, IdleTyped, IdleKeeps, GestureStep DEF Refused

(* What a transaction that is somewhere knows is as it was when nothing of the
   catalogue changes. *)
LEMMA SameCatalogue ==
  ASSUME UNCHANGED catalogue
  PROVE  /\ \A f : LabelsOf(f)' = LabelsOf(f)
         /\ \A l : FilesWith(l)' = FilesWith(l)
         /\ \A n, l : NameTaken(n, l)' <=> NameTaken(n, l)
         /\ LabelsThere' = LabelsThere
  BY DEF catalogue, LabelsOf, FilesWith, NameTaken, LabelsThere

(* A gesture begins. *)
LEMMA BeginsIInv ==
  ASSUME IInv, NEW t \in Txn,
         \/ \E f \in File, wanted \in SUBSET Label : SetFileLabels(t, f, wanted)
         \/ \E l \in Label : DeleteLabel(t, l)
         \/ \E l \in Label, n \in Name : CreateLabel(t, l, n) \/ UpdateLabel(t, l, n)
  PROVE  IInv'
<1>1. ASSUME NEW new \in Transaction, txn' = [txn EXCEPT ![t] = new],
             UNCHANGED <<catalogue, holder>>,
             \/ new.at = "file" /\ new.file \in File /\ new.loaded = {}
             \/ /\ new.at = "seen" /\ new.label \in Label /\ new.loaded = {}
                /\ new.gesture = "delete_label"
             \/ /\ new.at = "names" /\ new.label \in Label /\ new.name \in Name
                /\ new.gesture # "delete_label"
      PROVE  IInv'
  <2>1. txn'[t] = new
    BY <1>1, Typed
  <2>2. TxnInv(t)'
    BY <1>1, <2>1
       DEF TxnInv, WellFormed, HoldsItsLocks, StillKnows, Naming, Detaching, Place
  <2>3. UNCHANGED catalogue /\ UNCHANGED holder
    BY <1>1
  <2>4. new.at # "idle"
    BY <1>1
  <2> QED
    BY <1>1, <2>2, <2>3, <2>4, NoLock, GestureStep
<1>2. ASSUME NEW f \in File, NEW wanted \in SUBSET Label, SetFileLabels(t, f, wanted) PROVE IInv'
  <2> DEFINE new == [Idle EXCEPT !.gesture = "set_file_labels", !.at = "file",
                                 !.file = f, !.wanted = wanted]
  <2>1. new \in Transaction /\ new.at = "file" /\ new.file \in File /\ new.loaded = {}
    BY DEF Idle, Transaction, Gesture, Place
  <2>2. txn' = [txn EXCEPT ![t] = new] /\ UNCHANGED <<catalogue, holder>>
    BY <1>2 DEF SetFileLabels
  <2> HIDE DEF new
  <2> QED
    BY <1>1, <2>1, <2>2
<1>3. ASSUME NEW l \in Label, DeleteLabel(t, l) PROVE IInv'
  <2> DEFINE new == [Idle EXCEPT !.gesture = "delete_label", !.at = "seen", !.label = l]
  <2>1. /\ new \in Transaction /\ new.at = "seen" /\ new.label \in Label /\ new.loaded = {}
        /\ new.gesture = "delete_label"
    BY DEF Idle, Transaction, Gesture, Place
  <2>2. txn' = [txn EXCEPT ![t] = new] /\ UNCHANGED <<catalogue, holder>>
    BY <1>3 DEF DeleteLabel
  <2> HIDE DEF new
  <2> QED
    BY <1>1, <2>1, <2>2
<1>4. ASSUME NEW l \in Label, NEW n \in Name, CreateLabel(t, l, n) \/ UpdateLabel(t, l, n)
      PROVE  IInv'
  <2>1. PICK gesture \in {"create_label", "update_label"} :
          txn' = [txn EXCEPT ![t] = [Idle EXCEPT !.gesture = gesture, !.at = "names",
                                                 !.label = l, !.name = n]]
    BY <1>4 DEF CreateLabel, UpdateLabel
  <2> DEFINE new == [Idle EXCEPT !.gesture = gesture, !.at = "names", !.label = l, !.name = n]
  <2>2. /\ new \in Transaction /\ new.at = "names" /\ new.label \in Label /\ new.name \in Name
        /\ new.gesture # "delete_label"
    BY DEF Idle, Transaction, Gesture, Place
  <2>3. txn' = [txn EXCEPT ![t] = new] /\ UNCHANGED <<catalogue, holder>>
    BY <1>4, <2>1 DEF CreateLabel, UpdateLabel
  <2> HIDE DEF new
  <2> QED
    BY <1>1, <2>2, <2>3
<1> QED
  BY <1>2, <1>3, <1>4

(* The file a change of labels is about. *)
LEMMA LoadFileIInv ==
  ASSUME IInv, NEW t \in Txn, LoadFile(t)
  PROVE  IInv'
<1>1. txn[t].at = "file" /\ txn[t].file \in File /\ txn[t].loaded = {}
  BY Typed DEF LoadFile, TxnInv, WellFormed
<1>2. CASE /\ txn[t].file \in files /\ Lock(t, FileRow(txn[t].file))
           /\ GoTo(t, "current") /\ UNCHANGED catalogue
  <2>1. PICK new \in Transaction :
          /\ txn' = [txn EXCEPT ![t] = new] /\ txn'[t] = new
          /\ new.at = "current" /\ new.file = txn[t].file /\ new.loaded = txn[t].loaded
    <3>1. "current" \in Place
      BY DEF Place
    <3> QED
      BY <1>2, <3>1, GoesTo
  <2>2. FileRow(txn[t].file) \in Row /\ There(FileRow(txn[t].file))
    BY <1>1, <1>2, RowsApart DEF There
  <2>3. TxnInv(t)'
    BY <1>1, <1>2, <2>1, <2>2, LocksOne
       DEF TxnInv, WellFormed, HoldsItsLocks, StillKnows, Naming, Detaching, Place
  <2> QED
    BY <1>2, <2>1, <2>2, <2>3, LocksOne, GestureStep
<1>3. CASE Refused(t)
  BY <1>3, RefusedIInv
<1> QED
  BY <1>2, <1>3 DEF LoadFile

(* The labels it has. *)
LEMMA ReadCurrentLabelsIInv ==
  ASSUME IInv, NEW t \in Txn, ReadCurrentLabels(t)
  PROVE  IInv'
<1> DEFINE current == LabelsOf(txn[t].file)
           todo == txn[t].wanted \cup current
           new == [txn[t] EXCEPT !.at = "labels", !.current = current, !.todo = todo]
<1>1. /\ txn[t].at = "current" /\ txn[t].file \in File /\ txn[t].loaded = {}
      /\ holder[FileRow(txn[t].file)] = t
      /\ UNCHANGED catalogue /\ UNCHANGED holder
  BY Typed DEF ReadCurrentLabels, TxnInv, WellFormed, HoldsItsLocks
<1>2. txn' = [txn EXCEPT ![t] = new]
  BY Typed DEF ReadCurrentLabels
<1>3. current \in SUBSET Label /\ todo \in SUBSET Label /\ Label \subseteq Nat
  BY Typed DEF LabelsOf, Transaction, Label
<1>4. current = LabelsOf(txn[t].file)
  OBVIOUS
<1> HIDE DEF current, todo
<1>5. /\ new \in Transaction /\ new.at = "labels" /\ new.file = txn[t].file /\ new.todo = todo
      /\ new.current = current /\ new.loaded = txn[t].loaded
  <2>1. txn[t] \in Transaction /\ todo \in SUBSET Nat /\ "labels" \in Place
    BY <1>3, Typed DEF Place
  <2> QED
    BY <1>3, <2>1 DEF Transaction
<1> HIDE DEF new
<1>6. txn'[t] = new
  BY <1>2, Typed
<1>7. TxnInv(t)'
  BY <1>1, <1>3, <1>4, <1>5, <1>6, SameCatalogue
     DEF TxnInv, WellFormed, HoldsItsLocks, StillKnows, Naming, Detaching, Place
<1> QED
  BY <1>1, <1>2, <1>5, <1>7, NoLock, GestureStep

\* What a gesture knows after load_many has asked for `row`: new.
AskedOne(t, row, new) ==
  /\ txn' = [txn EXCEPT ![t] = new] /\ txn'[t] = new
  /\ new.gesture = txn[t].gesture /\ new.at = txn[t].at
  /\ new.file = txn[t].file /\ new.label = txn[t].label
  /\ new.name = txn[t].name /\ new.current = txn[t].current
  /\ new.todo = txn[t].todo \ {Min(txn[t].todo)}
  /\ new.loaded = IF There(row) THEN txn[t].loaded \cup {Min(txn[t].todo)} ELSE txn[t].loaded

(* load_many locks one row more, if it is there. *)
LEMMA LoadsNext ==
  ASSUME IInv, NEW t \in Txn, NEW row \in Row, LoadNext(t, row)
  PROVE  /\ Min(txn[t].todo) \in txn[t].todo
         /\ LocksOf(t) /\ UNCHANGED catalogue
         /\ There(row) => holder'[row] = t
         /\ \A r \in Row : holder[r] = t => holder'[r] = t
         /\ \A r \in Row : holder'[r] # holder[r] => holder'[r] = Nobody \/ There(r)
         /\ \E new \in Transaction : AskedOne(t, row, new)
<1> DEFINE key == Min(txn[t].todo)
           todo == txn[t].todo \ {key}
           loaded == IF There(row) THEN txn[t].loaded \cup {key} ELSE txn[t].loaded
           new == [txn[t] EXCEPT !.todo = todo, !.loaded = loaded]
<1>1. txn[t] \in Transaction /\ txn[t].todo \in SUBSET Nat /\ txn[t].todo # {}
  BY Typed DEF Transaction, LoadNext
<1>2. key \in txn[t].todo
  BY <1>1, FirstKey
<1>3. /\ Lock(t, row) /\ UNCHANGED catalogue
      /\ txn' = [txn EXCEPT ![t] = new]
  BY Typed DEF LoadNext
<1>4. todo \in SUBSET Nat /\ loaded \in SUBSET Nat
  BY <1>1, <1>2 DEF Transaction
<1> HIDE DEF key, todo, loaded
<1>5. /\ new \in Transaction
      /\ new.gesture = txn[t].gesture /\ new.at = txn[t].at
      /\ new.file = txn[t].file /\ new.label = txn[t].label
      /\ new.name = txn[t].name /\ new.current = txn[t].current
      /\ new.todo = todo /\ new.loaded = loaded
  BY <1>1, <1>4 DEF Transaction
<1> HIDE DEF new
<1>6. txn'[t] = new
  BY <1>3, Typed
<1>7. /\ LocksOf(t)
      /\ There(row) => holder'[row] = t
      /\ \A r \in Row : holder[r] = t => holder'[r] = t
      /\ \A r \in Row : holder'[r] # holder[r] => There(r)
  BY <1>3, LocksOne
<1>8. AskedOne(t, row, new)
  BY <1>3, <1>5, <1>6 DEF AskedOne, key, todo, loaded
<1> QED
  BY <1>2, <1>3, <1>5, <1>7, <1>8 DEF key

(* The next label of those a change touches. *)
LEMMA LoadNextLabelIInv ==
  ASSUME IInv, NEW t \in Txn, LoadNextLabel(t)
  PROVE  IInv'
<1> DEFINE key == Min(txn[t].todo)
<1>1. /\ txn[t].at = "labels" /\ txn[t].file \in File /\ txn[t].todo \cup txn[t].loaded \subseteq Label
      /\ holder[FileRow(txn[t].file)] = t /\ \A l \in txn[t].loaded : holder[LabelRow(l)] = t
      /\ txn[t].current = LabelsOf(txn[t].file)
      /\ LoadNext(t, LabelRow(key)) /\ txn[t].todo # {} /\ txn[t].todo \in SUBSET Nat
  BY Typed DEF LoadNextLabel, LoadNext, TxnInv, WellFormed, HoldsItsLocks, StillKnows, Transaction
<1>2. key \in Label /\ LabelRow(key) \in Row
  BY <1>1, FirstKey, RowsApart
<1>2a. PICK new \in Transaction : AskedOne(t, LabelRow(key), new)
  BY <1>1, <1>2, LoadsNext
<1>3. /\ txn' = [txn EXCEPT ![t] = new] /\ txn'[t] = new
      /\ new.gesture = txn[t].gesture /\ new.at = txn[t].at
      /\ new.file = txn[t].file /\ new.label = txn[t].label
      /\ new.name = txn[t].name /\ new.current = txn[t].current
      /\ new.todo = txn[t].todo \ {key}
      /\ new.loaded = IF There(LabelRow(key)) THEN txn[t].loaded \cup {key} ELSE txn[t].loaded
  BY <1>2a DEF AskedOne
<1>4. /\ LocksOf(t) /\ UNCHANGED catalogue
      /\ There(LabelRow(key)) => holder'[LabelRow(key)] = t
      /\ \A r \in Row : holder[r] = t => holder'[r] = t
      /\ \A r \in Row : holder'[r] # holder[r] => holder'[r] = Nobody \/ There(r)
  BY <1>1, <1>2, LoadsNext
<1> HIDE DEF key
<1>5. /\ new.loaded \subseteq Label /\ new.todo \subseteq Label
      /\ \A l \in new.loaded : holder'[LabelRow(l)] = t
      /\ holder'[FileRow(txn[t].file)] = t
  BY <1>1, <1>2, <1>3, <1>4, RowsApart
<1>6. TxnInv(t)'
  BY <1>1, <1>3, <1>4, <1>5, SameCatalogue
     DEF TxnInv, WellFormed, HoldsItsLocks, StillKnows, Naming, Detaching, Place
<1> QED
  BY <1>1, <1>3, <1>4, <1>6, GestureStep

(* The next file of those that carry a label being deleted. *)
LEMMA LoadNextFileIInv ==
  ASSUME IInv, NEW t \in Txn, LoadNextFile(t)
  PROVE  IInv'
<1> DEFINE key == Min(txn[t].todo)
<1>1. /\ txn[t].at \in {"files", "late"} /\ txn[t].label \in Label
      /\ txn[t].todo \subseteq File /\ txn[t].loaded \subseteq File
      /\ txn[t].at = "files" => txn[t].gesture = "delete_label"
      /\ \A f \in txn[t].loaded : holder[FileRow(f)] = t
      /\ txn[t].at = "late" => holder[LabelRow(txn[t].label)] = t
      /\ txn[t].at = "late" => FilesWith(txn[t].label) \subseteq txn[t].loaded \cup txn[t].todo
      /\ LoadNext(t, FileRow(key)) /\ txn[t].todo # {} /\ txn[t].todo \in SUBSET Nat
  BY Typed DEF LoadNextFile, LoadNext, TxnInv, WellFormed, HoldsItsLocks, StillKnows, Detaching,
     Place, Transaction
<1>2. key \in File /\ FileRow(key) \in Row
  BY <1>1, FirstKey, RowsApart
<1>2a. PICK new \in Transaction : AskedOne(t, FileRow(key), new)
  BY <1>1, <1>2, LoadsNext
<1>3. /\ txn' = [txn EXCEPT ![t] = new] /\ txn'[t] = new
      /\ new.gesture = txn[t].gesture /\ new.at = txn[t].at
      /\ new.file = txn[t].file /\ new.label = txn[t].label
      /\ new.name = txn[t].name /\ new.current = txn[t].current
      /\ new.todo = txn[t].todo \ {key}
      /\ new.loaded = IF There(FileRow(key)) THEN txn[t].loaded \cup {key} ELSE txn[t].loaded
  BY <1>2a DEF AskedOne
<1>4. /\ LocksOf(t) /\ UNCHANGED catalogue
      /\ There(FileRow(key)) => holder'[FileRow(key)] = t
      /\ \A r \in Row : holder[r] = t => holder'[r] = t
      /\ \A r \in Row : holder'[r] # holder[r] => holder'[r] = Nobody \/ There(r)
  BY <1>1, <1>2, LoadsNext
<1> HIDE DEF key
<1>5. /\ new.loaded \subseteq File /\ new.todo \subseteq File
      /\ \A f \in new.loaded : holder'[FileRow(f)] = t
      /\ txn[t].at = "late" => holder'[LabelRow(txn[t].label)] = t
  BY <1>1, <1>2, <1>3, <1>4, RowsApart
<1>6. txn[t].at = "late" => FilesWith(txn[t].label) \subseteq new.loaded \cup new.todo
  <2>1. ~There(FileRow(key)) => key \notin FilesWith(txn[t].label)
    BY <1>1 DEF There, FilesWith, IInv, LinksStand
  <2> QED
    BY <1>1, <1>3, <2>1
<1>7. TxnInv(t)'
  BY <1>1, <1>3, <1>4, <1>5, <1>6, SameCatalogue
     DEF TxnInv, WellFormed, HoldsItsLocks, StillKnows, Naming, Detaching, Place
<1> QED
  BY <1>1, <1>3, <1>4, <1>7, GestureStep

(* The files a deletion starts with. *)
LEMMA ReadFilesWithLabelIInv ==
  ASSUME IInv, NEW t \in Txn, ReadFilesWithLabel(t)
  PROVE  IInv'
<1> DEFINE todo == FilesWith(txn[t].label)
           new == [txn[t] EXCEPT !.at = "files", !.todo = todo]
<1>1. /\ txn[t].at = "seen" /\ txn[t].label \in Label /\ txn[t].loaded = {}
      /\ txn[t].gesture = "delete_label"
      /\ UNCHANGED catalogue /\ UNCHANGED holder
  BY Typed DEF ReadFilesWithLabel, TxnInv, WellFormed, Place
<1>2. txn' = [txn EXCEPT ![t] = new]
  BY Typed DEF ReadFilesWithLabel
<1>3. todo \in SUBSET File /\ todo \in SUBSET Nat /\ "files" \in Place /\ txn[t] \in Transaction
  BY Typed DEF FilesWith, File, Place
<1> HIDE DEF todo
<1>4. /\ new \in Transaction /\ new.at = "files" /\ new.label = txn[t].label /\ new.todo = todo
      /\ new.gesture = txn[t].gesture /\ new.loaded = txn[t].loaded
  BY <1>3 DEF Transaction
<1> HIDE DEF new
<1>5. txn'[t] = new
  BY <1>2, Typed
<1>6. TxnInv(t)'
  BY <1>1, <1>3, <1>4, <1>5
     DEF TxnInv, WellFormed, HoldsItsLocks, StillKnows, Naming, Detaching, Place
<1> QED
  BY <1>1, <1>2, <1>4, <1>6, NoLock, GestureStep

(* They are locked: the label's turn. *)
LEMMA FilesLoadedIInv ==
  ASSUME IInv, NEW t \in Txn, FilesLoaded(t)
  PROVE  IInv'
<1>1. /\ txn[t].at = "files" /\ txn[t].label \in Label /\ txn[t].gesture = "delete_label"
      /\ txn[t].loaded \subseteq File /\ \A f \in txn[t].loaded : holder[FileRow(f)] = t
      /\ GoTo(t, "label") /\ UNCHANGED catalogue /\ UNCHANGED holder
  BY Typed DEF FilesLoaded, TxnInv, WellFormed, HoldsItsLocks, Detaching, Place
<1>2. PICK new \in Transaction :
        /\ txn' = [txn EXCEPT ![t] = new] /\ txn'[t] = new
        /\ new.at = "label" /\ new.gesture = txn[t].gesture /\ new.label = txn[t].label
        /\ new.loaded = txn[t].loaded
  <2>1. "label" \in Place
    BY DEF Place
  <2> QED
    BY <1>1, <2>1, GoesTo
<1>3. TxnInv(t)'
  BY <1>1, <1>2 DEF TxnInv, WellFormed, HoldsItsLocks, StillKnows, Naming, Detaching, Place
<1> QED
  BY <1>1, <1>2, <1>3, NoLock, GestureStep

(* The label a deletion or a save is about. *)
LEMMA LoadLabelIInv ==
  ASSUME IInv, NEW t \in Txn, LoadLabel(t)
  PROVE  IInv'
<1> DEFINE l == txn[t].label
           place == IF txn[t].gesture = "delete_label" THEN "again" ELSE "check"
<1>1. /\ txn[t].at = "label" /\ l \in Label
      /\ txn[t].gesture = "delete_label" =>
           txn[t].loaded \subseteq File /\ \A f \in txn[t].loaded : holder[FileRow(f)] = t
      /\ txn[t].gesture # "delete_label" => holder[Names] = t /\ txn[t].name \in Name
  BY Typed DEF LoadLabel, TxnInv, WellFormed, HoldsItsLocks, Naming, Detaching, Place
<1>2. CASE l \in LabelsThere /\ Lock(t, LabelRow(l)) /\ GoTo(t, place) /\ UNCHANGED catalogue
  <2>1. PICK new \in Transaction :
          /\ txn' = [txn EXCEPT ![t] = new] /\ txn'[t] = new
          /\ new.at = place /\ new.gesture = txn[t].gesture /\ new.label = l
          /\ new.loaded = txn[t].loaded /\ new.name = txn[t].name
    <3>1. place \in Place
      BY DEF Place
    <3> QED
      BY <1>2, <3>1, GoesTo
  <2>2. LabelRow(l) \in Row /\ There(LabelRow(l))
    BY <1>1, <1>2, RowsApart DEF There
  <2>3. /\ LocksOf(t) /\ holder'[LabelRow(l)] = t
        /\ \A r \in Row : holder[r] = t => holder'[r] = t
        /\ \A r \in Row : holder'[r] # holder[r] => holder'[r] = Nobody \/ There(r)
    BY <1>2, <2>2, LocksOne
  <2>4. /\ txn[t].gesture = "delete_label" => \A f \in txn[t].loaded : holder'[FileRow(f)] = t
        /\ txn[t].gesture # "delete_label" => holder'[Names] = t
    BY <1>1, <2>3, RowsApart
  <2>5. TxnInv(t)'
    BY <1>1, <2>1, <2>3, <2>4
       DEF TxnInv, WellFormed, HoldsItsLocks, StillKnows, Naming, Detaching, Place
  <2> QED
    BY <1>2, <2>1, <2>3, <2>5, GestureStep
<1>3. CASE Refused(t)
  BY <1>3, RefusedIInv
<1> QED
  BY <1>2, <1>3 DEF LoadLabel

(* The files linked to the label meanwhile. *)
LEMMA ReadLateFilesIInv ==
  ASSUME IInv, NEW t \in Txn, ReadLateFiles(t)
  PROVE  IInv'
<1> DEFINE with == FilesWith(txn[t].label)
           todo == with \ txn[t].loaded
           new == [txn[t] EXCEPT !.at = "late", !.todo = todo]
<1>1. /\ txn[t].at = "again" /\ txn[t].label \in Label
      /\ holder[LabelRow(txn[t].label)] = t
      /\ txn[t].loaded \subseteq File /\ \A f \in txn[t].loaded : holder[FileRow(f)] = t
      /\ UNCHANGED catalogue /\ UNCHANGED holder
  BY Typed DEF ReadLateFiles, TxnInv, WellFormed, HoldsItsLocks, Detaching, Place
<1>2. txn' = [txn EXCEPT ![t] = new]
  BY Typed DEF ReadLateFiles
<1>3. todo \in SUBSET File /\ todo \in SUBSET Nat /\ "late" \in Place /\ txn[t] \in Transaction
  BY Typed DEF FilesWith, File, Place
<1>4. FilesWith(txn[t].label) \subseteq txn[t].loaded \cup todo
  OBVIOUS
<1> HIDE DEF todo
<1>5. /\ new \in Transaction /\ new.at = "late" /\ new.label = txn[t].label /\ new.todo = todo
      /\ new.gesture = txn[t].gesture /\ new.loaded = txn[t].loaded
  BY <1>3 DEF Transaction
<1> HIDE DEF new
<1>6. txn'[t] = new
  BY <1>2, Typed
<1>7. TxnInv(t)'
  BY <1>1, <1>3, <1>4, <1>5, <1>6, SameCatalogue
     DEF TxnInv, WellFormed, HoldsItsLocks, StillKnows, Naming, Detaching, Place
<1> QED
  BY <1>1, <1>2, <1>5, <1>7, NoLock, GestureStep

(* The lock of the names. *)
LEMMA SerializeLabelsIInv ==
  ASSUME IInv, NEW t \in Txn, SerializeLabels(t)
  PROVE  IInv'
<1> DEFINE place == IF txn[t].gesture = "create_label" THEN "check" ELSE "label"
<1>1. /\ txn[t].at = "names" /\ txn[t].label \in Label
      /\ txn[t].gesture # "delete_label" /\ txn[t].name \in Name
      /\ Lock(t, Names) /\ GoTo(t, place) /\ UNCHANGED catalogue
  BY Typed DEF SerializeLabels, TxnInv, WellFormed, Place
<1>2. PICK new \in Transaction :
        /\ txn' = [txn EXCEPT ![t] = new] /\ txn'[t] = new
        /\ new.at = place /\ new.gesture = txn[t].gesture /\ new.label = txn[t].label
        /\ new.name = txn[t].name
  <2>1. place \in Place
    BY DEF Place
  <2> QED
    BY <1>1, <2>1, GoesTo
<1>3. /\ LocksOf(t) /\ holder'[Names] = t
      /\ \A r \in Row : holder'[r] # holder[r] => holder'[r] = Nobody \/ There(r)
  BY <1>1, RowsApart, LocksOne DEF There
<1>4. TxnInv(t)'
  BY <1>1, <1>2, <1>3
     DEF TxnInv, WellFormed, HoldsItsLocks, StillKnows, Naming, Detaching, Place
<1> QED
  BY <1>1, <1>2, <1>3, <1>4, GestureStep

(* The check of the name. *)
LEMMA CheckNameIInv ==
  ASSUME IInv, NEW t \in Txn, CheckName(t)
  PROVE  IInv'
<1>1. /\ txn[t].at = "check" /\ txn[t].label \in Label
      /\ txn[t].gesture # "delete_label" /\ txn[t].name \in Name /\ holder[Names] = t
  BY Typed DEF CheckName, TxnInv, WellFormed, HoldsItsLocks, Naming, Place
<1>2. CASE /\ ~Taken(t)
           /\ GoTo(t, "write") /\ UNCHANGED <<catalogue, holder>>
  <2>1. PICK new \in Transaction :
          /\ txn' = [txn EXCEPT ![t] = new] /\ txn'[t] = new
          /\ new.at = "write" /\ new.gesture = txn[t].gesture /\ new.label = txn[t].label
          /\ new.name = txn[t].name
    <3>1. "write" \in Place
      BY DEF Place
    <3> QED
      BY <1>2, <3>1, GoesTo
  <2>2. UNCHANGED catalogue /\ UNCHANGED holder
    BY <1>2
  <2>3. WellFormed(t)'
    BY <1>1, <2>1, <2>2 DEF WellFormed, Naming, Detaching, Place
  <2>4. txn[t].gesture # "create_label" => holder[LabelRow(txn[t].label)] = t
    BY <1>1, Typed DEF TxnInv, HoldsItsLocks
  <2>5. HoldsItsLocks(t)'
    BY <1>1, <2>1, <2>2, <2>4 DEF HoldsItsLocks, Naming, Detaching
  <2>6. ~Taken(t)'
    BY <1>2, <2>1, SameCatalogue DEF Taken
  <2>7. TxnInv(t)'
    BY <2>1, <2>3, <2>5, <2>6 DEF TxnInv, StillKnows
  <2> QED
    BY <2>1, <2>2, <2>7, NoLock, GestureStep
<1>3. CASE Refused(t)
  BY <1>3, RefusedIInv
<1> QED
  BY <1>2, <1>3 DEF CheckName

-----------------------------------------------------------------------------
(* What a step of a transaction that writes and ends has to show. *)
LEMMA WriteStep ==
  ASSUME IInv, NEW t \in Txn, End(t), UNCHANGED files,
         name' \in [Label -> Name \cup {Unused}],
         links' \subseteq File \X Label, trail' \in [File -> SUBSET Label],
         \A l \in LabelsThere : l \in LabelsThere' \/ holder[LabelRow(l)] = t,
         \A u \in Txn \ {t} :
           /\ \A f \in File : holder[FileRow(f)] = u => LabelsOf(f)' = LabelsOf(f)
           /\ \A l \in Label : holder[LabelRow(l)] = u => FilesWith(l)' \subseteq FilesWith(l)
           /\ holder[Names] # u \/ \A l \in Label : name'[l] = name[l] \/ name'[l] = Unused,
         LinksStand', NamesUnique', TrailMatchesLinks'
  PROVE  IInv'
<1>1. txn' = [txn EXCEPT ![t] = Idle] /\ txn'[t] = Idle
  BY Typed DEF End
<1>2. /\ LocksOf(t)
      /\ \A row \in Row : holder'[row] # t
      /\ \A row \in Row : holder'[row] # holder[row] => holder'[row] = Nobody
  BY LocksFreed DEF End
<1>3. TypeOK'
  <2>1. txn' \in [Txn -> Transaction]
    BY <1>1, IdleTyped, Typed
  <2>2. ASSUME NEW row \in Row, holder'[row] # Nobody
        PROVE  There(row)' /\ txn'[holder'[row]].at # "idle"
    <3>1. holder'[row] = holder[row] /\ holder[row] # t /\ holder[row] \in Txn
      BY <1>2, <2>2, Typed
    <3>2. There(row) /\ txn[holder[row]].at # "idle" /\ txn'[holder[row]] = txn[holder[row]]
      BY <1>1, <2>2, <3>1, Typed
    <3>3. There(row)'
      <4>1. CASE row = Names \/ \E f \in files : row = FileRow(f)
        BY <4>1 DEF There
      <4>2. ASSUME NEW l \in LabelsThere, row = LabelRow(l) PROVE There(row)'
        BY <3>1, <4>2 DEF There
      <4> QED
        BY <3>2, <4>1, <4>2 DEF There
    <3> QED
      BY <3>1, <3>2, <3>3
  <2> QED
    BY <1>2, <2>1, <2>2, Typed DEF TypeOK, LocksOf, Transaction
<1>4. \A u \in Txn : TxnInv(u)'
  <2> SUFFICES ASSUME NEW u \in Txn \ {t} PROVE TxnInv(u)'
    BY <1>1, IdleKeeps
  <2>1. Undisturbed(u)
    BY <1>1, <1>2, Typed DEF Undisturbed, LocksOf
  <2> QED
    BY <2>1, UndisturbedKeeps
<1> QED
  BY <1>3, <1>4 DEF IInv

(* The labels of a file are written. *)
LEMMA ReplaceFileLabelsIInv ==
  ASSUME IInv, NEW t \in Txn, ReplaceFileLabels(t)
  PROVE  IInv'
<1> DEFINE f == txn[t].file
           wanted == txn[t].wanted
           current == txn[t].current
<1>1. /\ txn[t].at = "labels" /\ f \in File /\ holder[FileRow(f)] = t
      /\ txn[t].loaded \subseteq Label /\ \A l \in txn[t].loaded : holder[LabelRow(l)] = t
      /\ current = LabelsOf(f) /\ wanted \subseteq Label /\ current \subseteq Label
  BY Typed DEF ReplaceFileLabels, TxnInv, WellFormed, HoldsItsLocks, StillKnows, Transaction
<1>2. CASE Refused(t)
  BY <1>2, RefusedIInv
<1>3. CASE /\ wanted \subseteq txn[t].loaded
           /\ links' = {link \in links : link[1] # f} \cup ({f} \X wanted)
           /\ trail' = [trail EXCEPT ![f] = (@ \ (current \ wanted)) \cup (wanted \ current)]
           /\ End(t)
           /\ UNCHANGED <<files, name>>
  <2>1. f \in files /\ \A l \in wanted : l \in LabelsThere /\ holder[LabelRow(l)] = t
    BY <1>1, <1>3, HeldIsThere
  <2> HIDE DEF f, wanted, current
  <2>2. \A g \in File : LabelsOf(g)' = IF g = f THEN wanted ELSE LabelsOf(g)
    <3>1. \A g \in File, l \in Label :
            <<g, l>> \in links' <=> IF g = f THEN l \in wanted ELSE <<g, l>> \in links
      BY <1>3
    <3> QED
      BY <1>1, <3>1 DEF LabelsOf
  <2>3. \A l \in Label \ wanted : FilesWith(l)' \subseteq FilesWith(l)
    BY <1>3 DEF FilesWith
  <2>4. trail[f] = current
    BY <1>1, <2>1 DEF IInv, TrailMatchesLinks
  <2>5. trail' = [trail EXCEPT ![f] = wanted]
    BY <1>3, <2>4
  <2>6. /\ links' \subseteq File \X Label /\ trail' \in [File -> SUBSET Label]
        /\ name' \in [Label -> Name \cup {Unused}] /\ LabelsThere' = LabelsThere
    BY <1>1, <1>3, <2>5, Typed DEF LabelsThere
  <2>7. TrailMatchesLinks'
    BY <1>1, <1>3, <2>2, <2>5, Typed DEF IInv, TrailMatchesLinks
  <2>8. LinksStand'
    BY <1>3, <2>1, <2>6, Typed DEF IInv, LinksStand
  <2>9. NamesUnique'
    BY <1>3, <2>6 DEF IInv, NamesUnique
  <2>10. \A u \in Txn \ {t} :
           /\ \A g \in File : holder[FileRow(g)] = u => LabelsOf(g)' = LabelsOf(g)
           /\ \A l \in Label : holder[LabelRow(l)] = u => FilesWith(l)' \subseteq FilesWith(l)
           /\ \A l \in Label : name'[l] = name[l]
    BY <1>1, <1>3, <2>1, <2>2, <2>3
  <2> QED
    BY <1>3, <2>6, <2>7, <2>8, <2>9, <2>10, WriteStep
<1> QED
  BY <1>2, <1>3 DEF ReplaceFileLabels

(* A label goes, its links with it. *)
LEMMA RemoveLabelIInv ==
  ASSUME IInv, NEW t \in Txn, RemoveLabel(t)
  PROVE  IInv'
<1> DEFINE l == txn[t].label
           detached == txn[t].loaded
<1>1. /\ txn[t].at = "late" /\ l \in Label /\ holder[LabelRow(l)] = t
      /\ detached \subseteq File /\ \A f \in detached : holder[FileRow(f)] = t
      /\ FilesWith(l) \subseteq detached
  BY Typed DEF RemoveLabel, TxnInv, WellFormed, HoldsItsLocks, StillKnows, Detaching, Place
<1>2. /\ trail' = [f \in File |-> IF f \in detached THEN trail[f] \ {l} ELSE trail[f]]
      /\ name' = [name EXCEPT ![l] = Unused]
      /\ links' = {link \in links : link[2] # l}
      /\ End(t) /\ UNCHANGED files
  BY DEF RemoveLabel
<1> HIDE DEF l, detached
<1>3. LabelsThere' = LabelsThere \ {l} /\ \A m \in LabelsThere' : name'[m] = name[m]
  BY <1>1, <1>2, Typed DEF LabelsThere
<1>4. \A f \in File : LabelsOf(f)' = LabelsOf(f) \ {l}
  BY <1>2 DEF LabelsOf
<1>5. \A m \in Label : FilesWith(m)' \subseteq FilesWith(m)
  BY <1>2 DEF FilesWith
<1>6. \A f \in File : f \in detached \/ l \notin LabelsOf(f)
  BY <1>1 DEF FilesWith, LabelsOf
<1>7. /\ links' \subseteq File \X Label /\ trail' \in [File -> SUBSET Label]
      /\ name' \in [Label -> Name \cup {Unused}]
  BY <1>1, <1>2, Typed
<1>8. TrailMatchesLinks'
  <2> SUFFICES ASSUME NEW f \in files PROVE trail'[f] = LabelsOf(f)'
    BY <1>2 DEF TrailMatchesLinks
  <2>1. f \in File /\ trail[f] = LabelsOf(f) /\ LabelsOf(f)' = LabelsOf(f) \ {l}
    BY <1>4, Typed DEF IInv, TrailMatchesLinks
  <2>2. trail'[f] = IF f \in detached THEN trail[f] \ {l} ELSE trail[f]
    BY <1>2, <2>1
  <2> QED
    BY <1>6, <2>1, <2>2
<1>9. LinksStand'
  BY <1>2, <1>3 DEF IInv, LinksStand
<1>10. NamesUnique'
  BY <1>3 DEF IInv, NamesUnique
<1>11. \A u \in Txn \ {t}, f \in File : holder[FileRow(f)] = u => LabelsOf(f)' = LabelsOf(f)
  BY <1>1, <1>4, <1>6
<1>12. \A m \in Label : name'[m] = name[m] \/ name'[m] = Unused
  BY <1>1, <1>2, Typed
<1>13. \A m \in LabelsThere : m \in LabelsThere' \/ holder[LabelRow(m)] = t
  BY <1>1, <1>3
<1> QED
  BY <1>2, <1>5, <1>7, <1>8, <1>9, <1>10, <1>11, <1>12, <1>13, WriteStep

(* A name is written. *)
LEMMA WriteLabelIInv ==
  ASSUME IInv, NEW t \in Txn, WriteLabel(t)
  PROVE  IInv'
<1> DEFINE l == txn[t].label
           n == txn[t].name
<1>1. /\ txn[t].at = "write" /\ l \in Label /\ n \in Name /\ holder[Names] = t
      /\ ~NameTaken(n, l)
  <2>1. /\ txn[t].at = "write" /\ l \in Label /\ n \in Name /\ holder[Names] = t
        /\ ~Taken(t)
    BY Typed DEF WriteLabel, TxnInv, WellFormed, HoldsItsLocks, StillKnows, Naming, Place
  <2> QED
    BY <2>1 DEF Taken, NameTaken, Label
<1>2. name' = [name EXCEPT ![l] = n] /\ End(t) /\ UNCHANGED <<files, links, trail>>
  BY DEF WriteLabel
<1> HIDE DEF l, n
<1>3. /\ LabelsThere' = LabelsThere \cup {l} /\ name'[l] = n
      /\ \A m \in Label \ {l} : name'[m] = name[m] /\ name[m] # n
  BY <1>1, <1>2, Typed DEF LabelsThere, NameTaken
<1>4. NamesUnique'
  BY <1>3 DEF IInv, NamesUnique, LabelsThere
<1>5. LinksStand' /\ TrailMatchesLinks'
  BY <1>2, <1>3 DEF IInv, LinksStand, TrailMatchesLinks, LabelsOf
<1>6. (\A f : LabelsOf(f)' = LabelsOf(f)) /\ (\A m : FilesWith(m)' = FilesWith(m))
  BY <1>2 DEF LabelsOf, FilesWith
<1>7. /\ links' \subseteq File \X Label /\ trail' \in [File -> SUBSET Label]
      /\ name' \in [Label -> Name \cup {Unused}] /\ UNCHANGED files
  BY <1>1, <1>2, Typed
<1> QED
  BY <1>1, <1>2, <1>3, <1>4, <1>5, <1>6, <1>7, WriteStep

(* A file no gesture holds goes, its links with it. *)
LEMMA DeleteFileIInv ==
  ASSUME IInv, NEW f \in File, DeleteFile(f)
  PROVE  IInv'
<1>1. /\ files' = files \ {f} /\ holder[FileRow(f)] = Nobody
      /\ links' = {link \in links : link[1] # f}
      /\ trail' = [trail EXCEPT ![f] = {}]
      /\ UNCHANGED <<name, holder, txn>>
  BY DEF DeleteFile, Free
<1>2. /\ links' \subseteq File \X Label /\ trail' \in [File -> SUBSET Label]
      /\ files' \subseteq File /\ LabelsThere' = LabelsThere
  BY <1>1, Typed DEF LabelsThere
<1>3. \A g \in File \ {f} : LabelsOf(g)' = LabelsOf(g)
  BY <1>1 DEF LabelsOf
<1>4. TypeOK'
  <2>1. ASSUME NEW row \in Row, holder[row] # Nobody PROVE There(row)'
    <3>1. There(row) /\ row # FileRow(f)
      BY <1>1, <2>1, Typed
    <3> QED
      BY <1>1, <1>2, <3>1 DEF There
  <2> QED
    BY <1>1, <1>2, <2>1 DEF IInv, TypeOK
<1>5. \A u \in Txn : TxnInv(u)'
  <2> SUFFICES ASSUME NEW u \in Txn PROVE TxnInv(u)'
    OBVIOUS
  <2>1. \A g \in File : holder[FileRow(g)] = u => g # f
    BY <1>1, Typed
  <2>2. \A l \in Label : FilesWith(l)' \subseteq FilesWith(l)
    BY <1>1 DEF FilesWith
  <2>3. Undisturbed(u)
    BY <1>1, <1>3, <2>1, <2>2 DEF Undisturbed
  <2> QED
    BY <2>3, UndisturbedKeeps
<1>6. TrailMatchesLinks'
  BY <1>1, <1>3, Typed DEF IInv, TrailMatchesLinks
<1>7. LinksStand' /\ NamesUnique'
  BY <1>1, <1>2 DEF IInv, LinksStand, NamesUnique
<1> QED
  BY <1>4, <1>5, <1>6, <1>7 DEF IInv

-----------------------------------------------------------------------------
(* The first state: files without labels. *)
LEMMA InitIInv == Init => IInv
<1> SUFFICES ASSUME Init PROVE IInv
  OBVIOUS
<1>1. LabelsThere = {}
  BY LabelsAssumption DEF Init, LabelsThere
<1>2. TypeOK
  BY LabelsAssumption DEF Init, TypeOK, Idle, Gesture, Place
<1>3. \A t \in Txn : TxnInv(t)
  BY DEF Init, Idle, TxnInv, WellFormed, HoldsItsLocks, StillKnows, Detaching, Naming
<1>4. LinksStand /\ NamesUnique /\ TrailMatchesLinks
  BY <1>1 DEF Init, LinksStand, NamesUnique, TrailMatchesLinks, LabelsOf
<1> QED
  BY <1>2, <1>3, <1>4 DEF IInv

(* Every step keeps the invariant. *)
LEMMA NextIInv == IInv /\ [Next]_vars => IInv'
<1> SUFFICES ASSUME IInv, [Next]_vars PROVE IInv'
  OBVIOUS
<1>1. CASE UNCHANGED vars
  <2>1. UNCHANGED <<files, name, links, trail, holder, txn>>
    BY <1>1 DEF vars
  <2>2. \A t \in Txn : TxnInv(t)'
    BY <2>1, UndisturbedKeeps DEF Undisturbed, LabelsOf, FilesWith
  <2>3. TypeOK'
    BY <2>1 DEF IInv, TypeOK, There, LabelsThere
  <2>4. LinksStand' /\ NamesUnique' /\ TrailMatchesLinks'
    BY <2>1 DEF IInv, LinksStand, NamesUnique, TrailMatchesLinks, LabelsThere, LabelsOf
  <2> QED
    BY <2>2, <2>3, <2>4 DEF IInv
<1>2. ASSUME NEW t \in Txn, RollBack(t) PROVE IInv'
  BY <1>2, RefusedIInv DEF RollBack
<1>3. CASE Next
  BY <1>2, <1>3, BeginsIInv, LoadFileIInv, ReadCurrentLabelsIInv, LoadNextLabelIInv,
     ReplaceFileLabelsIInv, ReadFilesWithLabelIInv, LoadNextFileIInv, FilesLoadedIInv,
     LoadLabelIInv, ReadLateFilesIInv, RemoveLabelIInv, SerializeLabelsIInv, CheckNameIInv,
     WriteLabelIInv, DeleteFileIInv DEF Next
<1> QED
  BY <1>1, <1>3

(* The invariant holds of every reachable state. *)
THEOREM Invariant == Spec => []IInv
  BY InitIInv, NextIInv, PTL DEF Spec

(* Types, and only rows that are there are held, by open transactions. *)
THEOREM TypeCorrect == Spec => []TypeOK
<1>1. IInv => TypeOK
  BY DEF IInv
<1> QED
  BY <1>1, Invariant, PTL

(* A link stands only between a file and a label that are there: the locks keep
   the foreign keys (label/gestures.rs). *)
THEOREM LinksAlwaysStand == Spec => []LinksStand
<1>1. IInv => LinksStand
  BY DEF IInv
<1> QED
  BY <1>1, Invariant, PTL

(* Two labels never bear one name (label/gestures.rs, serialize_labels). *)
THEOREM NamesStayUnique == Spec => []NamesUnique
<1>1. IInv => NamesUnique
  BY DEF IInv
<1> QED
  BY <1>1, Invariant, PTL

(* The facts recorded on a file tell the labels it carries, a deletion that
   crosses a change of labels included (label/gestures.rs, delete_label). *)
THEOREM TrailAlwaysMatches == Spec => []TrailMatchesLinks
<1>1. IInv => TrailMatchesLinks
  BY DEF IInv
<1> QED
  BY <1>1, Invariant, PTL

-----------------------------------------------------------------------------
(* A gesture that commits is a step of the contract: what it holds is there. *)
LEMMA AssignsAtOnce ==
  ASSUME IInv, NEW t \in Txn, ReplaceFileLabels(t)
  PROVE  [Contract!ContractNext]_Contract!contractVars
<1> DEFINE f == txn[t].file
           wanted == txn[t].wanted
<1>1. /\ f \in File /\ wanted \in SUBSET Label /\ holder[FileRow(f)] = t
      /\ \A l \in txn[t].loaded : holder[LabelRow(l)] = t
      /\ txn[t].loaded \subseteq Label
  BY Typed DEF ReplaceFileLabels, TxnInv, WellFormed, HoldsItsLocks, Transaction
<1>2. CASE Refused(t)
  BY <1>2 DEF Refused, catalogue, Contract!contractVars
<1>3. CASE /\ wanted \subseteq txn[t].loaded
           /\ links' = {link \in links : link[1] # f} \cup ({f} \X wanted)
           /\ UNCHANGED <<files, name>>
  <2>1. f \in files /\ \A l \in wanted : name[l] \in Name
    BY <1>1, <1>3, HeldIsThere DEF LabelsThere
  <2> HIDE DEF f, wanted
  <2>2. Contract!Assign(f, wanted)
    BY <1>3, <2>1 DEF Contract!Assign
  <2> QED
    BY <1>1, <2>2 DEF Contract!ContractNext
<1> QED
  BY <1>2, <1>3 DEF ReplaceFileLabels

(* The same of a deletion, which holds its label. *)
LEMMA DeletesAtOnce ==
  ASSUME IInv, NEW t \in Txn, RemoveLabel(t)
  PROVE  Contract!ContractNext
<1> DEFINE l == txn[t].label
<1>1. l \in Label /\ holder[LabelRow(l)] = t
  BY Typed DEF RemoveLabel, TxnInv, WellFormed, HoldsItsLocks, Place
<1>2. name[l] \in Name
  BY <1>1, HeldIsThere DEF LabelsThere
<1>3. /\ name' = [name EXCEPT ![l] = Unused]
      /\ links' = {link \in links : link[2] # l}
      /\ UNCHANGED files
  BY DEF RemoveLabel
<1> HIDE DEF l
<1>4. Contract!Delete(l)
  BY <1>2, <1>3 DEF Contract!Delete
<1> QED
  BY <1>1, <1>4 DEF Contract!ContractNext

(* And of a save: a create finds its name free of every label, a rename holds
   the label it renames. *)
LEMMA SavesAtOnce ==
  ASSUME IInv, NEW t \in Txn, WriteLabel(t)
  PROVE  Contract!ContractNext
<1> DEFINE l == txn[t].label
           n == txn[t].name
<1>1. /\ l \in Label /\ n \in Name /\ ~Taken(t)
      /\ txn[t].gesture # "create_label" => holder[LabelRow(l)] = t
  BY Typed DEF WriteLabel, TxnInv, WellFormed, HoldsItsLocks, StillKnows, Naming, Place
<1>2. name' = [name EXCEPT ![l] = n] /\ UNCHANGED <<files, links>>
  BY DEF WriteLabel
<1>3. CASE txn[t].gesture = "create_label"
  <2>1. \A m \in Label : name[m] # n
    BY <1>1, <1>3 DEF Taken, NameTaken, Label
  <2> HIDE DEF l, n
  <2>2. Contract!Create(l, n)
    BY <1>2, <2>1 DEF Contract!Create
  <2> QED
    BY <1>1, <2>2 DEF Contract!ContractNext
<1>4. CASE txn[t].gesture # "create_label"
  <2>1. name[l] \in Name
    BY <1>1, <1>4, HeldIsThere DEF LabelsThere
  <2>2. \A m \in Label \ {l} : name[m] # n
    BY <1>1, <1>4 DEF Taken, NameTaken
  <2> HIDE DEF l, n
  <2>3. Contract!Rename(l, n)
    BY <1>2, <2>1, <2>2 DEF Contract!Rename
  <2> QED
    BY <1>1, <2>3 DEF Contract!ContractNext
<1> QED
  BY <1>3, <1>4

(* Every other step of a gesture shows the callers nothing. *)
LEMMA ContractStep ==
  IInv /\ [Next]_vars => [Contract!ContractNext]_Contract!contractVars
<1> SUFFICES ASSUME IInv, [Next]_vars PROVE [Contract!ContractNext]_Contract!contractVars
  OBVIOUS
<1>1. CASE UNCHANGED vars
  BY <1>1 DEF vars, Contract!contractVars
<1>2. ASSUME NEW f \in File, DeleteFile(f) PROVE Contract!ContractNext
  <2>1. Contract!Remove(f)
    BY <1>2 DEF DeleteFile, Contract!Remove
  <2> QED
    BY <2>1 DEF Contract!ContractNext
<1>3. ASSUME NEW t \in Txn,
             \/ \E f \in File, wanted \in SUBSET Label : SetFileLabels(t, f, wanted)
             \/ \E l \in Label : DeleteLabel(t, l)
             \/ \E l \in Label, n \in Name : CreateLabel(t, l, n) \/ UpdateLabel(t, l, n)
      PROVE  UNCHANGED Contract!contractVars
  BY <1>3 DEF SetFileLabels, DeleteLabel, CreateLabel, UpdateLabel, catalogue,
              Contract!contractVars
<1>4. ASSUME NEW t \in Txn,
             LoadFile(t) \/ ReadCurrentLabels(t) \/ LoadNextLabel(t) \/ ReadFilesWithLabel(t)
               \/ LoadNextFile(t) \/ FilesLoaded(t) \/ LoadLabel(t) \/ ReadLateFiles(t)
               \/ SerializeLabels(t) \/ CheckName(t) \/ RollBack(t)
      PROVE  UNCHANGED Contract!contractVars
  <2>1. UNCHANGED catalogue
    BY <1>4 DEF LoadFile, ReadCurrentLabels, LoadNextLabel, ReadFilesWithLabel, LoadNextFile,
                LoadNext, FilesLoaded, LoadLabel, ReadLateFiles, SerializeLabels, CheckName,
                RollBack, Refused
  <2> QED
    BY <2>1 DEF catalogue, Contract!contractVars
<1>5. CASE Next
  BY <1>2, <1>3, <1>4, <1>5, AssignsAtOnce, DeletesAtOnce, SavesAtOnce DEF Next
<1> QED
  BY <1>1, <1>5

(* The gestures of the catalogue, interleaved a lock and a statement at a time,
   are atomic: each one, seen by the callers, happens whole at its commit
   (label/gestures.rs). *)
THEOREM LabelsImplementContract == Spec => ImplementsContract
<1>1. Init => Contract!ContractInit
  BY DEF Init, Contract!ContractInit
<1> QED
  BY <1>1, Invariant, ContractStep, PTL DEF Spec, ImplementsContract, Contract!ContractSpec
=============================================================================
