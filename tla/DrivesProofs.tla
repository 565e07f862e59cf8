----------------------------- MODULE DrivesProofs -----------------------------
(***************************************************************************)
(* Proofs about Drives, for any drives, files, paths and transactions.     *)
(*                                                                         *)
(* Who puts a file in a drive, or takes one out of it for another, holds   *)
(* that drive; who deletes a file holds the file.  So a gesture that holds *)
(* a drive sees its files go, never come or move, and a place it found     *)
(* free stays free.  TxnInv says what each gesture knows so.               *)
(***************************************************************************)
EXTENDS Drives, FiniteSetTheorems, SequenceTheorems, WellFoundedInduction, TLAPS

Transaction ==
  [gesture : Gesture \cup {"none"}, at : Stage, drive : Drive \cup {0},
   file : File \cup {0}, current : Drive \cup {0}, prefix : Path, new : Path,
   todo : SUBSET Nat, loaded : SUBSET Nat, to : Place \cup {Unused}]

(* The kinds of gestures. *)
Uploading(t) == txn[t].gesture = "request_upload"
Updating(t) == txn[t].gesture = "update_file"
Sweeping(t) == txn[t].gesture \in {"move_folder", "delete_folder", "delete_drive", "freeze_drive"}

(* An update past the drives it locks first, and one that holds its file. *)
PastDrives(t) == Updating(t) /\ txn[t].at \in {"file", "from", "check", "write"}
HasFile(t) == Updating(t) /\ txn[t].at \in {"from", "check", "write"}
HasPlace(t) == Updating(t) /\ txn[t].at \in {"check", "write"}

(* A sweep that has read what it is about. *)
HasMembers(t) == Sweeping(t) /\ txn[t].at \in {"files", "write"}

(* Where each gesture is, and what it is about. *)
WellFormed(t) ==
  /\ txn[t].at = "idle" <=> txn[t].gesture = "none"
  /\ Uploading(t) => /\ txn[t].at \in {"drive", "check", "write"}
                     /\ txn[t].file \in File /\ txn[t].drive \in Drive
  /\ Updating(t) => /\ txn[t].at \in {"drive_of", "drives", "file", "from", "check", "write"}
                    /\ txn[t].file \in File
                    /\ txn[t].at # "drive_of" => txn[t].current \in Drive
  /\ Sweeping(t) => /\ txn[t].at \in {"drive", "members", "files", "write", "error"}
                    /\ txn[t].drive \in Drive
                    /\ txn[t].at = "error" => txn[t].gesture = "move_folder"
                    /\ txn[t].gesture \in {"delete_drive", "freeze_drive"} => txn[t].prefix = <<>>
                    /\ txn[t].at = "write" => txn[t].todo = {}
  /\ txn[t].at \in {"drive", "drive_of", "members"} => txn[t].loaded = {}
  /\ Updating(t) => txn[t].todo \cup txn[t].loaded \subseteq Drive
  /\ HasMembers(t) => txn[t].todo \cup txn[t].loaded \subseteq File

(* The rows it has locked. *)
HoldsItsLocks(t) ==
  /\ Uploading(t) /\ txn[t].at # "drive" => holder[DriveRow(txn[t].drive)] = t
  /\ Updating(t) => \A d \in txn[t].loaded : holder[DriveRow(d)] = t
  /\ HasFile(t) => holder[FileRow(txn[t].file)] = t
  /\ HasPlace(t) => holder[DriveRow(place[txn[t].file].drive)] = t
  /\ Sweeping(t) /\ txn[t].at # "drive" => holder[DriveRow(txn[t].drive)] = t
  /\ HasMembers(t) => \A f \in txn[t].loaded : holder[FileRow(f)] = t

Vacant(to) == to \in Place /\ \A f \in File : place[f] # to

(* An upload's file is not there yet, and its place stays free. *)
UploadKnows(t) ==
  Uploading(t) =>
    /\ place[txn[t].file] = Unused
    /\ txn[t].at = "write" => Vacant(txn[t].to) /\ txn[t].to.drive = txn[t].drive

(* The drive an update read its file in is locked, or gone for good; the
   place it goes to is in a drive it has locked, and stays free. *)
UpdateKnows(t) ==
  /\ Updating(t) /\ txn[t].at = "drives" =>
       /\ drives[txn[t].current] # Unused
       /\ txn[t].current \in txn[t].todo \cup txn[t].loaded \/ drives[txn[t].current] = Gone
  /\ PastDrives(t) => txn[t].current \in txn[t].loaded \/ drives[txn[t].current] = Gone
  /\ Updating(t) /\ txn[t].at = "write" =>
       Vacant(txn[t].to) /\ txn[t].to.drive \in txn[t].loaded

Under(t) == FilesUnder(txn[t].drive, txn[t].prefix)

(* A sweep has every file it is about, locked or still to lock; what it has
   locked stays there, what it has not may have gone. *)
SweepKnows(t) ==
  HasMembers(t) =>
    /\ Members(t) \subseteq txn[t].loaded \cup txn[t].todo
    /\ txn[t].loaded \subseteq Under(t)
    /\ \A f \in txn[t].todo : f \in Under(t) \/ place[f] = Gone
    /\ txn[t].at = "write" /\ txn[t].gesture = "move_folder" =>
         \A f \in txn[t].loaded : Landing(t, f).path \in Path

TxnInv(t) ==
  /\ WellFormed(t) /\ HoldsItsLocks(t)
  /\ UploadKnows(t) /\ UpdateKnows(t) /\ SweepKnows(t)

(* A file is uploaded once. *)
OneUpload ==
  \A t, u \in Txn : Uploading(t) /\ Uploading(u) /\ txn[t].file = txn[u].file => t = u

IInv ==
  /\ TypeOK
  /\ Sound(place, drives)
  /\ \A t \in Txn : TxnInv(t)
  /\ OneUpload

-----------------------------------------------------------------------------
(* A set of keys has a first one, and load_many asks for that. *)
LEMMA FirstKey ==
  ASSUME NEW keys \in SUBSET Nat, keys # {}
  PROVE  Min(keys) \in keys
<1> DEFINE Less == {pair \in Nat \X Nat : pair[1] < pair[2]}
<1>1. IsWellFoundedOn(Less, Nat)
  BY NatLessThanWellFounded DEF OpToRel
<1> HIDE DEF Less
<1>2. PICK first \in keys : \A key \in keys : <<key, first>> \notin Less
  BY <1>1, WFMin
<1>3. \A key \in keys : first <= key
  <2> SUFFICES ASSUME NEW key \in keys, key < first PROVE FALSE
    OBVIOUS
  <2>1. <<key, first>> \in Less
    BY DEF Less
  <2> QED
    BY <1>2, <2>1
<1> QED
  BY <1>3 DEF Min

(* Rows are told apart. *)
LEMMA RowsApart ==
  /\ \A d \in Drive : DriveRow(d) \in Row
  /\ \A f \in File : FileRow(f) \in Row
  /\ \A d, e \in Drive : DriveRow(d) = DriveRow(e) => d = e
  /\ \A f, g \in File : FileRow(f) = FileRow(g) => f = g
  /\ \A d \in Drive, f \in File : DriveRow(d) # FileRow(f)
  BY DEF Row, FileRow, DriveRow, File, Drive

(* The empty path is a path, and every path is within it. *)
LEMMA EmptyPath ==
  /\ <<>> \in Path
  /\ \A path \in Path : Within(path, <<>>)
<1>1. <<>> \in Path
  <2>1. <<>> \in [1..0 -> Segment] /\ 0 \in 0..MaxDepth
    BY DrivesAssumption
  <2> QED
    BY <2>1 DEF Path, BoundedSeq, SeqOf
<1>2. \A path \in Path : Within(path, <<>>)
  <2> SUFFICES ASSUME NEW path \in Path PROVE Within(path, <<>>)
    OBVIOUS
  <2>1. PICK n \in 0..MaxDepth : path \in [1..n -> Segment]
    BY DEF Path, BoundedSeq, SeqOf
  <2>2. path \in Seq(Segment) /\ Len(path) = n
    BY <2>1
  <2>3. Len(<<>>) = 0 /\ SubSeq(<<>>, 1, 0) = <<>> /\ SubSeq(path, 1, 0) = <<>>
    BY <2>2
  <2> QED
    BY <2>2, <2>3, EmptySeq DEF Within, IsPrefix
<1> QED
  BY <1>1, <1>2

(* The types, and what is assumed of the constants. *)
LEMMA Typed ==
  ASSUME IInv
  PROVE  /\ txn \in [Txn -> Transaction]
         /\ holder \in [Row -> Txn \cup {Nobody}]
         /\ drives \in [Drive -> {Unused, "there", Gone}]
         /\ place \in [File -> Place \cup {Unused, Gone}]
         /\ pending \subseteq FilesThere /\ FilesThere \subseteq File
         /\ Nobody \notin Txn
         /\ Unused \notin Place /\ Gone \notin Place
         /\ Unused # Gone /\ "there" # Unused /\ "there" # Gone
         /\ \A t \in Txn : TxnInv(t)
         /\ \A row \in Row : holder[row] # Nobody => There(row) /\ txn[holder[row]].at # "idle"
  BY DrivesAssumption, NowhereAssumption DEF IInv, TypeOK, Transaction, FilesThere, Free

(* A place, field by field. *)
LEMMA PlaceFields ==
  ASSUME NEW to \in Place
  PROVE  to.drive \in Drive /\ to.path \in Path /\ to.name \in Name
         /\ to = [drive |-> to.drive, path |-> to.path, name |-> to.name]
  BY DEF Place

(* A drive held is there, and so is a file held. *)
LEMMA HeldIsThere ==
  ASSUME IInv, NEW t \in Txn
  PROVE  /\ \A d \in Drive : holder[DriveRow(d)] = t => d \in DrivesThere
         /\ \A f \in File : holder[FileRow(f)] = t => f \in FilesThere
<1>1. FilesThere \subseteq File /\ DrivesThere \subseteq Drive
  BY Typed DEF DrivesThere
<1>2. \A d \in Drive : There(DriveRow(d)) => d \in DrivesThere
  BY <1>1, RowsApart DEF There
<1>3. \A f \in File : There(FileRow(f)) => f \in FilesThere
  BY <1>1, RowsApart DEF There
<1> QED
  BY <1>2, <1>3, RowsApart, Typed

(* A file that is there is in a drive that is. *)
LEMMA InADrive ==
  ASSUME IInv, NEW f \in FilesThere
  PROVE  f \in File /\ place[f] \in Place /\ place[f].drive \in DrivesThere
         /\ place[f].drive \in Drive /\ drives[place[f].drive] = "there"
  BY PlaceFields DEF IInv, Sound, FilesThere, DrivesThere

(* The step of a transaction on its locks: those of the others stay theirs. *)
LocksOf(t) ==
  /\ holder' \in [Row -> Txn \cup {Nobody}]
  /\ \A row \in Row : holder'[row] = holder[row]
                      \/ (holder[row] \in {Nobody, t} /\ holder'[row] \in {Nobody, t})

(* A row is locked, if it is there. *)
LEMMA LocksOne ==
  ASSUME IInv, NEW t \in Txn, NEW row \in Row, Lock(t, row)
  PROVE  /\ LocksOf(t)
         /\ There(row) => holder'[row] = t
         /\ \A r \in Row : holder[r] = t => holder'[r] = t
         /\ \A r \in Row : holder'[r] # holder[r] => There(r)
  BY Typed DEF Lock, LockRow, LocksOf

(* All it holds is freed. *)
LEMMA LocksFreed ==
  ASSUME IInv, NEW t \in Txn, ReleaseAll(t)
  PROVE  /\ LocksOf(t)
         /\ \A row \in Row : holder'[row] # t
         /\ \A row \in Row : holder'[row] # holder[row] => holder'[row] = Nobody
  BY Typed DEF ReleaseAll, LocksOf

(* A step that locks nothing. *)
LEMMA NoLock ==
  ASSUME IInv, NEW t \in Txn, UNCHANGED holder
  PROVE  /\ LocksOf(t)
         /\ \A row \in Row : holder'[row] # holder[row] => holder'[row] = Nobody \/ There(row)
  BY Typed DEF LocksOf

(* A transaction that is idle knows nothing. *)
LEMMA IdleKeeps ==
  ASSUME NEW t, txn'[t] = Idle
  PROVE  TxnInv(t)' /\ ~Uploading(t)'
  BY DEF Idle, TxnInv, WellFormed, HoldsItsLocks, UploadKnows, UpdateKnows, SweepKnows,
     Uploading, Updating, Sweeping, PastDrives, HasFile, HasPlace, HasMembers

(* Idle is a transaction. *)
LEMMA IdleTyped == Idle \in Transaction
  BY EmptyPath DEF Idle, Transaction, Gesture, Stage

(* The name first_free finds is one no sibling has: a counter is left, for
   there are fewer files than counters. *)
LEMMA FreeName ==
  ASSUME IInv, NEW f \in File, place[f] = Unused, NEW name \in Name, NEW d, NEW path
  PROVE  /\ FirstFree(name, SiblingNames(d, path)) \in Name
         /\ FirstFree(name, SiblingNames(d, path)) \notin SiblingNames(d, path)
<1> DEFINE taken == SiblingNames(d, path)
           left == {n \in 1..NumFiles : <<name[1], n>> \notin taken}
<1>1. name[1] \in Stem /\ NumFiles \in Nat
  BY DrivesAssumption DEF Name
<1>2. ASSUME left = {} PROVE FALSE
  <2>1. \A n \in 1..NumFiles : \E g \in FilesThere : place[g].name = <<name[1], n>>
    BY <1>2 DEF SiblingNames
  <2> DEFINE bearer == [n \in 1..NumFiles |-> CHOOSE g \in FilesThere : place[g].name = <<name[1], n>>]
  <2>2. \A n \in 1..NumFiles : bearer[n] \in FilesThere /\ place[bearer[n]].name = <<name[1], n>>
    BY <2>1
  <2>3. FilesThere \subseteq File \ {f}
    BY Typed DEF FilesThere
  <2>4. bearer \in [1..NumFiles -> File \ {f}]
    BY <2>2, <2>3
  <2> HIDE DEF bearer
  <2>5. \A m, n \in 1..NumFiles : bearer[m] = bearer[n] => m = n
    BY <2>2
  <2>6. bearer \in Injection(1..NumFiles, File \ {f})
    BY <2>4, <2>5 DEF Injection, IsInjective
  <2>7. /\ IsFiniteSet(1..NumFiles) /\ Cardinality(1..NumFiles) = NumFiles
    BY <1>1, FS_Interval
  <2>8. /\ IsFiniteSet(File \ {f}) /\ Cardinality(File \ {f}) = NumFiles - 1
    BY <2>7, FS_RemoveElement DEF File
  <2>9. Cardinality(1..NumFiles) <= Cardinality(File \ {f})
    BY <2>6, <2>7, <2>8, FS_Injection
  <2> QED
    BY <1>1, <2>7, <2>8, <2>9
<1>3. Min(left) \in left
  <2>1. left \in SUBSET Nat
    OBVIOUS
  <2> QED
    BY <1>2, <2>1, FirstKey
<1>4. <<name[1], Min(left)>> \in Name /\ <<name[1], Min(left)>> \notin taken
  BY <1>1, <1>3 DEF Name, Counter
<1> QED
  BY <1>4 DEF FirstFree

-----------------------------------------------------------------------------
(* What the step of another leaves of a drive held: its files go, and none
   comes, moves or is pending anew. *)
DriveKept(d) ==
  /\ \A f \in File : place'[f] \in Place /\ place'[f].drive = d =>
       place'[f] = place[f] /\ (f \in pending' => f \in pending)
  /\ \A f \in File : place[f] \in Place /\ place[f].drive = d => place'[f] \in {place[f], Gone}

(* What the step of another leaves to a transaction. *)
Undisturbed(u) ==
  /\ txn'[u] = txn[u]
  /\ \A row \in Row : holder[row] = u => holder'[row] = u
  /\ \A f \in File : holder[FileRow(f)] = u => place'[f] = place[f]
  /\ \A d \in Drive : holder[DriveRow(d)] = u => DriveKept(d)
  /\ Uploading(u) => place'[txn[u].file] = place[txn[u].file]
  /\ \A f \in File : place[f] = Gone => place'[f] = Gone
  /\ \A d \in Drive : drives[d] = Gone => drives'[d] = Gone
  /\ \A d \in Drive : drives[d] # Unused => drives'[d] # Unused

(* What a sweep is about, but for what is gone. *)
LEMMA StillUnder ==
  ASSUME IInv, NEW u \in Txn, Undisturbed(u), HasMembers(u)
  PROVE  SweepKnows(u)'
<1>1. /\ Members(u) \subseteq txn[u].loaded \cup txn[u].todo
      /\ txn[u].loaded \subseteq Under(u)
      /\ \A f \in txn[u].todo : f \in Under(u) \/ place[f] = Gone
      /\ txn[u].at = "write" /\ txn[u].gesture = "move_folder" =>
           \A f \in txn[u].loaded : Landing(u, f).path \in Path
  BY Typed DEF TxnInv, SweepKnows
<1>2. /\ txn[u].drive \in Drive /\ holder[DriveRow(txn[u].drive)] = u
      /\ txn[u].todo \cup txn[u].loaded \subseteq File
      /\ \A f \in txn[u].loaded : holder[FileRow(f)] = u
  BY Typed DEF TxnInv, WellFormed, HoldsItsLocks, HasMembers
<1>3. /\ DriveKept(txn[u].drive) /\ txn'[u] = txn[u]
      /\ \A f \in txn[u].loaded : place'[f] = place[f]
      /\ \A f \in File : place[f] = Gone => place'[f] = Gone
  BY <1>2 DEF Undisturbed
<1>4. Under(u)' \subseteq Under(u)
  BY <1>3 DEF Under, FilesUnder, FilesThere, DriveKept
<1>5. Members(u)' \subseteq Members(u)
  <2>1. \A f \in Under(u)' : f \in pending' => f \in pending
    BY <1>3 DEF Under, FilesUnder, FilesThere, DriveKept
  <2> QED
    BY <1>3, <1>4, <2>1 DEF Members, Under
<1>6. \A f \in Under(u) : f \in Under(u)' \/ place'[f] = Gone
  <2> SUFFICES ASSUME NEW f \in Under(u), place'[f] # Gone PROVE f \in Under(u)'
    OBVIOUS
  <2>1. /\ f \in File /\ place[f] \in Place /\ place[f].drive = txn[u].drive
        /\ Within(place[f].path, txn[u].prefix)
    BY DEF Under, FilesUnder, FilesThere
  <2>2. place'[f] = place[f]
    BY <1>3, <2>1 DEF DriveKept
  <2> QED
    BY <1>3, <2>1, <2>2 DEF Under, FilesUnder, FilesThere
<1>7. txn[u].loaded \subseteq Under(u)'
  <2> SUFFICES ASSUME NEW f \in txn[u].loaded PROVE f \in Under(u)'
    OBVIOUS
  <2>1. f \in Under(u) /\ place'[f] = place[f] /\ place[f] # Gone
    BY <1>1, <1>3, Typed DEF Under, FilesUnder, FilesThere
  <2> QED
    BY <1>6, <2>1
<1>8. \A f \in txn[u].todo : f \in Under(u)' \/ place'[f] = Gone
  BY <1>1, <1>2, <1>3, <1>6
<1>9. \A f \in txn[u].loaded : Landing(u, f)' = Landing(u, f)
  BY <1>3 DEF Landing
<1> HIDE DEF Landing
<1> QED
  BY <1>1, <1>3, <1>5, <1>7, <1>8, <1>9 DEF SweepKnows

(* Then it still knows what it knew. *)
LEMMA UndisturbedKeeps ==
  ASSUME IInv, NEW u \in Txn, Undisturbed(u)
  PROVE  TxnInv(u)'
<1>1. TxnInv(u) /\ txn[u] \in Transaction /\ txn'[u] = txn[u]
  BY Typed DEF Undisturbed
<1>2. WellFormed(u)'
  BY <1>1 DEF TxnInv, WellFormed, Uploading, Updating, Sweeping, HasMembers
<1>3. HoldsItsLocks(u)'
  <2>1. \A d \in Drive : holder[DriveRow(d)] = u => holder'[DriveRow(d)] = u
    BY RowsApart DEF Undisturbed
  <2>2. \A f \in File : holder[FileRow(f)] = u =>
          holder'[FileRow(f)] = u /\ place'[f] = place[f]
    BY RowsApart DEF Undisturbed
  <2>3. HasPlace(u) => place[txn[u].file].drive \in Drive
    <3> SUFFICES ASSUME HasPlace(u) PROVE place[txn[u].file].drive \in Drive
      OBVIOUS
    <3>1. txn[u].file \in File /\ holder[FileRow(txn[u].file)] = u
      BY <1>1 DEF TxnInv, WellFormed, HoldsItsLocks, HasPlace, HasFile
    <3> QED
      BY <3>1, HeldIsThere, InADrive
  <2>4. Uploading(u) /\ txn[u].at # "drive" => holder'[DriveRow(txn[u].drive)] = u
    BY <1>1, <2>1 DEF TxnInv, WellFormed, HoldsItsLocks
  <2>5. Updating(u) => \A d \in txn[u].loaded : holder'[DriveRow(d)] = u
    BY <1>1, <2>1 DEF TxnInv, WellFormed, HoldsItsLocks
  <2>6. HasFile(u) => holder'[FileRow(txn[u].file)] = u
    BY <1>1, <2>2 DEF TxnInv, WellFormed, HoldsItsLocks, HasFile
  <2>7. HasPlace(u) => holder'[DriveRow(place'[txn[u].file].drive)] = u
    BY <1>1, <2>1, <2>2, <2>3 DEF TxnInv, WellFormed, HoldsItsLocks, HasPlace, HasFile
  <2>8. Sweeping(u) /\ txn[u].at # "drive" => holder'[DriveRow(txn[u].drive)] = u
    BY <1>1, <2>1 DEF TxnInv, WellFormed, HoldsItsLocks
  <2>9. HasMembers(u) => \A f \in txn[u].loaded : holder'[FileRow(f)] = u
    BY <1>1, <2>2 DEF TxnInv, WellFormed, HoldsItsLocks
  <2> QED
    BY <1>1, <2>4, <2>5, <2>6, <2>7, <2>8, <2>9
       DEF HoldsItsLocks, Uploading, Updating, Sweeping, HasFile, HasPlace, HasMembers
<1>4. UploadKnows(u)'
  <2> SUFFICES ASSUME Uploading(u)
               PROVE  /\ place'[txn[u].file] = Unused
                      /\ txn[u].at = "write" => Vacant(txn[u].to)' /\ txn[u].to.drive = txn[u].drive
    BY <1>1 DEF UploadKnows, Uploading, Vacant
  <2>1. /\ place[txn[u].file] = Unused /\ txn[u].file \in File
        /\ txn[u].at = "write" => Vacant(txn[u].to) /\ txn[u].to.drive = txn[u].drive
                                  /\ holder[DriveRow(txn[u].drive)] = u
    BY <1>1 DEF TxnInv, WellFormed, HoldsItsLocks, UploadKnows
  <2>2. ASSUME txn[u].at = "write" PROVE Vacant(txn[u].to)'
    <3> DEFINE to == txn[u].to
    <3>1. Vacant(to) /\ holder[DriveRow(to.drive)] = u
      BY <2>1, <2>2
    <3> HIDE DEF to
    <3>2. \A f \in File : place'[f] # to
      BY <3>1, PlaceFields DEF Undisturbed, DriveKept, Vacant
    <3> QED
      BY <1>1, <3>1, <3>2 DEF Vacant, to
  <2> QED
    BY <2>1, <2>2 DEF Undisturbed
<1>5. UpdateKnows(u)'
  <2>1. ASSUME Updating(u), txn[u].at = "write" PROVE Vacant(txn[u].to)'
    <3> DEFINE to == txn[u].to
    <3>1. Vacant(to) /\ holder[DriveRow(to.drive)] = u
      BY <1>1, <2>1 DEF TxnInv, HoldsItsLocks, UpdateKnows
    <3> HIDE DEF to
    <3>2. \A f \in File : place'[f] # to
      BY <3>1, PlaceFields DEF Undisturbed, DriveKept, Vacant
    <3> QED
      BY <1>1, <3>1, <3>2 DEF Vacant, to
  <2>2. Updating(u) /\ txn[u].at # "drive_of" /\ drives[txn[u].current] = Gone =>
          drives'[txn[u].current] = Gone
    BY <1>1 DEF TxnInv, WellFormed, Undisturbed
  <2>3. Updating(u) /\ txn[u].at = "drives" => drives'[txn[u].current] # Unused
    BY <1>1 DEF TxnInv, WellFormed, UpdateKnows, Undisturbed
  <2> QED
    BY <1>1, <2>1, <2>2, <2>3 DEF TxnInv, UpdateKnows, Updating, PastDrives, Vacant
<1>6. SweepKnows(u)'
  BY <1>1, StillUnder DEF SweepKnows, HasMembers, Sweeping
<1> QED
  BY <1>2, <1>3, <1>4, <1>5, <1>6 DEF TxnInv

(* What a step of a transaction that writes nothing has to show. *)
LEMMA GestureStep ==
  ASSUME IInv, NEW t \in Txn, NEW new \in Transaction, txn' = [txn EXCEPT ![t] = new],
         UNCHANGED tree, LocksOf(t),
         \A row \in Row : holder'[row] # holder[row] => holder'[row] = Nobody \/ There(row),
         new.at = "idle" => \A row \in Row : holder'[row] # t,
         new.gesture = "request_upload" =>
           \/ Uploading(t) /\ txn[t].file = new.file
           \/ \A u \in Txn : ~(Uploading(u) /\ txn[u].file = new.file),
         TxnInv(t)'
  PROVE  IInv'
<1>1. UNCHANGED <<drives, place, pending>> /\ txn' \in [Txn -> Transaction] /\ txn'[t] = new
      /\ \A u \in Txn \ {t} : txn'[u] = txn[u]
  BY Typed DEF tree
<1>2. \A row : There(row)' <=> There(row)
  BY <1>1 DEF There, DrivesThere, FilesThere
<1>3. \A row \in Row : holder'[row] # Nobody => There(row)' /\ txn'[holder'[row]].at # "idle"
  BY <1>1, <1>2, Typed DEF LocksOf
<1>4. TypeOK'
  BY <1>1, <1>3 DEF IInv, TypeOK, LocksOf, Transaction, FilesThere, Free
<1>5. \A u \in Txn : TxnInv(u)'
  <2> SUFFICES ASSUME NEW u \in Txn \ {t} PROVE TxnInv(u)'
    OBVIOUS
  <2>1. Undisturbed(u)
    BY <1>1, Typed DEF Undisturbed, LocksOf, DriveKept
  <2> QED
    BY <2>1, UndisturbedKeeps
<1>6. OneUpload'
  BY <1>1 DEF IInv, OneUpload, Uploading
<1>7. Sound(place, drives)'
  BY <1>1 DEF IInv, Sound
<1> QED
  BY <1>4, <1>5, <1>6, <1>7 DEF IInv

(* A refusal, or a rollback. *)
LEMMA RefusedIInv ==
  ASSUME IInv, NEW t \in Txn, Refused(t)
  PROVE  IInv'
<1>1. txn' = [txn EXCEPT ![t] = Idle] /\ txn'[t] = Idle
  BY Typed DEF Refused, End
<1>2. /\ LocksOf(t)
      /\ \A row \in Row : holder'[row] # t
      /\ \A row \in Row : holder'[row] # holder[row] => holder'[row] = Nobody
  BY LocksFreed DEF Refused, End
<1>3. Idle.gesture = "none"
  BY DEF Idle
<1> QED
  BY <1>1, <1>2, <1>3, IdleTyped, IdleKeeps, GestureStep DEF Refused

\* What a transaction knows after GoTo: new.
WentOn(t, stage, new) ==
  /\ txn' = [txn EXCEPT ![t] = new] /\ txn'[t] = new
  /\ new.gesture = txn[t].gesture /\ new.at = stage /\ new.drive = txn[t].drive
  /\ new.file = txn[t].file /\ new.current = txn[t].current
  /\ new.prefix = txn[t].prefix /\ new.new = txn[t].new
  /\ new.todo = txn[t].todo /\ new.loaded = txn[t].loaded /\ new.to = txn[t].to

(* A transaction that goes on to the next place. *)
LEMMA GoesTo ==
  ASSUME IInv, NEW t \in Txn, NEW stage \in Stage, GoTo(t, stage)
  PROVE  \E new \in Transaction : WentOn(t, stage, new)
<1> DEFINE new == [txn[t] EXCEPT !.at = stage]
<1>1. /\ new \in Transaction
      /\ new.gesture = txn[t].gesture /\ new.at = stage /\ new.drive = txn[t].drive
      /\ new.file = txn[t].file /\ new.current = txn[t].current
      /\ new.prefix = txn[t].prefix /\ new.new = txn[t].new
      /\ new.todo = txn[t].todo /\ new.loaded = txn[t].loaded /\ new.to = txn[t].to
  BY Typed DEF Transaction
<1>2. txn' = [txn EXCEPT ![t] = new]
  BY Typed DEF GoTo
<1> HIDE DEF new
<1>3. txn'[t] = new
  BY <1>2, Typed
<1> QED
  BY <1>1, <1>2, <1>3 DEF WentOn

(* What a transaction reads of the drives and files when none of them changes. *)
LEMMA SameTree ==
  ASSUME UNCHANGED tree
  PROVE  /\ place' = place /\ drives' = drives /\ pending' = pending
         /\ FilesThere' = FilesThere /\ DrivesThere' = DrivesThere
         /\ \A to : Vacant(to)' <=> Vacant(to)
         /\ \A d, prefix : FilesUnder(d, prefix)' = FilesUnder(d, prefix)
  BY DEF tree, FilesThere, DrivesThere, Vacant, FilesUnder

(* A gesture begins. *)
LEMMA BeginsIInv ==
  ASSUME IInv, NEW t \in Txn,
         \/ \E f \in File, d \in Drive : RequestUpload(t, f, d)
         \/ \E f \in File, d \in Drive \cup {0} : UpdateFile(t, f, d)
         \/ \E d \in Drive, old, new \in Path : MoveFolder(t, d, old, new)
         \/ \E d \in Drive, prefix \in Path : DeleteFolder(t, d, prefix)
         \/ \E d \in Drive : DeleteDrive(t, d) \/ FreezeDrive(t, d)
  PROVE  IInv'
<1>1. ASSUME NEW new \in Transaction, txn' = [txn EXCEPT ![t] = new],
             UNCHANGED <<tree, holder>>, new.loaded = {}, new.todo = {},
             \/ /\ new.gesture = "request_upload" /\ new.at = "drive"
                /\ new.file \in File /\ new.drive \in Drive /\ place[new.file] = Unused
                /\ \A u \in Txn : ~(Uploading(u) /\ txn[u].file = new.file)
             \/ new.gesture = "update_file" /\ new.at = "drive_of" /\ new.file \in File
             \/ /\ new.gesture \in {"move_folder", "delete_folder", "delete_drive", "freeze_drive"}
                /\ new.at = "drive" /\ new.drive \in Drive
                /\ new.gesture \in {"delete_drive", "freeze_drive"} => new.prefix = <<>>
      PROVE  IInv'
  <2>1. txn'[t] = new
    BY <1>1, Typed
  <2>2. UNCHANGED tree /\ UNCHANGED holder
    BY <1>1
  <2>3. TxnInv(t)'
    BY <1>1, <2>1, <2>2, SameTree
       DEF TxnInv, WellFormed, HoldsItsLocks, UploadKnows, UpdateKnows, SweepKnows,
           Uploading, Updating, Sweeping, PastDrives, HasFile, HasPlace, HasMembers
  <2>4. new.at # "idle"
    BY <1>1
  <2> QED
    BY <1>1, <2>2, <2>3, <2>4, NoLock, GestureStep
<1>2. ASSUME NEW f \in File, NEW d \in Drive, RequestUpload(t, f, d) PROVE IInv'
  <2> DEFINE new == [Idle EXCEPT !.at = "drive", !.drive = d, !.file = f, !.gesture = "request_upload"]
  <2>1. /\ new \in Transaction /\ new.loaded = {} /\ new.todo = {}
        /\ new.gesture = "request_upload" /\ new.at = "drive" /\ new.file = f /\ new.drive = d
    BY EmptyPath DEF Idle, Transaction, Gesture, Stage
  <2>2. /\ txn' = [txn EXCEPT ![t] = new] /\ UNCHANGED <<tree, holder>> /\ place[f] = Unused
        /\ \A u \in Txn : ~(Uploading(u) /\ txn[u].file = f)
    BY <1>2 DEF RequestUpload, Start, Uploading, Idle
  <2> HIDE DEF new
  <2> QED
    BY <1>1, <2>1, <2>2
<1>3. ASSUME NEW f \in File, NEW d \in Drive \cup {0}, UpdateFile(t, f, d) PROVE IInv'
  <2> DEFINE new == [Idle EXCEPT !.at = "drive_of", !.drive = d, !.file = f, !.gesture = "update_file"]
  <2>1. /\ new \in Transaction /\ new.loaded = {} /\ new.todo = {}
        /\ new.gesture = "update_file" /\ new.at = "drive_of" /\ new.file = f
    BY EmptyPath DEF Idle, Transaction, Gesture, Stage
  <2>2. txn' = [txn EXCEPT ![t] = new] /\ UNCHANGED <<tree, holder>>
    BY <1>3 DEF UpdateFile, Start, Idle
  <2> HIDE DEF new
  <2> QED
    BY <1>1, <2>1, <2>2
<1>4. ASSUME NEW d \in Drive, NEW old \in Path, NEW to \in Path, MoveFolder(t, d, old, to)
      PROVE  IInv'
  <2> DEFINE new == [Idle EXCEPT !.at = "drive", !.drive = d, !.prefix = old, !.new = to,
                                 !.gesture = "move_folder"]
  <2>1. /\ new \in Transaction /\ new.loaded = {} /\ new.todo = {}
        /\ new.gesture = "move_folder" /\ new.at = "drive" /\ new.drive = d
    BY DEF Idle, Transaction, Gesture, Stage
  <2>2. txn' = [txn EXCEPT ![t] = new] /\ UNCHANGED <<tree, holder>>
    BY <1>4 DEF MoveFolder, Start, Idle
  <2> HIDE DEF new
  <2> QED
    BY <1>1, <2>1, <2>2
<1>5. ASSUME NEW d \in Drive, NEW prefix \in Path, DeleteFolder(t, d, prefix) PROVE IInv'
  <2> DEFINE new == [Idle EXCEPT !.at = "drive", !.drive = d, !.prefix = prefix, !.gesture = "delete_folder"]
  <2>1. /\ new \in Transaction /\ new.loaded = {} /\ new.todo = {} /\ new.prefix = prefix
        /\ new.gesture = "delete_folder" /\ new.at = "drive" /\ new.drive = d
    BY EmptyPath DEF Idle, Transaction, Gesture, Stage
  <2>2. txn' = [txn EXCEPT ![t] = new] /\ UNCHANGED <<tree, holder>>
    BY <1>5 DEF DeleteFolder, Start, Idle
  <2> HIDE DEF new
  <2> QED
    BY <1>1, <2>1, <2>2
<1>6. ASSUME NEW d \in Drive, DeleteDrive(t, d) PROVE IInv'
  <2> DEFINE new == [Idle EXCEPT !.at = "drive", !.drive = d, !.gesture = "delete_drive"]
  <2>1. /\ new \in Transaction /\ new.loaded = {} /\ new.todo = {} /\ new.prefix = <<>>
        /\ new.gesture = "delete_drive" /\ new.at = "drive" /\ new.drive = d
    BY EmptyPath DEF Idle, Transaction, Gesture, Stage
  <2>2. txn' = [txn EXCEPT ![t] = new] /\ UNCHANGED <<tree, holder>>
    BY <1>6 DEF DeleteDrive, Start, Idle
  <2> HIDE DEF new
  <2> QED
    BY <1>1, <2>1, <2>2
<1>7. ASSUME NEW d \in Drive, FreezeDrive(t, d) PROVE IInv'
  <2> DEFINE new == [Idle EXCEPT !.at = "drive", !.drive = d, !.gesture = "freeze_drive"]
  <2>1. /\ new \in Transaction /\ new.loaded = {} /\ new.todo = {} /\ new.prefix = <<>>
        /\ new.gesture = "freeze_drive" /\ new.at = "drive" /\ new.drive = d
    BY EmptyPath DEF Idle, Transaction, Gesture, Stage
  <2>2. txn' = [txn EXCEPT ![t] = new] /\ UNCHANGED <<tree, holder>>
    BY <1>7 DEF FreezeDrive, Start, Idle
  <2> HIDE DEF new
  <2> QED
    BY <1>1, <2>1, <2>2
<1> QED
  BY <1>2, <1>3, <1>4, <1>5, <1>6, <1>7

(* What a transaction knows, in one place. *)
LEMMA Knows ==
  ASSUME IInv, NEW t \in Txn
  PROVE  /\ WellFormed(t) /\ HoldsItsLocks(t)
         /\ UploadKnows(t) /\ UpdateKnows(t) /\ SweepKnows(t)
         /\ txn[t] \in Transaction
  BY Typed DEF TxnInv

(* A name asked for is a name. *)
LEMMA AskedName ==
  ASSUME IInv, NEW t \in Txn, NEW name \in AskedNames(t)
  PROVE  name \in Name
<1>1. ASSUME NEW f \in FilesThere PROVE place[f].name \in Name
  BY <1>1, InADrive, PlaceFields
<1>2. \A stem \in Stem : <<stem, 0>> \in Name
  BY DrivesAssumption DEF Name, Counter
<1> QED
  BY <1>1, <1>2 DEF AskedNames

(* A place with a name no sibling has is free. *)
LEMMA FreePlace ==
  ASSUME IInv, NEW d \in Drive, NEW path \in Path, NEW name \in Name,
         name \notin SiblingNames(d, path)
  PROVE  Vacant([drive |-> d, path |-> path, name |-> name])
<1> DEFINE to == [drive |-> d, path |-> path, name |-> name]
<1>1. to \in Place /\ to.drive = d /\ to.path = path /\ to.name = name
  BY DEF Place
<1> HIDE DEF to
<1>2. ASSUME NEW f \in File, place[f] = to PROVE FALSE
  BY <1>1, <1>2 DEF SiblingNames, FilesThere
<1>3. Vacant(to)
  BY <1>1, <1>2 DEF Vacant
<1> QED
  BY <1>3 DEF to

(* The first free name. *)
LEMMA ChooseNameIInv ==
  ASSUME IInv, NEW t \in Txn, NEW path \in Path, NEW name \in AskedNames(t),
         ChooseName(t, path, name)
  PROVE  IInv'
<1> DEFINE d == txn[t].drive
           free == FirstFree(name, SiblingNames(d, path))
           to == [drive |-> d, path |-> path, name |-> free]
           new == [txn[t] EXCEPT !.at = "write", !.to = to]
<1>1. /\ txn[t].at = "check" /\ Uploading(t) /\ d \in Drive /\ txn[t].file \in File
      /\ holder[DriveRow(d)] = t /\ place[txn[t].file] = Unused
      /\ ~Updating(t) /\ ~Sweeping(t) /\ txn[t] \in Transaction
  BY Knows DEF ChooseName, WellFormed, HoldsItsLocks, UploadKnows, Uploading, Updating, Sweeping
<1>2. free \in Name /\ free \notin SiblingNames(d, path)
  <2>1. name \in Name
    BY AskedName
  <2> QED
    BY <1>1, <2>1, FreeName
<1>3. txn' = [txn EXCEPT ![t] = new] /\ UNCHANGED <<tree, holder>>
  BY Typed DEF ChooseName
<1> HIDE DEF free
<1>4. to \in Place /\ to.drive = d /\ Vacant(to)
  <2>1. Vacant(to)
    BY <1>1, <1>2, FreePlace
  <2> QED
    BY <2>1 DEF Vacant
<1> HIDE DEF to
<1>5. /\ new \in Transaction /\ new.gesture = txn[t].gesture /\ new.file = txn[t].file
      /\ new.drive = d /\ new.at = "write" /\ new.to = to
  BY <1>1, <1>4 DEF Transaction, Stage
<1> HIDE DEF new, d
<1>6. txn'[t] = new /\ UNCHANGED tree /\ UNCHANGED holder
  BY <1>3, Typed
<1>7. TxnInv(t)'
  BY <1>1, <1>4, <1>5, <1>6, SameTree
     DEF TxnInv, WellFormed, HoldsItsLocks, UploadKnows, UpdateKnows, SweepKnows,
         Uploading, Updating, Sweeping, PastDrives, HasFile, HasPlace, HasMembers, d
<1> QED
  BY <1>1, <1>3, <1>5, <1>6, <1>7, NoLock, GestureStep DEF Uploading

(* The drive a gesture locks first. *)
LEMMA LoadDriveIInv ==
  ASSUME IInv, NEW t \in Txn, LoadDrive(t)
  PROVE  IInv'
<1>1. CASE Refused(t)
  BY <1>1, RefusedIInv
<1>2. CASE ~Refused(t)
  <2> DEFINE d == txn[t].drive
             stage == IF Uploading(t) THEN "check" ELSE "members"
  <2>1. /\ txn[t].at = "drive" /\ d \in DrivesThere /\ Lock(t, DriveRow(d)) /\ GoTo(t, stage)
        /\ UNCHANGED tree
    BY <1>2 DEF LoadDrive, Uploading
  <2>2. /\ txn[t].gesture # "none" /\ ~Updating(t) /\ txn[t].loaded = {} /\ d \in Drive
        /\ Uploading(t) \/ Sweeping(t)
        /\ Uploading(t) => ~Sweeping(t)
    BY <2>1, Knows DEF WellFormed, Uploading, Updating, Sweeping, Transaction, Gesture
  <2>3a. PICK new \in Transaction : WentOn(t, stage, new)
    <3>1. stage \in Stage
      BY DEF Stage
    <3> HIDE DEF stage
    <3> QED
      BY <2>1, <3>1, GoesTo
  <2>3. /\ txn' = [txn EXCEPT ![t] = new] /\ txn'[t] = new
        /\ new.gesture = txn[t].gesture /\ new.at = stage /\ new.drive = txn[t].drive
        /\ new.file = txn[t].file /\ new.current = txn[t].current
        /\ new.prefix = txn[t].prefix /\ new.new = txn[t].new
        /\ new.todo = txn[t].todo /\ new.loaded = txn[t].loaded /\ new.to = txn[t].to
    BY <2>3a DEF WentOn
  <2>4. /\ LocksOf(t) /\ holder'[DriveRow(d)] = t
        /\ \A r \in Row : holder'[r] # holder[r] => There(r)
    BY <2>1, <2>2, RowsApart, LocksOne DEF There
  <2>5. TxnInv(t)'
    BY <2>1, <2>2, <2>3, <2>4, SameTree, Knows
       DEF TxnInv, WellFormed, HoldsItsLocks, UploadKnows, UpdateKnows, SweepKnows,
           Uploading, Updating, Sweeping, PastDrives, HasFile, HasPlace, HasMembers
  <2>6. new.at # "idle"
    BY <2>3
  <2>7. new.gesture = "request_upload" => Uploading(t) /\ txn[t].file = new.file
    BY <2>3 DEF Uploading
  <2> QED
    BY <2>1, <2>3, <2>4, <2>5, <2>6, <2>7, GestureStep
<1> QED
  BY <1>1, <1>2

(* The drive an update finds its file in, unlocked. *)
LEMMA ReadDriveOfIInv ==
  ASSUME IInv, NEW t \in Txn, ReadDriveOf(t)
  PROVE  IInv'
<1>1. CASE Refused(t)
  BY <1>1, RefusedIInv
<1>2. CASE ~Refused(t)
  <2> DEFINE f == txn[t].file
             current == place[f].drive
             todo == {current} \cup ({txn[t].drive} \ {0})
             new == [txn[t] EXCEPT !.at = "drives", !.current = current, !.todo = todo]
  <2>1. /\ txn[t].at = "drive_of" /\ f \in FilesThere /\ UNCHANGED <<tree, holder>>
        /\ txn' = [txn EXCEPT ![t] = new]
    BY <1>2, Typed DEF ReadDriveOf
  <2>2. /\ Updating(t) /\ ~Uploading(t) /\ ~Sweeping(t) /\ txn[t].loaded = {}
        /\ txn[t] \in Transaction /\ txn[t].drive \in Drive \cup {0} /\ txn[t].file \in File
    BY <2>1, Knows DEF WellFormed, Uploading, Updating, Sweeping, Transaction, Gesture
  <2>3. current \in Drive /\ drives[current] = "there"
    BY <2>1, InADrive
  <2> HIDE DEF current
  <2>4. todo \subseteq Drive /\ todo \in SUBSET Nat /\ current \in todo
    BY <2>2, <2>3 DEF Drive
  <2> HIDE DEF todo
  <2>5. /\ new \in Transaction /\ new.gesture = txn[t].gesture /\ new.at = "drives"
        /\ new.file = f /\ new.current = current /\ new.todo = todo /\ new.loaded = {}
    BY <2>2, <2>3, <2>4 DEF Transaction, Stage
  <2> HIDE DEF new, f
  <2>6. txn'[t] = new /\ UNCHANGED tree /\ UNCHANGED holder
    BY <2>1, Typed
  <2>7. TxnInv(t)'
    BY <2>2, <2>3, <2>4, <2>5, <2>6, SameTree, NowhereAssumption
       DEF TxnInv, WellFormed, HoldsItsLocks, UploadKnows, UpdateKnows, SweepKnows,
           Uploading, Updating, Sweeping, PastDrives, HasFile, HasPlace, HasMembers, f
  <2> QED
    BY <2>1, <2>2, <2>5, <2>6, <2>7, NoLock, GestureStep DEF Uploading
<1> QED
  BY <1>1, <1>2

\* What a transaction knows after load_many has asked for `row`: new.
AskedOne(t, row, new) ==
  /\ txn' = [txn EXCEPT ![t] = new] /\ txn'[t] = new
  /\ new.gesture = txn[t].gesture /\ new.at = txn[t].at /\ new.drive = txn[t].drive
  /\ new.file = txn[t].file /\ new.current = txn[t].current
  /\ new.prefix = txn[t].prefix /\ new.to = txn[t].to
  /\ new.todo = txn[t].todo \ {Min(txn[t].todo)}
  /\ new.loaded = IF There(row) THEN txn[t].loaded \cup {Min(txn[t].todo)} ELSE txn[t].loaded

(* load_many takes the next row. *)
LEMMA LoadsNext ==
  ASSUME IInv, NEW t \in Txn, NEW row \in Row, txn[t].todo # {}, LoadNext(t, row)
  PROVE  /\ Min(txn[t].todo) \in txn[t].todo
         /\ LocksOf(t) /\ UNCHANGED tree
         /\ There(row) => holder'[row] = t
         /\ \A r \in Row : holder[r] = t => holder'[r] = t
         /\ \A r \in Row : holder'[r] # holder[r] => holder'[r] = Nobody \/ There(r)
         /\ \E new \in Transaction : AskedOne(t, row, new)
<1> DEFINE key == Min(txn[t].todo)
           todo == txn[t].todo \ {key}
           loaded == IF There(row) THEN txn[t].loaded \cup {key} ELSE txn[t].loaded
           new == [txn[t] EXCEPT !.todo = todo, !.loaded = loaded]
<1>1. txn[t] \in Transaction /\ txn[t].todo \in SUBSET Nat /\ txn[t].todo # {}
  BY Typed DEF Transaction
<1>2. key \in txn[t].todo
  BY <1>1, FirstKey
<1>3. /\ Lock(t, row) /\ UNCHANGED tree
      /\ txn' = [txn EXCEPT ![t] = new]
  BY Typed DEF LoadNext
<1>4. todo \in SUBSET Nat /\ loaded \in SUBSET Nat
  BY <1>1, <1>2 DEF Transaction
<1> HIDE DEF key, todo, loaded
<1>5. /\ new \in Transaction
      /\ new.gesture = txn[t].gesture /\ new.at = txn[t].at /\ new.drive = txn[t].drive
      /\ new.file = txn[t].file /\ new.current = txn[t].current
      /\ new.prefix = txn[t].prefix /\ new.to = txn[t].to
      /\ new.todo = todo /\ new.loaded = loaded
  BY <1>1, <1>4 DEF Transaction
<1> HIDE DEF new
<1>6. txn'[t] = new
  BY <1>3, Typed
<1>7. /\ LocksOf(t)
      /\ There(row) => holder'[row] = t
      /\ \A r \in Row : holder[r] = t => holder'[r] = t
      /\ \A r \in Row : holder'[r] # holder[r] => There(r)
  BY <1>3, LocksOne
<1>8. AskedOne(t, row, new)
  BY <1>3, <1>5, <1>6 DEF AskedOne, key, todo, loaded
<1> QED
  BY <1>2, <1>3, <1>5, <1>7, <1>8 DEF key

(* The next of the drives an update locks first. *)
LEMMA LoadNextDriveIInv ==
  ASSUME IInv, NEW t \in Txn, LoadNextDrive(t)
  PROVE  IInv'
<1> DEFINE key == Min(txn[t].todo)
<1>1. /\ txn[t].at = "drives" /\ txn[t].todo # {} /\ LoadNext(t, DriveRow(key))
      /\ txn[t] \in Transaction /\ txn[t].todo \in SUBSET Nat
  <2>1. txn[t] \in Transaction
    BY Typed
  <2> QED
    BY <2>1 DEF LoadNextDrive, Transaction
<1>2. /\ Updating(t) /\ ~Uploading(t) /\ ~Sweeping(t)
      /\ txn[t].file \in File /\ txn[t].current \in Drive
      /\ txn[t].todo \cup txn[t].loaded \subseteq Drive
      /\ \A d \in txn[t].loaded : holder[DriveRow(d)] = t
      /\ drives[txn[t].current] # Unused
      /\ txn[t].current \in txn[t].todo \cup txn[t].loaded \/ drives[txn[t].current] = Gone
  BY <1>1, Knows
     DEF WellFormed, HoldsItsLocks, UpdateKnows, Uploading, Updating, Sweeping, Transaction, Gesture
<1>3. key \in Drive /\ DriveRow(key) \in Row
  BY <1>1, <1>2, FirstKey, RowsApart
<1>4a. PICK new \in Transaction : AskedOne(t, DriveRow(key), new)
  BY <1>1, <1>3, LoadsNext
<1>4. /\ txn' = [txn EXCEPT ![t] = new] /\ txn'[t] = new
      /\ new.gesture = txn[t].gesture /\ new.at = txn[t].at /\ new.drive = txn[t].drive
      /\ new.file = txn[t].file /\ new.current = txn[t].current
      /\ new.prefix = txn[t].prefix /\ new.to = txn[t].to
      /\ new.todo = txn[t].todo \ {key}
      /\ new.loaded = IF There(DriveRow(key)) THEN txn[t].loaded \cup {key} ELSE txn[t].loaded
  BY <1>4a DEF AskedOne
<1>5. /\ LocksOf(t) /\ UNCHANGED tree
      /\ There(DriveRow(key)) => holder'[DriveRow(key)] = t
      /\ \A r \in Row : holder[r] = t => holder'[r] = t
      /\ \A r \in Row : holder'[r] # holder[r] => holder'[r] = Nobody \/ There(r)
  BY <1>1, <1>3, LoadsNext
<1> HIDE DEF key
<1>6. ~There(DriveRow(key)) => drives[key] \in {Unused, Gone}
  BY <1>3, Typed DEF There, DrivesThere
<1>7. /\ new.loaded \subseteq Drive /\ new.todo \subseteq Drive
      /\ \A d \in new.loaded : holder'[DriveRow(d)] = t
      /\ txn[t].current \in new.todo \cup new.loaded \/ drives[txn[t].current] = Gone
  BY <1>2, <1>3, <1>4, <1>5, <1>6, RowsApart
<1>8. TxnInv(t)'
  BY <1>1, <1>2, <1>4, <1>5, <1>7, SameTree
     DEF TxnInv, WellFormed, HoldsItsLocks, UploadKnows, UpdateKnows, SweepKnows,
         Uploading, Updating, Sweeping, PastDrives, HasFile, HasPlace, HasMembers
<1> QED
  BY <1>1, <1>2, <1>4, <1>5, <1>8, GestureStep DEF Uploading

(* All its drives are locked. *)
LEMMA DrivesLoadedIInv ==
  ASSUME IInv, NEW t \in Txn, DrivesLoaded(t)
  PROVE  IInv'
<1>1. /\ txn[t].at = "drives" /\ txn[t].todo = {} /\ UNCHANGED tree /\ UNCHANGED holder
      /\ GoTo(t, "file")
  BY DEF DrivesLoaded
<1>2a. PICK new \in Transaction : WentOn(t, "file", new)
  BY <1>1, GoesTo DEF Stage
<1>2. /\ txn' = [txn EXCEPT ![t] = new] /\ txn'[t] = new
      /\ new.gesture = txn[t].gesture /\ new.at = "file" /\ new.drive = txn[t].drive
      /\ new.file = txn[t].file /\ new.current = txn[t].current
      /\ new.prefix = txn[t].prefix /\ new.new = txn[t].new
      /\ new.todo = txn[t].todo /\ new.loaded = txn[t].loaded /\ new.to = txn[t].to
  BY <1>2a DEF WentOn
<1>3. Updating(t) /\ ~Uploading(t) /\ ~Sweeping(t)
  BY <1>1, Knows DEF WellFormed, Uploading, Updating, Sweeping, Transaction, Gesture
<1>4. TxnInv(t)'
  BY <1>1, <1>2, <1>3, SameTree, Knows
     DEF TxnInv, WellFormed, HoldsItsLocks, UploadKnows, UpdateKnows, SweepKnows,
         Uploading, Updating, Sweeping, PastDrives, HasFile, HasPlace, HasMembers
<1> QED
  BY <1>1, <1>2, <1>3, <1>4, NoLock, GestureStep DEF Uploading

(* The file itself; its drive is locked already, or is the next to lock. *)
LEMMA LoadFileIInv ==
  ASSUME IInv, NEW t \in Txn, LoadFile(t)
  PROVE  IInv'
<1>1. CASE Refused(t)
  BY <1>1, RefusedIInv
<1>2. CASE ~Refused(t)
  <2> DEFINE f == txn[t].file
             stage == IF place[f].drive = txn[t].current THEN "check" ELSE "from"
  <2>1. /\ txn[t].at = "file" /\ f \in FilesThere /\ Lock(t, FileRow(f)) /\ GoTo(t, stage)
        /\ UNCHANGED tree
    BY <1>2 DEF LoadFile
  <2>2. /\ Updating(t) /\ ~Uploading(t) /\ ~Sweeping(t)
        /\ f \in File /\ txn[t].current \in Drive
        /\ txn[t].todo \cup txn[t].loaded \subseteq Drive
        /\ \A d \in txn[t].loaded : holder[DriveRow(d)] = t
        /\ txn[t].current \in txn[t].loaded \/ drives[txn[t].current] = Gone
    BY <2>1, Knows
       DEF WellFormed, HoldsItsLocks, UpdateKnows, PastDrives, Uploading, Updating, Sweeping,
           Transaction, Gesture
  <2>3a. PICK new \in Transaction : WentOn(t, stage, new)
    <3>1. stage \in Stage
      BY DEF Stage
    <3> HIDE DEF stage
    <3> QED
      BY <2>1, <3>1, GoesTo
  <2>3. /\ txn' = [txn EXCEPT ![t] = new] /\ txn'[t] = new
        /\ new.gesture = txn[t].gesture /\ new.at = stage /\ new.drive = txn[t].drive
        /\ new.file = txn[t].file /\ new.current = txn[t].current
        /\ new.prefix = txn[t].prefix /\ new.new = txn[t].new
        /\ new.todo = txn[t].todo /\ new.loaded = txn[t].loaded /\ new.to = txn[t].to
    BY <2>3a DEF WentOn
  <2>4. /\ LocksOf(t) /\ holder'[FileRow(f)] = t
        /\ \A r \in Row : holder[r] = t => holder'[r] = t
        /\ \A r \in Row : holder'[r] # holder[r] => There(r)
    BY <2>1, <2>2, RowsApart, LocksOne DEF There
  <2>5. \A d \in txn[t].loaded : holder'[DriveRow(d)] = t
    BY <2>2, <2>4, RowsApart
  <2>6. place[f].drive \in Drive /\ drives[place[f].drive] = "there"
    BY <2>1, InADrive
  <2>7. stage = "check" => holder'[DriveRow(place[f].drive)] = t
    BY <2>2, <2>5, <2>6, NowhereAssumption
  <2>8. stage \in {"check", "from"}
    OBVIOUS
  <2> HIDE DEF stage
  <2>9. TxnInv(t)'
    BY <2>1, <2>2, <2>3, <2>4, <2>5, <2>7, <2>8, SameTree
       DEF TxnInv, WellFormed, HoldsItsLocks, UploadKnows, UpdateKnows, SweepKnows,
           Uploading, Updating, Sweeping, PastDrives, HasFile, HasPlace, HasMembers
  <2> QED
    BY <2>1, <2>2, <2>3, <2>4, <2>8, <2>9, GestureStep DEF Uploading
<1> QED
  BY <1>1, <1>2

(* The drive the file is in by then. *)
LEMMA LoadFromDriveIInv ==
  ASSUME IInv, NEW t \in Txn, LoadFromDrive(t)
  PROVE  IInv'
<1> DEFINE f == txn[t].file
           row == DriveRow(place[f].drive)
<1>1. /\ txn[t].at = "from" /\ Lock(t, row) /\ GoTo(t, "check") /\ UNCHANGED tree
  BY DEF LoadFromDrive
<1>2. /\ Updating(t) /\ ~Uploading(t) /\ ~Sweeping(t)
      /\ f \in File /\ holder[FileRow(f)] = t
      /\ txn[t].todo \cup txn[t].loaded \subseteq Drive
      /\ \A d \in txn[t].loaded : holder[DriveRow(d)] = t
      /\ txn[t].current \in Drive
      /\ txn[t].current \in txn[t].loaded \/ drives[txn[t].current] = Gone
  BY <1>1, Knows
     DEF WellFormed, HoldsItsLocks, UpdateKnows, HasFile, PastDrives, Uploading, Updating, Sweeping,
         Transaction, Gesture
<1>3. f \in FilesThere /\ place[f].drive \in DrivesThere /\ row \in Row /\ There(row)
  <2>1. f \in FilesThere
    BY <1>2, HeldIsThere
  <2>2. place[f].drive \in DrivesThere /\ place[f].drive \in Drive
    BY <2>1, InADrive
  <2> QED
    BY <2>1, <2>2, RowsApart DEF There
<1>4a. PICK new \in Transaction : WentOn(t, "check", new)
  BY <1>1, GoesTo DEF Stage
<1>4. /\ txn' = [txn EXCEPT ![t] = new] /\ txn'[t] = new
      /\ new.gesture = txn[t].gesture /\ new.at = "check" /\ new.drive = txn[t].drive
      /\ new.file = txn[t].file /\ new.current = txn[t].current
      /\ new.prefix = txn[t].prefix /\ new.new = txn[t].new
      /\ new.todo = txn[t].todo /\ new.loaded = txn[t].loaded /\ new.to = txn[t].to
  BY <1>4a DEF WentOn
<1>5. /\ LocksOf(t) /\ holder'[row] = t
      /\ \A r \in Row : holder[r] = t => holder'[r] = t
      /\ \A r \in Row : holder'[r] # holder[r] => There(r)
  BY <1>1, <1>3, LocksOne
<1>6. holder'[FileRow(f)] = t /\ \A d \in txn[t].loaded : holder'[DriveRow(d)] = t
  BY <1>2, <1>5, RowsApart
<1>7. TxnInv(t)'
  BY <1>1, <1>2, <1>4, <1>5, <1>6, SameTree
     DEF TxnInv, WellFormed, HoldsItsLocks, UploadKnows, UpdateKnows, SweepKnows,
         Uploading, Updating, Sweeping, PastDrives, HasFile, HasPlace, HasMembers
<1> QED
  BY <1>1, <1>2, <1>4, <1>5, <1>7, GestureStep DEF Uploading

(* The place an update goes to is free. *)
LEMMA CheckPlaceIInv ==
  ASSUME IInv, NEW t \in Txn, NEW path \in Path, NEW name \in AskedNames(t),
         CheckPlace(t, path, name)
  PROVE  IInv'
<1>1. CASE Refused(t)
  BY <1>1, RefusedIInv
<1>2. CASE ~Refused(t)
  <2> DEFINE to == [drive |-> Target(t), path |-> path, name |-> name]
             new == [txn[t] EXCEPT !.at = "write", !.to = to]
  <2>1. /\ txn[t].at = "check" /\ Updating(t) /\ Target(t) \in txn[t].loaded
        /\ name \notin SiblingNames(Target(t), path)
        /\ txn' = [txn EXCEPT ![t] = new] /\ UNCHANGED <<tree, holder>>
    BY <1>2, Typed DEF CheckPlace, Updating
  <2>2. /\ ~Uploading(t) /\ ~Sweeping(t) /\ txn[t] \in Transaction
        /\ Target(t) \in Drive
    BY <2>1, Knows DEF WellFormed, Uploading, Updating, Sweeping
  <2>3. name \in Name
    BY AskedName
  <2>4. Vacant(to) /\ to.drive = Target(t)
    BY <2>1, <2>2, <2>3, FreePlace
  <2>5. to \in Place
    BY <2>4 DEF Vacant
  <2> HIDE DEF to
  <2>6. /\ new \in Transaction /\ new.at = "write" /\ new.to = to
        /\ new.gesture = txn[t].gesture /\ new.file = txn[t].file /\ new.current = txn[t].current
        /\ new.todo = txn[t].todo /\ new.loaded = txn[t].loaded
    BY <2>2, <2>5 DEF Transaction, Stage
  <2> HIDE DEF new
  <2>7. txn'[t] = new /\ UNCHANGED tree /\ UNCHANGED holder
    BY <2>1, Typed
  <2>8. TxnInv(t)'
    BY <2>1, <2>2, <2>4, <2>6, <2>7, SameTree, Knows
       DEF TxnInv, WellFormed, HoldsItsLocks, UploadKnows, UpdateKnows, SweepKnows,
           Uploading, Updating, Sweeping, PastDrives, HasFile, HasPlace, HasMembers
  <2> QED
    BY <2>1, <2>2, <2>6, <2>7, <2>8, NoLock, GestureStep DEF Uploading
<1> QED
  BY <1>1, <1>2

(* What a sweep is about, when nothing changes but what it has locked. *)
LEMMA SameMembers ==
  ASSUME UNCHANGED tree, NEW t, txn'[t].gesture = txn[t].gesture, txn'[t].drive = txn[t].drive,
         txn'[t].prefix = txn[t].prefix
  PROVE  Members(t)' = Members(t) /\ Under(t)' = Under(t)
  BY DEF tree, Members, Under, FilesUnder, FilesThere

(* Each of its files is there. *)
LEMMA MembersThere ==
  ASSUME IInv, NEW t \in Txn
  PROVE  Members(t) \subseteq Under(t) /\ Under(t) \subseteq FilesThere /\ FilesThere \subseteq File
  BY Typed DEF Members, Under, FilesUnder

(* A sweep finds what it is about. *)
LEMMA ReadMembersIInv ==
  ASSUME IInv, NEW t \in Txn, ReadMembers(t)
  PROVE  IInv'
<1> DEFINE todo == Members(t)
           new == [txn[t] EXCEPT !.at = "files", !.todo = todo]
<1>1. /\ txn[t].at = "members" /\ txn' = [txn EXCEPT ![t] = new]
      /\ UNCHANGED tree /\ UNCHANGED holder
  BY Typed DEF ReadMembers
<1>2. /\ Sweeping(t) /\ ~Uploading(t) /\ ~Updating(t) /\ txn[t].loaded = {} /\ txn[t].drive \in Drive
      /\ txn[t].gesture \in {"delete_drive", "freeze_drive"} => txn[t].prefix = <<>>
      /\ holder[DriveRow(txn[t].drive)] = t /\ txn[t] \in Transaction
  BY <1>1, Knows
     DEF WellFormed, HoldsItsLocks, Uploading, Updating, Sweeping, Transaction, Gesture
<1>3. todo \subseteq File /\ todo \in SUBSET Nat /\ todo \subseteq Under(t)
  BY MembersThere DEF File
<1> HIDE DEF todo
<1>4. /\ new \in Transaction /\ new.at = "files" /\ new.todo = todo /\ new.loaded = {}
      /\ new.gesture = txn[t].gesture /\ new.drive = txn[t].drive /\ new.prefix = txn[t].prefix
  BY <1>2, <1>3 DEF Transaction, Stage
<1> HIDE DEF new
<1>5. txn'[t] = new
  BY <1>1, Typed
<1>6. Members(t)' = Members(t) /\ Under(t)' = Under(t)
  BY <1>1, <1>4, <1>5, SameMembers
<1>7. SweepKnows(t)'
  BY <1>1, <1>3, <1>4, <1>5, <1>6 DEF SweepKnows, HasMembers, Sweeping, todo, tree
<1>8. TxnInv(t)'
  BY <1>1, <1>2, <1>3, <1>4, <1>5, <1>7
     DEF TxnInv, WellFormed, HoldsItsLocks, UploadKnows, UpdateKnows,
         Uploading, Updating, Sweeping, PastDrives, HasFile, HasPlace, HasMembers
<1> QED
  BY <1>1, <1>2, <1>4, <1>5, <1>8, NoLock, GestureStep DEF Uploading

(* The next file of a sweep. *)
LEMMA LoadNextFileIInv ==
  ASSUME IInv, NEW t \in Txn, LoadNextFile(t)
  PROVE  IInv'
<1> DEFINE key == Min(txn[t].todo)
<1>1. /\ txn[t].at = "files" /\ txn[t].todo # {} /\ LoadNext(t, FileRow(key))
      /\ txn[t] \in Transaction /\ txn[t].todo \in SUBSET Nat
  <2>1. txn[t] \in Transaction
    BY Typed
  <2> QED
    BY <2>1 DEF LoadNextFile, Transaction
<1>2. /\ Sweeping(t) /\ HasMembers(t) /\ ~Uploading(t) /\ ~Updating(t) /\ txn[t].drive \in Drive
      /\ txn[t].gesture \in {"delete_drive", "freeze_drive"} => txn[t].prefix = <<>>
      /\ holder[DriveRow(txn[t].drive)] = t
      /\ txn[t].todo \cup txn[t].loaded \subseteq File
      /\ \A f \in txn[t].loaded : holder[FileRow(f)] = t
      /\ Members(t) \subseteq txn[t].loaded \cup txn[t].todo
      /\ txn[t].loaded \subseteq Under(t)
      /\ \A f \in txn[t].todo : f \in Under(t) \/ place[f] = Gone
  BY <1>1, Knows
     DEF WellFormed, HoldsItsLocks, SweepKnows, HasMembers, Uploading, Updating, Sweeping,
         Transaction, Gesture
<1>3. key \in File /\ FileRow(key) \in Row /\ key \in txn[t].todo
  BY <1>1, <1>2, FirstKey, RowsApart
<1>4a. PICK new \in Transaction : AskedOne(t, FileRow(key), new)
  BY <1>1, <1>3, LoadsNext
<1>4. /\ txn' = [txn EXCEPT ![t] = new] /\ txn'[t] = new
      /\ new.gesture = txn[t].gesture /\ new.at = txn[t].at /\ new.drive = txn[t].drive
      /\ new.file = txn[t].file /\ new.current = txn[t].current
      /\ new.prefix = txn[t].prefix /\ new.to = txn[t].to
      /\ new.todo = txn[t].todo \ {key}
      /\ new.loaded = IF There(FileRow(key)) THEN txn[t].loaded \cup {key} ELSE txn[t].loaded
  BY <1>4a DEF AskedOne
<1>5. /\ LocksOf(t) /\ UNCHANGED tree
      /\ There(FileRow(key)) => holder'[FileRow(key)] = t
      /\ \A r \in Row : holder[r] = t => holder'[r] = t
      /\ \A r \in Row : holder'[r] # holder[r] => holder'[r] = Nobody \/ There(r)
  BY <1>1, <1>3, LoadsNext
<1> HIDE DEF key
<1>6. /\ There(FileRow(key)) => place[key] # Gone
      /\ ~There(FileRow(key)) => key \notin FilesThere
  BY <1>3, RowsApart, Typed DEF There, DrivesThere, FilesThere
<1>7. /\ new.loaded \subseteq File /\ new.todo \subseteq File
      /\ \A f \in new.loaded : holder'[FileRow(f)] = t
      /\ holder'[DriveRow(txn[t].drive)] = t
  BY <1>2, <1>3, <1>4, <1>5, RowsApart
<1>8. /\ Members(t) \subseteq new.loaded \cup new.todo
      /\ new.loaded \subseteq Under(t)
      /\ \A f \in new.todo : f \in Under(t) \/ place[f] = Gone
  <2>1. ~There(FileRow(key)) => key \notin Members(t)
    BY <1>6, MembersThere
  <2> QED
    BY <1>2, <1>3, <1>4, <1>6, <2>1
<1>9. Members(t)' = Members(t) /\ Under(t)' = Under(t)
  BY <1>4, <1>5, SameMembers
<1>10. SweepKnows(t)'
  BY <1>1, <1>4, <1>5, <1>8, <1>9 DEF SweepKnows, HasMembers, Sweeping, tree
<1>11. TxnInv(t)'
  BY <1>1, <1>2, <1>4, <1>7, <1>10
     DEF TxnInv, WellFormed, HoldsItsLocks, UploadKnows, UpdateKnows,
         Uploading, Updating, Sweeping, PastDrives, HasFile, HasPlace, HasMembers
<1> QED
  BY <1>1, <1>2, <1>4, <1>5, <1>11, GestureStep DEF Uploading

(* A sweep that has all its files, or is refused. *)
LEMMA MembersLoadedIInv ==
  ASSUME IInv, NEW t \in Txn, MembersLoaded(t)
  PROVE  IInv'
<1>1. CASE Refused(t)
  BY <1>1, RefusedIInv
<1>2. CASE ~Refused(t)
  <2>1. /\ txn[t].at = "files" /\ txn[t].todo = {} /\ ~FolderRefused(t) /\ GoTo(t, "write")
        /\ UNCHANGED tree /\ UNCHANGED holder
    BY <1>2 DEF MembersLoaded
  <2>2. /\ Sweeping(t) /\ HasMembers(t) /\ ~Uploading(t) /\ ~Updating(t) /\ txn[t].drive \in Drive
        /\ txn[t].gesture \in {"delete_drive", "freeze_drive"} => txn[t].prefix = <<>>
        /\ holder[DriveRow(txn[t].drive)] = t
        /\ txn[t].todo \cup txn[t].loaded \subseteq File
        /\ \A f \in txn[t].loaded : holder[FileRow(f)] = t
        /\ Members(t) \subseteq txn[t].loaded \cup txn[t].todo
        /\ txn[t].loaded \subseteq Under(t)
    BY <2>1, Knows
       DEF WellFormed, HoldsItsLocks, SweepKnows, HasMembers, Uploading, Updating, Sweeping,
           Transaction, Gesture
  <2>3a. PICK new \in Transaction : WentOn(t, "write", new)
    BY <2>1, GoesTo DEF Stage
  <2>3. /\ txn' = [txn EXCEPT ![t] = new] /\ txn'[t] = new
        /\ new.gesture = txn[t].gesture /\ new.at = "write" /\ new.drive = txn[t].drive
        /\ new.file = txn[t].file /\ new.current = txn[t].current
        /\ new.prefix = txn[t].prefix /\ new.new = txn[t].new
        /\ new.todo = txn[t].todo /\ new.loaded = txn[t].loaded /\ new.to = txn[t].to
    BY <2>3a DEF WentOn
  <2>4. txn[t].gesture = "move_folder" => \A f \in txn[t].loaded : Landing(t, f).path \in Path
    BY <2>1 DEF FolderRefused
  <2>5. Members(t)' = Members(t) /\ Under(t)' = Under(t)
    BY <2>1, <2>3, SameMembers
  <2>6. \A f : Landing(t, f)' = Landing(t, f)
    BY <2>1, <2>3 DEF Landing, tree
  <2> HIDE DEF Landing
  <2>7. SweepKnows(t)'
    BY <2>1, <2>2, <2>3, <2>4, <2>5, <2>6 DEF SweepKnows
  <2>8. TxnInv(t)'
    BY <2>1, <2>2, <2>3, <2>7
       DEF TxnInv, WellFormed, HoldsItsLocks, UploadKnows, UpdateKnows,
           Uploading, Updating, Sweeping, PastDrives, HasFile, HasPlace, HasMembers
  <2> QED
    BY <2>1, <2>2, <2>3, <2>8, NoLock, GestureStep DEF Uploading
<1> QED
  BY <1>1, <1>2

(* A folder's move that a constraint refuses is broken. *)
LEMMA BrokenIInv ==
  ASSUME IInv, NEW t \in Txn, txn[t].gesture = "move_folder", txn[t].at = "write", Broken(t)
  PROVE  IInv'
<1>1. GoTo(t, "error") /\ UNCHANGED tree /\ UNCHANGED holder
  BY DEF Broken
<1>2a. PICK new \in Transaction : WentOn(t, "error", new)
  BY <1>1, GoesTo DEF Stage
<1>2. /\ txn' = [txn EXCEPT ![t] = new] /\ txn'[t] = new
      /\ new.gesture = txn[t].gesture /\ new.at = "error" /\ new.drive = txn[t].drive
      /\ new.file = txn[t].file /\ new.current = txn[t].current
      /\ new.prefix = txn[t].prefix /\ new.new = txn[t].new
      /\ new.todo = txn[t].todo /\ new.loaded = txn[t].loaded /\ new.to = txn[t].to
  BY <1>2a DEF WentOn
<1>3. Sweeping(t) /\ txn[t].drive \in Drive /\ holder[DriveRow(txn[t].drive)] = t
  BY Knows DEF WellFormed, HoldsItsLocks, Sweeping
<1>4. TxnInv(t)'
  BY <1>1, <1>2, <1>3
     DEF TxnInv, WellFormed, HoldsItsLocks, UploadKnows, UpdateKnows, SweepKnows,
         Uploading, Updating, Sweeping, PastDrives, HasFile, HasPlace, HasMembers
<1>5. new.at # "idle" /\ new.gesture # "request_upload"
  BY <1>2
<1> QED
  BY <1>1, <1>2, <1>4, <1>5, NoLock, GestureStep

-----------------------------------------------------------------------------
(* A step that leaves the other transactions what they know, and the drives
   and files sound. *)
LEMMA TreeStep ==
  ASSUME IInv,
         txn' \in [Txn -> Transaction], holder' \in [Row -> Txn \cup {Nobody}],
         drives' \in [Drive -> {Unused, "there", Gone}],
         place' \in [File -> Place \cup {Unused, Gone}],
         pending' \subseteq FilesThere',
         Sound(place', drives'),
         \A d \in Drive : drives'[d] # drives[d] => holder'[DriveRow(d)] = Nobody,
         \A f \in File : place'[f] \notin Place /\ place[f] \in Place => holder'[FileRow(f)] = Nobody,
         \A row \in Row : holder'[row] # Nobody => holder'[row] = holder[row],
         \A u \in Txn : Undisturbed(u)
                        \/ (txn'[u] = Idle /\ \A row \in Row : holder'[row] # u)
  PROVE  IInv'
<1>1. \A row \in Row : holder'[row] # Nobody => There(row)'
  <2> SUFFICES ASSUME NEW row \in Row, holder'[row] # Nobody PROVE There(row)'
    OBVIOUS
  <2>1. There(row)
    BY Typed
  <2>2. ASSUME NEW d \in DrivesThere, row = DriveRow(d) PROVE There(row)'
    BY <2>2 DEF There, DrivesThere
  <2>3. ASSUME NEW f \in FilesThere, row = FileRow(f) PROVE There(row)'
    BY <2>3 DEF There, FilesThere
  <2> QED
    BY <2>1, <2>2, <2>3 DEF There
<1>2. \A row \in Row : holder'[row] # Nobody => txn'[holder'[row]].at # "idle"
  <2> SUFFICES ASSUME NEW row \in Row, holder'[row] # Nobody PROVE txn'[holder'[row]].at # "idle"
    OBVIOUS
  <2>1. holder'[row] = holder[row] /\ holder[row] \in Txn /\ txn[holder[row]].at # "idle"
    BY Typed
  <2>2. Undisturbed(holder[row])
    BY <2>1
  <2> QED
    BY <2>1, <2>2 DEF Undisturbed
<1>3. TypeOK'
  BY <1>1, <1>2 DEF TypeOK, Transaction, Free
<1>4. \A u \in Txn : TxnInv(u)'
  BY UndisturbedKeeps, IdleKeeps
<1>5. OneUpload'
  BY IdleKeeps DEF IInv, OneUpload, Undisturbed, Uploading
<1> QED
  BY <1>3, <1>4, <1>5 DEF IInv

(* The commit of a transaction: it changes files it holds, or the one it
   uploads, between drives it holds. *)
LEMMA CommitStep ==
  ASSUME IInv, NEW t \in Txn, txn[t].at # "idle", End(t),
         drives' \in [Drive -> {Unused, "there", Gone}],
         place' \in [File -> Place \cup {Unused, Gone}],
         pending' \subseteq FilesThere',
         Sound(place', drives'),
         \A d \in Drive : drives'[d] # drives[d] =>
           holder[DriveRow(d)] = t /\ drives'[d] = Gone,
         \A f \in File : place'[f] # place[f] =>
           /\ holder[FileRow(f)] = t \/ (Uploading(t) /\ txn[t].file = f /\ place[f] = Unused)
           /\ place'[f] \in Place \cup {Gone}
           /\ place'[f] \in Place => holder[DriveRow(place'[f].drive)] = t
           /\ place'[f] \in Place /\ place[f] \in Place => holder[DriveRow(place[f].drive)] = t,
         \A f \in File : f \in pending' /\ f \notin pending => holder[DriveRow(place'[f].drive)] = t
  PROVE  IInv'
<1>1. txn' = [txn EXCEPT ![t] = Idle] /\ txn'[t] = Idle /\ txn' \in [Txn -> Transaction]
      /\ \A u \in Txn \ {t} : txn'[u] = txn[u]
  BY IdleTyped, Typed DEF End
<1>2. /\ holder' \in [Row -> Txn \cup {Nobody}]
      /\ \A row \in Row : holder'[row] # t
      /\ \A row \in Row : holder[row] # t => holder'[row] = holder[row]
      /\ \A row \in Row : holder[row] = t => holder'[row] = Nobody
  BY Typed DEF End, ReleaseAll
<1>3. ASSUME NEW u \in Txn \ {t} PROVE Undisturbed(u)
  <2>1. \A f \in File : holder[FileRow(f)] = u => place'[f] = place[f]
    BY HeldIsThere, Typed DEF FilesThere
  <2>2. ASSUME NEW d \in Drive, holder[DriveRow(d)] = u PROVE DriveKept(d)
    <3>1. \A f \in File : place'[f] \in Place /\ place'[f].drive = d =>
            place'[f] = place[f] /\ (f \in pending' => f \in pending)
      BY <2>2
    <3>2. \A f \in File : place[f] \in Place /\ place[f].drive = d => place'[f] \in {place[f], Gone}
      BY <2>2
    <3> QED
      BY <3>1, <3>2 DEF DriveKept
  <2>3. ASSUME Uploading(u) PROVE place'[txn[u].file] = place[txn[u].file]
    <3>1. txn[u].file \in File /\ place[txn[u].file] = Unused
      BY <2>3, Knows DEF WellFormed, UploadKnows
    <3>2. holder[FileRow(txn[u].file)] # t
      BY <3>1, HeldIsThere, Typed DEF FilesThere
    <3>3. ~(Uploading(t) /\ txn[t].file = txn[u].file)
      BY <2>3 DEF IInv, OneUpload
    <3> QED
      BY <3>1, <3>2, <3>3
  <2>4. \A f \in File : place[f] = Gone => place'[f] = Gone
    BY HeldIsThere, Typed DEF FilesThere
  <2>5. \A d \in Drive : (drives[d] = Gone => drives'[d] = Gone)
                         /\ (drives[d] # Unused => drives'[d] # Unused)
    BY HeldIsThere, Typed DEF DrivesThere
  <2> QED
    BY <1>1, <1>2, <2>1, <2>2, <2>3, <2>4, <2>5 DEF Undisturbed
<1>4. \A d \in Drive : drives'[d] # drives[d] => holder'[DriveRow(d)] = Nobody
  BY <1>2, RowsApart
<1>5. \A f \in File : place'[f] \notin Place /\ place[f] \in Place => holder'[FileRow(f)] = Nobody
  BY <1>2, RowsApart, Typed
<1>6. \A row \in Row : holder'[row] # Nobody => holder'[row] = holder[row]
  BY <1>2
<1>7. \A u \in Txn : Undisturbed(u)
                     \/ (txn'[u] = Idle /\ \A row \in Row : holder'[row] # u)
  BY <1>1, <1>2, <1>3
<1> QED
  BY <1>1, <1>2, <1>4, <1>5, <1>6, <1>7, TreeStep

(* A file put in a place that is free, in a drive that is there. *)
LEMMA PutSound ==
  ASSUME IInv, NEW f \in File, NEW to, Vacant(to), to.drive \in DrivesThere
  PROVE  Sound([place EXCEPT ![f] = to], drives)
<1> DEFINE places == [place EXCEPT ![f] = to]
<1>1. \A g \in File : places[g] = IF g = f THEN to ELSE place[g]
  BY Typed
<1>2. /\ Sound(place, drives) /\ drives[to.drive] = "there" /\ \A g \in File : place[g] # to
  BY DEF IInv, Vacant, DrivesThere
<1> HIDE DEF places
<1>3. Sound(places, drives)
  BY <1>1, <1>2 DEF Sound
<1> QED
  BY <1>3 DEF places

(* An upload's row. *)
LEMMA InsertFileIInv ==
  ASSUME IInv, NEW t \in Txn, InsertFile(t)
  PROVE  IInv'
<1> DEFINE f == txn[t].file
           to == txn[t].to
           d == txn[t].drive
<1>1. /\ txn[t].at = "write" /\ Uploading(t)
      /\ Commit(t, [place EXCEPT ![f] = to], drives, pending \cup {f})
  BY DEF InsertFile, Uploading
<1>2. /\ f \in File /\ d \in Drive /\ holder[DriveRow(d)] = t /\ place[f] = Unused
      /\ Vacant(to) /\ to.drive = d /\ to \in Place
  BY <1>1, Knows DEF WellFormed, HoldsItsLocks, UploadKnows, Vacant
<1>3. d \in DrivesThere
  BY <1>2, HeldIsThere
<1> HIDE DEF f, to, d
<1>4. Sound([place EXCEPT ![f] = to], drives)
  BY <1>2, <1>3, PutSound
<1>5. /\ place' = [place EXCEPT ![f] = to] /\ drives' = drives /\ pending' = pending \cup {f}
      /\ End(t) /\ Sound(place', drives')
  BY <1>1, <1>4 DEF Commit
<1>6. \A g \in File : place'[g] = IF g = f THEN to ELSE place[g]
  BY <1>2, <1>5, Typed
<1>7. /\ place' \in [File -> Place \cup {Unused, Gone}]
      /\ drives' \in [Drive -> {Unused, "there", Gone}]
      /\ pending' \subseteq FilesThere'
  BY <1>2, <1>5, <1>6, Typed DEF FilesThere
<1>8. \A g \in File : place'[g] # place[g] => g = f /\ place'[g] = to /\ place[g] = Unused
  BY <1>2, <1>6
<1>9. \A g \in File : g \in pending' /\ g \notin pending => place'[g] = to
  BY <1>5, <1>6
<1>10. Uploading(t) /\ txn[t].file = f
  BY <1>1 DEF f
<1> QED
  BY <1>1, <1>2, <1>5, <1>7, <1>8, <1>9, <1>10, CommitStep, Typed

(* An update's. *)
LEMMA SaveFileIInv ==
  ASSUME IInv, NEW t \in Txn, SaveFile(t)
  PROVE  IInv'
<1> DEFINE f == txn[t].file
           to == txn[t].to
<1>1. /\ txn[t].at = "write" /\ Updating(t) /\ HasFile(t) /\ HasPlace(t)
      /\ Commit(t, [place EXCEPT ![f] = to], drives, pending)
  BY DEF SaveFile, Updating, HasFile, HasPlace
<1>2. /\ f \in File /\ holder[FileRow(f)] = t /\ holder[DriveRow(place[f].drive)] = t
      /\ Vacant(to) /\ to \in Place /\ to.drive \in Drive /\ holder[DriveRow(to.drive)] = t
  BY <1>1, Knows, PlaceFields DEF WellFormed, HoldsItsLocks, UpdateKnows, Vacant
<1>3. to.drive \in DrivesThere /\ f \in FilesThere
  BY <1>2, HeldIsThere
<1> HIDE DEF f, to
<1>4. Sound([place EXCEPT ![f] = to], drives)
  BY <1>2, <1>3, PutSound
<1>5. /\ place' = [place EXCEPT ![f] = to] /\ drives' = drives /\ pending' = pending
      /\ End(t) /\ Sound(place', drives')
  BY <1>1, <1>4 DEF Commit
<1>6. \A g \in File : place'[g] = IF g = f THEN to ELSE place[g]
  BY <1>2, <1>5, Typed
<1>7. /\ place' \in [File -> Place \cup {Unused, Gone}]
      /\ drives' \in [Drive -> {Unused, "there", Gone}]
      /\ pending' \subseteq FilesThere'
  BY <1>2, <1>5, <1>6, Typed DEF FilesThere
<1>8. \A g \in File : place'[g] # place[g] => g = f /\ place'[g] = to
  BY <1>6
<1> QED
  BY <1>1, <1>2, <1>5, <1>7, <1>8, CommitStep, Typed

(* What a sweep that writes holds, and what it is about. *)
LEMMA SweepWrites ==
  ASSUME IInv, NEW t \in Txn, Sweeping(t), txn[t].at = "write"
  PROVE  /\ txn[t].drive \in Drive /\ holder[DriveRow(txn[t].drive)] = t
         /\ txn[t].loaded \subseteq File
         /\ \A f \in txn[t].loaded :
              holder[FileRow(f)] = t /\ place[f] \in Place /\ place[f].drive = txn[t].drive
         /\ Members(t) \subseteq txn[t].loaded
         /\ txn[t].loaded \subseteq Under(t)
         /\ txn[t].gesture \in {"delete_drive", "freeze_drive"} => txn[t].prefix = <<>>
         /\ txn[t].gesture = "move_folder" => \A f \in txn[t].loaded : Landing(t, f).path \in Path
<1>1. HasMembers(t) /\ txn[t].todo = {}
  BY Knows DEF WellFormed, HasMembers
<1>2. /\ Members(t) \subseteq txn[t].loaded /\ txn[t].loaded \subseteq Under(t)
      /\ txn[t].gesture = "move_folder" => \A f \in txn[t].loaded : Landing(t, f).path \in Path
  BY <1>1, Knows DEF SweepKnows
<1> HIDE DEF Landing
<1>3. \A f \in txn[t].loaded : place[f] \in Place /\ place[f].drive = txn[t].drive
  BY <1>2 DEF Under, FilesUnder, FilesThere
<1> QED
  BY <1>1, <1>2, <1>3, Knows DEF WellFormed, HoldsItsLocks

(* A folder's files, moved: a constraint may refuse it. *)
LEMMA RebasePathsIInv ==
  ASSUME IInv, NEW t \in Txn, RebasePaths(t)
  PROVE  IInv'
<1> DEFINE moving == txn[t].loaded
           places == [f \in File |-> IF f \in moving THEN Landing(t, f) ELSE place[f]]
<1>1. /\ txn[t].at = "write" /\ txn[t].gesture = "move_folder" /\ Sweeping(t)
      /\ Commit(t, places, drives, pending)
  BY DEF RebasePaths, Sweeping
<1>2. CASE Broken(t)
  BY <1>1, <1>2, BrokenIInv
<1>3. CASE ~Broken(t)
  <2>1. /\ place' = places /\ drives' = drives /\ pending' = pending
        /\ End(t) /\ Sound(place', drives')
    BY <1>1, <1>3 DEF Commit
  <2>2. \A f \in moving : Landing(t, f) \in Place /\ Landing(t, f).drive = txn[t].drive
    <3> SUFFICES ASSUME NEW f \in moving
                 PROVE  Landing(t, f) \in Place /\ Landing(t, f).drive = txn[t].drive
      OBVIOUS
    <3>1. place[f] \in Place /\ place[f].drive = txn[t].drive /\ Landing(t, f).path \in Path
      BY <1>1, SweepWrites
    <3> QED
      BY <3>1 DEF Landing, Place
  <2> HIDE DEF Landing
  <2>3. \A f \in File : place'[f] # place[f] =>
          /\ f \in moving /\ place'[f] \in Place /\ place'[f].drive = txn[t].drive
    BY <2>1, <2>2
  <2>4. /\ place' \in [File -> Place \cup {Unused, Gone}]
        /\ drives' \in [Drive -> {Unused, "there", Gone}]
        /\ pending' \subseteq FilesThere'
    BY <2>1, <2>2, Typed DEF FilesThere
  <2> HIDE DEF places
  <2> QED
    BY <1>1, <2>1, <2>3, <2>4, SweepWrites, CommitStep, Typed
<1> QED
  BY <1>2, <1>3

(* Files a sweep has locked are gone, and the drive with them, if all of
   its files are. *)
LEMMA DeletesIInv ==
  ASSUME IInv, NEW t \in Txn, Sweeping(t), txn[t].at = "write",
         NEW gone \in SUBSET txn[t].loaded, NEW ds \in [Drive -> {Unused, "there", Gone}],
         \/ ds = drives
         \/ /\ ds = [drives EXCEPT ![txn[t].drive] = Gone]
            /\ txn[t].gesture = "delete_drive" /\ gone = txn[t].loaded,
         Commit(t, Without(gone), ds, pending \ gone)
  PROVE  IInv'
<1>1. \A f \in File : Without(gone)[f] = IF f \in gone THEN Gone ELSE place[f]
  BY DEF Without
<1>2. Sound(Without(gone), ds)
  <2>1. ASSUME NEW f \in File, Without(gone)[f] \in Place
        PROVE  f \notin gone /\ Without(gone)[f] = place[f] /\ f \in FilesThere
    BY <1>1, <2>1, NowhereAssumption DEF FilesThere
  <2>2. ASSUME NEW f \in FilesThere, f \notin gone PROVE ds[place[f].drive] = "there"
    <3>1. /\ place[f].drive \in Drive /\ drives[place[f].drive] = "there"
          /\ place[f].path \in Path
      BY InADrive, PlaceFields
    <3>2. ASSUME txn[t].gesture = "delete_drive", gone = txn[t].loaded, place[f].drive = txn[t].drive
          PROVE  FALSE
      <4>1. f \in Members(t)
        BY <2>2, <3>1, <3>2, SweepWrites, EmptyPath DEF Members, FilesUnder
      <4> QED
        BY <2>2, <3>2, <4>1, SweepWrites
    <3> QED
      BY <2>2, <3>1, <3>2, Typed
  <2>3. \A f, g \in File : Without(gone)[f] \in Place /\ Without(gone)[f] = Without(gone)[g] => f = g
    BY <2>1 DEF IInv, Sound
  <2> QED
    BY <2>1, <2>2, <2>3 DEF Sound
<1>3. /\ place' = Without(gone) /\ drives' = ds /\ pending' = pending \ gone
      /\ End(t) /\ Sound(place', drives')
  BY <1>2 DEF Commit
<1>4. \A f \in File : place'[f] # place[f] => f \in txn[t].loaded /\ place'[f] = Gone
  BY <1>1, <1>3
<1>5. /\ place' \in [File -> Place \cup {Unused, Gone}]
      /\ pending' \subseteq FilesThere'
  BY <1>1, <1>3, Typed DEF FilesThere, Without
<1>6. \A d \in Drive : drives'[d] # drives[d] => d = txn[t].drive /\ drives'[d] = Gone
  BY <1>3, Typed
<1> QED
  BY <1>3, <1>4, <1>5, <1>6, SweepWrites, CommitStep, NowhereAssumption

(* A folder or a drive, deleted. *)
LEMMA DeleteRowsIInv ==
  ASSUME IInv, NEW t \in Txn, DeleteRows(t)
  PROVE  IInv'
<1> DEFINE gone == txn[t].loaded
           d == txn[t].drive
           ds == IF txn[t].gesture = "delete_drive" THEN [drives EXCEPT ![d] = Gone] ELSE drives
<1>1. /\ txn[t].at = "write" /\ Sweeping(t)
      /\ Commit(t, Without(gone), ds, pending \ gone)
  BY DEF DeleteRows, Sweeping
<1>2. ds \in [Drive -> {Unused, "there", Gone}]
  BY Typed
<1> QED
  BY <1>1, <1>2, DeletesIInv

(* A drive frozen: what was pending is abandoned. *)
LEMMA AbandonUploadsIInv ==
  ASSUME IInv, NEW t \in Txn, AbandonUploads(t)
  PROVE  IInv'
<1> DEFINE abandoned == txn[t].loaded \cap pending
<1>1. /\ txn[t].at = "write" /\ Sweeping(t)
      /\ Commit(t, Without(abandoned), drives, pending \ abandoned)
  BY DEF AbandonUploads, Sweeping
<1> QED
  BY <1>1, DeletesIInv, Typed

(* The host's create_drive. *)
LEMMA CreateDriveIInv ==
  ASSUME IInv, NEW d \in Drive, CreateDrive(d)
  PROVE  IInv'
<1>1. /\ drives[d] = Unused /\ drives' = [drives EXCEPT ![d] = "there"]
      /\ place' = place /\ pending' = pending /\ holder' = holder /\ txn' = txn
  BY DEF CreateDrive
<1>2. \A e \in Drive : drives'[e] = IF e = d THEN "there" ELSE drives[e]
  BY <1>1, Typed
<1>3. \A e \in Drive : drives'[e] # drives[e] => holder'[DriveRow(e)] = Nobody
  <2>1. d \notin DrivesThere
    BY <1>1, NowhereAssumption DEF DrivesThere
  <2>2. \A t \in Txn : holder[DriveRow(d)] # t
    BY <2>1, HeldIsThere
  <2> QED
    BY <1>1, <1>2, <2>2, RowsApart, Typed
<1>4. Sound(place', drives')
  BY <1>1, <1>2, PlaceFields DEF IInv, Sound
<1>5. \A u \in Txn : Undisturbed(u)
  BY <1>1, <1>2, Typed DEF Undisturbed, DriveKept
<1>6. /\ drives' \in [Drive -> {Unused, "there", Gone}]
      /\ pending' \subseteq FilesThere'
  BY <1>1, Typed DEF FilesThere
<1> QED
  BY <1>1, <1>3, <1>4, <1>5, <1>6, TreeStep, Typed

(* An upload confirmed. *)
LEMMA CommitUploadIInv ==
  ASSUME IInv, NEW f \in File, CommitUpload(f)
  PROVE  IInv'
<1>1. /\ pending' \subseteq pending
      /\ drives' = drives /\ place' = place /\ holder' = holder /\ txn' = txn
  BY DEF CommitUpload
<1>2. Sound(place', drives') /\ pending' \subseteq FilesThere'
  BY <1>1, Typed DEF IInv, Sound, FilesThere
<1>3. \A u \in Txn : Undisturbed(u)
  BY <1>1 DEF Undisturbed, DriveKept
<1> QED
  BY <1>1, <1>2, <1>3, TreeStep, Typed

(* A file deleted, by a person or at its deadline. *)
LEMMA DeleteFileIInv ==
  ASSUME IInv, NEW f \in File, DeleteFile(f)
  PROVE  IInv'
<1>1. /\ place[f] \in Place /\ holder[FileRow(f)] = Nobody
      /\ place' = [place EXCEPT ![f] = Gone] /\ pending' = pending \ {f}
      /\ drives' = drives /\ holder' = holder /\ txn' = txn
  BY DEF DeleteFile, FilesThere, Free
<1>2. \A g \in File : place'[g] = IF g = f THEN Gone ELSE place[g]
  BY <1>1, Typed
<1>3. /\ place' \in [File -> Place \cup {Unused, Gone}]
      /\ pending' \subseteq FilesThere'
  BY <1>1, <1>2, Typed DEF FilesThere
<1>4. Sound(place', drives')
  BY <1>1, <1>2, NowhereAssumption DEF IInv, Sound
<1>5. ASSUME NEW u \in Txn PROVE Undisturbed(u)
  <2>1. Uploading(u) => txn[u].file \in File /\ place[txn[u].file] = Unused
    BY Knows DEF WellFormed, UploadKnows
  <2>2. \A d \in Drive : DriveKept(d)
    BY <1>1, <1>2, NowhereAssumption DEF DriveKept
  <2> QED
    BY <1>1, <1>2, <2>1, <2>2, Typed DEF Undisturbed
<1> QED
  BY <1>1, <1>2, <1>3, <1>4, <1>5, TreeStep, Typed

-----------------------------------------------------------------------------
(* Nothing is there at first. *)
LEMMA InitIInv == Init => IInv
<1> SUFFICES ASSUME Init PROVE IInv
  OBVIOUS
<1>1. /\ drives = [d \in Drive |-> Unused] /\ place = [f \in File |-> Unused] /\ pending = {}
      /\ holder = [r \in Row |-> Nobody] /\ txn = [t \in Txn |-> Idle]
  BY DEF Init
<1>2. \A t \in Txn : txn[t] = Idle /\ ~Uploading(t) /\ TxnInv(t)
  BY <1>1 DEF Idle, TxnInv, WellFormed, HoldsItsLocks, UploadKnows, UpdateKnows, SweepKnows,
     Uploading, Updating, Sweeping, PastDrives, HasFile, HasPlace, HasMembers
<1>3. TypeOK
  <2>1. txn \in [Txn -> Transaction]
    BY <1>1, IdleTyped
  <2> QED
    BY <1>1, <2>1 DEF TypeOK, Transaction, Free
<1>4. Sound(place, drives)
  BY <1>1, NowhereAssumption DEF Sound
<1> QED
  BY <1>2, <1>3, <1>4 DEF IInv, OneUpload

(* Every step keeps it. *)
LEMMA NextIInv == IInv /\ [Next]_vars => IInv'
<1> SUFFICES ASSUME IInv, [Next]_vars PROVE IInv'
  OBVIOUS
<1>1. CASE UNCHANGED vars
  <2>1. /\ drives' = drives /\ place' = place /\ pending' = pending
        /\ holder' = holder /\ txn' = txn
    BY <1>1 DEF vars
  <2>2. Sound(place', drives') /\ pending' \subseteq FilesThere'
    BY <2>1, Typed DEF IInv, Sound, FilesThere
  <2>3. \A u \in Txn : Undisturbed(u)
    BY <2>1 DEF Undisturbed, DriveKept
  <2> QED
    BY <2>1, <2>2, <2>3, TreeStep, Typed
<1>2. ASSUME NEW d \in Drive, CreateDrive(d) PROVE IInv'
  BY <1>2, CreateDriveIInv
<1>3. ASSUME NEW f \in File, CommitUpload(f) \/ DeleteFile(f) PROVE IInv'
  BY <1>3, CommitUploadIInv, DeleteFileIInv
<1>4. ASSUME NEW t \in Txn,
             \/ \E f \in File, d \in Drive : RequestUpload(t, f, d)
             \/ \E f \in File, d \in Drive \cup {0} : UpdateFile(t, f, d)
             \/ \E d \in Drive, old, new \in Path : MoveFolder(t, d, old, new)
             \/ \E d \in Drive, prefix \in Path : DeleteFolder(t, d, prefix)
             \/ \E d \in Drive : DeleteDrive(t, d) \/ FreezeDrive(t, d)
      PROVE  IInv'
  BY <1>4, BeginsIInv
<1>5. ASSUME NEW t \in Txn, NEW path \in Path, NEW name \in AskedNames(t),
             ChooseName(t, path, name) \/ CheckPlace(t, path, name)
      PROVE  IInv'
  BY <1>5, ChooseNameIInv, CheckPlaceIInv
<1>6. ASSUME NEW t \in Txn, LoadDrive(t) \/ InsertFile(t) PROVE IInv'
  BY <1>6, LoadDriveIInv, InsertFileIInv
<1>7. ASSUME NEW t \in Txn,
             \/ ReadDriveOf(t) \/ LoadNextDrive(t) \/ DrivesLoaded(t) \/ LoadFile(t)
             \/ LoadFromDrive(t) \/ SaveFile(t)
      PROVE  IInv'
  BY <1>7, ReadDriveOfIInv, LoadNextDriveIInv, DrivesLoadedIInv, LoadFileIInv, LoadFromDriveIInv,
     SaveFileIInv
<1>8. ASSUME NEW t \in Txn,
             \/ ReadMembers(t) \/ LoadNextFile(t) \/ MembersLoaded(t)
             \/ RebasePaths(t) \/ RebaseCollides(t) \/ DeleteRows(t) \/ AbandonUploads(t)
             \/ RollBack(t)
      PROVE  IInv'
  <2>1. CASE RebaseCollides(t)
    BY <2>1, BrokenIInv DEF RebaseCollides
  <2>2. CASE RollBack(t)
    BY <2>2, RefusedIInv DEF RollBack
  <2> QED
    BY <1>8, <2>1, <2>2, ReadMembersIInv, LoadNextFileIInv, MembersLoadedIInv, RebasePathsIInv,
       DeleteRowsIInv, AbandonUploadsIInv
<1> QED
  BY <1>1, <1>2, <1>3, <1>4, <1>5, <1>6, <1>7, <1>8 DEF Next

(* What every gesture may rely on, whatever the others do. *)
THEOREM Invariant == Spec => []IInv
  BY InitIInv, NextIInv, PTL DEF Spec

(* Types; and only rows that are there are held, by open transactions. *)
THEOREM TypeCorrect == Spec => []TypeOK
<1>1. IInv => TypeOK
  BY DEF IInv
<1> QED
  BY <1>1, Invariant, PTL

(* No upload, rename, move of a file or deletion is answered a constraint's
   error: its drive is there, and its place free, when it writes. *)
THEOREM CollisionsRefused == Spec => []OthersNeverBroken
<1>1. IInv => OthersNeverBroken
  <2> SUFFICES ASSUME IInv, NEW t \in Txn, txn[t].at = "error"
               PROVE  txn[t].gesture = "move_folder"
    BY DEF OthersNeverBroken
  <2> QED
    BY Knows DEF WellFormed, Uploading, Updating, Sweeping, Transaction, Gesture
<1> QED
  BY <1>1, Invariant, PTL

(* A folder or a drive is moved, deleted, frozen whole. *)
THEOREM SweepsTakeAll == Spec => []TakenWhole
<1>1. IInv => TakenWhole
  <2> SUFFICES ASSUME IInv, NEW t \in Txn, txn[t].at = "write"
               PROVE  /\ txn[t].gesture \in {"move_folder", "delete_folder", "delete_drive"} =>
                           txn[t].loaded = Members(t)
                      /\ txn[t].gesture = "freeze_drive" =>
                           /\ Members(t) \subseteq txn[t].loaded
                           /\ txn[t].loaded \subseteq FilesUnder(txn[t].drive, <<>>)
    BY DEF TakenWhole
  <2>1. ASSUME Sweeping(t)
        PROVE  /\ Members(t) \subseteq txn[t].loaded /\ txn[t].loaded \subseteq Under(t)
               /\ txn[t].gesture \in {"delete_drive", "freeze_drive"} => txn[t].prefix = <<>>
    BY <2>1, SweepWrites
  <2>2. txn[t].gesture \in {"move_folder", "delete_folder", "delete_drive"} => Members(t) = Under(t)
    BY DEF Members, Under
  <2> QED
    BY <2>1, <2>2 DEF Sweeping, Under
<1> QED
  BY <1>1, Invariant, PTL
=============================================================================
