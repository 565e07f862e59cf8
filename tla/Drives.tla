------------------------------- MODULE Drives -------------------------------
(***************************************************************************)
(* The drives of a host and the places of their files: which gesture may   *)
(* put a file where, while others run.  A gesture is one transaction: it   *)
(* locks the rows it loads one at a time, reads what is committed when     *)
(* each statement runs, and shows its writes and frees its locks together  *)
(* when it commits.  A write that a constraint of drive.file refuses       *)
(* breaks the transaction.                                                 *)
(*                                                                         *)
(* A path is the sequence of its segments, a name its stem and its counter *)
(* (" (1)", 0 for none).  What the host answers at its gates is left out:  *)
(* its refusal ends a transaction like any other.  The chain of a file is  *)
(* ProcessingChain's: a freeze is here what it does to pending uploads.    *)
(***************************************************************************)
EXTENDS Naturals, FiniteSets, FiniteSetsExt, SequencesExt, RowLocks

CONSTANTS NumDrives, NumFiles,
          Segment, Stem,  \* what paths and names are made of
          MaxDepth,       \* the longest path, in segments
          Unused, Gone,   \* a drive, a file: not created yet, deleted
          Gestures        \* the gestures the transactions run

ASSUME DrivesAssumption ==
  /\ Nobody \notin Txn
  /\ NumDrives \in Nat /\ NumFiles \in Nat /\ MaxDepth \in Nat

Drive == 1..NumDrives
File == 1..NumFiles
Path == BoundedSeq(Segment, MaxDepth)
Counter == 0..NumFiles
Name == Stem \X Counter
Place == [drive : Drive, path : Path, name : Name]

ASSUME NowhereAssumption ==
  /\ Unused \notin Place /\ Gone \notin Place
  /\ Unused # Gone /\ "there" \notin {Unused, Gone}

DriveRow(d) == <<"drive", d>>
FileRow(f) == <<"file", f>>
Row == {DriveRow(d) : d \in Drive} \cup {FileRow(f) : f \in File}

VARIABLES
  drives,   \* Unused, "there" or Gone
  place,    \* where each file is, or Unused, or Gone
  pending,  \* the files whose upload is not confirmed
  txn       \* the gesture each transaction runs, and where it is

vars == <<drives, place, pending, holder, txn>>

Gesture == {"request_upload", "update_file", "move_folder", "delete_folder",
            "delete_drive", "freeze_drive"}
Stage == {"idle", "drive", "drive_of", "drives", "file", "from", "members", "files",
          "check", "write", "error"}

Idle == [gesture |-> "none", at |-> "idle", drive |-> 0, file |-> 0, current |-> 0,
         prefix |-> <<>>, new |-> <<>>, todo |-> {}, loaded |-> {}, to |-> Unused]

Init ==
  /\ drives = [d \in Drive |-> Unused]
  /\ place = [f \in File |-> Unused]
  /\ pending = {}
  /\ holder = [r \in Row |-> Nobody]
  /\ txn = [t \in Txn |-> Idle]

tree == <<drives, place, pending>>

-----------------------------------------------------------------------------
DrivesThere == {d \in Drive : drives[d] = "there"}
FilesThere == {f \in File : place[f] \in Place}

There(row) ==
  \/ \E d \in DrivesThere : row = DriveRow(d)
  \/ \E f \in FilesThere : row = FileRow(f)

(* path.rs: is_within, rebased. *)
Within(path, prefix) == IsPrefix(prefix, path)
Rebased(path, from, to) == to \o SubSeq(path, Len(from) + 1, Len(path))

FilesUnder(d, prefix) ==
  {f \in FilesThere : place[f].drive = d /\ Within(place[f].path, prefix)}

SiblingNames(d, path) ==
  {place[f].name : f \in {g \in FilesThere : place[g].drive = d /\ place[g].path = path}}

FirstFree(name, taken) ==
  IF name \notin taken
  THEN name
  ELSE <<name[1], Min({n \in 1..NumFiles : <<name[1], n>> \notin taken})>>

(* drive.file: its drive is there, and UNIQUE (drive_id, path, name). *)
Sound(places, ds) ==
  /\ \A f \in File : places[f] \in Place => ds[places[f].drive] = "there"
  /\ \A f, g \in File : places[f] \in Place /\ places[f] = places[g] => f = g

(* Types; and only rows that are there are held, by open transactions. *)
TypeOK ==
  /\ drives \in [Drive -> {Unused, "there", Gone}]
  /\ place \in [File -> Place \cup {Unused, Gone}]
  /\ pending \subseteq FilesThere
  /\ holder \in [Row -> Txn \cup {Nobody}]
  /\ txn \in [Txn ->
       [gesture : Gesture \cup {"none"}, at : Stage, drive : Drive \cup {0},
        file : File \cup {0}, current : Drive \cup {0}, prefix : Path, new : Path,
        todo : SUBSET Nat, loaded : SUBSET Nat, to : Place \cup {Unused}]]
  /\ \A row \in Row : ~Free(row) => There(row) /\ txn[holder[row]].at # "idle"

Lock(t, row) == LockRow(t, row, There(row))

GoTo(t, stage) == txn' = [txn EXCEPT ![t].at = stage]

(* The transaction ends, in a commit, a refusal or a rollback. *)
End(t) == ReleaseAll(t) /\ txn' = [txn EXCEPT ![t] = Idle]

Refused(t) == End(t) /\ UNCHANGED tree

(* A refusal of the host, a dead process, a transaction broken, or the victim
   Postgres picks among those that wait on each other. *)
RollBack(t) == txn[t].at # "idle" /\ Refused(t)

Broken(t) == GoTo(t, "error") /\ UNCHANGED <<tree, holder>>

Commit(t, places, ds, uploads) ==
  \/ /\ Sound(places, ds)
     /\ place' = places
     /\ drives' = ds
     /\ pending' = uploads
     /\ End(t)
  \/ ~Sound(places, ds) /\ Broken(t)

Start(t, gesture, record) ==
  /\ gesture \in Gestures
  /\ txn[t].at = "idle"
  /\ txn' = [txn EXCEPT ![t] = [record EXCEPT !.gesture = gesture]]
  /\ UNCHANGED <<tree, holder>>

-----------------------------------------------------------------------------
(* The host's create_drive, and the gestures that lock one row: they wait
   holding nothing. *)

CreateDrive(d) ==
  /\ drives[d] = Unused
  /\ drives' = [drives EXCEPT ![d] = "there"]
  /\ UNCHANGED <<place, pending, holder, txn>>

CommitUpload(f) ==
  /\ f \in pending
  /\ Free(FileRow(f))
  /\ pending' = pending \ {f}
  /\ UNCHANGED <<drives, place, holder, txn>>

\* Mutation: the file is deleted without its lock.
DeleteUnlocked(f) ==
  /\ f \in FilesThere
  /\ place' = [place EXCEPT ![f] = Gone]
  /\ pending' = pending \ {f}
  /\ UNCHANGED <<drives, holder, txn>>

(* DeleteFile, and the deadline of a pending upload, leave the same. *)
DeleteFile(f) ==
  /\ f \in FilesThere
  /\ Free(FileRow(f))
  /\ place' = [place EXCEPT ![f] = Gone]
  /\ pending' = pending \ {f}
  /\ UNCHANGED <<drives, holder, txn>>

-----------------------------------------------------------------------------
(* RequestUpload: the drive, the first free name beside its siblings, the
   row.  File ids are new.  The path and the name asked for are chosen where
   they are first read. *)

RequestUpload(t, f, d) ==
  /\ place[f] = Unused
  /\ \A other \in Txn : ~(txn[other].gesture = "request_upload" /\ txn[other].file = f)
  /\ Start(t, "request_upload", [Idle EXCEPT !.at = "drive", !.drive = d, !.file = f])

ChooseName(t, path, name) ==
  /\ txn[t].at = "check"
  /\ txn[t].gesture = "request_upload"
  /\ LET d == txn[t].drive
         free == FirstFree(name, SiblingNames(d, path))
     IN txn' = [txn EXCEPT ![t].at = "write",
                           ![t].to = [drive |-> d, path |-> path, name |-> free]]
  /\ UNCHANGED <<tree, holder>>

InsertFile(t) ==
  LET f == txn[t].file
  IN /\ txn[t].at = "write"
     /\ txn[t].gesture = "request_upload"
     /\ Commit(t, [place EXCEPT ![f] = txn[t].to], drives, pending \cup {f})

\* Mutation: some gesture reads the drive without its lock.
ReadDrive(t, gesture) ==
  LET d == txn[t].drive
  IN /\ txn[t].at = "drive"
     /\ \/ /\ d \in DrivesThere
           /\ IF txn[t].gesture = gesture THEN UNCHANGED holder ELSE Lock(t, DriveRow(d))
           /\ GoTo(t, IF txn[t].gesture = "request_upload" THEN "check" ELSE "members")
           /\ UNCHANGED tree
        \/ /\ d \notin DrivesThere
           /\ Refused(t)

LoadDriveUnlessUpload(t) == ReadDrive(t, "request_upload")

(* The drive every gesture but UpdateFile locks first. *)
LoadDrive(t) ==
  LET d == txn[t].drive
  IN /\ txn[t].at = "drive"
     /\ \/ /\ d \in DrivesThere
           /\ Lock(t, DriveRow(d))
           /\ GoTo(t, IF txn[t].gesture = "request_upload" THEN "check" ELSE "members")
           /\ UNCHANGED tree
        \/ /\ d \notin DrivesThere
           /\ Refused(t)

-----------------------------------------------------------------------------
(* UpdateFile: the drive the file is in, read unlocked; that drive and the
   target; the file; the drive it is in by then, if another. *)

(* d is the drive the caller names, or 0. *)
UpdateFile(t, f, d) ==
  Start(t, "update_file", [Idle EXCEPT !.at = "drive_of", !.drive = d, !.file = f])

Target(t) == IF txn[t].drive = 0 THEN txn[t].current ELSE txn[t].drive

ReadDriveOf(t) ==
  LET f == txn[t].file
  IN /\ txn[t].at = "drive_of"
     /\ \/ /\ f \in FilesThere
           /\ txn' = [txn EXCEPT ![t].at = "drives", ![t].current = place[f].drive,
                ![t].todo = {place[f].drive} \cup ({txn[t].drive} \ {0})]
           /\ UNCHANGED <<tree, holder>>
        \/ /\ f \notin FilesThere
           /\ Refused(t)

(* load_many: the next row of those asked, in key order. *)
LoadNext(t, row) ==
  LET key == Min(txn[t].todo)
  IN /\ Lock(t, row)
     /\ txn' = [txn EXCEPT ![t].todo = @ \ {key},
                           ![t].loaded = IF There(row) THEN @ \cup {key} ELSE @]
     /\ UNCHANGED tree

LoadNextDrive(t) ==
  /\ txn[t].at = "drives"
  /\ txn[t].todo # {}
  /\ LoadNext(t, DriveRow(Min(txn[t].todo)))

DrivesLoaded(t) ==
  /\ txn[t].at = "drives"
  /\ txn[t].todo = {}
  /\ GoTo(t, "file")
  /\ UNCHANGED <<tree, holder>>

LoadFile(t) ==
  LET f == txn[t].file
  IN /\ txn[t].at = "file"
     /\ \/ /\ f \in FilesThere
           /\ Lock(t, FileRow(f))
           /\ GoTo(t, IF place[f].drive = txn[t].current THEN "check" ELSE "from")
           /\ UNCHANGED tree
        \/ /\ f \notin FilesThere
           /\ Refused(t)

\* Mutation: the drive the file is in by then is not locked.
SkipFromDrive(t) ==
  /\ txn[t].at = "from"
  /\ GoTo(t, "check")
  /\ UNCHANGED <<tree, holder>>

LoadFromDrive(t) ==
  /\ txn[t].at = "from"
  /\ Lock(t, DriveRow(place[txn[t].file].drive))
  /\ GoTo(t, "check")
  /\ UNCHANGED tree

(* path and name are the caller's, or those of the file. *)
CheckPlace(t, path, name) ==
  LET to == [drive |-> Target(t), path |-> path, name |-> name]
  IN /\ txn[t].at = "check"
     /\ txn[t].gesture = "update_file"
     /\ \/ /\ \/ Target(t) \notin txn[t].loaded
              \/ to = place[txn[t].file]
              \/ name \in SiblingNames(Target(t), path)
           /\ Refused(t)
        \/ /\ Target(t) \in txn[t].loaded
           /\ to # place[txn[t].file]
           /\ name \notin SiblingNames(Target(t), path)
           /\ txn' = [txn EXCEPT ![t].at = "write", ![t].to = to]
           /\ UNCHANGED <<tree, holder>>

SaveFile(t) ==
  /\ txn[t].at = "write"
  /\ txn[t].gesture = "update_file"
  /\ Commit(t, [place EXCEPT ![txn[t].file] = txn[t].to], drives, pending)

-----------------------------------------------------------------------------
(* The gestures over many files: the drive, the files in it (the files under
   a prefix, those in flight), each of them locked, then one statement. *)

MoveFolder(t, d, old, new) ==
  /\ old # <<>>
  /\ old # new
  /\ ~Within(new, old)
  /\ Start(t, "move_folder",
           [Idle EXCEPT !.at = "drive", !.drive = d, !.prefix = old, !.new = new])

DeleteFolder(t, d, prefix) ==
  /\ prefix # <<>>
  /\ Start(t, "delete_folder", [Idle EXCEPT !.at = "drive", !.drive = d, !.prefix = prefix])

DeleteDrive(t, d) == Start(t, "delete_drive", [Idle EXCEPT !.at = "drive", !.drive = d])

FreezeDrive(t, d) == Start(t, "freeze_drive", [Idle EXCEPT !.at = "drive", !.drive = d])

(* Those a gesture is about, as its query finds them. *)
Members(t) ==
  LET under == FilesUnder(txn[t].drive, txn[t].prefix)
  IN IF txn[t].gesture = "freeze_drive" THEN under \cap pending ELSE under

ReadMembers(t) ==
  /\ txn[t].at = "members"
  /\ txn' = [txn EXCEPT ![t].at = "files", ![t].todo = Members(t)]
  /\ UNCHANGED <<tree, holder>>

LoadNextFile(t) ==
  /\ txn[t].at = "files"
  /\ txn[t].todo # {}
  /\ LoadNext(t, FileRow(Min(txn[t].todo)))

Landing(t, f) == [place[f] EXCEPT !.path = Rebased(@, txn[t].prefix, txn[t].new)]

(* FOLDER_NOT_FOUND, INVALID_PATH, NAME_TAKEN. *)
FolderRefused(t) ==
  \/ txn[t].gesture \in {"move_folder", "delete_folder"} /\ txn[t].loaded = {}
  \/ /\ txn[t].gesture = "move_folder"
     /\ \E f \in txn[t].loaded :
          \/ ~Within(place[f].path, txn[t].prefix)
          \/ Landing(t, f).path \notin Path
          \/ \E g \in FilesThere \ txn[t].loaded : place[g] = Landing(t, f)

MembersLoaded(t) ==
  /\ txn[t].at = "files"
  /\ txn[t].todo = {}
  /\ \/ FolderRefused(t) /\ Refused(t)
     \/ ~FolderRefused(t) /\ GoTo(t, "write") /\ UNCHANGED <<tree, holder>>

(* rebase_paths: one UPDATE writes the rows one after the other, in the order
   of its plan, and checks each against the rows as they then are. *)
RebasePaths(t) ==
  LET moving == txn[t].loaded
  IN /\ txn[t].at = "write"
     /\ txn[t].gesture = "move_folder"
     /\ Commit(t, [f \in File |-> IF f \in moving THEN Landing(t, f) ELSE place[f]],
               drives, pending)

(* One lands where another is that did not move yet. *)
RebaseCollides(t) ==
  /\ txn[t].at = "write"
  /\ txn[t].gesture = "move_folder"
  /\ \E f, g \in txn[t].loaded : f # g /\ Landing(t, f) = place[g]
  /\ Broken(t)

Without(files) == [f \in File |-> IF f \in files THEN Gone ELSE place[f]]

DeleteRows(t) ==
  LET gone == txn[t].loaded
      d == txn[t].drive
      ds == IF txn[t].gesture = "delete_drive" THEN [drives EXCEPT ![d] = Gone] ELSE drives
  IN /\ txn[t].at = "write"
     /\ txn[t].gesture \in {"delete_folder", "delete_drive"}
     /\ Commit(t, Without(gone), ds, pending \ gone)

(* Only an upload still pending once locked is abandoned. *)
AbandonUploads(t) ==
  LET abandoned == txn[t].loaded \cap pending
  IN /\ txn[t].at = "write"
     /\ txn[t].gesture = "freeze_drive"
     /\ Commit(t, Without(abandoned), drives, pending \ abandoned)

-----------------------------------------------------------------------------
(* The names asked for: one without a counter, or the one the file has. *)
AskedNames(t) ==
  Stem \X {0} \cup {place[f].name : f \in FilesThere \cap {txn[t].file}}

Next ==
  \/ \E d \in Drive : CreateDrive(d)
  \/ \E f \in File : CommitUpload(f) \/ DeleteFile(f)
  \/ \E t \in Txn :
       \/ /\ txn[t].at = "idle"
          /\ \/ \E f \in File, d \in Drive : RequestUpload(t, f, d)
             \/ \E f \in File, d \in Drive \cup {0} : UpdateFile(t, f, d)
             \/ \E d \in Drive, old, new \in Path : MoveFolder(t, d, old, new)
             \/ \E d \in Drive, prefix \in Path : DeleteFolder(t, d, prefix)
             \/ \E d \in Drive : DeleteDrive(t, d) \/ FreezeDrive(t, d)
       \/ /\ txn[t].at = "check"
          /\ \E path \in Path, name \in AskedNames(t) :
                ChooseName(t, path, name) \/ CheckPlace(t, path, name)
       \/ LoadDrive(t) \/ InsertFile(t)
       \/ ReadDriveOf(t) \/ LoadNextDrive(t) \/ DrivesLoaded(t) \/ LoadFile(t)
       \/ LoadFromDrive(t) \/ SaveFile(t)
       \/ ReadMembers(t) \/ LoadNextFile(t) \/ MembersLoaded(t)
       \/ RebasePaths(t) \/ RebaseCollides(t) \/ DeleteRows(t) \/ AbandonUploads(t)
       \/ RollBack(t)

Spec == Init /\ [][Next]_vars

-----------------------------------------------------------------------------
(* The names of a folder never collide, nor is a file put in a drive that is
   gone: no upload, rename, move or deletion is answered a constraint's error
   (README: a concurrent collision answers NAME_TAKEN, never a database
   error). *)
OthersNeverBroken ==
  \A t \in Txn : txn[t].at = "error" => txn[t].gesture = "move_folder"

(* The same of a folder's move, refused as a whole or done (README: every
   mutation answers its ack or a coded refusal). *)
FolderMoveNeverBroken ==
  \A t \in Txn : ~(txn[t].at = "error" /\ txn[t].gesture = "move_folder")

(* A folder or a drive is moved, deleted, frozen whole: no file enters or
   leaves it between the query that finds its files and the commit. *)
TakenWhole ==
  \A t \in Txn : txn[t].at = "write" =>
    /\ txn[t].gesture \in {"move_folder", "delete_folder", "delete_drive"} =>
         txn[t].loaded = Members(t)
    /\ txn[t].gesture = "freeze_drive" =>
         /\ Members(t) \subseteq txn[t].loaded
         /\ txn[t].loaded \subseteq FilesUnder(txn[t].drive, <<>>)
=============================================================================
