------------------------------- MODULE Labels -------------------------------
(***************************************************************************)
(* The label catalogue of a host, the labels on its files, and the         *)
(* gestures of label/gestures.rs that run side by side over them.  A       *)
(* gesture is one transaction: it locks the rows it loads one at a time,   *)
(* reads what is committed when each statement runs, and shows its writes  *)
(* and frees its locks together when it commits.                           *)
(*                                                                         *)
(* The engine's row locks (load, load_many in key order) and Postgres are  *)
(* external.  Colours and descriptions are left out, and of the facts only *)
(* the labels they say a file gained and lost.                             *)
(***************************************************************************)
EXTENDS Naturals, FiniteSets, FiniteSetsExt, RowLocks

CONSTANTS NumFiles, NumLabels,
          Name,       \* label names, up to case
          Unused      \* what a label that is not there has for a name

ASSUME LabelsAssumption ==
  /\ Nobody \notin Txn
  /\ NumFiles \in Nat /\ NumLabels \in Nat
  /\ Unused \notin Name

File == 1..NumFiles
Label == 1..NumLabels

FileRow(f) == <<"file", f>>
LabelRow(l) == <<"label", l>>
Names == <<"names", 0>>  \* the advisory lock of the catalogue's names
Row == {FileRow(f) : f \in File} \cup {LabelRow(l) : l \in Label} \cup {Names}

VARIABLES
  files,    \* the files there are
  name,     \* the name of each label
  links,    \* drive.file_label: <<file, label>>
  trail,    \* what the facts recorded on each file say its labels are
  txn       \* the gesture each transaction runs, and where it is

vars == <<files, name, links, trail, holder, txn>>

Gesture == {"none", "set_file_labels", "delete_label", "create_label", "update_label"}
Place == {"idle", "file", "current", "labels", "seen", "files", "label", "again", "late",
          "names", "check", "write"}

Idle == [gesture |-> "none", at |-> "idle", file |-> 0, label |-> 0, wanted |-> {},
         name |-> Unused, todo |-> {}, loaded |-> {}, current |-> {}]

Init ==
  /\ files = File
  /\ name = [l \in Label |-> Unused]
  /\ links = {}
  /\ trail = [f \in File |-> {}]
  /\ holder = [r \in Row |-> Nobody]
  /\ txn = [t \in Txn |-> Idle]

catalogue == <<files, name, links, trail>>

-----------------------------------------------------------------------------
LabelsThere == {l \in Label : name[l] \in Name}
LabelsOf(f) == {l \in Label : <<f, l>> \in links}
FilesWith(l) == {f \in File : <<f, l>> \in links}

There(row) ==
  \/ row = Names
  \/ \E f \in files : row = FileRow(f)
  \/ \E l \in LabelsThere : row = LabelRow(l)

(* Types; and only rows that are there are held, by open transactions. *)
TypeOK ==
  /\ files \subseteq File
  /\ name \in [Label -> Name \cup {Unused}]
  /\ links \subseteq File \X Label
  /\ trail \in [File -> SUBSET Label]
  /\ holder \in [Row -> Txn \cup {Nobody}]
  /\ txn \in [Txn ->
       [gesture : Gesture, at : Place, file : File \cup {0}, label : Label \cup {0},
        wanted : SUBSET Label, name : Name \cup {Unused}, todo : SUBSET Nat,
        loaded : SUBSET Nat, current : SUBSET Label]]
  /\ \A row \in Row : holder[row] # Nobody =>
       There(row) /\ txn[holder[row]].at # "idle"

(* The next row a transaction asks for: none, or one. *)
Wants(t) ==
  CASE txn[t].at = "file"  -> {FileRow(txn[t].file)}
    [] txn[t].at = "label" -> {LabelRow(txn[t].label)}
    [] txn[t].at = "names" -> {Names}
    [] txn[t].at \in {"files", "late"} /\ txn[t].todo # {} -> {FileRow(Min(txn[t].todo))}
    [] txn[t].at = "labels" /\ txn[t].todo # {} -> {LabelRow(Min(txn[t].todo))}
    [] txn[t].at = "write" /\ txn[t].label \in LabelsThere -> {LabelRow(txn[t].label)}
    [] OTHER -> {}

Lock(t, row) == LockRow(t, row, There(row))

GoTo(t, place) == txn' = [txn EXCEPT ![t].at = place]

(* The transaction ends, in a commit, a refusal or a rollback. *)
End(t) ==
  /\ ReleaseAll(t)
  /\ txn' = [txn EXCEPT ![t] = Idle]

Refused(t) == End(t) /\ UNCHANGED catalogue

(* A dead process, or the victim Postgres picks among transactions that wait
   on each other. *)
RollBack(t) == txn[t].at # "idle" /\ Refused(t)

(* load_many: the next row of those asked, in key order. *)
LoadNext(t, row) ==
  LET key == Min(txn[t].todo)
  IN /\ txn[t].todo # {}
     /\ Lock(t, row)
     /\ txn' = [txn EXCEPT ![t].todo = @ \ {key},
                           ![t].loaded = IF There(row) THEN @ \cup {key} ELSE @]
     /\ UNCHANGED catalogue

LoadNextFile(t) ==
  /\ txn[t].at \in {"files", "late"}
  /\ LoadNext(t, FileRow(Min(txn[t].todo)))

\* Mutation: the labels a file gets are read, not locked.
ReadNextLabel(t) ==
  LET key == Min(txn[t].todo)
  IN /\ txn[t].at = "labels"
     /\ txn[t].todo # {}
     /\ txn' = [txn EXCEPT ![t].todo = @ \ {key},
                           ![t].loaded = IF key \in LabelsThere THEN @ \cup {key} ELSE @]
     /\ UNCHANGED <<catalogue, holder>>

LoadNextLabel(t) ==
  /\ txn[t].at = "labels"
  /\ LoadNext(t, LabelRow(Min(txn[t].todo)))

-----------------------------------------------------------------------------
(* SetFileLabels: the file, its current labels, every label the change
   touches; then the links and the file's fact. *)

SetFileLabels(t, f, wanted) ==
  /\ txn[t].at = "idle"
  /\ txn' = [txn EXCEPT ![t] = [Idle EXCEPT !.gesture = "set_file_labels", !.at = "file",
                                            !.file = f, !.wanted = wanted]]
  /\ UNCHANGED <<catalogue, holder>>

LoadFile(t) ==
  /\ txn[t].at = "file"
  /\ \/ /\ txn[t].file \in files
        /\ Lock(t, FileRow(txn[t].file))
        /\ GoTo(t, "current")
        /\ UNCHANGED catalogue
     \/ /\ txn[t].file \notin files
        /\ Refused(t)

ReadCurrentLabels(t) ==
  /\ txn[t].at = "current"
  /\ LET current == LabelsOf(txn[t].file)
     IN txn' = [txn EXCEPT ![t].at = "labels", ![t].current = current,
                           ![t].todo = txn[t].wanted \cup current]
  /\ UNCHANGED <<catalogue, holder>>

ReplaceFileLabels(t) ==
  LET f == txn[t].file
      wanted == txn[t].wanted
      current == txn[t].current
  IN /\ txn[t].at = "labels"
     /\ txn[t].todo = {}
     /\ \/ /\ \/ ~(wanted \subseteq txn[t].loaded)
              \/ wanted = current
           /\ Refused(t)
        \/ /\ wanted \subseteq txn[t].loaded
           /\ wanted # current
           /\ links' = {link \in links : link[1] # f} \cup ({f} \X wanted)
           /\ trail' = [trail EXCEPT ![f] = (@ \ (current \ wanted)) \cup (wanted \ current)]
           /\ End(t)
           /\ UNCHANGED <<files, name>>

-----------------------------------------------------------------------------
(* DeleteLabel: the files seen to carry it, the label, the files linked to it
   meanwhile; then a fact on each file loaded, and the label goes, its links
   with it. *)

DeleteLabel(t, l) ==
  /\ txn[t].at = "idle"
  /\ txn' = [txn EXCEPT ![t] = [Idle EXCEPT !.gesture = "delete_label", !.at = "seen",
                                            !.label = l]]
  /\ UNCHANGED <<catalogue, holder>>

ReadFilesWithLabel(t) ==
  /\ txn[t].at = "seen"
  /\ txn' = [txn EXCEPT ![t].at = "files", ![t].todo = FilesWith(txn[t].label)]
  /\ UNCHANGED <<catalogue, holder>>

FilesLoaded(t) ==
  /\ txn[t].at = "files"
  /\ txn[t].todo = {}
  /\ GoTo(t, "label")
  /\ UNCHANGED <<catalogue, holder>>

(* DeleteLabel and UpdateLabel load the label. *)
LoadLabel(t) ==
  LET l == txn[t].label
  IN /\ txn[t].at = "label"
     /\ \/ /\ l \in LabelsThere
           /\ Lock(t, LabelRow(l))
           /\ GoTo(t, IF txn[t].gesture = "delete_label" THEN "again" ELSE "check")
           /\ UNCHANGED catalogue
        \/ /\ l \notin LabelsThere
           /\ Refused(t)

\* Mutation: the files linked to the label meanwhile are not looked for.
DetachOnlySeen(t) ==
  /\ txn[t].at = "again"
  /\ txn' = [txn EXCEPT ![t].at = "late", ![t].todo = {}]
  /\ UNCHANGED <<catalogue, holder>>

ReadLateFiles(t) ==
  /\ txn[t].at = "again"
  /\ txn' = [txn EXCEPT ![t].at = "late",
                        ![t].todo = FilesWith(txn[t].label) \ txn[t].loaded]
  /\ UNCHANGED <<catalogue, holder>>

RemoveLabel(t) ==
  LET l == txn[t].label
      detached == txn[t].loaded
  IN /\ txn[t].at = "late"
     /\ txn[t].todo = {}
     /\ trail' = [f \in File |-> IF f \in detached THEN trail[f] \ {l} ELSE trail[f]]
     /\ name' = [name EXCEPT ![l] = Unused]
     /\ links' = {link \in links : link[2] # l}
     /\ End(t)
     /\ UNCHANGED files

-----------------------------------------------------------------------------
(* CreateLabel and UpdateLabel: the lock of the names (then the label), the
   check of the name, the write.  The caller chooses the id: a create may name
   a label that is there, and then gives it the new name, where the host's fact
   table does not refuse (RollBack) the facts numbered from 1 again. *)

CreateLabel(t, l, n) ==
  /\ txn[t].at = "idle"
  /\ txn' = [txn EXCEPT ![t] = [Idle EXCEPT !.gesture = "create_label", !.at = "names",
                                            !.label = l, !.name = n]]
  /\ UNCHANGED <<catalogue, holder>>

UpdateLabel(t, l, n) ==
  /\ txn[t].at = "idle"
  /\ txn' = [txn EXCEPT ![t] = [Idle EXCEPT !.gesture = "update_label", !.at = "names",
                                            !.label = l, !.name = n]]
  /\ UNCHANGED <<catalogue, holder>>

\* Mutation: the name checks of two saves are not serialized.
SkipNameLock(t) ==
  /\ txn[t].at = "names"
  /\ GoTo(t, IF txn[t].gesture = "create_label" THEN "check" ELSE "label")
  /\ UNCHANGED <<catalogue, holder>>

SerializeLabels(t) ==
  /\ txn[t].at = "names"
  /\ Lock(t, Names)
  /\ GoTo(t, IF txn[t].gesture = "create_label" THEN "check" ELSE "label")
  /\ UNCHANGED catalogue

NameTaken(n, except) == \E l \in Label \ {except} : name[l] = n

(* A rename may keep the name; to a create even the name of its own id is taken. *)
Taken(t) ==
  NameTaken(txn[t].name, IF txn[t].gesture = "create_label" THEN 0 ELSE txn[t].label)

CheckName(t) ==
  /\ txn[t].at = "check"
  /\ \/ /\ Taken(t)
        /\ Refused(t)
     \/ /\ ~Taken(t)
        /\ GoTo(t, "write")
        /\ UNCHANGED <<catalogue, holder>>

(* The upsert, by id: it waits for whoever holds a label that is there. *)
WriteLabel(t) ==
  /\ txn[t].at = "write"
  /\ holder[LabelRow(txn[t].label)] \in {Nobody, t}
  /\ name' = [name EXCEPT ![txn[t].label] = txn[t].name]
  /\ End(t)
  /\ UNCHANGED <<files, links, trail>>

-----------------------------------------------------------------------------
\* Mutation: the file is deleted without its lock.
DeleteUnlocked(f) ==
  /\ f \in files
  /\ files' = files \ {f}
  /\ links' = {link \in links : link[1] # f}
  /\ trail' = [trail EXCEPT ![f] = {}]
  /\ UNCHANGED <<name, holder, txn>>

(* DeleteFile, of a file no gesture holds: it locks that one row, so it never
   waits holding another.  The links cascade. *)
DeleteFile(f) ==
  /\ f \in files
  /\ Free(FileRow(f))
  /\ files' = files \ {f}
  /\ links' = {link \in links : link[1] # f}
  /\ trail' = [trail EXCEPT ![f] = {}]
  /\ UNCHANGED <<name, holder, txn>>

-----------------------------------------------------------------------------
Next ==
  \/ \E t \in Txn :
       \/ \E f \in File, wanted \in SUBSET Label : SetFileLabels(t, f, wanted)
       \/ \E l \in Label : DeleteLabel(t, l)
       \/ \E l \in Label, n \in Name : CreateLabel(t, l, n) \/ UpdateLabel(t, l, n)
       \/ LoadFile(t) \/ ReadCurrentLabels(t) \/ LoadNextLabel(t) \/ ReplaceFileLabels(t)
       \/ ReadFilesWithLabel(t) \/ LoadNextFile(t) \/ FilesLoaded(t) \/ LoadLabel(t)
       \/ ReadLateFiles(t) \/ RemoveLabel(t)
       \/ SerializeLabels(t) \/ CheckName(t) \/ WriteLabel(t)
       \/ RollBack(t)
  \/ \E f \in File : DeleteFile(f)

Spec == Init /\ [][Next]_vars

-----------------------------------------------------------------------------
(* No gesture is ever answered a constraint's error: a link is written only
   to a label and a file that are still there when it is, and stays only as
   long as both do.  The foreign keys are left out of the model on purpose:
   the locks alone must keep them. *)
LinksStand == \A link \in links : link[1] \in files /\ link[2] \in LabelsThere

(* Two labels never bear one name: the unique index is never met. *)
NamesUnique == \A l, m \in LabelsThere : name[l] = name[m] => l = m

(* The audit trail tells the labels a file carries: a deleted label is told
   lost by every file it was on, those linked to it while its deletion ran
   included. *)
TrailMatchesLinks == \A f \in files : trail[f] = LabelsOf(f)

(* The catalogue as its callers see it (LabelsContract). *)
Contract == INSTANCE LabelsContract

(* Each gesture, spread over its locks and statements and crossed by others,
   is one that happened whole at its commit, to labels and files still there
   then: no link or name rests on a row another gesture took in between
   (label/gestures.rs, the lock order). *)
ImplementsContract == Contract!ContractSpec

(* DeleteLabel and SetFileLabels never wait on each other (the comment on the
   lock order of delete_label, and the README). *)
NeverWaitInCycle == ~WaitInCycle([t \in Txn |-> Wants(t)])
=============================================================================
