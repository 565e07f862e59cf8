----------------------------- MODULE Renditions -----------------------------
(***************************************************************************)
(* The renditions of one file (file/renditions.rs) and the runner's read   *)
(* of them (runner.rs: presign_renditions and the gate it reads behind).   *)
(*                                                                         *)
(* Requests and landings lock the file and are one action each.  The read  *)
(* is not: it lists the landed renditions, then signs them one by one,     *)
(* each signature a read of its own, while uploads land, the job ends and  *)
(* the file is deleted.                                                    *)
(***************************************************************************)
EXTENDS BlobRows

CONSTANTS
    Name,       \* rendition names
    MaxJob,     \* bound: jobs of the file
    Attempts,   \* RENDITION_PRESIGN_ATTEMPTS
    NoRow

ASSUME ReadAssumption == MaxJob \in Nat /\ Attempts \in Nat \ {0}
ASSUME NoRowAssumption == NoRow \notin Row

VARIABLES
    file,       \* the file's row: "there" or "gone"
    job,        \* the file's last job, and whether it is the active one
    rows,       \* drive.file_rendition
    reader      \* a call of RunnerContext

vars == <<object, landings, file, job, rows, reader>>

(* A rendition of a list read: its name and its object. *)
Listed == [name : Name, blob : Object]

NotReading == [phase |-> "idle", job |-> 0, known |-> {}, todo |-> {},
               now |-> NoRow, attempts |-> 0, signed |-> {}]

Without(list, name) == {listed \in list : listed.name # name}

(* The whole state is of its type. *)
TypeOK ==
    /\ ObjectsTypeOK(Name)
    /\ file \in {"there", "gone"}
    /\ job \in [last : 0 .. MaxJob, active : BOOLEAN]
    /\ rows \in [Name -> Row \cup {NoRow}]
    /\ reader.phase \in {"idle", "signing", "rereading", "answered",
                         "not_active", "kept_changing"}
    /\ reader.job \in 0 .. MaxJob
    /\ reader.known \subseteq Listed
    /\ reader.todo \subseteq reader.known
    /\ reader.now \in Listed \cup {NoRow}
    /\ reader.signed \subseteq Listed
    /\ reader.attempts \in 0 .. Attempts

Init ==
    /\ ObjectsInit
    /\ file = "there"
    /\ job = [last |-> 0, active |-> FALSE]
    /\ rows = [name \in Name |-> NoRow]
    /\ reader = NotReading

-----------------------------------------------------------------------------
(* The rows *)

Present == {name \in Name : rows[name] # NoRow}

Holders(o) == {name \in Present : o \in BlobRefs(rows[name])}

(* Mutation: a rendition being replaced is not listed. *)
LandedAndSettled ==
    {[name |-> name, blob |-> rows[name].current] :
        name \in {n \in Present : rows[n].landed /\ rows[n].pending = NoObject}}

(* The current object of each name that has a landed one. *)
LandedRenditions ==
    {[name |-> name, blob |-> rows[name].current] :
        name \in {n \in Present : rows[n].landed}}

-----------------------------------------------------------------------------
(* The job and the file *)

JobStarts ==
    /\ file = "there"
    /\ ~job.active
    /\ job.last < MaxJob
    /\ job' = [last |-> job.last + 1, active |-> TRUE]
    /\ UNCHANGED <<object, landings, file, rows, reader>>

(* The job ends, reported done, failed or cancelled; the conclusion of the *)
(* chain drops images and pages, never a rendition.                        *)
JobEnds ==
    /\ job.active
    /\ job' = [job EXCEPT !.active = FALSE]
    /\ UNCHANGED <<object, landings, file, rows, reader>>

(* Mutation: only the landed objects of the file are released with it. *)
LandedRefsOfFile == {listed.blob : listed \in LandedRenditions}

RenditionRefsOfFile == UNION {BlobRefs(rows[name]) : name \in Present}

DeleteFile ==
    /\ file = "there"
    /\ file' = "gone"
    /\ Release(RenditionRefsOfFile)
    /\ rows' = [name \in Name |-> NoRow]
    /\ job' = [job EXCEPT !.active = FALSE]
    /\ UNCHANGED <<landings, reader>>

-----------------------------------------------------------------------------
(* Requests and landings *)

RequestRendition(name, o) ==
    /\ job.active
    /\ \/ /\ rows[name] = NoRow
          /\ Stage(o, {})
          /\ rows' = [rows EXCEPT ![name] = New(o)]
       \/ /\ rows[name] # NoRow
          /\ ~IsLanding(rows[name])
          /\ Stage(o, ReplacedBy(rows[name]))
          /\ rows' = [rows EXCEPT ![name] = RequestReplacement(rows[name], o)]
    /\ UNCHANGED <<file, job, reader>>

WindowPasses(name) ==
    /\ rows[name] # NoRow
    /\ IsLanding(rows[name])
    /\ rows' = [rows EXCEPT ![name].fresh = FALSE]
    /\ UNCHANGED <<object, landings, file, job, reader>>

RenditionAvailable(o) ==
    /\ Promote(o, Holders(o))
    /\ UNCHANGED <<file, job, rows, reader>>

RenditionOrphaned(o) ==
    /\ Orphan(o)
    /\ UNCHANGED <<file, job, rows, reader>>

RenditionLanded(name, o) ==
    /\ <<name, o>> \in landings
    /\ rows[name] # NoRow
    /\ Release(SwapReleases(rows[name], o))
    /\ rows' = [rows EXCEPT ![name] = Land(rows[name], o)]
    /\ UNCHANGED <<landings, file, job, reader>>

-----------------------------------------------------------------------------
(* The runner's read *)

(* The gate of every read of it: the file is there and the runner's job is *)
(* the file's active one.                                                  *)
Visible(j) == file = "there" /\ job.active /\ job.last = j

(* The list read once, in one snapshot behind the gate. *)
ReadRenditions(j) ==
    /\ reader.phase = "idle"
    /\ reader' = IF Visible(j)
                 THEN [NotReading EXCEPT !.phase = "signing", !.job = j,
                                         !.known = LandedRenditions,
                                         !.todo = LandedRenditions]
                 ELSE [NotReading EXCEPT !.phase = "not_active", !.job = j]
    /\ UNCHANGED <<object, landings, file, job, rows>>

(* Mutation: a download is refused while a replacement is on its way. *)
HeldAndSettled(listed) ==
    Visible(reader.job) /\ listed \in LandedAndSettled

(* The download of one object: only one the gated row holds is signed. *)
Download(listed) == Visible(reader.job) /\ listed \in LandedRenditions

(* Mutation: one refusal more than allowed. *)
OneAttemptMore == reader.attempts + 1 > Attempts

LastAttempt == reader.attempts + 1 >= Attempts

(* The signature of one rendition of the list: it is signed, or refused     *)
(* and read again, or refused for the last time the call allows.            *)
SignRendition(listed) ==
    /\ reader.phase = "signing"
    /\ listed \in IF reader.attempts = 0 THEN reader.todo ELSE {reader.now}
    /\ \/ /\ Download(listed)
          /\ reader' = [reader EXCEPT !.signed = @ \cup {listed}, !.now = NoRow,
                                      !.todo = Without(@, listed.name),
                                      !.attempts = 0]
       \/ /\ ~Download(listed)
          /\ reader' = [reader EXCEPT !.now = listed, !.attempts = @ + 1,
                          !.phase = IF LastAttempt THEN "kept_changing"
                                                   ELSE "rereading"]
    /\ UNCHANGED <<object, landings, file, job, rows>>

(* Replaced since the read: the name's current object is signed instead,    *)
(* and a name that is gone is left out.                                     *)
ReadAgain ==
    LET current == {fresh \in LandedRenditions : fresh.name = reader.now.name}
    IN  /\ reader.phase = "rereading"
        /\ reader' =
             CASE ~Visible(reader.job) -> [reader EXCEPT !.phase = "not_active"]
               [] Visible(reader.job) /\ current # {} ->
                    [reader EXCEPT !.phase = "signing",
                                   !.now = CHOOSE fresh \in current : TRUE]
               [] OTHER -> [reader EXCEPT !.phase = "signing", !.now = NoRow,
                                          !.todo = Without(@, reader.now.name),
                                          !.attempts = 0]
        /\ UNCHANGED <<object, landings, file, job, rows>>

Answer ==
    /\ reader.phase = "signing"
    /\ reader.todo = {}
    /\ reader' = [reader EXCEPT !.phase = "answered"]
    /\ UNCHANGED <<object, landings, file, job, rows>>

-----------------------------------------------------------------------------

ReaderStep ==
    \/ \E listed \in Listed : SignRendition(listed)
    \/ ReadAgain
    \/ Answer

Next ==
    \/ JobStarts
    \/ JobEnds
    \/ DeleteFile
    \/ \E name \in Name, o \in Object : RequestRendition(name, o)
    \/ \E name \in Name : WindowPasses(name)
    \/ \E o \in Object : RenditionAvailable(o)
    \/ \E o \in Object : RenditionOrphaned(o)
    \/ \E name \in Name, o \in Object : RenditionLanded(name, o)
    \/ \E j \in 1 .. MaxJob : ReadRenditions(j)
    \/ ReaderStep

Spec == Init /\ [][Next]_vars

-----------------------------------------------------------------------------
(* Properties *)

(* Whatever order requests, uploads, orphaned uploads and redelivered       *)
(* landings come in, a landed rendition has its object, and every object    *)
(* kept is held by one name: replacing a name or deleting the file releases *)
(* all it held, uploads on their way included.  (A name may hold an object  *)
(* the reaper dropped; never one that landed.)                              *)
ObjectsFollowRows ==
    /\ \A name \in Present : rows[name].landed => object[rows[name].current] = "stored"
    /\ \A o \in Object :
         object[o] \in {"staged", "stored"} => Cardinality(Holders(o)) = 1

(* A call of RunnerContext that answers leaves no rendition out that had    *)
(* landed when it listed them, though any may be replaced before it is      *)
(* signed.                                                                  *)
NothingLeftOut ==
    reader.phase = "answered" =>
        {listed.name : listed \in reader.known} = {listed.name : listed \in reader.signed}

(* Each retry follows a landing that swapped the name's object: what is     *)
(* signed after a refusal is always newer than what was refused.  So of the *)
(* refusals that end a call in SOURCE_NOT_AVAILABLE all but the last were   *)
(* swaps; the last may also be the job's end, which no list is read after.  *)
RetriesFollowSwaps ==
    [][reader.phase = "rereading" /\ reader'.phase = "signing" /\ reader'.now # NoRow
         => reader'.now.blob > reader.now.blob]_vars

=============================================================================
