--------------------------- MODULE RenditionsProofs ---------------------------
(***************************************************************************)
(* Proofs about Renditions, for any names and any number of objects, jobs  *)
(* and attempts.                                                           *)
(*                                                                         *)
(* What the storage keeps is the invariant of BlobRowsProofs over the      *)
(* renditions of the file.  That a read leaves nothing out rests on a row  *)
(* that landed staying there, landed, as long as the reader's job is the   *)
(* file's active one: a job that is not never is again.                    *)
(***************************************************************************)
EXTENDS Renditions, BlobRowsProofs

RowsInv == BlobInv(object, landings, rows, Present)

NamesOf(list) == {listed.name : listed \in list}

Reader == [phase : {"idle", "signing", "rereading", "answered", "not_active", "kept_changing"},
           job : 0 .. MaxJob, known : SUBSET Listed, todo : SUBSET Listed,
           now : Listed \cup {NoRow}, attempts : 0 .. Attempts, signed : SUBSET Listed]

(* The call is between its list and its answer, with an attempt left. *)
Reading == reader.phase \in {"signing", "rereading"}

AttemptsLeft == Reading => reader.attempts < Attempts

(* What was refused is one of those still to sign. *)
Refused == reader.phase = "rereading" \/ (reader.phase = "signing" /\ reader.attempts # 0)

RefusedToSign == Refused => reader.now \in Listed /\ reader.now.name \in NamesOf(reader.todo)

(* Each name listed is signed, or still to sign. *)
NamesKept ==
  /\ Reading => NamesOf(reader.known) = NamesOf(reader.signed) \cup NamesOf(reader.todo)
  /\ NothingLeftOut

(* The job of a call that lists is one the file had. *)
JobKnown == Reading => reader.job <= job.last

(* A rendition listed is there, landed, and shows that object or a newer one. *)
Shown(listed) ==
  /\ listed.name \in Present
  /\ rows[listed.name].landed
  /\ rows[listed.name].current >= listed.blob

StillShown ==
  Reading /\ Visible(reader.job) =>
    /\ \A listed \in reader.known : Shown(listed)
    /\ Refused => Shown(reader.now)
    /\ reader.phase = "rereading" => rows[reader.now.name].current > reader.now.blob

ReaderInv ==
  /\ reader \in Reader
  /\ reader.todo \subseteq reader.known
  /\ AttemptsLeft
  /\ RefusedToSign
  /\ NamesKept
  /\ JobKnown

IInv ==
  /\ TypeOK
  /\ RowsInv
  /\ ReaderInv
  /\ StillShown

(* What a step leaves of the renditions: rows of their types, an object for
   each landed one, none kept without a row, and nothing older than it was. *)
RowsGood ==
  /\ (ObjectsTypeOK(Name) /\ rows \in [Name -> Row \cup {NoRow}] /\ RowsInv)'
  /\ CurrentGrows(rows, Present, rows', Present')

(* The types of what the invariant is about. *)
LEMMA RowsTyped ==
  ASSUME IInv
  PROVE  /\ object \in [Object -> ObjectState] /\ landings \subseteq Name \X Object
         /\ rows \in [Name -> Row \cup {NoRow}]
         /\ BlobInv(object, landings, rows, Present)
         /\ Present \subseteq Name
  BY DEF IInv, TypeOK, ObjectsTypeOK, ObjectState, RowsInv, Present

(* What a step has to show to leave the rows good. *)
LEMMA GoodAfter ==
  ASSUME NEW left, rows' \in [Name -> Row \cup {NoRow}], Present' = left,
         landings' \subseteq Name \X Object,
         BlobInv(object', landings', rows', left),
         CurrentGrows(rows, Present, rows', left)
  PROVE  RowsGood
<1>1. ObjectsTypeOK(Name)'
  BY DEF ObjectsTypeOK, BlobInv, ObjectState
<1>2. RowsInv'
  BY DEF RowsInv
<1> QED
  BY <1>1, <1>2 DEF RowsGood

(* A step that has nothing to do with the rows. *)
LEMMA RowsUntouched ==
  ASSUME IInv, UNCHANGED <<object, landings, rows>>
  PROVE  RowsGood
<1>1. CurrentGrows(rows, Present, rows, Present)
  BY RowsTyped, RowRefs DEF BlobInv, RowSound, CurrentGrows
<1>2. Present' = Present
  BY DEF Present
<1> QED
  BY <1>1, <1>2, RowsTyped, GoodAfter

(* One rendition's row is written. *)
LEMMA RowWritten ==
  ASSUME rows \in [Name -> Row \cup {NoRow}], NEW name \in Name, NEW row \in Row,
         rows' = [rows EXCEPT ![name] = row]
  PROVE  rows' \in [Name -> Row \cup {NoRow}] /\ Present' = Present \cup {name}
  BY NoRowAssumption DEF Present

(* A request makes a row, or asks again for one past its window. *)
LEMMA RequestRenditionGood ==
  ASSUME IInv, NEW name \in Name, NEW o \in Object, RequestRendition(name, o)
  PROVE  RowsGood
<1> DEFINE names == Present
<1>1. /\ rows \in [Name -> Row \cup {NoRow}] /\ BlobInv(object, landings, rows, names)
      /\ landings \subseteq Name \X Object
  BY RowsTyped
<1>2. CASE rows[name] = NoRow /\ Stage(o, {}) /\ rows' = [rows EXCEPT ![name] = New(o)]
  <2>1. name \notin names
    BY <1>2 DEF Present
  <2>2. OneRow(rows, names, name, New(o), rows')
    BY <1>1, <1>2, <2>1 DEF Present, OneRow
  <2> HIDE DEF names
  <2>3. /\ BlobInv(object', landings', rows', names \cup {name})
        /\ CurrentGrows(rows, names, rows', names \cup {name})
        /\ New(o) \in Row
    BY <1>1, <1>2, <2>1, <2>2, NewRowStep
  <2>4. rows' \in [Name -> Row \cup {NoRow}] /\ Present' = names \cup {name}
    BY <1>1, <1>2, <2>3, RowWritten DEF names
  <2>5. landings' = landings
    BY <1>2 DEF Stage
  <2> QED
    BY <1>1, <2>3, <2>4, <2>5, GoodAfter DEF names
<1>3. CASE /\ rows[name] # NoRow /\ Stage(o, ReplacedBy(rows[name]))
           /\ rows' = [rows EXCEPT ![name] = RequestReplacement(rows[name], o)]
  <2>1. name \in names
    BY <1>3 DEF Present
  <2>2. OneRow(rows, names, name, RequestReplacement(rows[name], o), rows')
    BY <1>1, <1>3, <2>1 DEF Present, OneRow
  <2> HIDE DEF names
  <2>3. /\ BlobInv(object', landings', rows', names)
        /\ CurrentGrows(rows, names, rows', names)
        /\ RequestReplacement(rows[name], o) \in Row
    BY <1>1, <1>3, <2>1, <2>2, ReplaceStep
  <2>4. rows' \in [Name -> Row \cup {NoRow}] /\ Present' = names \cup {name}
    BY <1>1, <1>3, <2>3, RowWritten DEF names
  <2>5. landings' = landings /\ names \cup {name} = names
    BY <1>3, <2>1 DEF Stage
  <2> QED
    BY <1>1, <2>3, <2>4, <2>5, GoodAfter DEF names
<1> QED
  BY <1>2, <1>3 DEF RequestRendition

(* The window of a row passes. *)
LEMMA WindowPassesGood ==
  ASSUME IInv, NEW name \in Name, WindowPasses(name)
  PROVE  RowsGood
<1> DEFINE names == Present
           row == [rows[name] EXCEPT !.fresh = FALSE]
<1>1. /\ rows \in [Name -> Row \cup {NoRow}] /\ BlobInv(object, landings, rows, names)
      /\ landings \subseteq Name \X Object
  BY RowsTyped
<1>2. /\ rows[name] # NoRow /\ rows' = [rows EXCEPT ![name] = row]
      /\ UNCHANGED <<object, landings>>
  BY DEF WindowPasses
<1>3. name \in names /\ OneRow(rows, names, name, row, rows')
  BY <1>1, <1>2 DEF Present, OneRow
<1> HIDE DEF names
<1>4. /\ BlobInv(object', landings', rows', names)
      /\ CurrentGrows(rows, names, rows', names)
      /\ row \in Row
  BY <1>1, <1>2, <1>3, WindowStep
<1> HIDE DEF row
<1>5. rows' \in [Name -> Row \cup {NoRow}] /\ Present' = names \cup {name}
  BY <1>1, <1>2, <1>4, RowWritten DEF names
<1>6. names \cup {name} = names
  BY <1>3
<1> QED
  BY <1>1, <1>2, <1>4, <1>5, <1>6, GoodAfter DEF names

(* An upload is promoted. *)
LEMMA RenditionAvailableGood ==
  ASSUME IInv, NEW o \in Object, RenditionAvailable(o)
  PROVE  RowsGood
<1> DEFINE names == Present
<1>1. /\ rows \in [Name -> Row \cup {NoRow}] /\ BlobInv(object, landings, rows, names)
      /\ landings \subseteq Name \X Object
  BY RowsTyped
<1>2. Promote(o, Holders(o)) /\ rows' = rows
  BY DEF RenditionAvailable
<1>3. BlobInv(object', landings', rows', names)
  BY <1>1, <1>2, PromoteStep
<1>4. Holders(o) \subseteq Name /\ Present' = names
  BY <1>2 DEF Holders, Present
<1>5. landings' \subseteq Name \X Object
  BY <1>1, <1>2, <1>4 DEF Promote
<1>6. CurrentGrows(rows, names, rows', names)
  BY <1>1, <1>2, RowRefs DEF BlobInv, RowSound, CurrentGrows
<1> QED
  BY <1>1, <1>2, <1>3, <1>4, <1>5, <1>6, GoodAfter

(* An upload that never landed is dropped: the rows stay as they are. *)
LEMMA RenditionOrphanedGood ==
  ASSUME IInv, NEW o \in Object, RenditionOrphaned(o)
  PROVE  RowsGood
<1> DEFINE names == Present
<1>1. /\ rows \in [Name -> Row \cup {NoRow}] /\ BlobInv(object, landings, rows, names)
      /\ landings \subseteq Name \X Object
  BY RowsTyped
<1>2. Orphan(o) /\ landings' = landings /\ rows' = rows
  BY DEF RenditionOrphaned, Orphan
<1>3. BlobInv(object', landings', rows', names)
  BY <1>1, <1>2, OrphanStep
<1>4. CurrentGrows(rows, names, rows', names)
  BY <1>1, <1>2, RowRefs DEF BlobInv, RowSound, CurrentGrows
<1> QED
  BY <1>1, <1>2, <1>3, <1>4, GoodAfter DEF Present

(* A landing is delivered. *)
LEMMA RenditionLandedGood ==
  ASSUME IInv, NEW name \in Name, NEW o \in Object, RenditionLanded(name, o)
  PROVE  RowsGood
<1> DEFINE names == Present
           l == <<name, o>>
<1>1. /\ rows \in [Name -> Row \cup {NoRow}] /\ BlobInv(object, landings, rows, names)
      /\ landings \subseteq Name \X Object
  BY RowsTyped
<1>2. /\ l \in landings /\ o = l[2] /\ rows[name] # NoRow
      /\ Release(SwapReleases(rows[name], o)) /\ UNCHANGED landings
      /\ rows' = [rows EXCEPT ![name] = Land(rows[name], o)]
  BY DEF RenditionLanded
<1>3. name \in names /\ OneRow(rows, names, name, Land(rows[name], o), rows')
  BY <1>1, <1>2 DEF Present, OneRow
<1> HIDE DEF names, l
<1>4. /\ BlobInv(object', landings', rows', names)
      /\ CurrentGrows(rows, names, rows', names)
      /\ Land(rows[name], o) \in Row
  BY <1>1, <1>2, <1>3, LandStep
<1>5. rows' \in [Name -> Row \cup {NoRow}] /\ Present' = names \cup {name}
  BY <1>1, <1>2, <1>4, RowWritten DEF names
<1>6. names \cup {name} = names
  BY <1>3
<1> QED
  BY <1>1, <1>2, <1>4, <1>5, <1>6, GoodAfter DEF names

(* The file goes, with all its renditions. *)
LEMMA DeleteFileGood ==
  ASSUME IInv, DeleteFile
  PROVE  RowsGood
<1> DEFINE names == Present
           left == {}
           gone == RenditionRefsOfFile
<1>1. /\ rows \in [Name -> Row \cup {NoRow}] /\ BlobInv(object, landings, rows, names)
      /\ landings \subseteq Name \X Object
  BY RowsTyped
<1>2. Release(gone) /\ UNCHANGED landings /\ rows' = [name \in Name |-> NoRow]
  BY DEF DeleteFile
<1>3. Present' = left /\ rows' \in [Name -> Row \cup {NoRow}]
  BY <1>2 DEF Present
<1>4. \A x \in Object :
        x \in gone <=> /\ \E n \in names : x \in BlobRefs(rows[n])
                      /\ ~\E n \in left : x \in BlobRefs(rows[n])
  BY DEF RenditionRefsOfFile
<1>5. left \in SUBSET names /\ \A n \in left : rows'[n] = rows[n]
  OBVIOUS
<1> HIDE DEF names, left, gone
<1>6. BlobInv(object', landings', rows', left) /\ CurrentGrows(rows, names, rows', left)
  BY <1>1, <1>2, <1>4, <1>5, DropStep
<1> QED
  BY <1>1, <1>2, <1>3, <1>6, GoodAfter DEF names

-----------------------------------------------------------------------------
(* A step of the file, its job or its rows leaves the call as it was: what it
   listed is still shown, as long as the call is visible. *)
LEMMA CallWaits ==
  ASSUME IInv, RowsGood, reader' = reader,
         file' \in {"there", "gone"}, job' \in [last : 0 .. MaxJob, active : BOOLEAN],
         job.last <= job'.last,
         Reading /\ Visible(reader.job)' => Visible(reader.job) /\ Present \subseteq Present'
  PROVE  IInv'
<1>1. TypeOK'
  <2>1. reader \in Reader /\ reader.todo \subseteq reader.known
    BY DEF IInv, ReaderInv
  <2>2. ObjectsTypeOK(Name)' /\ rows' \in [Name -> Row \cup {NoRow}]
    BY DEF RowsGood
  <2> QED
    BY <2>1, <2>2 DEF TypeOK, Reader
<1>2. RowsInv'
  BY DEF RowsGood
<1>3. ReaderInv'
  <2>1. JobKnown'
    BY DEF IInv, ReaderInv, TypeOK, Reader, JobKnown, Reading
  <2> QED
    BY <2>1 DEF IInv, ReaderInv, AttemptsLeft, Reading, RefusedToSign, Refused, NamesKept,
       NothingLeftOut
<1>4. StillShown'
  <2> SUFFICES ASSUME Reading, Visible(reader.job)'
               PROVE  /\ \A listed \in reader.known : Shown(listed)'
                      /\ Refused => Shown(reader.now)'
                      /\ reader.phase = "rereading" =>
                           rows'[reader.now.name].current > reader.now.blob
    BY DEF StillShown, Reading, Refused, Shown
  <2>1. /\ \A listed \in reader.known : Shown(listed)
        /\ Refused => Shown(reader.now) /\ reader.now \in Listed
        /\ reader.phase = "rereading" => rows[reader.now.name].current > reader.now.blob
        /\ reader.phase = "rereading" => Refused
        /\ reader.known \subseteq Listed
        /\ Present \subseteq Present'
    BY DEF IInv, StillShown, ReaderInv, RefusedToSign, Refused, Reader
  <2>2. \A n \in Present : /\ rows'[n].current >= rows[n].current
                           /\ rows[n].landed => rows'[n].landed
                           /\ rows[n].current \in Nat /\ rows'[n].current \in Nat
    <3>1. \A n \in Present : rows[n] \in Row
      BY DEF IInv, RowsInv, BlobInv, RowSound
    <3>2. \A n \in Present' : rows'[n] \in Row
      BY <1>2 DEF RowsInv, BlobInv, RowSound
    <3> QED
      BY <2>1, <3>1, <3>2, RowRefs DEF RowsGood, CurrentGrows
  <2>3. \A listed \in Listed : listed.blob \in Nat
    BY DEF Listed, Object
  <2>4. \A listed \in Listed : Shown(listed) => Shown(listed)'
    BY <2>1, <2>2, <2>3 DEF Shown
  <2>5. reader.phase = "rereading" => rows'[reader.now.name].current > reader.now.blob
    BY <2>1, <2>2, <2>3 DEF Shown
  <2> QED
    BY <2>1, <2>4, <2>5
<1> QED
  BY <1>1, <1>2, <1>3, <1>4 DEF IInv

(* The types of the file's job. *)
LEMMA JobFields ==
  ASSUME IInv
  PROVE  /\ job \in [last : 0 .. MaxJob, active : BOOLEAN]
         /\ job.last \in Nat /\ MaxJob \in Nat /\ reader.job \in Nat
         /\ file \in {"there", "gone"}
  BY ReadAssumption DEF IInv, TypeOK

(* The steps of the file, its job and its rows keep the invariant. *)
LEMMA FileStepsIInv ==
  ASSUME IInv,
         \/ JobStarts \/ JobEnds \/ DeleteFile
         \/ \E name \in Name, o \in Object : RequestRendition(name, o) \/ RenditionLanded(name, o)
         \/ \E name \in Name : WindowPasses(name)
         \/ \E o \in Object : RenditionAvailable(o) \/ RenditionOrphaned(o)
  PROVE  IInv'
<1>1. CASE JobStarts
  <2>1. RowsGood
    BY <1>1, RowsUntouched DEF JobStarts
  <2>2. /\ job' = [last |-> job.last + 1, active |-> TRUE] /\ ~job.active
        /\ job'.last = job.last + 1 /\ job' \in [last : 0 .. MaxJob, active : BOOLEAN]
        /\ UNCHANGED <<reader, file>>
    BY <1>1, JobFields DEF JobStarts
  <2>3. Reading => ~Visible(reader.job)'
    BY <2>2, JobFields DEF Visible, IInv, ReaderInv, JobKnown
  <2> QED
    BY <2>1, <2>2, <2>3, JobFields, CallWaits
<1>2. CASE JobEnds
  <2>1. RowsGood
    BY <1>2, RowsUntouched DEF JobEnds
  <2>2. /\ job'.last = job.last /\ job' \in [last : 0 .. MaxJob, active : BOOLEAN]
        /\ ~job'.active /\ UNCHANGED <<reader, file>>
    BY <1>2, JobFields DEF JobEnds
  <2> QED
    BY <2>1, <2>2, JobFields, CallWaits DEF Visible
<1>3. CASE DeleteFile
  <2>1. /\ job'.last = job.last /\ job' \in [last : 0 .. MaxJob, active : BOOLEAN]
        /\ file' = "gone" /\ reader' = reader
    BY <1>3, JobFields DEF DeleteFile
  <2> QED
    BY <1>3, <2>1, JobFields, DeleteFileGood, CallWaits DEF Visible
<1>4. ASSUME RowsGood, UNCHANGED <<file, job, reader>>, Present \subseteq Present'
      PROVE  IInv'
  BY <1>4, JobFields, CallWaits DEF Visible
<1>5. ASSUME NEW name \in Name, NEW row, rows' = [rows EXCEPT ![name] = row], row \in Row
      PROVE  Present \subseteq Present'
  BY <1>5, RowsTyped, RowWritten
<1>6. ASSUME NEW name \in Name, NEW o \in Object, RequestRendition(name, o) PROVE IInv'
  <2>1. RowsGood /\ UNCHANGED <<file, job, reader>>
    BY <1>6, RequestRenditionGood DEF RequestRendition
  <2>2. PICK row : rows' = [rows EXCEPT ![name] = row]
    BY <1>6 DEF RequestRendition
  <2>3. Present \subseteq Present'
    <3>1. rows[name] = NoRow => rows' = [rows EXCEPT ![name] = New(o)]
      BY <1>6 DEF RequestRendition
    <3>2. rows[name] # NoRow => rows' = [rows EXCEPT ![name] = RequestReplacement(rows[name], o)]
      BY <1>6 DEF RequestRendition
    <3>3. o \in Object => New(o) \in Row
      BY NoObjectAssumption DEF New, Row
    <3>4. rows[name] \in Row => RequestReplacement(rows[name], o) \in Row
      BY DEF RequestReplacement, Row
    <3> QED
      BY <1>5, <3>1, <3>2, <3>3, <3>4, RowsTyped
  <2> QED
    BY <1>4, <2>1, <2>3
<1>7. ASSUME NEW name \in Name, NEW o \in Object, RenditionLanded(name, o) PROVE IInv'
  <2>1. RowsGood /\ UNCHANGED <<file, job, reader>>
    BY <1>7, RenditionLandedGood DEF RenditionLanded
  <2>2. Land(rows[name], o) \in Row
    BY <1>7, RowsTyped DEF RenditionLanded, Land, Row
  <2>3. Present \subseteq Present'
    BY <1>5, <1>7, <2>2 DEF RenditionLanded
  <2> QED
    BY <1>4, <2>1, <2>3
<1>8. ASSUME NEW name \in Name, WindowPasses(name) PROVE IInv'
  <2>1. RowsGood /\ UNCHANGED <<file, job, reader>>
    BY <1>8, WindowPassesGood DEF WindowPasses
  <2>2. rows' = [rows EXCEPT ![name] = [rows[name] EXCEPT !.fresh = FALSE]]
    BY <1>8 DEF WindowPasses
  <2>3. [rows[name] EXCEPT !.fresh = FALSE] \in Row
    BY <1>8, RowsTyped DEF WindowPasses, Row
  <2> QED
    BY <1>4, <1>5, <2>1, <2>2, <2>3
<1>9. ASSUME NEW o \in Object, RenditionAvailable(o) PROVE IInv'
  <2>1. RowsGood /\ UNCHANGED <<file, job, reader, rows>>
    BY <1>9, RenditionAvailableGood DEF RenditionAvailable
  <2> QED
    BY <1>4, <2>1 DEF Present
<1>10. ASSUME NEW o \in Object, RenditionOrphaned(o) PROVE IInv'
  <2>1. RowsGood /\ UNCHANGED <<file, job, reader, rows>>
    BY <1>10, RenditionOrphanedGood DEF RenditionOrphaned
  <2> QED
    BY <1>4, <2>1 DEF Present
<1> QED
  BY <1>1, <1>2, <1>3, <1>6, <1>7, <1>8, <1>9, <1>10

-----------------------------------------------------------------------------
(* A step of the call has only to show what it says of the call. *)
LEMMA CallStep ==
  ASSUME IInv, UNCHANGED <<object, landings, file, job, rows>>, ReaderInv', StillShown'
  PROVE  IInv'
<1>1. TypeOK'
  BY DEF IInv, TypeOK, ObjectsTypeOK, ReaderInv, Reader
<1>2. RowsInv'
  BY DEF IInv, RowsInv, Present
<1> QED
  BY <1>1, <1>2 DEF IInv

(* A list holds what is there and landed, each name with what it shows. *)
LEMMA ListRead ==
  ASSUME IInv
  PROVE  /\ LandedRenditions \subseteq Listed
         /\ \A listed \in LandedRenditions : Shown(listed)
         /\ \A listed \in LandedRenditions : rows[listed.name].current = listed.blob
         /\ \A listed \in Listed : Shown(listed) =>
              [name |-> listed.name, blob |-> rows[listed.name].current] \in LandedRenditions
<1>1. Present \subseteq Name /\ \A n \in Present : rows[n] \in Row
  BY RowsTyped DEF BlobInv, RowSound
<1>2. \A n \in Present : rows[n].current \in Object /\ rows[n].current >= rows[n].current
  BY <1>1 DEF Row, Object
<1> QED
  BY <1>1, <1>2 DEF LandedRenditions, Listed, Shown

(* The fields of the call. *)
LEMMA ReaderFields ==
  ASSUME IInv
  PROVE  /\ reader \in Reader
         /\ reader.known \subseteq Listed /\ reader.todo \subseteq reader.known
         /\ reader.signed \subseteq Listed
         /\ reader.attempts \in Nat /\ reader.attempts <= Attempts /\ Attempts \in Nat
  BY ReadAssumption DEF IInv, ReaderInv, Reader

(* The list is read. *)
LEMMA ReadRenditionsIInv ==
  ASSUME IInv, NEW j \in 1 .. MaxJob, ReadRenditions(j)
  PROVE  IInv'
<1>1. UNCHANGED <<object, landings, file, job, rows>> /\ LandedRenditions' = LandedRenditions
  BY DEF ReadRenditions, LandedRenditions, Present
<1>2. CASE Visible(j)
  <2> DEFINE list == LandedRenditions
  <2>1. reader' = [phase |-> "signing", job |-> j, known |-> list, todo |-> list,
                   now |-> NoRow, attempts |-> 0, signed |-> {}]
    BY <1>2 DEF ReadRenditions, NotReading
  <2>2. list \subseteq Listed /\ \A listed \in list : Shown(listed)
    BY ListRead
  <2>3. Attempts \in Nat \ {0} /\ j \in 0 .. MaxJob /\ j <= job.last
    BY <1>2, ReadAssumption, JobFields DEF Visible
  <2>4. \A listed \in list : Shown(listed)'
    BY <1>1, <2>2 DEF Shown, Present
  <2> HIDE DEF list
  <2>5. reader' \in Reader
    BY <2>1, <2>2, <2>3 DEF Reader
  <2>6. NamesOf({}) = {}
    BY DEF NamesOf
  <2>7. ReaderInv'
    BY <1>1, <2>1, <2>3, <2>5, <2>6 DEF ReaderInv, AttemptsLeft, Reading, RefusedToSign,
       Refused, NamesKept, NothingLeftOut, JobKnown
  <2>8. StillShown'
    BY <2>1, <2>4 DEF StillShown, Reading, Refused
  <2> QED
    BY <1>1, <2>7, <2>8, CallStep
<1>3. CASE ~Visible(j)
  <2>1. reader' = [phase |-> "not_active", job |-> j, known |-> {}, todo |-> {},
                   now |-> NoRow, attempts |-> 0, signed |-> {}]
    BY <1>3 DEF ReadRenditions, NotReading
  <2>2. reader' \in Reader
    BY <2>1, ReadAssumption DEF Reader
  <2>3. ReaderInv'
    BY <2>1, <2>2 DEF ReaderInv, AttemptsLeft, Reading, RefusedToSign,
       Refused, NamesKept, NothingLeftOut, JobKnown
  <2>4. StillShown'
    BY <2>1 DEF StillShown, Reading
  <2> QED
    BY <1>1, <2>3, <2>4, CallStep
<1> QED
  BY <1>2, <1>3

(* What a call signs is of its list: the next one, or the one read again. *)
LEMMA SignedListed ==
  ASSUME IInv, NEW listed \in Listed, SignRendition(listed)
  PROVE  /\ listed.name \in NamesOf(reader.todo)
         /\ Visible(reader.job) => Shown(listed)
<1>1. CASE reader.attempts = 0
  BY <1>1 DEF SignRendition, NamesOf, IInv, ReaderInv, StillShown, Reading
<1>2. CASE reader.attempts # 0
  BY <1>2 DEF SignRendition, IInv, ReaderInv, RefusedToSign, Refused, StillShown, Reading
<1> QED
  BY <1>1, <1>2

(* One rendition is signed, or refused. *)
LEMMA SignRenditionIInv ==
  ASSUME IInv, NEW listed \in Listed, SignRendition(listed)
  PROVE  IInv'
<1>1. UNCHANGED <<object, landings, file, job, rows>> /\ reader.phase = "signing"
  BY DEF SignRendition
<1>2. \A x \in Listed : Shown(x)' <=> Shown(x)
  BY <1>1 DEF Shown, Present
<1>3. /\ Reading
      /\ NamesOf(reader.known) = NamesOf(reader.signed) \cup NamesOf(reader.todo)
      /\ reader.attempts < Attempts /\ reader.job <= job.last
      /\ Visible(reader.job) => \A x \in reader.known : Shown(x)
  BY <1>1 DEF IInv, ReaderInv, NamesKept, AttemptsLeft, JobKnown, Reading, StillShown
<1>4. CASE Download(listed)
  <2>1. reader' = [reader EXCEPT !.signed = @ \cup {listed}, !.now = NoRow,
                                 !.todo = Without(@, listed.name), !.attempts = 0]
    BY <1>4 DEF SignRendition
  <2>2. /\ reader'.signed = reader.signed \cup {listed}
        /\ reader'.todo = Without(reader.todo, listed.name)
        /\ reader'.attempts = 0 /\ reader'.phase = "signing"
        /\ reader'.known = reader.known /\ reader'.job = reader.job
        /\ reader' \in Reader
    <3> DEFINE todo == Without(reader.todo, listed.name)
               signed == reader.signed \cup {listed}
    <3>1. todo \in SUBSET Listed /\ signed \in SUBSET Listed /\ 0 \in 0 .. Attempts
      BY ReaderFields DEF Without
    <3>2. reader' = [reader EXCEPT !.signed = signed, !.now = NoRow, !.todo = todo,
                                   !.attempts = 0]
      BY <2>1
    <3> HIDE DEF todo, signed
    <3>3. /\ reader'.signed = signed /\ reader'.todo = todo
          /\ reader'.attempts = 0 /\ reader'.phase = "signing"
          /\ reader'.known = reader.known /\ reader'.job = reader.job
          /\ reader' \in Reader
      BY <1>1, <3>1, <3>2, ReaderFields DEF Reader
    <3> QED
      BY <3>3 DEF todo, signed
  <2>3. NamesOf(reader.known) = NamesOf(reader'.signed) \cup NamesOf(reader'.todo)
    <3>1. NamesOf(reader'.todo) = NamesOf(reader.todo) \ {listed.name}
      BY <2>2 DEF NamesOf, Without
    <3>2. NamesOf(reader'.signed) = NamesOf(reader.signed) \cup {listed.name}
      BY <2>2 DEF NamesOf
    <3> QED
      BY <1>3, <3>1, <3>2, SignedListed
  <2>4. ReaderInv'
    BY <1>1, <1>3, <2>2, <2>3, ReaderFields, ReadAssumption DEF ReaderInv, AttemptsLeft, Reading,
       RefusedToSign, Refused, NamesKept, NothingLeftOut, JobKnown, Without
  <2>5. StillShown'
    BY <1>1, <1>2, <1>3, <2>2, ReaderFields DEF StillShown, Refused, Reading, Visible
  <2> QED
    BY <1>1, <2>4, <2>5, CallStep
<1>5. CASE ~Download(listed)
  <2>1. reader' = [reader EXCEPT !.now = listed, !.attempts = @ + 1,
                      !.phase = IF LastAttempt THEN "kept_changing" ELSE "rereading"]
    BY <1>5 DEF SignRendition
  <2>2. /\ reader'.now = listed /\ reader'.attempts = reader.attempts + 1
        /\ reader'.phase = IF LastAttempt THEN "kept_changing" ELSE "rereading"
        /\ reader'.known = reader.known /\ reader'.job = reader.job
        /\ reader'.todo = reader.todo /\ reader'.signed = reader.signed
        /\ reader' \in Reader
    <3> DEFINE attempts == reader.attempts + 1
               phase == IF LastAttempt THEN "kept_changing" ELSE "rereading"
    <3>1. attempts \in 0 .. Attempts /\ phase \in {"kept_changing", "rereading"}
      BY <1>3, ReaderFields
    <3>2. reader' = [reader EXCEPT !.now = listed, !.attempts = attempts, !.phase = phase]
      BY <2>1
    <3> HIDE DEF attempts, phase
    <3>3. /\ reader'.now = listed /\ reader'.attempts = attempts /\ reader'.phase = phase
          /\ reader'.known = reader.known /\ reader'.job = reader.job
          /\ reader'.todo = reader.todo /\ reader'.signed = reader.signed
          /\ reader' \in Reader
      BY <3>1, <3>2, ReaderFields DEF Reader
    <3> QED
      BY <3>3 DEF attempts, phase
  <2>3. reader'.phase = "rereading" => reader'.attempts < Attempts
    BY <2>2, ReaderFields DEF LastAttempt
  <2>4. ReaderInv'
    BY <1>1, <1>3, <2>2, <2>3, ReaderFields, SignedListed DEF ReaderInv, AttemptsLeft, Reading,
       RefusedToSign, Refused, NamesKept, NothingLeftOut, JobKnown
  <2>5. Visible(reader.job) => rows[listed.name].current > listed.blob
    <3> SUFFICES ASSUME Visible(reader.job)
                 PROVE  rows[listed.name].current > listed.blob
      OBVIOUS
    <3>1. Shown(listed) /\ listed \notin LandedRenditions
      BY <1>5, SignedListed DEF Download
    <3>2. [name |-> listed.name, blob |-> rows[listed.name].current] \in LandedRenditions
      BY <3>1, ListRead
    <3>3. rows[listed.name].current # listed.blob
      BY <3>1, <3>2 DEF Listed
    <3>4. rows[listed.name].current \in Nat /\ listed.blob \in Nat
      BY <3>2, ListRead DEF Listed, Object
    <3> QED
      BY <3>1, <3>3, <3>4 DEF Shown
  <2>6. StillShown'
    BY <1>1, <1>2, <1>3, <2>2, <2>5, ReaderFields, SignedListed DEF StillShown, Refused, Reading,
       Visible
  <2> QED
    BY <1>1, <2>4, <2>6, CallStep
<1> QED
  BY <1>4, <1>5

(* What is read again, while the call is visible, is there and newer. *)
LEMMA NewerFound ==
  ASSUME IInv, ReadAgain, Visible(reader.job)
  PROVE  /\ reader' = [reader EXCEPT !.phase = "signing", !.now = reader'.now]
         /\ reader'.now \in LandedRenditions
         /\ reader'.now.name = reader.now.name
         /\ reader'.now.blob > reader.now.blob
<1> DEFINE current == {fresh \in LandedRenditions : fresh.name = reader.now.name}
<1>1. reader.now \in Listed /\ Shown(reader.now) /\ rows[reader.now.name].current > reader.now.blob
  BY DEF ReadAgain, IInv, StillShown, Reading, Refused, ReaderInv, RefusedToSign
<1>2. [name |-> reader.now.name, blob |-> rows[reader.now.name].current] \in current
  BY <1>1, ListRead
<1>3. (CHOOSE fresh \in current : TRUE) \in current
  BY <1>2
<1>4. reader' = [reader EXCEPT !.phase = "signing", !.now = CHOOSE fresh \in current : TRUE]
  BY <1>2 DEF ReadAgain
<1> DEFINE chosen == CHOOSE fresh \in current : TRUE
<1>5. chosen \in current
  BY <1>3
<1> HIDE DEF chosen
<1>6. reader' = [reader EXCEPT !.phase = "signing", !.now = chosen]
  BY <1>4 DEF chosen
<1>7. reader'.now = chosen
  BY <1>6, ReaderFields DEF Reader
<1> QED
  BY <1>1, <1>5, <1>6, <1>7, ListRead

(* What was refused is read again. *)
LEMMA ReadAgainIInv ==
  ASSUME IInv, ReadAgain
  PROVE  IInv'
<1>1. UNCHANGED <<object, landings, file, job, rows>> /\ reader.phase = "rereading"
  BY DEF ReadAgain
<1>2. \A x \in Listed : Shown(x)' <=> Shown(x)
  BY <1>1 DEF Shown, Present
<1>3. /\ NamesOf(reader.known) = NamesOf(reader.signed) \cup NamesOf(reader.todo)
      /\ reader.attempts < Attempts /\ reader.job <= job.last
      /\ reader.now.name \in NamesOf(reader.todo)
      /\ Visible(reader.job) => \A x \in reader.known : Shown(x)
  BY <1>1 DEF IInv, ReaderInv, NamesKept, AttemptsLeft, JobKnown, Reading, StillShown,
     RefusedToSign, Refused
<1>4. CASE Visible(reader.job)
  <2> DEFINE now == reader'.now
  <2>1. /\ now \in Listed /\ now.name = reader.now.name /\ Shown(now)
        /\ reader' = [reader EXCEPT !.phase = "signing", !.now = now]
    BY <1>4, NewerFound, ListRead
  <2>2. /\ reader'.phase = "signing" /\ reader'.known = reader.known
        /\ reader'.job = reader.job /\ reader'.todo = reader.todo
        /\ reader'.signed = reader.signed /\ reader'.attempts = reader.attempts
        /\ reader' \in Reader
    <3> HIDE DEF now
    <3> QED
      BY <2>1, ReaderFields DEF Reader
  <2>3. ReaderInv'
    BY <1>1, <1>3, <2>1, <2>2, ReaderFields DEF ReaderInv, AttemptsLeft, Reading,
       RefusedToSign, Refused, NamesKept, NothingLeftOut, JobKnown
  <2>4. StillShown'
    BY <1>1, <1>2, <1>3, <1>4, <2>1, <2>2, ReaderFields DEF StillShown, Reading, Refused, Visible
  <2> QED
    BY <1>1, <2>3, <2>4, CallStep
<1>5. CASE ~Visible(reader.job)
  <2>1. reader' = [reader EXCEPT !.phase = "not_active"]
    BY <1>5 DEF ReadAgain
  <2>2. /\ reader' \in Reader /\ reader'.phase = "not_active"
        /\ reader'.todo \subseteq reader'.known
    BY <2>1, ReaderFields DEF Reader
  <2>3. ReaderInv'
    BY <2>2 DEF ReaderInv, AttemptsLeft, Reading, RefusedToSign, Refused, NamesKept,
       NothingLeftOut, JobKnown
  <2>4. StillShown'
    BY <2>2 DEF StillShown, Reading
  <2> QED
    BY <1>1, <2>3, <2>4, CallStep
<1> QED
  BY <1>4, <1>5

(* All is signed. *)
LEMMA AnswerIInv ==
  ASSUME IInv, Answer
  PROVE  IInv'
<1>1. /\ UNCHANGED <<object, landings, file, job, rows>>
      /\ reader.phase = "signing" /\ reader.todo = {}
      /\ reader' = [reader EXCEPT !.phase = "answered"]
  BY DEF Answer
<1>2. /\ reader'.phase = "answered" /\ reader'.known = reader.known
      /\ reader'.todo = reader.todo /\ reader'.signed = reader.signed
      /\ reader' \in Reader
  BY <1>1, ReaderFields DEF Reader
<1>3. NamesOf(reader.known) = NamesOf(reader.signed)
  <2>1. NamesOf(reader.known) = NamesOf(reader.signed) \cup NamesOf(reader.todo)
    BY <1>1 DEF IInv, ReaderInv, NamesKept, Reading
  <2>2. NamesOf({}) = {}
    BY DEF NamesOf
  <2> QED
    BY <1>1, <2>1, <2>2
<1>4. ReaderInv'
  BY <1>2, <1>3, ReaderFields DEF ReaderInv, AttemptsLeft, Reading, RefusedToSign, Refused,
     NamesKept, NothingLeftOut, JobKnown, NamesOf
<1>5. StillShown'
  BY <1>2 DEF StillShown, Reading
<1> QED
  BY <1>1, <1>4, <1>5, CallStep

-----------------------------------------------------------------------------
(* The first state: no rendition, no call. *)
LEMMA InitIInv == Init => IInv
<1> SUFFICES ASSUME Init PROVE IInv
  OBVIOUS
<1>1. Present = {}
  BY DEF Init, Present
<1>2. RowsInv
  BY <1>1, EmptyTable DEF Init, RowsInv
<1>3. ReaderInv
  BY ReadAssumption DEF Init, NotReading, ReaderInv, Reader, AttemptsLeft, Reading,
     RefusedToSign, Refused, NamesKept, NothingLeftOut, JobKnown
<1>4. StillShown
  BY DEF Init, NotReading, StillShown, Reading
<1>5. TypeOK
  BY <1>3, ReadAssumption DEF Init, TypeOK, ObjectsTypeOK, ObjectsInit, ReaderInv, Reader
<1> QED
  BY <1>2, <1>3, <1>4, <1>5 DEF IInv

(* Every step keeps the invariant. *)
LEMMA NextIInv == IInv /\ [Next]_vars => IInv'
<1> SUFFICES ASSUME IInv, [Next]_vars PROVE IInv'
  OBVIOUS
<1>1. CASE UNCHANGED vars
  <2>1. /\ UNCHANGED <<object, landings, file, job, rows>> /\ ReaderInv' /\ StillShown'
    BY <1>1 DEF vars, IInv, ReaderInv, AttemptsLeft, Reading, RefusedToSign, Refused, NamesKept,
       NothingLeftOut, JobKnown, StillShown, Shown, Visible, Present
  <2> QED
    BY <2>1, CallStep
<1>2. CASE Next
  BY <1>2, FileStepsIInv, ReadRenditionsIInv, SignRenditionIInv, ReadAgainIInv, AnswerIInv
     DEF Next, ReaderStep
<1> QED
  BY <1>1, <1>2

(* The invariant holds of every reachable state. *)
THEOREM Invariant == Spec => []IInv
  BY InitIInv, NextIInv, PTL DEF Spec

(* Every row, message and call stays of its type. *)
THEOREM TypeCorrect == Spec => []TypeOK
<1>1. IInv => TypeOK
  BY DEF IInv
<1> QED
  BY <1>1, Invariant, PTL

(* A landed rendition has its object, and an object the storage keeps is held by
   one rendition of the file (file/renditions.rs). *)
THEOREM RenditionObjectsFollow == Spec => []ObjectsFollowRows
<1>1. IInv => ObjectsFollowRows
  BY KeptByOne DEF IInv, RowsInv, BlobInv, RowSound, ObjectsFollowRows, Holders
<1> QED
  BY <1>1, Invariant, PTL

(* A call that answers signed every rendition it listed, though any was
   replaced meanwhile (runner.rs, presign_renditions). *)
THEOREM ReadsComplete == Spec => []NothingLeftOut
<1>1. IInv => NothingLeftOut
  BY DEF IInv, ReaderInv, NamesKept
<1> QED
  BY <1>1, Invariant, PTL

(* A refused signature is retried with a newer object of the same name only
   (runner.rs, presign_renditions). *)
THEOREM RetriesAreSwaps == Spec => RetriesFollowSwaps
<1> DEFINE Step == reader.phase = "rereading" /\ reader'.phase = "signing" /\ reader'.now # NoRow
                     => reader'.now.blob > reader.now.blob
<1>1. IInv /\ [Next]_vars => [Step]_vars
  <2> SUFFICES ASSUME IInv, Next, reader.phase = "rereading", reader'.phase = "signing"
               PROVE  reader'.now.blob > reader.now.blob
    OBVIOUS
  <2>1. ReadAgain
    BY DEF Next, ReaderStep, JobStarts, JobEnds, DeleteFile, RequestRendition, WindowPasses,
       RenditionAvailable, RenditionOrphaned, RenditionLanded, ReadRenditions, SignRendition, Answer
  <2>2. Visible(reader.job)
    <3> SUFFICES ASSUME ~Visible(reader.job) PROVE FALSE
      OBVIOUS
    <3>1. reader' = [reader EXCEPT !.phase = "not_active"]
      BY <2>1 DEF ReadAgain
    <3>2. reader'.phase = "not_active"
      BY <3>1, ReaderFields DEF Reader
    <3> QED
      BY <3>2
  <2> QED
    BY <2>1, <2>2, NewerFound
<1> QED
  BY <1>1, Invariant, PTL DEF Spec, RetriesFollowSwaps
=============================================================================
