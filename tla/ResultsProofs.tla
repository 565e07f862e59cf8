---------------------------- MODULE ResultsProofs ----------------------------
(***************************************************************************)
(* Proofs about Results, for any number of pages, images, objects, steps   *)
(* and runs.                                                               *)
(*                                                                         *)
(* What the storage keeps of the images is the invariant of BlobRowsProofs *)
(* over the images of the file; that a page count bounds a READY file's    *)
(* pages is inductive as it stands, once a chain that runs has a step left.*)
(***************************************************************************)
EXTENDS Results, BlobRowsProofs

(* A chain that runs, or waits for Jobs, has a step left. *)
StepsLeft == run.state \in {"processing", "held"} => run.left # 0

ImagesInv == BlobInv(object, landings, images, Extracted(images))

IInv ==
  /\ TypeOK
  /\ StepsLeft
  /\ ImagesInv
  /\ ReadyWithinCount

(* What a step leaves of the images: rows of their types, an object for each
   landed one, none kept without a row, and nothing older than it was. *)
ImagesGood ==
  /\ (ObjectsTypeOK(Name) /\ images \in [Name -> Row \cup {NoImage}] /\ ImagesInv)'
  /\ CurrentGrows(images, Extracted(images), images', Extracted(images'))

(* The rows of the table. *)
LEMMA ExtractedRows ==
  ASSUME NEW table \in [Name -> Row \cup {NoImage}]
  PROVE  /\ Extracted(table) = {n \in Name : table[n] \in Row}
         /\ Extracted(table) \in SUBSET Name
  BY NullAssumption DEF Extracted

(* The types of what the invariant is about. *)
LEMMA ImagesTyped ==
  ASSUME IInv
  PROVE  /\ object \in [Object -> ObjectState] /\ landings \subseteq Name \X Object
         /\ images \in [Name -> Row \cup {NoImage}]
         /\ BlobInv(object, landings, images, Extracted(images))
  BY DEF IInv, TypeOK, ObjectsTypeOK, ObjectState, ImagesInv

(* What a step has to show to leave the images good. *)
LEMMA GoodAfter ==
  ASSUME NEW left, images' \in [Name -> Row \cup {NoImage}], Extracted(images') = left,
         landings' \subseteq Name \X Object,
         BlobInv(object', landings', images', left),
         CurrentGrows(images, Extracted(images), images', left)
  PROVE  ImagesGood
<1>1. ObjectsTypeOK(Name)'
  BY DEF ObjectsTypeOK, BlobInv, ObjectState
<1>2. ImagesInv'
  BY DEF ImagesInv
<1> QED
  BY <1>1, <1>2 DEF ImagesGood

(* A step that has nothing to do with the images. *)
LEMMA ImagesUntouched ==
  ASSUME IInv, UNCHANGED <<object, landings, images>>
  PROVE  ImagesGood
<1>1. CurrentGrows(images, Extracted(images), images, Extracted(images))
  BY ImagesTyped, RowRefs DEF BlobInv, RowSound, CurrentGrows
<1> QED
  BY <1>1, ImagesTyped, GoodAfter

(* One image's row is written. *)
LEMMA RowWritten ==
  ASSUME NEW table \in [Name -> Row \cup {NoImage}], NEW name \in Name, NEW row \in Row
  PROVE  /\ [table EXCEPT ![name] = row] \in [Name -> Row \cup {NoImage}]
         /\ [table EXCEPT ![name] = row][name] = row
         /\ \A n \in Extracted(table) \ {name} : [table EXCEPT ![name] = row][n] = table[n]
         /\ Extracted([table EXCEPT ![name] = row]) = Extracted(table) \cup {name}
  BY NullAssumption DEF Extracted

(* A request makes a row, or asks again for one past its window. *)
LEMMA RequestImageGood ==
  ASSUME IInv, NEW name \in Name, NEW o \in Object, RequestImage(name, o)
  PROVE  ImagesGood
<1> DEFINE names == Extracted(images)
<1>1. /\ images \in [Name -> Row \cup {NoImage}] /\ BlobInv(object, landings, images, names)
      /\ landings \subseteq Name \X Object
  BY ImagesTyped
<1>2. CASE images[name] = NoImage /\ Stage(o, {}) /\ images' = [images EXCEPT ![name] = New(o)]
  <2>1. name \notin names
    BY <1>2 DEF Extracted
  <2>2. OneRow(images, names, name, New(o), images')
    BY <1>1, <1>2, <2>1 DEF Extracted, OneRow
  <2> HIDE DEF names
  <2>3. /\ BlobInv(object', landings', images', names \cup {name})
        /\ CurrentGrows(images, names, images', names \cup {name})
        /\ New(o) \in Row
    BY <1>1, <1>2, <2>1, <2>2, NewRowStep
  <2>4. images' \in [Name -> Row \cup {NoImage}] /\ Extracted(images') = names \cup {name}
    BY <1>1, <1>2, <2>3, RowWritten DEF names
  <2>5. landings' = landings
    BY <1>2 DEF Stage
  <2> QED
    BY <1>1, <2>3, <2>4, <2>5, GoodAfter DEF names
<1>3. CASE /\ images[name] # NoImage /\ Stage(o, ReplacedBy(images[name]))
           /\ images' = [images EXCEPT ![name] = RequestReplacement(images[name], o)]
  <2>1. name \in names
    BY <1>3 DEF Extracted
  <2>2. OneRow(images, names, name, RequestReplacement(images[name], o), images')
    BY <1>1, <1>3, <2>1 DEF Extracted, OneRow
  <2> HIDE DEF names
  <2>3. /\ BlobInv(object', landings', images', names)
        /\ CurrentGrows(images, names, images', names)
        /\ RequestReplacement(images[name], o) \in Row
    BY <1>1, <1>3, <2>1, <2>2, ReplaceStep
  <2>4. images' \in [Name -> Row \cup {NoImage}] /\ Extracted(images') = names \cup {name}
    BY <1>1, <1>3, <2>3, RowWritten DEF names
  <2>5. landings' = landings /\ names \cup {name} = names
    BY <1>3, <2>1 DEF Stage
  <2> QED
    BY <1>1, <2>3, <2>4, <2>5, GoodAfter DEF names
<1> QED
  BY <1>2, <1>3 DEF RequestImage

(* The window of a row passes. *)
LEMMA WindowPassesGood ==
  ASSUME IInv, NEW name \in Name, WindowPasses(name)
  PROVE  ImagesGood
<1> DEFINE names == Extracted(images)
           row == [images[name] EXCEPT !.fresh = FALSE]
<1>1. /\ images \in [Name -> Row \cup {NoImage}] /\ BlobInv(object, landings, images, names)
      /\ landings \subseteq Name \X Object
  BY ImagesTyped
<1>2. /\ images[name] # NoImage /\ images' = [images EXCEPT ![name] = row]
      /\ UNCHANGED <<object, landings>>
  BY DEF WindowPasses
<1>3. name \in names /\ OneRow(images, names, name, row, images')
  BY <1>1, <1>2 DEF Extracted, OneRow
<1> HIDE DEF names
<1>4. /\ BlobInv(object', landings', images', names)
      /\ CurrentGrows(images, names, images', names)
      /\ row \in Row
  BY <1>1, <1>2, <1>3, WindowStep
<1> HIDE DEF row
<1>5. images' \in [Name -> Row \cup {NoImage}] /\ Extracted(images') = names \cup {name}
  BY <1>1, <1>2, <1>4, RowWritten DEF names
<1>6. names \cup {name} = names
  BY <1>3
<1> QED
  BY <1>1, <1>2, <1>4, <1>5, <1>6, GoodAfter DEF names

(* An upload is promoted. *)
LEMMA ImageAvailableGood ==
  ASSUME IInv, NEW o \in Object, ImageAvailable(o)
  PROVE  ImagesGood
<1> DEFINE names == Extracted(images)
<1>1. /\ images \in [Name -> Row \cup {NoImage}] /\ BlobInv(object, landings, images, names)
      /\ landings \subseteq Name \X Object
  BY ImagesTyped
<1>2. Promote(o, Holders(o)) /\ images' = images
  BY DEF ImageAvailable
<1>3. BlobInv(object', landings', images', names)
  BY <1>1, <1>2, PromoteStep
<1>4. Holders(o) \subseteq Name
  BY DEF Holders, Extracted
<1>5. landings' \subseteq Name \X Object
  BY <1>1, <1>2, <1>4 DEF Promote
<1>6. CurrentGrows(images, names, images', names)
  BY <1>1, <1>2, RowRefs DEF BlobInv, RowSound, CurrentGrows
<1> QED
  BY <1>1, <1>2, <1>3, <1>5, <1>6, GoodAfter

(* An upload that never landed is dropped: the rows stay as they are. *)
LEMMA ImageOrphanedGood ==
  ASSUME IInv, NEW o \in Object, ImageOrphaned(o)
  PROVE  ImagesGood
<1> DEFINE names == Extracted(images)
<1>1. /\ images \in [Name -> Row \cup {NoImage}] /\ BlobInv(object, landings, images, names)
      /\ landings \subseteq Name \X Object
  BY ImagesTyped
<1>2. Orphan(o) /\ landings' = landings /\ images' = images
  BY DEF ImageOrphaned, Orphan
<1>3. BlobInv(object', landings', images', names)
  BY <1>1, <1>2, OrphanStep
<1>4. CurrentGrows(images, names, images', names)
  BY <1>1, <1>2, RowRefs DEF BlobInv, RowSound, CurrentGrows
<1> QED
  BY <1>1, <1>2, <1>3, <1>4, GoodAfter

(* A landing is delivered. *)
LEMMA ImageLandedGood ==
  ASSUME IInv, NEW name \in Name, NEW o \in Object, ImageLanded(name, o)
  PROVE  ImagesGood
<1> DEFINE names == Extracted(images)
           l == <<name, o>>
<1>1. /\ images \in [Name -> Row \cup {NoImage}] /\ BlobInv(object, landings, images, names)
      /\ landings \subseteq Name \X Object
  BY ImagesTyped
<1>2. /\ l \in landings /\ o = l[2] /\ images[name] # NoImage
      /\ Release(SwapReleases(images[name], o)) /\ UNCHANGED landings
      /\ images' = [images EXCEPT ![name] = Land(images[name], o)]
  BY DEF ImageLanded
<1>3. name \in names /\ OneRow(images, names, name, Land(images[name], o), images')
  BY <1>1, <1>2 DEF Extracted, OneRow
<1> HIDE DEF names, l
<1>4. /\ BlobInv(object', landings', images', names)
      /\ CurrentGrows(images, names, images', names)
      /\ Land(images[name], o) \in Row
  BY <1>1, <1>2, <1>3, LandStep
<1>5. images' \in [Name -> Row \cup {NoImage}] /\ Extracted(images') = names \cup {name}
  BY <1>1, <1>2, <1>4, RowWritten DEF names
<1>6. names \cup {name} = names
  BY <1>3
<1> QED
  BY <1>1, <1>2, <1>4, <1>5, <1>6, GoodAfter DEF names

(* Images are dropped, and what they held is let go. *)
LEMMA DropImagesGood ==
  ASSUME IInv, NEW dropped, images' = DropImages(dropped),
         NEW gone, Release(gone), UNCHANGED landings,
         gone = HeldBy(images) \ HeldBy(images')
  PROVE  ImagesGood /\ Extracted(images') = Extracted(images) \ dropped
<1> DEFINE names == Extracted(images)
           left == names \ dropped
<1>1. /\ images \in [Name -> Row \cup {NoImage}] /\ BlobInv(object, landings, images, names)
      /\ landings \subseteq Name \X Object
  BY ImagesTyped
<1>2. \A n \in Name : images'[n] = IF n \in dropped THEN NoImage ELSE images[n]
  BY DEF DropImages
<1>3. /\ images' \in [Name -> Row \cup {NoImage}]
      /\ Extracted(images') = left /\ \A n \in left : images'[n] = images[n]
  BY <1>1, <1>2 DEF Extracted, DropImages
<1>4. \A x \in Object :
        x \in gone <=> /\ \E n \in names : x \in BlobRefs(images[n])
                      /\ ~\E n \in left : x \in BlobRefs(images[n])
  <2>1. \A x : x \in HeldBy(images) <=> \E n \in names : x \in BlobRefs(images[n])
    BY DEF HeldBy
  <2>2. \A x : x \in HeldBy(images') <=> \E n \in left : x \in BlobRefs(images'[n])
    BY <1>3 DEF HeldBy
  <2> QED
    BY <1>3, <2>1, <2>2
<1>5. left \in SUBSET names
  OBVIOUS
<1> HIDE DEF names, left
<1>6. BlobInv(object', landings', images', left) /\ CurrentGrows(images, names, images', left)
  BY <1>1, <1>3, <1>4, <1>5, DropStep
<1>7. ImagesGood
  BY <1>1, <1>3, <1>6, GoodAfter DEF names
<1> QED
  BY <1>3, <1>7 DEF left, names

(* The rest of the state: its types, a step left to a chain that runs, and the
   page count over the pages of a READY file. *)
RestTyped ==
  /\ file \in {"there", "gone"}
  /\ run \in [state : {"ready", "processing", "held", "failed"},
              trigger : {"none", "upload", "reprocess", "regenerate_page"},
              left : 0 .. MaxSteps, chains : 0 .. MaxRuns]
  /\ pages \in [Number -> Page \cup {NoPage}]
  /\ count \in Counts \cup {NoCount}
  /\ told \in [Number -> 0 .. MaxFact]

RestGood == (RestTyped /\ StepsLeft /\ ReadyWithinCount)'

(* The two halves of the invariant. *)
LEMMA IInvParts ==
  /\ IInv => RestTyped /\ StepsLeft /\ ReadyWithinCount
  /\ ImagesGood /\ RestGood => IInv'
  BY DEF IInv, TypeOK, RestTyped, RestGood, ImagesGood

(* The fields of the run. *)
LEMMA RunFields ==
  ASSUME RestTyped
  PROVE  /\ run.state \in {"ready", "processing", "held", "failed"}
         /\ run.trigger \in {"none", "upload", "reprocess", "regenerate_page"}
         /\ run.left \in 0 .. MaxSteps /\ run.chains \in 0 .. MaxRuns
         /\ MaxSteps \in Nat /\ MaxRuns \in Nat /\ MaxFact \in Nat /\ MaxPage \in Nat
  BY BoundsAssumption DEF RestTyped

(* The invariant holds at first. *)
LEMMA InitIInv == Init => IInv
<1> SUFFICES ASSUME Init PROVE IInv
  OBVIOUS
<1>1. /\ ObjectsInit /\ file = "there"
      /\ run = [state |-> "ready", trigger |-> "none", left |-> 0, chains |-> 0]
      /\ pages = [n \in Number |-> NoPage] /\ count = NoCount
      /\ images = [n \in Name |-> NoImage] /\ told = [n \in Number |-> 0]
  BY DEF Init
<1>2. ObjectsTypeOK(Name)
  BY <1>1 DEF ObjectsInit, ObjectsTypeOK
<1>3. RestTyped
  BY <1>1, BoundsAssumption DEF RestTyped
<1>4. StepsLeft /\ ReadyWithinCount
  BY <1>1 DEF StepsLeft, ReadyWithinCount
<1>5. Extracted(images) = {}
  BY <1>1 DEF Extracted
<1>6. ImagesInv
  BY <1>1, <1>5, EmptyTable DEF ImagesInv
<1> QED
  BY <1>1, <1>2, <1>3, <1>4, <1>6 DEF IInv, TypeOK, RestTyped

(* The facts of a page are numbered up to MaxFact. *)
LEMMA FactNumbers ==
  ASSUME RestTyped
  PROVE  /\ \A n \in Number : told[n] \in 0 .. MaxFact
         /\ \A i \in 0 .. MaxFact : After(i) \in 0 .. MaxFact
         /\ \A n \in Number : NextVersion(n) \in 0 .. MaxFact
<1>1. MaxFact \in Nat /\ \A n \in Number : told[n] \in 0 .. MaxFact
  BY BoundsAssumption DEF RestTyped
<1>2. \A i \in 0 .. MaxFact : After(i) \in 0 .. MaxFact
  BY <1>1 DEF After
<1> QED
  BY <1>1, <1>2 DEF NextVersion

(* A gesture or a failure that writes no page. *)
LEMMA RunGood ==
  ASSUME IInv, UNCHANGED <<file, pages, count, told>>,
         NEW state \in {"ready", "processing", "held", "failed"},
         NEW trigger \in {"none", "upload", "reprocess", "regenerate_page"},
         NEW left \in 0 .. MaxSteps, NEW chains \in 0 .. MaxRuns,
         run' = [state |-> state, trigger |-> trigger, left |-> left, chains |-> chains],
         state \in {"processing", "held"} => left # 0,
         state = "ready" => run.state = "ready"
  PROVE  RestGood
<1>1. RestTyped /\ ReadyWithinCount
  BY IInvParts
<1>2. RestTyped'
  BY <1>1 DEF RestTyped
<1>3. ReadyWithinCount'
  BY <1>1 DEF ReadyWithinCount, Written
<1> QED
  BY <1>2, <1>3 DEF RestGood, StepsLeft

(* A chain starts. *)
LEMMA StartChainGood ==
  ASSUME IInv, NEW trigger \in {"upload", "reprocess", "regenerate_page"},
         NEW steps \in 1 .. MaxSteps, StartChain(trigger, steps)
  PROVE  ImagesGood /\ RestGood
<1>1. RestTyped
  BY IInvParts
<1>2. run.chains + 1 \in 0 .. MaxRuns /\ steps \in 0 .. MaxSteps /\ steps # 0
  BY <1>1, RunFields DEF StartChain
<1>3. RestGood
  BY <1>2, RunGood DEF StartChain
<1> QED
  BY <1>3, ImagesUntouched DEF StartChain

(* A chain fails, or its next step's job runs. *)
LEMMA RunMovesGood ==
  ASSUME IInv, RunFails \/ ReleaseNextStep
  PROVE  ImagesGood /\ RestGood
<1>1. RestTyped /\ StepsLeft
  BY IInvParts
<1>2. CASE RunFails
  <2>1. run' = [state |-> "failed", trigger |-> run.trigger, left |-> 0, chains |-> run.chains]
    BY <1>1, <1>2 DEF RunFails, RestTyped
  <2>2. 0 \in 0 .. MaxSteps
    BY <1>1, RunFields
  <2>3. RestGood
    BY <1>1, <1>2, <2>1, <2>2, RunFields, RunGood DEF RunFails
  <2> QED
    BY <1>2, <2>3, ImagesUntouched DEF RunFails
<1>3. CASE ReleaseNextStep
  <2>1. run' = [state |-> "processing", trigger |-> run.trigger, left |-> run.left,
                chains |-> run.chains]
    BY <1>1, <1>3 DEF ReleaseNextStep, RestTyped
  <2>2. run.left # 0
    BY <1>1, <1>3 DEF ReleaseNextStep, StepsLeft
  <2>3. RestGood
    BY <1>1, <1>3, <2>1, <2>2, RunFields, RunGood DEF ReleaseNextStep
  <2> QED
    BY <1>3, <2>3, ImagesUntouched DEF ReleaseNextStep
<1> QED
  BY <1>2, <1>3

(* A person edits a page that is there. *)
LEMMA EditPageGood ==
  ASSUME IInv, NEW n \in Number, NEW refs \in SUBSET Name, EditPage(n, refs)
  PROVE  ImagesGood /\ RestGood
<1>1. RestTyped /\ StepsLeft /\ ReadyWithinCount
  BY IInvParts
<1> DEFINE page == [origin |-> "edited", refs |-> refs]
<1>2. page \in Page
  BY DEF Page
<1>3. /\ pages[n] # NoPage /\ pages' = [pages EXCEPT ![n] = page]
      /\ told' = [told EXCEPT ![n] = NextVersion(n)]
      /\ UNCHANGED <<object, landings, file, run, count, images>>
  BY DEF EditPage
<1> HIDE DEF page
<1>4. RestTyped'
  BY <1>1, <1>2, <1>3, FactNumbers DEF RestTyped
<1>5. Written(pages') \subseteq Written(pages)
  BY <1>1, <1>3 DEF Written, RestTyped
<1>6. ReadyWithinCount'
  BY <1>1, <1>3, <1>5 DEF ReadyWithinCount
<1> QED
  BY <1>1, <1>3, <1>4, <1>6, ImagesUntouched DEF RestGood, StepsLeft

(* The file goes, with all it left. *)
LEMMA DeleteFileGood ==
  ASSUME IInv, DeleteFile
  PROVE  ImagesGood /\ RestGood
<1>1. RestTyped /\ StepsLeft
  BY IInvParts
<1>2. /\ Release(HeldBy(images)) /\ UNCHANGED <<landings, run, told>>
      /\ images' = [name \in Name |-> NoImage] /\ file' = "gone"
      /\ pages' = [n \in Number |-> NoPage] /\ count' = NoCount
  BY DEF DeleteFile, ImageRefsOfFile
<1>3. images' = DropImages(Name)
  BY <1>2 DEF DropImages
<1>4. HeldBy(images') = {}
  BY <1>2 DEF HeldBy, Extracted
<1>5. HeldBy(images) = HeldBy(images) \ HeldBy(images')
  BY <1>4
<1>6. ImagesGood
  BY <1>2, <1>3, <1>5, DropImagesGood
<1>7. RestTyped'
  BY <1>1, <1>2 DEF RestTyped
<1>8. StepsLeft' /\ ReadyWithinCount'
  BY <1>1, <1>2 DEF StepsLeft, ReadyWithinCount
<1> QED
  BY <1>6, <1>7, <1>8 DEF RestGood

(* What a report leaves of the pages, the count and the images, the chain's
   conclusion included when it ends the last step. *)
LEMMA ReportStep ==
  ASSUME IInv, NEW batch \in Batches, NEW origin \in {"runner", "regenerated"},
         NEW top \in Counts \cup {NoCount}, NEW done \in BOOLEAN,
         RunnerReport(batch, origin, top, done)
  PROVE  /\ Active
         /\ UpsertPages(batch, origin) \in [Number -> Page \cup {NoPage}]
         /\ count' \in Counts \cup {NoCount}
         /\ ~(done /\ run.left = 1) => pages' = UpsertPages(batch, origin)
         /\ done /\ run.left = 1 =>
              /\ pages' = TrimPages(UpsertPages(batch, origin), count')
              /\ Extracted(images') \subseteq ReferencedBy(pages')
         /\ ReportDone(done)
         /\ file' = file
         /\ told' \in [Number -> 0 .. MaxFact]
         /\ ImagesGood
<1> DEFINE table   == UpsertPages(batch, origin)
           dropped == DroppedByReport(batch, origin)
           known   == IF top = NoCount THEN count ELSE top
           ends    == done /\ run.left = 1
           trimmed == IF ends THEN TrimPages(table, known) ELSE table
           unused  == IF ends
                      THEN UnreferencedAtEnd(table, known, Extracted(images) \ dropped)
                      ELSE {}
           kept    == DropImages(dropped \cup unused)
<1>1. /\ Active /\ ReportDone(done) /\ UNCHANGED <<landings, file>>
      /\ pages' = trimmed /\ count' = known /\ images' = kept
      /\ Release(HeldBy(images) \ HeldBy(kept))
      /\ told' = [n \in Number |-> LastFact(n, batch, table, trimmed)]
  BY DEF RunnerReport
<1>2. RestTyped
  BY IInvParts
<1>3. table \in [Number -> Page \cup {NoPage}]
  <2>1. \A n \in ToWrite(batch) : [origin |-> origin, refs |-> batch[n]] \in Page
    BY DEF Batches, ToWrite, Page
  <2> QED
    BY <1>2, <2>1 DEF UpsertPages, RestTyped
<1>4. known \in Counts \cup {NoCount}
  BY <1>2 DEF RestTyped
<1>5. told' \in [Number -> 0 .. MaxFact]
  <2>1. \A n \in Number : LastFact(n, batch, table, trimmed) \in 0 .. MaxFact
    BY <1>2, FactNumbers DEF LastFact
  <2> HIDE DEF table, trimmed
  <2> QED
    BY <1>1, <2>1
<1>6. ImagesGood /\ Extracted(images') = Extracted(images) \ (dropped \cup unused)
  <2> DEFINE gone == HeldBy(images) \ HeldBy(kept)
             names == dropped \cup unused
  <2>1. images' = DropImages(names) /\ Release(gone) /\ gone = HeldBy(images) \ HeldBy(images')
        /\ UNCHANGED landings
    BY <1>1
  <2> HIDE DEF names, gone
  <2>2. ImagesGood /\ Extracted(images') = Extracted(images) \ names
    BY <2>1, DropImagesGood
  <2> QED
    BY <2>2 DEF names
<1>7. ends => Extracted(images') \subseteq ReferencedBy(trimmed)
  BY <1>6 DEF UnreferencedAtEnd
<1> QED
  BY <1>1, <1>3, <1>4, <1>5, <1>6, <1>7

(* The numbers left when the pages above a count are trimmed. *)
LEMMA TrimmedPages ==
  ASSUME NEW table \in [Number -> Page \cup {NoPage}], NEW top \in Counts \cup {NoCount}
  PROVE  /\ TrimPages(table, top) \in [Number -> Page \cup {NoPage}]
         /\ top # NoCount => \A n \in Written(TrimPages(table, top)) : n <= top
         /\ \A n \in Number : \/ TrimPages(table, top)[n] = table[n]
                              \/ /\ TrimPages(table, top)[n] = NoPage
                                 /\ top # NoCount /\ n > top
<1>1. Counts \subseteq Nat /\ Number \subseteq Nat
  BY BoundsAssumption DEF Number
<1> QED
  BY <1>1 DEF TrimPages, Written

(* A report keeps the invariant: when it ends the chain, the conclusion trims
   the pages to the count it leaves. *)
LEMMA RunnerReportGood ==
  ASSUME IInv, NEW batch \in Batches, NEW origin \in {"runner", "regenerated"},
         NEW top \in Counts \cup {NoCount}, NEW done \in BOOLEAN,
         RunnerReport(batch, origin, top, done)
  PROVE  ImagesGood /\ RestGood
<1> DEFINE table == UpsertPages(batch, origin)
           ends  == done /\ run.left = 1
<1>1. /\ Active /\ table \in [Number -> Page \cup {NoPage}] /\ count' \in Counts \cup {NoCount}
      /\ ~ends => pages' = table
      /\ ends => pages' = TrimPages(table, count')
      /\ ReportDone(done) /\ file' = file
      /\ told' \in [Number -> 0 .. MaxFact]
      /\ ImagesGood
  BY ReportStep
<1>2. RestTyped /\ StepsLeft
  BY IInvParts
<1> HIDE DEF table
<1>3. pages' \in [Number -> Page \cup {NoPage}]
  BY <1>1, TrimmedPages
<1>4. run.left \in 0 .. MaxSteps /\ run.left # 0 /\ MaxSteps \in Nat /\ run.state = "processing"
  BY <1>1, <1>2, RunFields DEF Active, StepsLeft
<1>5. run' \in [state : {"ready", "processing", "held", "failed"},
                trigger : {"none", "upload", "reprocess", "regenerate_page"},
                left : 0 .. MaxSteps, chains : 0 .. MaxRuns]
      /\ (run'.state = "ready" => ends)
      /\ (run'.state \in {"processing", "held"} => run'.left # 0)
  <2>1. CASE ~done
    BY <1>1, <1>2, <1>4, <2>1 DEF ReportDone, RestTyped
  <2>2. CASE done
    <3>1. run' = [state |-> IF run.left = 1 THEN "ready" ELSE "held", trigger |-> run.trigger,
                  left |-> run.left - 1, chains |-> run.chains]
      BY <1>1, <1>2, <2>2 DEF ReportDone, RestTyped
    <3>2. run.left - 1 \in 0 .. MaxSteps /\ (run.left # 1 => run.left - 1 # 0)
      BY <1>4
    <3> QED
      BY <1>2, <2>2, <3>1, <3>2, RunFields
  <2> QED
    BY <2>1, <2>2
<1>6. RestTyped'
  BY <1>1, <1>2, <1>3, <1>5 DEF RestTyped
<1>7. StepsLeft'
  BY <1>5 DEF StepsLeft
<1>8. ReadyWithinCount'
  BY <1>1, <1>5, TrimmedPages DEF ReadyWithinCount
<1> QED
  BY <1>1, <1>6, <1>7, <1>8 DEF RestGood

(* Every step keeps the invariant, and shows nothing older. *)
LEMMA NextGood ==
  ASSUME IInv, Next
  PROVE  ImagesGood /\ RestGood
<1>1. ASSUME NEW steps \in 1 .. MaxSteps, ProcessFile(steps) PROVE ImagesGood /\ RestGood
  BY <1>1, StartChainGood DEF ProcessFile
<1>2. ASSUME NEW n \in Number, NEW steps \in 1 .. MaxSteps, RegeneratePage(n, steps)
      PROVE  ImagesGood /\ RestGood
  BY <1>2, StartChainGood DEF RegeneratePage
<1>3. ASSUME UNCHANGED <<file, run, pages, count, told>>, ImagesGood
      PROVE  ImagesGood /\ RestGood
  BY <1>3, IInvParts DEF RestGood, RestTyped, StepsLeft, ReadyWithinCount, Written
<1>4. ASSUME NEW name \in Name, NEW o \in Object, RequestImage(name, o)
      PROVE  ImagesGood /\ RestGood
  BY <1>3, <1>4, RequestImageGood DEF RequestImage
<1>5. ASSUME NEW name \in Name, WindowPasses(name) PROVE ImagesGood /\ RestGood
  BY <1>3, <1>5, WindowPassesGood DEF WindowPasses
<1>6. ASSUME NEW o \in Object, ImageAvailable(o) PROVE ImagesGood /\ RestGood
  BY <1>3, <1>6, ImageAvailableGood DEF ImageAvailable
<1>7. ASSUME NEW name \in Name, NEW o \in Object, ImageLanded(name, o)
      PROVE  ImagesGood /\ RestGood
  BY <1>3, <1>7, ImageLandedGood DEF ImageLanded
<1>8. ASSUME NEW o \in Object, ImageOrphaned(o) PROVE ImagesGood /\ RestGood
  BY <1>3, <1>8, ImageOrphanedGood DEF ImageOrphaned
<1> QED
  BY <1>1, <1>2, <1>4, <1>5, <1>6, <1>7, <1>8, EditPageGood, DeleteFileGood, RunnerReportGood,
     RunMovesGood DEF Next

(* Every step keeps the invariant. *)
LEMMA NextIInv == IInv /\ [Next]_vars => IInv'
<1> SUFFICES ASSUME IInv, [Next]_vars PROVE IInv'
  OBVIOUS
<1>1. CASE Next
  BY <1>1, NextGood, IInvParts
<1>2. CASE UNCHANGED vars
  BY <1>2 DEF vars, IInv, TypeOK, ObjectsTypeOK, StepsLeft, ImagesInv, ReadyWithinCount,
     Extracted, Written
<1> QED
  BY <1>1, <1>2

(* The invariant holds of every reachable state. *)
THEOREM Invariant == Spec => []IInv
  BY InitIInv, NextIInv, PTL DEF Spec

(* Every row, message and count stays of its type. *)
THEOREM TypeCorrect == Spec => []TypeOK
<1>1. IInv => TypeOK
  BY DEF IInv
<1> QED
  BY <1>1, Invariant, PTL

(* A landed image has its object, whatever order requests, uploads, landings
   and drops come in (file/images.rs). *)
THEOREM LandedImagesStored == Spec => []LandedIsStored
<1>1. IInv => LandedIsStored
  BY DEF IInv, ImagesInv, BlobInv, RowSound, LandedIsStored
<1> QED
  BY <1>1, Invariant, PTL

(* An object the storage keeps is held by one image, in whatever order rows are
   replaced, dropped and deleted and uploads orphaned (file/images.rs,
   file/processed.rs). *)
THEOREM KeptObjectsHeld == Spec => []EveryObjectHeld
<1>1. IInv => EveryObjectHeld
  BY KeptByOne DEF IInv, ImagesInv, EveryObjectHeld, Holders
<1> QED
  BY <1>1, Invariant, PTL

(* A READY file has no page above its page count (processing/chain.rs, the
   conclusion of a chain). *)
THEOREM ReadyPagesWithinCount == Spec => []ReadyWithinCount
<1>1. IInv => ReadyWithinCount
  BY DEF IInv
<1> QED
  BY <1>1, Invariant, PTL

(* No landing, however late or repeated, brings an older object back
   (file/images.rs, land). *)
THEOREM NothingOlderShown == Spec => NeverOlder
<1> DEFINE Step == \A name \in Extracted(images) :
                     images'[name] # NoImage => images'[name].current >= images[name].current
<1>1. IInv /\ [Next]_vars => [Step]_vars
  <2> SUFFICES ASSUME IInv, Next PROVE Step
    OBVIOUS
  <2>1. CurrentGrows(images, Extracted(images), images', Extracted(images'))
    BY NextGood DEF ImagesGood
  <2> QED
    BY <2>1 DEF CurrentGrows, Extracted
<1> QED
  BY <1>1, Invariant, PTL DEF Spec, NeverOlder

(* A chain that ends READY leaves no image that no page of it references
   (processing/chain.rs, file/images.rs). *)
THEOREM ChainsEndClean == Spec => EndsClean
<1> DEFINE Step == run.state = "processing" /\ run'.state = "ready" =>
                     Extracted(images') \subseteq ReferencedBy(pages')
<1>1. IInv /\ [Next]_vars => [Step]_vars
  <2> SUFFICES ASSUME IInv, Next, run.state = "processing", run'.state = "ready"
               PROVE  Extracted(images') \subseteq ReferencedBy(pages')
    OBVIOUS
  <2>1. run \in [state : {"ready", "processing", "held", "failed"},
                 trigger : {"none", "upload", "reprocess", "regenerate_page"},
                 left : 0 .. MaxSteps, chains : 0 .. MaxRuns]
    BY IInvParts DEF RestTyped
  <2>2. PICK batch \in Batches, origin \in {"runner", "regenerated"},
             top \in Counts \cup {NoCount}, done \in BOOLEAN :
               RunnerReport(batch, origin, top, done)
    BY <2>1 DEF Next, ProcessFile, RegeneratePage, StartChain, EditPage, DeleteFile, RunFails,
       ReleaseNextStep, RequestImage, WindowPasses, ImageAvailable, ImageOrphaned, ImageLanded
  <2>3. ReportDone(done) /\ (done /\ run.left = 1 => Extracted(images') \subseteq ReferencedBy(pages'))
    BY <2>2, ReportStep
  <2>4. done /\ run.left = 1
    BY <2>1, <2>3 DEF ReportDone
  <2> QED
    BY <2>3, <2>4
<1> QED
  BY <1>1, Invariant, PTL DEF Spec, EndsClean

(* No upload or reprocess overwrites a page a person edited (runner.rs, the
   pages of a report; file/pages.rs). *)
THEOREM EditedPagesKept == Spec => WrittenWorkKept
<1> DEFINE Kept(n) ==
      \/ pages'[n] # NoPage /\ pages'[n].origin = "edited"
      \/ run.trigger = "regenerate_page" /\ run.state = "processing"
      \/ /\ pages'[n] = NoPage
         /\ \/ file' = "gone"
            \/ run'.state = "ready" /\ count' # NoCount /\ n > count'
    Step == \A n \in Written(pages) : pages[n].origin = "edited" => Kept(n)
<1>1. IInv /\ [Next]_vars => [Step]_vars
  <2> SUFFICES ASSUME IInv, Next, NEW n \in Written(pages), pages[n].origin = "edited"
               PROVE  Kept(n)
    OBVIOUS
  <2>1. RestTyped /\ n \in Number /\ pages[n] # NoPage
    BY IInvParts DEF Written
  <2>2. CASE UNCHANGED pages
    BY <2>1, <2>2
  <2>3. ASSUME NEW m \in Number, NEW refs \in SUBSET Name, EditPage(m, refs) PROVE Kept(n)
    <3> DEFINE page == [origin |-> "edited", refs |-> refs]
    <3>1. page \in Page /\ page.origin = "edited"
      BY DEF Page
    <3>2. page # NoPage
      BY <3>1, NullAssumption
    <3>3. pages' = [pages EXCEPT ![m] = page]
      BY <2>3 DEF EditPage
    <3> HIDE DEF page
    <3>4. pages'[n] = IF n = m THEN page ELSE pages[n]
      BY <2>1, <3>3 DEF RestTyped
    <3> QED
      BY <2>1, <3>1, <3>2, <3>4
  <2>4. CASE DeleteFile
    BY <2>1, <2>4 DEF DeleteFile
  <2>5. ASSUME NEW batch \in Batches, NEW origin \in {"runner", "regenerated"},
               NEW top \in Counts \cup {NoCount}, NEW done \in BOOLEAN,
               RunnerReport(batch, origin, top, done)
        PROVE  Kept(n)
    <3> DEFINE table == UpsertPages(batch, origin)
    <3>1. /\ Active /\ table \in [Number -> Page \cup {NoPage}]
          /\ count' \in Counts \cup {NoCount}
          /\ ~(done /\ run.left = 1) => pages' = table
          /\ done /\ run.left = 1 => pages' = TrimPages(table, count')
          /\ ReportDone(done)
      BY <2>5, ReportStep
    <3>2. SUFFICES ASSUME run.trigger # "regenerate_page" PROVE Kept(n)
      BY <3>1 DEF Active
    <3>3. n \notin ToWrite(batch)
      BY <2>1, <3>2 DEF ToWrite, EditedAmong
    <3>4. table[n] = pages[n]
      BY <2>1, <3>3 DEF UpsertPages
    <3> HIDE DEF table
    <3>5. CASE pages'[n] = table[n]
      BY <2>1, <3>4, <3>5
    <3>6. CASE pages'[n] # table[n]
      <4>1. done /\ run.left = 1 /\ pages' = TrimPages(table, count')
        BY <3>1, <3>6
      <4>2. pages'[n] = NoPage /\ count' # NoCount /\ n > count'
        BY <2>1, <3>1, <3>6, <4>1, TrimmedPages
      <4>3. run'.state = "ready"
        BY <2>1, <3>1, <4>1 DEF ReportDone, RestTyped
      <4> QED
        BY <4>2, <4>3
    <3> QED
      BY <3>5, <3>6
  <2>6. \/ UNCHANGED pages
        \/ \E m \in Number, refs \in SUBSET Name : EditPage(m, refs)
        \/ DeleteFile
        \/ \E batch \in Batches, origin \in {"runner", "regenerated"},
              top \in Counts \cup {NoCount}, done \in BOOLEAN :
                RunnerReport(batch, origin, top, done)
    BY DEF Next, ProcessFile, RegeneratePage, StartChain, RunFails,
       ReleaseNextStep, RequestImage, WindowPasses, ImageAvailable, ImageOrphaned, ImageLanded
  <2> HIDE DEF Kept
  <2> QED
    BY <2>2, <2>3, <2>4, <2>5, <2>6
<1> QED
  BY <1>1, Invariant, PTL DEF Spec, WrittenWorkKept
=============================================================================
