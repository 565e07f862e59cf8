------------------------------ MODULE Results ------------------------------
(***************************************************************************)
(* What the runs of one file leave: its pages, its indexed page count and  *)
(* its extracted images (runner.rs, file/pages.rs, file/processed.rs,      *)
(* file/images.rs, and the conclusion of a chain in processing/chain.rs).  *)
(*                                                                         *)
(* Every gesture and reaction locks the file's row before anything else of *)
(* the file, so each is one action.  What interleaves is a person who      *)
(* edits, regenerates and deletes, a runner that reports and uploads, Jobs *)
(* that ends jobs, and the landing messages of the uploaded objects.       *)
(***************************************************************************)
EXTENDS BlobRows

CONSTANTS
    MaxPage,    \* bound: page numbers 1 .. MaxPage
    Illustrated,\* the pages images are extracted from
    Index,      \* the images of a page are numbered in this set
    Counts,     \* the page counts a report may declare
    MaxBatch,   \* bound: pages per report
    MaxSteps,   \* bound: steps of a chain
    MaxRuns,    \* bound: chains started
    MaxFact,    \* bound: the facts of a page are told apart up to this number
    NoPage, NoImage, NoCount

ASSUME BoundsAssumption ==
    /\ {MaxPage, MaxBatch, MaxSteps, MaxRuns, MaxFact} \subseteq Nat
    /\ Counts \subseteq Nat /\ NoCount \notin Nat
    /\ Illustrated \subseteq 1 .. MaxPage

VARIABLES
    file,       \* the file's row: "there" or "gone"
    run,        \* the file's processing: state, trigger, steps left, chains so far
    pages,      \* drive.file_page
    count,      \* drive.file_processed.page_count
    images,     \* drive.file_image
    told        \* the number of the last fact of each page handed to the host

vars == <<object, landings, file, run, pages, count, images, told>>

Number == 1 .. MaxPage

(* An image's name says its page: p<page>-img<index>. *)
Name == Illustrated \X Index
PageOf(name) == name[1]

(* A page's markdown, as far as anything here reads it: the names in it. *)
Page == [origin : {"runner", "regenerated", "edited"},
         refs : SUBSET Name]

(* An absent row is no row. *)
ASSUME NullAssumption == NoImage \notin Row /\ NoPage \notin Page

(* The whole state is of its type: every row is absent or well formed. *)
TypeOK ==
    /\ ObjectsTypeOK(Name)
    /\ file \in {"there", "gone"}
    /\ run \in [state : {"ready", "processing", "held", "failed"},
                trigger : {"none", "upload", "reprocess", "regenerate_page"},
                left : 0 .. MaxSteps, chains : 0 .. MaxRuns]
    /\ pages \in [Number -> Page \cup {NoPage}]
    /\ count \in Counts \cup {NoCount}
    /\ images \in [Name -> Row \cup {NoImage}]
    /\ told \in [Number -> 0 .. MaxFact]

(* A file that landed with no rule to run: READY and never processed. *)
Init ==
    /\ ObjectsInit
    /\ file = "there"
    /\ run = [state |-> "ready", trigger |-> "none", left |-> 0, chains |-> 0]
    /\ pages = [n \in Number |-> NoPage]
    /\ count = NoCount
    /\ images = [n \in Name |-> NoImage]
    /\ told = [n \in Number |-> 0]

-----------------------------------------------------------------------------
(* Reading the rows *)

Written(table) == {n \in Number : table[n] # NoPage}
Extracted(table) == {n \in Name : table[n] # NoImage}

ReferencedBy(table) == UNION {table[n].refs : n \in Written(table)}

HeldBy(table) == UNION {BlobRefs(table[name]) : name \in Extracted(table)}

Holders(o) == {name \in Extracted(images) : o \in BlobRefs(images[name])}

(* Mutation: no page is looked up among those a person edited. *)
NoneEdited(numbers) == {}

EditedAmong(numbers) ==
    {n \in numbers \cap Written(pages) : pages[n].origin = "edited"}

(* Mutation: the trim leaves the pages a person edited. *)
TrimKeepsEdited(table, top) ==
    [n \in Number |->
        IF /\ n \in Written(table) /\ top # NoCount /\ n > top
           /\ table[n].origin # "edited"
        THEN NoPage ELSE table[n]]

TrimPages(table, top) ==
    [n \in Number |-> IF top # NoCount /\ n > top THEN NoPage ELSE table[n]]

DropImages(names) ==
    [name \in Name |-> IF name \in names THEN NoImage ELSE images[name]]

After(number) == IF number < MaxFact THEN number + 1 ELSE MaxFact

(* A page's version is the number of its last fact as long as its row is   *)
(* there; a row inserted starts at 1, whatever the host was told before.   *)
NextVersion(n) == IF pages[n] = NoPage THEN After(0) ELSE After(told[n])

Active == file = "there" /\ run.state = "processing"

-----------------------------------------------------------------------------
(* The person *)

StartChain(trigger, steps) ==
    /\ run.chains < MaxRuns
    /\ run' = [state |-> "processing", trigger |-> trigger, left |-> steps,
               chains |-> run.chains + 1]
    /\ UNCHANGED <<object, landings, file, pages, count, images, told>>

ProcessFile(steps) ==
    /\ file = "there"
    /\ run.state \in {"ready", "failed"}
    /\ StartChain(IF run.trigger = "none" THEN "upload" ELSE "reprocess", steps)

RegeneratePage(n, steps) ==
    /\ file = "there"
    /\ run.state = "ready"
    /\ pages[n] # NoPage
    /\ StartChain("regenerate_page", steps)

EditPage(n, refs) ==
    /\ file = "there"
    /\ run.state = "ready"
    /\ pages[n] # NoPage
    /\ pages' = [pages EXCEPT ![n] = [origin |-> "edited", refs |-> refs]]
    /\ told' = [told EXCEPT ![n] = NextVersion(n)]
    /\ UNCHANGED <<object, landings, file, run, count, images>>

ImageRefsOfFile == HeldBy(images)

DeleteFile ==
    /\ file = "there"
    /\ file' = "gone"
    /\ Release(ImageRefsOfFile)
    /\ pages' = [n \in Number |-> NoPage]
    /\ images' = [name \in Name |-> NoImage]
    /\ count' = NoCount
    /\ UNCHANGED <<landings, run, told>>

-----------------------------------------------------------------------------
(* The runner.  `batch` is a function from the numbers reported to what    *)
(* their markdown references; `top` is the page count declared, if any.    *)

Batches == UNION {[numbers -> SUBSET Name] :
                    numbers \in {s \in SUBSET Number : Cardinality(s) <= MaxBatch}}

Validate(batch, top, done) == DOMAIN batch # {} \/ top # NoCount \/ done

(* The pages of a report that are written: the ones a person edited are    *)
(* kept, but by the run of a page regeneration.                            *)
ToWrite(batch) ==
    IF run.trigger = "regenerate_page"
    THEN DOMAIN batch
    ELSE DOMAIN batch \ EditedAmong(DOMAIN batch)

UpsertPages(batch, origin) ==
    [n \in Number |-> IF n \in ToWrite(batch)
                      THEN [origin |-> origin, refs |-> batch[n]]
                      ELSE pages[n]]

(* The images of a regenerated page that its own new markdown leaves out. *)
DroppedByReport(batch, origin) ==
    IF origin # "regenerated" THEN {}
    ELSE {name \in Extracted(images) :
            PageOf(name) \in ToWrite(batch) /\ name \notin batch[PageOf(name)]}

(* Mutation: the unreferenced images are looked up before the trim. *)
UnreferencedBeforeTrim(table, top, names) == names \ ReferencedBy(table)

(* What the conclusion of a chain drops of `names`, its pages being those  *)
(* of `table` trimmed to `top`.                                            *)
UnreferencedAtEnd(table, top, names) == names \ ReferencedBy(TrimPages(table, top))

(* Mutation: the last step is looked for one too far. *)
OneStepTooFar(done) ==
    run' = IF ~done THEN run
           ELSE [run EXCEPT !.left = @ - 1,
                            !.state = IF run.left = 0 THEN "ready" ELSE "held"]

(* The chain moves: past its last step it ends READY, before it the next   *)
(* step is held for Jobs' end of this job.                                 *)
ReportDone(done) ==
    run' = IF ~done THEN run
           ELSE [run EXCEPT !.left = @ - 1,
                            !.state = IF run.left = 1 THEN "ready" ELSE "held"]

(* The last fact handed of page n: of its write, then of its trim. *)
LastFact(n, batch, table, trimmed) ==
    LET written == IF n \in ToWrite(batch) THEN NextVersion(n) ELSE told[n]
    IN  IF table[n] # NoPage /\ trimmed[n] = NoPage THEN After(written) ELSE written

RunnerReport(batch, origin, top, done) ==
    LET table   == UpsertPages(batch, origin)
        dropped == DroppedByReport(batch, origin)
        known   == IF top = NoCount THEN count ELSE top
        ends    == done /\ run.left = 1
        trimmed == IF ends THEN TrimPages(table, known) ELSE table
        unused  == IF ends
                   THEN UnreferencedAtEnd(table, known, Extracted(images) \ dropped)
                   ELSE {}
        kept    == DropImages(dropped \cup unused)
    IN  /\ Active
        /\ Validate(batch, top, done)
        /\ pages' = trimmed
        /\ count' = known
        /\ images' = kept
        /\ Release(HeldBy(images) \ HeldBy(kept))
        /\ told' = [n \in Number |-> LastFact(n, batch, table, trimmed)]
        /\ ReportDone(done)
        /\ UNCHANGED <<landings, file>>

(* The runner declares a failure, or Jobs fails, rejects or cancels the job: *)
(* the results stay as they are.                                             *)
RunFails ==
    /\ file = "there"
    /\ run.state \in {"processing", "held"}
    /\ run' = [run EXCEPT !.state = "failed", !.left = 0]
    /\ UNCHANGED <<object, landings, file, pages, count, images, told>>

(* Jobs ended the reported job: the held step's job runs. *)
ReleaseNextStep ==
    /\ file = "there"
    /\ run.state = "held"
    /\ run' = [run EXCEPT !.state = "processing"]
    /\ UNCHANGED <<object, landings, file, pages, count, images, told>>

-----------------------------------------------------------------------------
(* The images *)

RequestImage(name, o) ==
    /\ Active
    /\ \/ /\ images[name] = NoImage
          /\ Stage(o, {})
          /\ images' = [images EXCEPT ![name] = New(o)]
       \/ /\ images[name] # NoImage
          /\ ~IsLanding(images[name])
          /\ Stage(o, ReplacedBy(images[name]))
          /\ images' = [images EXCEPT ![name] = RequestReplacement(images[name], o)]
    /\ UNCHANGED <<file, run, pages, count, told>>

(* The upload window of a row's last request passes. *)
WindowPasses(name) ==
    /\ images[name] # NoImage
    /\ IsLanding(images[name])
    /\ images' = [images EXCEPT ![name].fresh = FALSE]
    /\ UNCHANGED <<object, landings, file, run, pages, count, told>>

ImageAvailable(o) ==
    /\ Promote(o, Holders(o))
    /\ UNCHANGED <<file, run, pages, count, images, told>>

ImageOrphaned(o) ==
    /\ Orphan(o)
    /\ UNCHANGED <<file, run, pages, count, images, told>>

(* A landing message is delivered, for the first time or again.  Nothing   *)
(* is done for a file or an image that is gone.                            *)
ImageLanded(name, o) ==
    /\ <<name, o>> \in landings
    /\ file = "there"
    /\ images[name] # NoImage
    /\ Release(SwapReleases(images[name], o))
    /\ images' = [images EXCEPT ![name] = Land(images[name], o)]
    /\ UNCHANGED <<landings, file, run, pages, count, told>>

-----------------------------------------------------------------------------

Next ==
    \/ \E steps \in 1 .. MaxSteps : ProcessFile(steps)
    \/ \E n \in Number, steps \in 1 .. MaxSteps : RegeneratePage(n, steps)
    \/ \E n \in Number, refs \in SUBSET Name : EditPage(n, refs)
    \/ DeleteFile
    \/ \E batch \in Batches, origin \in {"runner", "regenerated"},
          top \in Counts \cup {NoCount}, done \in BOOLEAN :
            RunnerReport(batch, origin, top, done)
    \/ RunFails
    \/ ReleaseNextStep
    \/ \E name \in Name, o \in Object : RequestImage(name, o)
    \/ \E name \in Name : WindowPasses(name)
    \/ \E o \in Object : ImageAvailable(o)
    \/ \E o \in Object : ImageOrphaned(o)
    \/ \E name \in Name, o \in Object : ImageLanded(name, o)

Spec == Init /\ [][Next]_vars

-----------------------------------------------------------------------------
(* Properties *)

(* A reader of a landed image always gets an object the storage has: no    *)
(* release, swap or drop, in whatever order requests, uploads, orphaned    *)
(* uploads and redelivered landings come, takes the object from under its  *)
(* row.                                                                    *)
LandedIsStored ==
    \A name \in Extracted(images) :
        images[name].landed => object[images[name].current] = "stored"

(* Every object the storage keeps is held by one row, so that nothing is   *)
(* paid for that no row can reach: each request, swap, drop, conclusion    *)
(* and deletion releases what its rows let go, and two names never share   *)
(* an object.  (Not the other way round: a row may hold an object the      *)
(* reaper dropped.)                                                        *)
EveryObjectHeld ==
    \A o \in Object :
        object[o] \in {"staged", "stored"} => Cardinality(Holders(o)) = 1

(* A landing that comes late, again or after a newer request never brings  *)
(* back an older object: what a name shows only moves to objects asked for *)
(* later.                                                                  *)
NeverOlder ==
    [][\A name \in Extracted(images) :
         images'[name] # NoImage => images'[name].current >= images[name].current]_vars

(* A READY file has no page above its page count, whichever run declared   *)
(* the count and whoever wrote the page.                                   *)
ReadyWithinCount ==
    run.state = "ready" /\ count # NoCount => \A n \in Written(pages) : n <= count

(* A page a person edited is only lost to another edit, to a run that was  *)
(* asked to regenerate, to the end of a chain whose count leaves it out,   *)
(* or with its file: an upload or a reprocess never overwrites it.         *)
WrittenWorkKept ==
    [][\A n \in Written(pages) : pages[n].origin = "edited" =>
         \/ pages'[n] # NoPage /\ pages'[n].origin = "edited"
         \/ run.trigger = "regenerate_page" /\ run.state = "processing"
         \/ /\ pages'[n] = NoPage
            /\ \/ file' = "gone"
               \/ run'.state = "ready" /\ count' # NoCount /\ n > count']_vars

(* When a chain ends READY, every image left is referenced by a page left: *)
(* the images of the pages trimmed by the same conclusion go with them.    *)
EndsClean ==
    [][run.state = "processing" /\ run'.state = "ready" =>
         Extracted(images') \subseteq ReferencedBy(pages')]_vars

(* Claimed by facts.rs and the README, and not so: the facts of a page are *)
(* numbered 1, 2, 3... without a number handed twice.                      *)
PageFactsGapFree == [][\A n \in Number : told'[n] >= told[n]]_vars

=============================================================================
