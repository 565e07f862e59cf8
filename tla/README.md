# br-drive, specified

TLA+ models of `crates/br-drive`: a Rust library that gives a service drives of
files, verified uploads, and chains of processing jobs run by an external
service, Jobs. The library is a set of handlers (gestures of users, calls of
runners, reactions to messages) over Postgres, each one transaction that locks
the rows it loads. What is hard in it is not one handler but their order.

## The system

| Part (under `crates/br-drive/src`) | State it keeps | Operations | Works with |
|---|---|---|---|
| processing row, `processing/state.rs` | one row per file: state, error, job, step, past jobs, cancel, Passport, next job held, awaiting source, version | start, create, hold, end, skip, abandon, drop, cancel, receive a fact | the chain |
| chain, `processing/{chain,reactions,source,commands}.rs` | the file's snapshot of steps | start, launch, hand on, conclude; reactions on `job.*` facts and on the source's promotion | Jobs (commands out, facts in), the blob reaper |
| upload, `upload.rs`, `blob.rs` | a pending file and its blob | request, commit, deadline, promotion | chain, blob reaper |
| runner gestures, `runner.rs` | pages, images, renditions of a file | reports, uploads, failure | chain, pages, images |
| file gestures, `file/gestures.rs`, `file/aggregate.rs` | name, path, title, drive of a file | update, retitle, delete, process, cancel, regenerate | drives, chain |
| drives and folders, `drive.rs`, `folders.rs`, `path.rs` | drives, the paths of their files | create, delete, freeze; move and delete a folder | files, chain |
| erase, `erase.rs` | none | rewrite or delete what a person left | every table |
| labels, `label/` | the catalogue, the labels on files | create, update, delete, set on a file | files |
| pages, `file/pages.rs`, `file/report.rs`, `file/processed.rs` | pages and their counters | report, edit, trim | runner, chain |
| images and renditions, `file/images.rs`, `file/renditions.rs` | the current object and the one on its way | request, land, replace, release | blob reaper, runner |
| rulesets, `ruleset/` | rules and their default patterns | create, update, delete, select | upload, chain |
| catalogue of runner types, `catalogue/` | a copy of a KV bucket | watch, replay | rulesets |
| facts, `facts.rs` | versions of each noun | stamp, hand to the host | every aggregate |
| host and owner, `host.rs`, `owner.rs`, `admission.rs` | none (traits) | gates, refresh of the host's views | every gesture |
| views, `slice.rs`, `*/view.rs` | none (projections) | read | |

Jobs, the broker, Postgres, the row locks and the blob reaper
(`service-engine`) are not in the repository: they are modelled from what the
code relies on and marked external.

What makes it hard: handlers of one file interleave with Jobs, whose commands
are consumed in no order among kinds and whose facts come late, again and in any
order; the decision to wait for a source is taken on a row that is not locked;
a step ends in two places (the runner's report, Jobs' fact); a cancel crosses
either; a chain's Passport may be gone by its next step; gestures that load
rows of two kinds may lock them in different orders; an object lands behind the
server's back, late or after a newer one was asked for; the rule chosen for a
file changes before it runs; and every pod writes the one copy of Jobs'
catalogue. The hazards, each at its
line with the properties that cover it, are listed in `PROJECT.json`.

## The modules

| Module | Models | Extends |
|---|---|---|
| `FileProcessing` | the methods of the aggregate, as operators from a row to a row | |
| `ProcessingChain` | one file, its chain, gestures, runner, Jobs, broker, reaper | `FileProcessing` |
| `ChainContract` | what a chain promises, as six transitions and a removal | |
| `MCProcessingChain` | instances for TLC | `ProcessingChain` |
| `RowLocks` | row locks, held to the end of a transaction, and who waits for whom | |
| `Labels` | labels, their links, and the gestures over them lock by lock | `RowLocks` |
| `LabelsContract` | what the catalogue promises: each gesture one atomic step | |
| `MCLabels` | instances for TLC | `Labels` |
| `Drives` | drives, the places of their files, and the gestures that move them lock by lock | `RowLocks` |
| `MCDrives` | instances for TLC | `Drives` |
| `BlobRows` | a row that holds an uploaded object (an image's or a rendition's), the objects in the storage, the landing messages | |
| `Results` | the pages, the page count and the images of one file | `BlobRows` |
| `Renditions` | the renditions of one file and the runner's read of them | `BlobRows` |
| `Rulesets` | the rules, the gestures that save them, the rule a file runs | `RowLocks` |
| `Catalogue` | the copy of Jobs' runner types and the pods that write it | |
| `MCResults`, `MCRenditions`, `MCRulesets`, `MCCatalogue` | instances for TLC | each its module |
| `ProcessingChainProofs` | what each method returns, the chain's invariant, its steps and contract, the invariant between the library and Jobs | `ProcessingChain` |
| `LabelsProofs`, `DrivesProofs`, `RulesetsProofs` | what each open transaction still knows, and what follows | each its module |
| `BlobRowsProofs` | what a request, a promotion, a landing and a release leave of any table of rows | `BlobRows` |
| `ResultsProofs`, `RenditionsProofs` | the invariant of `BlobRowsProofs` over images, over renditions, and the rest of each | `BlobRowsProofs` and each its module |
| `CatalogueProofs` | what a watch has yet to give, and which pod is to write it | `Catalogue` |

### Processing

`proc` is the row of `drive.file_processing`; `file` and `steps` the columns of
`drive.file` a chain reads (`committed_at`, `steps`), `proc.by` the initiator
(`triggered_by_id`); `minted` counts the ids
drawn by `Uuid::now_v7`. `proc.log` keeps the facts that create or end a job or
stop a chain, as the set of those handed to the host. A job id is a number;
times, display names, runner types, messages, options and the runner's own
progress are left out.

One action is one handler, whole: `RunnerReportsDone` is `runner_report` with
`done`, with its four endings in `report_done`; `ReceiveFact` is the dispatch of
`reactions.rs` and everything `receive`, `release_next_step` and the recovery
cancel do in that transaction. One file is enough: every handler of a chain
locks its file first and reads no other. The one gesture cut in two is the one
that starts a chain: `OpenGesture` has the file's lock and has read whether the
source awaits its promotion, `CommitGesture` writes; between them the reaper may
promote. Every other handler waits (`Unlocked`). An erase waits too where the
file's rows name the person (`Names`: as its uploader, or as the initiator of its
chain), since it rewrites those rows before it reads the Passports; where they do
not, it waits for nothing.

External: `outbox` holds what the transactional outbox staged and Jobs has not
consumed; creates of one file are consumed in order (one consumer, one key),
finishes, fails and cancels in no order. `facts` are the facts published; with
`Redelivers` a fact is never taken away, so it comes again and at any time, else
it comes once, in any order. `jobs` is what Jobs holds: one live job per file, a
create refused while another is live, a cancel of an unknown job dropped. A live
job may end by itself at any time (`JobsBackstop`), and need not: neither the
library nor Jobs has a deadline for a job no runner picks up.

`ChainContract` has a phase, a step, a length and an outcome. The mapping:
`Phase` and `Outcome` from the row, `step <- proc.step`, `length <- steps`.

### Labels

A transaction is a place in its gesture and the sets it has read so far; one
action is one statement or one lock. Writes and the release of the locks are
together, at the commit: no other transaction sees a write before. `links` has no
foreign key in the model, so that an invariant can say that the locks are
enough. `trail` is what the recorded facts say a file's labels are. A create may
be under the id of a label that is there or was: the upsert writes over it, waiting
for whoever holds it.

`LabelsContract` has `files`, `name` and `links` only, and five steps: create,
rename, assign, delete, and the removal of a file. The mapping keeps the three
variables as they are and hides the locks, the open transactions and the trail.

### Drives and folders

The same grain: a statement or a lock is an action, a commit shows the writes and
frees the locks. A path is a sequence of segments (`Within` and `Rebased` are
`is_within` and `rebased`), a name a stem and a counter, so that `FirstFree` is
`first_free` with its counter stripped and counted from 1. `Gestures` says which
gestures a run lets start. Here the keys of `drive.file` are in the model: a
write `Sound` refuses leaves its transaction in `"error"`, which is a database
error answered to the caller, and the properties say which gestures never get
there. `RebaseCollides` is the one `UPDATE` of `rebase_paths` writing the row of a
file where another moving file still is: the index is checked row by row, in an
order the plan chooses. What the path and the name asked for are is chosen where
they are first read, which takes states away and no behaviour.

Gestures that lock a single row (`CommitUpload`, `DeleteFile`, the upload's
deadline) are one action each: they wait holding nothing.

### Images, pages and renditions

`BlobRows` is the part `file/images.rs` and `file/renditions.rs` share: a row's
current object, whether it has landed, the pending object that replaces it, and
whether the last request is still within the upload window (`fresh`; the window
passes at any time). `object` is the storage's view of every object asked for,
by `blob_verified` (staged), by the reaper's promotion (stored) and by
`release_blob`. `Promote` is `image_available` and `rendition_available`: the
promotion sends a landing message to the name whose row holds the object, and to
none if no row does any more; the message is delivered any number of times, at
any later time (`ImageLanded`, `RenditionLanded`). An upload that never lands is
dropped by the reaper past `orphan_after` (`Orphan`, and its `ImageOrphaned` and
`RenditionOrphaned`): no row is told, so one may go on holding an object that is
no more until it is asked for again or goes (`request_replacement`).

`Results` has one file, whose gestures and reactions all lock its row first, so
that each is one action: what interleaves is the person, the runner, Jobs and the
landings. A page is an origin and the set of images its markdown names
(`references_image`): nothing else of it is read. `RunnerReport` is the whole of
`runner_report`: the pages kept from a person's edits, the pages written, the
images a regenerated page lets go, the indexer's count, and with `done` the two
endings of `report_done`, the last of which is `conclude` (trim, then drop what
no page left references). The state of the chain is its trigger and the steps
left, in the terms of `ProcessingChain`. `told` is the number of the last fact of
each page: `upsert_pages` and `trim_pages` hand facts by the row's own version.

`Renditions` cuts what the code does not hold a lock over: `RunnerContext` lists
the landed renditions behind a gate (the file is there, the job is its active
one), then signs each by a read of its own behind the same gate, refused when the
row holds another object; a refusal is followed by a second listing, and the
third refusal of one name ends the call (`SOURCE_NOT_AVAILABLE`).

### Rulesets

Two transactions save and delete rules, a lock or a statement at a time:
`serialize_rulesets` takes the advisory lock of the saves, an update then locks
its rule, and a deletion locks its rule alone. The two checks of a save are one
action: each sees what is committed, saves are serialised, and a deletion between
them only makes room. `SaveRuleset` is the upsert, by id, which writes over a rule
created under an id that is there; the unique index on names is not in the model,
so that `NamesUnique` says the lock and the check are enough. Media types are
`application/pdf`, `application/zip` and `text/plain`, patterns one of them, the
wildcard of the first two, and `*`: what `match_rank` tells apart. A rule's steps
are left out: their number is in `ProcessingChain`. One file, which reads the
rules unlocked, each time in one statement, goes through its upload, with a rule
chosen or none, its commit, its chains and the gestures that start them.

### Catalogue

A pod is at one place of `sync_once`: it opens the watch, scans (an entry at a
time, each as the bucket has it then), writes what it scanned, forgets the types
it did not find, and follows the watch, which has given to its queue every change
since it opened. A fault takes a pod back before its first step; a value that is
not JSON fails the scan, and in the watch only forgets its type. All pods write
the one table, each write in a transaction of its own.

## The runs

| Run | Question | Bounds | Result |
|---|---|---|---|
| `chain` | do the row's rules, one end per job, no job before promotion, no job forgotten, sticking cancels, the hand over to Jobs, the erase and the contract hold, from the upload on | 2 persons on a host that deletes what the erased one uploaded (the other's Passport is dropped), 2 jobs, chains of 1 or 2 steps, redelivery | holds, 257,957 states |
| `chain_liveness` | does a PROCESSING file, its step held, awaiting its source or running, settle, or wait for nothing but a runner on its live job or a bad source | 1 person, 2 jobs, 2 steps | holds, 218,587 states |
| `erase_crossing` | is the erased person's Passport left alone when a gesture of theirs, on a file someone else uploaded, is open during the erase | 2 persons, 2 jobs, 2 steps | violated, see below |
| `labels` | is every gesture, as its callers see it, one step of the contract, and do links and the trail stay right | 2 transactions, 2 files, 2 labels, 2 names | holds, 253,466 states |
| `label_wait` | do the gestures ever wait on each other | 2 transactions | violated, see below |
| `drives` | does a name ever collide, a file land in a drive that is gone, or slip out of a folder or a drive being taken whole | 2 transactions, 2 drives, 2 files, every gesture; paths to depth 2 where the first drive is the only one left, to depth 1 beside another | holds, 1,499,211 states |
| `folder_move` | is a folder's move done or refused, never broken | 1 drive, 2 files, depth 2 | violated, see below |
| `results` | are objects neither lost once landed nor leaked, a person's pages kept, a chain's end clean | 2 pages, an image on one of them, 3 objects, 2 chains of 1 or 2 steps, counts of 1, reports of one page | holds, 112,072 states |
| `page_facts` | are the numbers of a page's facts ever handed twice | 2 pages, 2 chains, 3 facts of a page | violated, see below |
| `renditions` | does a call of `RunnerContext` leave a landed rendition out, or give up for nothing; does an object leak | 2 names, 4 objects, 2 jobs, 3 attempts | holds, 510,074 states |
| `rulesets` | do names or defaults ever clash, is the narrowest rule selected, does a file run the rule it should | 2 transactions, 2 rules, 2 names, 3 patterns, at most 2 of a rule, 1 file of 3 media types | holds, 1,193,850 states |
| `catalogue` | does the copy end as the bucket reads | 2 pods, 2 types, 2 changes, 1 fault | holds, 701,516 states |

Why the bounds are enough. Two jobs are a hand-over, or a reprocess after a
chain's end, with the late messages of the first job crossing the second; with
three jobs and one person, a chain of two steps and then a reprocess, the same
properties were seen to hold, on 2,657,368 states. Two steps have a first, a last and the
boundary between; no handler looks further than one step. Messages kept in a set
and redelivered cover any number of copies. The chain's runs stop when ids run
out, and the labels' runs have no counter: they are every behaviour of those
transactions. The drives' runs bound the ids of files and drives, each used once,
and `MaxDepth` stands for the 1024 bytes of a path: a landing beyond it is
refused. A collision, a file that crosses from one drive to another and a folder
inside a folder each need two of their kind; two open transactions are one that
read and one that changed what it read, any number of others having committed
between. Transactions are alike, so they are a symmetry set; files, labels and
drives are not, their rows being locked in key order. Three objects are a current
one, its replacement and the one asked for after the replacement's window; four
give a second name one of its own. A page above the count and one below it are
the two cases of a trim, and a second chain is what meets the results of a first.
Two rules are a rule and the one in its way; rules, names and transactions are
alike there, and deadlock is checked. Two pods are one that leads and one that
lags; two changes let one cross a scan and the next its application, and one fault
sends a pod over it all again. `MaxFact` is 0 in `results`, where the numbers of
the facts are not asked about. `CHECK_DEADLOCK FALSE` elsewhere because a settled or removed file,
a deleted set of labels, and pods whose catalogue changes no more rightly have
nothing left to do.

Fairness (`FairSpec`, for `chain_liveness` only): a transaction ends; the reaper
gives its verdict on a landed object; the broker delivers every message; Jobs
answers every command. Runners owe nothing: the library keeps no deadline, and a
job no live runner picks up stays live until someone cancels it (the README of the
repository, 826-839). So `ProcessingMovesOn` does not say that processing ends: it
says that a file is never stuck between its own parts, and that what it may wait
for is a runner on a job that is live and has no cancel on its way
(`WaitsForRunner`), or the cancel of a first step whose source the reaper found bad
(`WaitsForBadSource`). Users and host owe nothing: no gesture is fair. Messages are delivered once
there: redeliveries only repeat what `chain` shows to be ignored. In `catalogue`
every pod keeps taking its steps (`watch_runner_types` loops, with a pause of a
minute at most), faults are finitely many, and Jobs owes nothing: `CopyConverges`
asks only that it leave no value that is not JSON, on which a scan fails for ever.

### What the runs found

- `erase_crossing`: the erase drops the Passport of the chains that already name
  the person (`erase.rs:70`), after it has rewritten, and so waited for, the rows
  that name them. A gesture of theirs still open on a file someone else uploaded,
  and that no chain of theirs names yet, is not waited for: committed after the
  erase, it starts a chain that carries on as the erased person, against the
  README's "the chain is not carried on as, nor on behalf of, someone erased". A
  gesture on a file they uploaded is waited for. `chain` shows the sentence true
  when no gesture of the person crosses the erase.
- `label_wait`: `delete_label` loads late files while it holds the label, and
  `set_file_labels` holds its file while it waits for the label. They wait on each
  other, against the comment on the lock order; Postgres aborts one.
- `folder_move`: a folder moved onto its parent with one name at two depths may
  break on the unique index, though every landing is free.
- `page_facts`: a page trimmed at the end of a chain is handed to the host as gone
  at its version plus one (`trim_pages`); written again by a later chain, its row
  is a new one at version 1 (`upsert_pages`), and so is its fact. The sequence of a
  page is neither gap-free nor without a number twice, against `facts.rs` and the
  README, whose fact table refuses the second one: the report is rolled back.

Seen in the models and stated of no run: `update_file` locks the drive its file
turns out to be in after the file, where every other gesture locks drives first,
and so may wait on one of them (the lock is what `TakenWhole` rests on); without a
`driveId` its target is the drive read before any lock, so that a rename crossing
a move takes the file back; `delete_label` records a removal on every file it saw
before it had any lock, one that lost the label meanwhile included;
`create_ruleset` under the id of a rule writes over it, its trigger included, and
`create_label` over a label, each numbering its facts from 1 again, so that a host
with the reference fact table (`UNIQUE (noun, key, seq)`) rolls it back and another
does not; and a regeneration's report overwrites any page it names, whoever wrote it last.

## What is proved

Every invariant and action property that a passing run checks is also a theorem,
for every value of the constants; a run shows it on an instance first, and its
mutants show what it can see. What is assumed of the constants is named, in the
module that declares them, and evaluated by the runs: the bounds are naturals,
positive where none would mean no system (`ChainAssumption`, `ReadAssumption`,
`RulesetsAssumption`), the markers for NULL, nobody, gone or never used are none of
the values they stand beside (`PassportAssumption`, `NoObjectAssumption`,
`NullAssumption`, `NoRowAssumption`, `NowhereAssumption`, `LabelsAssumption`,
`DrivesAssumption`), a pattern is of one of the three kinds the code parses
(`PatternAssumption`), and there is a pod (`CatalogueAssumption`). In each proof
module `IInv` is the inductive invariant, `Invariant` (`ChainInvariant`) the
theorem that it holds, and `TypeCorrect` (`TypesHold`) that `TypeOK` does.

### The chain

- `RowConstraintsHold`, `JobsEndOnce`, `JobsStayKnown`, `PromotionComesFirst`,
  `CancelReleasesHeldStep`: `RowConstraints`, `OneEndPerJob`, `EveryAskedJobKnown`,
  `NoJobBeforePromotion` and `HeldNotCancelled`, with or without redelivery or
  crossing erases, in both erase modes.
- `CancelsStick`, `ChainImplementsContract`: `CancelSticks`, and the refinement
  `ImplementsContract`.
- `NoJobIsForgotten`, `HandoffsNeverRefused`, `RefusalsFreeTheFile`:
  `NoJobForgotten`, `HandoffNeverRefused`, `RefusalFreesTheFile`.
- `ErasedNeverCarriedOn`: `ErasedNotCarriedOn`, where no erase crosses an open
  gesture of the person; where one may, `erase_crossing` refutes it.

None of the invariants is inductive alone. `IInv` adds to them: the row belongs to
a committed file (`RowOfFile`); an open gesture was admitted on a settled file and
keeps it so, and a gesture that saw the source promoted was right (`GestureHolds`);
no id above `minted` is anywhere in the row, the log or the creates
(`MintedInOrder`), so a new job is never one already ended; while the chain has a
step to hand on its bounds hold (`StepsAfforded`); the current job, running or
awaiting, has no end in the log (`CurrentJobOpen`), which is what makes a second
end impossible: each end needs a running job, and leaves none; and no job is asked
before promotion, in the row as in the creates (`AskedAfterPromotion`,
`NothingAskedWhilePending`). The lemmas on the methods say what each returns field
by field; those on the handlers are one per shape of step (a chain ends, a step is
launched, a file is removed, a row is only annotated), and each action is shown to
be one of these shapes. For the contract, each step is one of the nine things that
can happen to a chain (`ChainStep`), and `CancelSticks` follows from the same.

What the library and Jobs hold of each other is `JobsInv`, on top of `IInv`. A job
asked is either on its way to Jobs or judged (`CreatesJudged`). Jobs judges in the
order of the ids, and accepts a job when none is live, so that below an accepted job
none is live and none is waiting (`JudgedInOrder`); a fact is the one end of its job
(`FactsAreEnds`). A step is held only behind a job that ran, and the held id is
above every id asked (`ChainIsNewest`): so when any fact of that job releases the
step, Jobs has nothing left of the file, neither live nor on its way (`PreviousOver`),
and the create stays alone until it is judged (`HandoffAlone`). The first create of a
chain is not so protected, and is refused when a cancelled job is still live:
`RefusalFreesTheFile` is about that one.

### Labels, drives, rulesets

These gestures interleave a lock or a statement at a time, and each invariant is
mostly about the open transactions: `TxnInv` says of each what its place in the
gesture is about (`WellFormed`), which rows it holds (`HoldsItsLocks`) and what it
read that the others cannot have changed (`StillKnows`, `StillPasses`; in `Drives`
`UploadKnows`, `UpdateKnows` and `SweepKnows`). A step of one transaction is then
shown to keep what the others know, because the row that would have to change is
one they hold.

- `LabelsProofs`: `LabelsImplementContract`, the refinement `ImplementsContract`;
  `LinksAlwaysStand`, `TrailAlwaysMatches`; and `NamesStayUnique`, which no run
  states since a step of the contract never gives a name twice. For the contract,
  the commit of a gesture is its step and every other step shows nothing: what it
  needs is that the file and the labels an assignment writes, the label a deletion
  removes and the one a rename renames are held, and so are there. The file an
  assignment holds keeps the labels it read; a label a deletion holds gains
  no file; no name is given while a save has the lock of the names.
- `DrivesProofs`: `CollisionsRefused` (`OthersNeverBroken`), `SweepsTakeAll`
  (`TakenWhole`). Who puts a file in a drive, or takes one out of it for another,
  holds that drive, and who deletes a file holds the file; so a gesture that holds a
  drive sees its files go, never come or move, and a place found free stays free.
  The update that finds its file in another drive than it read takes a second lock
  there, on the drive the file leaves: that lock is what keeps a sweep of that drive
  from taking a file that has left it (`SweepKnows`).
- `RulesetsProofs`: `NamesStayUnique`, `DefaultsStayDisjoint` (the saves hold one lock
  from before their checks to their end, and a deletion only makes room),
  `SelectionIsNarrowest` (`SelectsTheNarrowest`, which follows from the disjoint
  defaults and how patterns match), `ChainsRunTheRightRule` (`RightRuleRuns`) and
  `ChosenRuleKept` (`ChoiceKept`).

### Images, pages, renditions

`BlobRowsProofs` proves, of any table of rows and any set of names, that a request,
a replacement, a promotion, a landing and a release keep `BlobInv`: a landed row's
current object is stored; a pending object is newer than the current one; the
object a row holds was asked for and is not released, though the reaper may have
dropped it (`HeldAsAsked`), every object the storage keeps is held by a row, and no
two rows hold one (`OneHolder`); objects are asked for in order (`AskedInOrder`), and a landing is
sent of an object that was promoted (`LandingsPromoted`). That a landed row has its
object is not inductive without the last four: a late landing is what would break
it.

- `ResultsProofs`: `LandedImagesStored`, `KeptObjectsHeld`, `NothingOlderShown`
  from `BlobInv` over the images; `ReadyPagesWithinCount`, `ChainsEndClean`,
  `EditedPagesKept` from the reports and what ends a chain.
- `RenditionsProofs`: `RenditionObjectsFollow` from the same; `ReadsComplete` and
  `RetriesAreSwaps`, since what a call listed stays, landed, the same or newer, as
  long as its job is the active one (`StillShown`), and a job that is not never is
  again (`JobKnown`).

### The catalogue

`CopyCurrent` (`FollowedIsCurrent`) says nothing of the states on the way, where the
copy may read as anything. The invariant does: the last change a watch has yet to
give of a type is what the bucket holds (`QueuesEndCurrent`), what a pod scanned is
current or its watch has a change of it (`ScanCurrent`), and each type is current in
the copy or some pod is still to write it (`CurrentOrOwed`). An older value written
by a lagging pod is so always followed by that pod's own newer one.

### Only model-checked

The two liveness properties, `ProcessingMovesOn` and `CopyConverges`: the prover does
not reach fairness. And the four properties the violation runs refute, which are
false.

## What is not modelled, and the plan

Left out of what is modelled, and why:

- the progress of a job (queued, started, plan, plan step: the latest wins) and the
  priority of a chain: shown to readers, never read by a decision of the chain;
- `retitle_file`, curated images and the upload's media type: no state another
  handler reads;
- the steps, the versions and the facts of a rule, and the types a save warns of;
- the sequences of the facts of a file, a label, a rule and a processing row: each
  is numbered from the version of its row, which only a create over a row that is
  there sets back;
- the wait of `update_file` for a drive is in `Drives`, but no property forbids it;
- names and paths have no length: `first_free` past 255 bytes is not seen;
- a pod that stops for good is not a `Fault`;
- an erase of the impersonator a Passport may name: a Passport is one person's here;
- a host or a Jobs database restored to an earlier point: Jobs then answers no cancel,
  and the file waits until it is deleted, as the repository's follow-ups say.

Next: contracts like `LabelsContract` for the gestures of `Drives` and `Rulesets`,
and the hazards that have no property yet.

Left out for good: the GraphQL surface and the views (generated, or reads), value
types (parsing), the host's traits (no state), one-off data migrations, and the
example host.
