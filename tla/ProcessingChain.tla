--------------------------- MODULE ProcessingChain ---------------------------
(***************************************************************************)
(* A file, its processing chain, and what happens around it: the users'    *)
(* gestures, the runner's reports, the source's promotion, the library's   *)
(* reactions, and Jobs, the service that runs the steps.                   *)
(*                                                                         *)
(* Every chain is keyed by its file and no handler of a chain reads        *)
(* another file, so one file is modelled.  A handler of the library is one *)
(* transaction that takes the file's row lock first: one action.  The      *)
(* exception is the gesture that starts a chain, which reads the source    *)
(* blob's state, a row it does not lock, before it writes: two actions,    *)
(* the lock held between them (`gesture`).                                 *)
(*                                                                         *)
(* Jobs, the broker and the blob reaper are external: they are modelled    *)
(* from what the library relies on.  Jobs consumes job.create, job.finish, *)
(* job.fail and job.cancel on consumers of their own, in no order among    *)
(* them; the creates of one file reach it in the order they were staged.   *)
(* Its facts, and the library's own commands, reach the library in any     *)
(* order, each at least once: a delivered message is kept, to be delivered *)
(* again (`Redelivers`), or taken away, the least the broker promises.     *)
(***************************************************************************)
EXTENDS FileProcessing

CONSTANTS MaxJobs,        \* bound: job ids minted for the file
          MaxSteps,       \* bound: steps of a rule's chain
          CrossingErase,  \* may an erase run while a gesture of that person is still open?
          EraseDeletes,   \* DriveHost::erase_mode: Delete (TRUE) or Anonymise
          Redelivers,     \* does the broker deliver messages again, any number of times?
          Uploader        \* the person who uploaded the file (file.created_by)

ASSUME ChainAssumption ==
  /\ MaxJobs \in Nat \ {0}
  /\ MaxSteps \in Nat \ {0}
  /\ CrossingErase \in BOOLEAN
  /\ EraseDeletes \in BOOLEAN
  /\ Redelivers \in BOOLEAN
  /\ Uploader \in Person

VARIABLES
  file,        \* "pending" until its upload is committed, then "committed", "gone" once deleted
  steps,       \* the number of steps of the chain's snapshot (0: no chain yet)
  proc,        \* the row of drive.file_processing (Blank when there is none)
  gesture,     \* the open transaction of a gesture that starts a chain
  minted,      \* job ids minted so far
  blob,        \* external: the source blob's state
  promotions,  \* the library's own source-promoted commands to deliver
  asked,       \* the job.create staged for each job id
  outbox,      \* commands staged for Jobs and not consumed
  jobs,        \* external: what Jobs holds of each job
  facts,       \* external: facts Jobs published and the library may still be delivered
  erased,      \* the persons the host erased
  lost         \* jobs whose cancel Jobs consumed before their creation, and dropped

rowVars == <<file, steps, proc, gesture, minted>>
sourceVars == <<blob, promotions>>
jobsVars == <<jobs, facts, lost>>
vars == <<file, steps, proc, gesture, minted, blob, promotions, asked, outbox,
          jobs, facts, erased, lost>>

Job == 1..MaxJobs
NotAsked == [step |-> 0, passport |-> NoPassport]
Closed == [by |-> NoPassport, steps |-> 0, pending |-> FALSE]

Command == [command : {"create", "finish", "fail", "cancel"}, job : Job]
FactMessage == [fact : JobFact, job : Job, active : {NoJob}]
  \cup [fact : {"creation_rejected"}, job : Job, active : Job]
JobState == {"unknown", "live", "completed", "failed", "cancelled", "rejected"}

Cmd(command, job) == [command |-> command, job |-> job]
FactOf(fact, job) == [fact |-> fact, job |-> job, active |-> NoJob]

TypeOK ==
  /\ file \in {"pending", "committed", "gone"}
  /\ steps \in 0..MaxSteps
  /\ proc \in Processing
  /\ gesture \in [by : Person \cup {NoPassport}, steps : 0..MaxSteps, pending : BOOLEAN]
  /\ minted \in 0..MaxJobs
  /\ blob \in {"pending", "uploaded", "failed"}
  /\ promotions \in BOOLEAN
  /\ asked \in [Job -> [step : Nat, passport : Passport]]
  /\ outbox \subseteq Command
  /\ jobs \in [Job -> JobState]
  /\ facts \subseteq FactMessage
  /\ erased \subseteq Person
  /\ lost \subseteq Job

Init ==
  /\ file = "pending"
  /\ steps = 0
  /\ proc = Blank
  /\ gesture = Closed
  /\ minted = 0
  /\ blob = "pending"
  /\ promotions = FALSE
  /\ asked = [j \in Job |-> NotAsked]
  /\ outbox = {}
  /\ jobs = [j \in Job |-> "unknown"]
  /\ facts = {}
  /\ erased = {}
  /\ lost = {}

-----------------------------------------------------------------------------
(* The locked file: no transaction that loads it runs while a gesture holds
   its row. *)
Unlocked == gesture = Closed

Settled == file = "committed" /\ proc.state \in {"ready", "failed"}

(* FileRow::active_job: a running job, not one reported done with the next
   step held, nor a first step that awaits its source. *)
IsActive(job) == file = "committed" /\ proc.job = job /\ IsRunning(proc)

NextIndex == proc.step + 1
\* Mutation: one step too many.
OneStepTooMany == NextIndex <= steps
HasNextStep == NextIndex < steps

-----------------------------------------------------------------------------
(* chain.rs: what a handler does to the row and stages for Jobs.  `p` is the
   row the handler loaded, as it changed it so far; `staged` the commands of
   the transaction besides the create. *)

LaunchStep(p, job, step, passport, staged) ==
  /\ proc' = CreateJob(p, job, step, passport)
  /\ asked' = [asked EXCEPT ![job] = [step |-> step, passport |-> passport]]
  /\ outbox' = outbox \cup staged \cup {Cmd("create", job)}

Save(p, staged) ==
  /\ proc' = p
  /\ outbox' = outbox \cup staged
  /\ UNCHANGED asked

SkipNextStep(p, staged) == Save(SkipStep(p), staged)

DropAwaited(p, reason) == Save(DropAwaitedStep(p, reason), {})

AbandonNextStep(p, staged) == Save(AbandonStep(p, PassportReason(p.passport)), staged)

(* Jobs ended the job reported done: the held step is asked of Jobs. *)
ReleaseNextStep(p) ==
  \/ /\ p.cancel
     /\ SkipNextStep(p, {})
  \/ /\ ~p.cancel
     /\ p.passport \in Person
     /\ LaunchStep(p, p.next, p.step + 1, p.passport, {})
  \/ /\ ~p.cancel
     /\ p.passport \notin Person
     /\ AbandonNextStep(p, {})

(* The source was promoted: the awaited first step is asked of Jobs. *)
ReleaseAwaitedStep(p) ==
  \/ /\ p.passport \in Person
     /\ LaunchStep(p, p.job, p.step, p.passport, {})
  \/ /\ p.passport \notin Person
     /\ DropAwaited(p, PassportReason(p.passport))

-----------------------------------------------------------------------------
(* The gestures that start a chain: CommitUpload on a host that processes on
   commit, ProcessFile, RegeneratePage.  They load the file (its lock), pass
   their gate, choose a rule or replay the snapshot, and read the source
   blob's state. *)
OpenGesture(person, n) ==
  /\ Unlocked
  /\ person \notin erased
  /\ \/ file = "pending" /\ blob # "failed"
     \/ Settled
  /\ minted + n <= MaxJobs   \* bound: the ids the whole chain may need
  /\ gesture' = [by |-> person, steps |-> n, pending |-> (blob = "pending")]
  /\ UNCHANGED <<file, steps, proc, minted, sourceVars, asked, outbox, jobsVars, erased>>

\* Mutation: the first job is asked whether or not the source was promoted.
CommitWithoutWaiting ==
  /\ ~Unlocked
  /\ file' = "committed"
  /\ steps' = gesture.steps
  /\ minted' = minted + 1
  /\ LaunchStep(StartChain(proc, gesture.by), minted + 1, 0, gesture.by, {})
  /\ gesture' = Closed
  /\ UNCHANGED <<sourceVars, jobsVars, erased>>

(* ... and write: the snapshot, then a first step that awaits its source, or
   a first job. *)
CommitGesture ==
  /\ ~Unlocked
  /\ file' = "committed"
  /\ steps' = gesture.steps
  /\ minted' = minted + 1
  /\ LET p == StartChain(proc, gesture.by)
     IN IF gesture.pending
          THEN Save(AwaitSource(p, minted + 1), {})
          ELSE LaunchStep(p, minted + 1, 0, gesture.by, {})
  /\ gesture' = Closed
  /\ UNCHANGED <<sourceVars, jobsVars, erased>>

(* The gesture is refused late, or its process dies: the transaction rolls
   back. *)
RollBackGesture ==
  /\ ~Unlocked
  /\ gesture' = Closed
  /\ UNCHANGED <<file, steps, proc, minted, sourceVars, asked, outbox, jobsVars, erased>>

(* CommitUpload that starts no chain: the host processes on demand, or no
   rule matches. *)
CommitStoredOnly ==
  /\ Unlocked
  /\ file = "pending"
  /\ blob # "failed"
  /\ file' = "committed"
  /\ UNCHANGED <<steps, proc, gesture, minted, sourceVars, asked, outbox, jobsVars, erased>>

\* Mutation: a cancel asked while the next step is held only marks the row.
CancelOnlyMarked ==
  /\ Unlocked
  /\ file = "committed"
  /\ proc.state = "processing"
  /\ \/ /\ AwaitsSource(proc)
        /\ DropAwaited(proc, "cancelled")
     \/ /\ ~AwaitsSource(proc)
        /\ Save(RequestCancel(proc), {Cmd("cancel", proc.job)})
  /\ UNCHANGED <<file, steps, gesture, minted, sourceVars, jobsVars, erased>>

CancelProcessing ==
  /\ Unlocked
  /\ file = "committed"
  /\ proc.state = "processing"
  /\ \/ /\ AwaitsSource(proc)
        /\ DropAwaited(proc, "cancelled")
     \/ /\ ~AwaitsSource(proc)
        /\ Held(proc)
        /\ SkipNextStep(RequestCancel(proc), {Cmd("cancel", proc.job)})
     \/ /\ ~AwaitsSource(proc)
        /\ ~Held(proc)
        /\ Save(RequestCancel(proc), {Cmd("cancel", proc.job)})
  /\ UNCHANGED <<file, steps, gesture, minted, sourceVars, jobsVars, erased>>

(* freeze_drive, for this file of the drive. *)
FreezeFile ==
  /\ Unlocked
  /\ file = "committed"
  /\ proc.state = "processing"
  /\ \/ /\ AwaitsSource(proc)
        /\ DropAwaited(proc, "cancelled")
     \/ /\ ~AwaitsSource(proc)
        /\ Held(proc)
        /\ SkipNextStep(proc, {})
     \/ /\ ~AwaitsSource(proc)
        /\ ~Held(proc)
        /\ Save(CancelOnFreeze(proc), {Cmd("cancel", proc.job)})
  /\ UNCHANGED <<file, steps, gesture, minted, sourceVars, jobsVars, erased>>

(* The row goes, its processing with it. *)
RemoveFile ==
  /\ file' = "gone"
  /\ steps' = 0
  /\ proc' = Blank
  /\ UNCHANGED <<gesture, minted, sourceVars, asked, jobsVars>>

\* Mutation: the active job is left running.
DeleteWithoutCancel ==
  /\ Unlocked
  /\ file # "gone"
  /\ RemoveFile
  /\ UNCHANGED <<outbox, erased>>

(* DeleteFile, DeleteFolder, delete_drive: the active job is cancelled. *)
DeleteFile ==
  /\ Unlocked
  /\ file # "gone"
  /\ outbox' = outbox \cup {Cmd("cancel", j) : j \in {i \in Job : IsActive(i)}}
  /\ RemoveFile
  /\ UNCHANGED erased

(* upload_deadline, and a freeze, of an upload never confirmed. *)
AbandonUpload ==
  /\ Unlocked
  /\ file = "pending"
  /\ RemoveFile
  /\ UNCHANGED <<outbox, erased>>

(* The rows of the file that name the person: as its uploader, or as the
   initiator of its chain. *)
Names(person) == file # "gone" /\ (person = Uploader \/ proc.by = person)

\* Mutation: a chain keeps the Passport of who is erased.
EraseKeepingPassports(person) ==
  /\ person \notin erased
  /\ Names(person) => Unlocked
  /\ gesture.by = person => CrossingErase
  /\ erased' = erased \cup {person}
  /\ UNCHANGED <<file, steps, proc, gesture, minted, sourceVars, asked, outbox, jobsVars>>

Redact(p, person) ==
  [p EXCEPT !.by = IF @ = person THEN NoPassport ELSE @,
            !.passport = IF @ = person THEN NoPassport ELSE @]

(* The host erases a person: in mode Delete the files they uploaded go, no
   job cancelled; else, and besides, the initiator of a chain they started is
   redacted and the Passport of a chain acting under theirs dropped.  The
   rewrite of a file's row they are named on waits for the gesture that holds
   it; a gesture of theirs still open on a file that does not name them yet
   is not waited for. *)
ErasePerson(person) ==
  /\ person \notin erased
  /\ Names(person) => Unlocked
  /\ gesture.by = person => CrossingErase
  /\ erased' = erased \cup {person}
  /\ \/ /\ EraseDeletes
        /\ person = Uploader
        /\ file # "gone"
        /\ RemoveFile
        /\ UNCHANGED outbox
     \/ /\ ~(EraseDeletes /\ person = Uploader /\ file # "gone")
        /\ proc' = Redact(proc, person)
        /\ UNCHANGED <<file, steps, gesture, minted, sourceVars, asked, outbox, jobsVars>>

(* A release of the library that no longer reads the stored document. *)
PassportSpoils ==
  /\ Unlocked
  /\ proc.passport \in Person
  /\ proc' = [proc EXCEPT !.passport = UnreadablePassport]
  /\ UNCHANGED <<file, steps, gesture, minted, sourceVars, asked, outbox, jobsVars, erased>>

-----------------------------------------------------------------------------
(* The runner of a job Jobs accepted, whatever became of the job since. *)
Dispatched(job) == jobs[job] \notin {"unknown", "rejected"}

\* Mutation: the next step is asked of Jobs at once, beside the finish.
HandedOnAtOnce(job) ==
  /\ Unlocked
  /\ Dispatched(job)
  /\ IsActive(job)
  /\ IF HasNextStep /\ proc.passport \in Person
       THEN /\ LaunchStep(ReportDoneHolding(proc, minted + 1), minted + 1, NextIndex,
                          proc.passport, {Cmd("finish", job)})
            /\ minted' = minted + 1
       ELSE /\ Save(ReportDone(proc), {Cmd("finish", job)})
            /\ UNCHANGED minted
  /\ UNCHANGED <<file, steps, gesture, sourceVars, jobsVars, erased>>

\* Mutation: a final report does not see that a cancel was asked.
DoneDespiteCancel(job) ==
  /\ Unlocked
  /\ Dispatched(job)
  /\ IsActive(job)
  /\ IF HasNextStep
       THEN /\ Save(ReportDoneHolding(proc, minted + 1), {Cmd("finish", job)})
            /\ minted' = minted + 1
       ELSE /\ Save(ReportDone(proc), {Cmd("finish", job)})
            /\ UNCHANGED minted
  /\ UNCHANGED <<file, steps, gesture, sourceVars, jobsVars, erased>>

(* RunnerReport with `done`: the final report ends the job. *)
RunnerReportsDone(job) ==
  /\ Unlocked
  /\ Dispatched(job)
  /\ IsActive(job)
  /\ LET finish == {Cmd("finish", job)}
     IN \/ /\ ~HasNextStep
           /\ Save(ReportDone(proc), finish)
           /\ UNCHANGED minted
        \/ /\ HasNextStep
           /\ proc.cancel
           /\ SkipNextStep(ReportDone(proc), finish)
           /\ UNCHANGED minted
        \/ /\ HasNextStep
           /\ ~proc.cancel
           /\ proc.passport \notin Person
           /\ Save(AbandonStep(ReportDone(proc), PassportReason(proc.passport)), finish)
           /\ UNCHANGED minted
        \/ /\ HasNextStep
           /\ ~proc.cancel
           /\ proc.passport \in Person
           /\ Save(ReportDoneHolding(proc, minted + 1), finish)
           /\ minted' = minted + 1
  /\ UNCHANGED <<file, steps, gesture, sourceVars, jobsVars, erased>>

(* RunnerReportFailure. *)
RunnerReportsFailure(job) ==
  /\ Unlocked
  /\ Dispatched(job)
  /\ IsActive(job)
  /\ Save(ReportFailed(proc), {Cmd("fail", job)})
  /\ UNCHANGED <<file, steps, gesture, minted, sourceVars, jobsVars, erased>>

-----------------------------------------------------------------------------
(* The blob reaper verifies the landed source and promotes it, commanding the
   library when the source is a file's; or finds it bad. *)
Promote ==
  /\ blob = "pending"
  /\ blob' = "uploaded"
  /\ promotions' = (file # "gone")
  /\ UNCHANGED <<rowVars, asked, outbox, jobsVars, erased>>

SourceFails ==
  /\ blob = "pending"
  /\ blob' = "failed"
  /\ UNCHANGED <<rowVars, promotions, asked, outbox, jobsVars, erased>>

(* source_promoted_reaction. *)
SourcePromoted ==
  /\ Unlocked
  /\ promotions
  /\ promotions' = Redelivers
  /\ \/ /\ AwaitsSource(proc)
        /\ ReleaseAwaitedStep(proc)
     \/ /\ ~AwaitsSource(proc)
        /\ UNCHANGED <<proc, asked, outbox>>
  /\ UNCHANGED <<file, steps, gesture, minted, blob, jobsVars, erased>>

-----------------------------------------------------------------------------
(* Jobs. *)

Consume(command, job) ==
  /\ Cmd(command, job) \in outbox
  /\ outbox' = outbox \ {Cmd(command, job)}
  /\ UNCHANGED <<rowVars, sourceVars, asked, erased>>

Live == {j \in Job : jobs[j] = "live"}

Settle(job, state) == jobs' = [jobs EXCEPT ![job] = state]
Publish(m) == facts' = facts \cup {m}

(* One live job per source entity: a second one is refused, naming the
   first.  Any other refusal (a retired runner type) names none. *)
JobsJudgesCreate(job) ==
  /\ \A j \in Job : Cmd("create", j) \in outbox => job <= j
  /\ Consume("create", job)
  /\ \/ /\ Live = {}
        /\ Settle(job, "live")
        /\ UNCHANGED facts
     \/ \E active \in Live :
        /\ Settle(job, "rejected")
        /\ Publish([fact |-> "creation_rejected", job |-> job, active |-> active])
     \/ /\ Live = {}
        /\ Settle(job, "rejected")
        /\ Publish(FactOf("creation_rejected", job))
  /\ UNCHANGED lost

JobsFinishes(job) ==
  /\ Consume("finish", job)
  /\ IF jobs[job] = "live"
       THEN Settle(job, "completed") /\ Publish(FactOf("completed", job))
       ELSE UNCHANGED <<jobs, facts>>
  /\ UNCHANGED lost

JobsFails(job) ==
  /\ Consume("fail", job)
  /\ IF jobs[job] = "live"
       THEN Settle(job, "failed") /\ Publish(FactOf("failed", job))
       ELSE UNCHANGED <<jobs, facts>>
  /\ UNCHANGED lost

(* A cancel consumed before the job's creation is dropped. *)
JobsCancels(job) ==
  /\ Consume("cancel", job)
  /\ IF jobs[job] = "live"
       THEN Settle(job, "cancelled") /\ Publish(FactOf("cancelled", job))
       ELSE UNCHANGED <<jobs, facts>>
  /\ lost' = IF jobs[job] = "unknown" THEN lost \cup {job} ELSE lost

(* A run of the job times out, crashes, or is reported failed to Jobs. *)
JobsBackstop(job) ==
  /\ jobs[job] = "live"
  /\ Settle(job, "failed")
  /\ Publish(FactOf("failed", job))
  /\ UNCHANGED <<rowVars, sourceVars, asked, outbox, erased, lost>>

-----------------------------------------------------------------------------
(* reactions.rs: a fact reaches the library. *)

JobOfFile(job) == file = "committed" /\ job \in proc.past \cup {proc.job}

\* Mutation: the job that stood in the way is left alone.
NoRecovery(m) == {}

(* on_creation_rejected: the live job that stood in the way is cancelled. *)
RecoveryCancel(m) ==
  IF /\ m.fact = "creation_rejected"
     /\ m.active # NoJob
     /\ Applied(proc, m.job, m.fact) = "ended"
    THEN {Cmd("cancel", m.active)}
    ELSE {}

ReceiveFact(m) ==
  /\ Unlocked
  /\ m \in facts
  /\ facts' = IF Redelivers THEN facts ELSE facts \ {m}
  /\ \/ /\ ~JobOfFile(m.job)
        /\ UNCHANGED <<proc, asked, outbox>>
     \/ /\ JobOfFile(m.job)
        /\ Applied(proc, m.job, m.fact) = "released"
        /\ ReleaseNextStep(proc)
     \/ /\ JobOfFile(m.job)
        /\ Applied(proc, m.job, m.fact) # "released"
        /\ Save(Receive(proc, m.job, m.fact), RecoveryCancel(m))
  /\ UNCHANGED <<file, steps, gesture, minted, sourceVars, jobs, erased, lost>>

-----------------------------------------------------------------------------
Gestures ==
  \/ \E person \in Person, n \in 1..MaxSteps : OpenGesture(person, n)
  \/ CommitGesture
  \/ RollBackGesture
  \/ CommitStoredOnly
  \/ CancelProcessing
  \/ FreezeFile
  \/ DeleteFile
  \/ AbandonUpload
  \/ \E person \in Person : ErasePerson(person)
  \/ PassportSpoils

Runner == \E job \in Job : RunnerReportsDone(job) \/ RunnerReportsFailure(job)

Source == Promote \/ SourceFails \/ SourcePromoted

Jobs == \E job \in Job :
  \/ JobsJudgesCreate(job)
  \/ JobsFinishes(job)
  \/ JobsFails(job)
  \/ JobsCancels(job)
  \/ JobsBackstop(job)

Facts == \E m \in facts : ReceiveFact(m)

Next == Gestures \/ Runner \/ Source \/ Jobs \/ Facts

Spec == Init /\ [][Next]_vars

(* What is bound to happen.  An open transaction ends; the reaper gives its
   verdict on a landed source; the broker delivers each message; Jobs answers
   each command.  Nothing is assumed of the runners: the library keeps no
   deadline, and a job no live runner picks up is never failed.  Nor of the
   users, of the host, or of what only delays: a rollback, a redelivery. *)
Fairness ==
  /\ WF_vars(CommitGesture \/ RollBackGesture)
  /\ WF_vars(Promote \/ SourceFails)
  /\ WF_vars(SourcePromoted)
  /\ \A j \in Job :
       /\ WF_vars(JobsJudgesCreate(j))
       /\ WF_vars(JobsFinishes(j))
       /\ WF_vars(JobsFails(j))
       /\ WF_vars(JobsCancels(j))
  /\ \A m \in FactMessage : WF_vars(ReceiveFact(m))

FairSpec == Spec /\ Fairness

-----------------------------------------------------------------------------
(* Safety. *)

WasAsked(job) == asked[job].passport # NoPassport
Logged(event, job) == [event |-> event, job |-> job] \in proc.log

(* The CHECK constraints of drive.file_processing, which abort a transaction
   that breaks one, and the two the migrations only state in words: a next
   step is held only behind a job reported done, and an awaited first step
   was never asked of Jobs. *)
RowConstraints ==
  /\ (proc.state = "failed") <=> (proc.error # "none")
  /\ proc.passport # NoPassport => proc.state = "processing"
  /\ Held(proc) => proc.state = "processing" /\ Logged("JobReportedDone", proc.job)
  /\ proc.awaiting =>
       /\ proc.state = "processing"
       /\ ~Held(proc)
       /\ proc.job \in Job => ~WasAsked(proc.job)

(* A job ends once: the first of the runner's report, Jobs' facts, a freeze
   and a drop that reaches the row is the job's only end in the recorded
   facts, in whatever order the others come and come again. *)
OneEndPerJob ==
  \A e, f \in proc.log :
    e.job = f.job /\ {e.event, f.event} \subseteq EndEvent => e = f

(* Every job the library ever asked of Jobs for the file stays known as one
   of its jobs: were one forgotten, file_of_job would find no file for its
   late facts and a held step waiting for one would never move. *)
EveryAskedJobKnown ==
  file = "committed" => \A j \in Job : WasAsked(j) => j \in proc.past \cup {proc.job}

(* The hand-off: while the create of a next step is on its way, Jobs holds no
   live job of the file, so that it can never refuse the step
   duplicate_active_entity. *)
HandoffNeverRefused ==
  \A j \in Job : Cmd("create", j) \in outbox /\ asked[j].step > 0 => Live = {}

(* No runner is ever handed a source it cannot read yet: no job is asked of
   Jobs while the source awaits its promotion. *)
NoJobBeforePromotion == (\E j \in Job : WasAsked(j)) => blob # "pending"

(* A job the library asked for and no longer counts as running never stays
   alive in Jobs unannounced: its finish, fail or cancel is on its way, or
   was a cancel Jobs dropped because it had not created the job yet.  An
   erase that deletes the file is the exception the code documents. *)
NoJobForgotten ==
  \A j \in Job :
    /\ jobs[j] = "live" \/ Cmd("create", j) \in outbox
    /\ ~IsActive(j)
    => \/ \E command \in {"finish", "fail", "cancel"} : Cmd(command, j) \in outbox
       \/ j \in lost
       \/ EraseDeletes /\ Uploader \in erased

(* Jobs refused a job behind another live one, and the file failed for it:
   that live job is being cancelled, so that a reprocess gets through. *)
RefusalFreesTheFile ==
  \A m \in facts :
    /\ m.fact = "creation_rejected"
    /\ m.active # NoJob
    /\ Logged("JobCreationRejected", m.job)
    => jobs[m.active] # "live" \/ Cmd("cancel", m.active) \in outbox

(* A cancel never waits beside a held step: a user's cancel skips the step at
   once, and a report that finds a cancel holds none (the comment of
   release_next_step). *)
HeldNotCancelled == Held(proc) => ~proc.cancel

-----------------------------------------------------------------------------
(* What a step may never do. *)

(* A user's cancel sticks to the chain it was asked of: from there the chain
   starts no other job, and ends READY only if nothing was left to run. *)
CancelSticks ==
  [][proc.state = "processing" /\ proc.cancel /\ file' = "committed" =>
       /\ proc'.job = proc.job
       /\ ~Held(proc')
       /\ proc'.state = "ready" => ~HasNextStep]_vars

(* No job is asked of Jobs under the Passport of a person already erased: a
   chain is not carried on as someone erased (README, "Erase"). *)
ErasedNotCarriedOn ==
  [][\A j \in Job : asked'[j] # asked[j] => asked'[j].passport \notin erased]_vars

(* The row implements the contract of a chain. *)
Phase ==
  CASE file = "gone" -> "gone"
    [] file # "gone" /\ proc.state # "processing" -> "idle"
    [] file # "gone" /\ AwaitsSource(proc) -> "waiting"
    [] file # "gone" /\ proc.state = "processing" /\ ~proc.awaiting /\ Held(proc) -> "held"
    [] OTHER -> "running"

Outcome == IF file = "gone" \/ proc.state = "processing" THEN "none" ELSE proc.state

Contract == INSTANCE ChainContract WITH
  phase <- Phase, step <- proc.step, length <- steps, outcome <- Outcome

(* The steps of a chain run in order, one at a time, each after the previous
   was reported done, and the file is READY only past the last. *)
ImplementsContract == Contract!ContractSpec

-----------------------------------------------------------------------------
(* Liveness. *)

(* The file's job is live in Jobs and not on its way out: its runner, if one
   is there, is all it waits for.  A cancel asked of it in vain is one Jobs
   dropped, having consumed it before the job's creation. *)
WaitsForRunner ==
  /\ IsActive(proc.job)
  /\ jobs[proc.job] = "live"
  /\ proc.cancel => proc.job \in lost

(* A first step awaits a source the reaper found bad: only a user's cancel
   drops it. *)
WaitsForBadSource == AwaitsSource(proc) /\ blob = "failed"

(* Whatever crosses, a PROCESSING file is never stuck between its own parts:
   it goes on until it settles, waits for a runner to work on its live job
   (README, "one way out", for a runner that never comes) or for a source that
   is bad.  So a next step held until Jobs ends the previous job moves on,
   whichever way Jobs ends it; a first step that awaits its source does,
   though the promotion may cross the gesture that decided to wait; a refused
   creation fails the file; and a cancel ends the processing, unless Jobs
   dropped it. *)
ProcessingMovesOn ==
  (proc.state = "processing") ~>
    (proc.state # "processing" \/ WaitsForRunner \/ WaitsForBadSource)
=============================================================================
