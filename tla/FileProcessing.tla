--------------------------- MODULE FileProcessing ---------------------------
(***************************************************************************)
(* The aggregate `FileProcessing` of processing/state.rs: the row of       *)
(* drive.file_processing a file has once a chain gave it a job, and the    *)
(* methods that change it.  Each method is an operator from a row to a     *)
(* row; the rows themselves live in the modules that extend this one.      *)
(*                                                                         *)
(* Abstracted: times, display names, runner types, error messages and the  *)
(* runner's own progress.  A job id is a positive number, 0 the nil id or  *)
(* a NULL column.  `log` stands for the facts handed to the host with the  *)
(* row: the events that create or end a job, or that stop a chain between  *)
(* two jobs; the others (queued, started, ignored, ...) change nothing a   *)
(* property tells apart.                                                   *)
(***************************************************************************)
EXTENDS Naturals, FiniteSets

CONSTANTS Person,             \* who can start a chain, hence whose Passport it acts under
          NoPassport,         \* the passport column is NULL
          UnreadablePassport  \* a stored document that no longer reads as a Passport

ASSUME PassportAssumption ==
  /\ NoPassport \notin Person
  /\ UnreadablePassport \notin Person
  /\ NoPassport # UnreadablePassport

NoJob == 0
JobId == Nat \ {NoJob}

Passport == Person \cup {NoPassport, UnreadablePassport}

\* The error codes of a FAILED file; "reported" stands for any code a runner
\* or Jobs gives.
ErrorCode == {"none", "cancelled", "passport_missing", "passport_unreadable", "reported"}

\* The events after which a job runs no more.
EndEvent == {"JobReportedDone", "JobReportedFailed", "JobFailed", "JobCancelled",
             "JobCreationRejected", "JobCancelledOnFreeze", "AwaitedStepDropped"}
\* The events after which a chain goes no further though its last job ended well.
StopEvent == {"StepSkipped", "StepAbandoned"}
Event == [event : EndEvent \cup StopEvent \cup {"JobCreated"}, job : JobId]

Processing ==
  [state : {"processing", "ready", "failed"}, error : ErrorCode,
   job : Nat, step : Nat, past : SUBSET JobId,
   cancel : BOOLEAN, passport : Passport, next : Nat, awaiting : BOOLEAN,
   by : Person \cup {NoPassport},  \* triggered_by_id; NoPassport: nobody, or redacted
   log : SUBSET Event]

(* A file never processed: nothing is stored, the reads show READY. *)
Blank ==
  [state |-> "ready", error |-> "none", job |-> NoJob, step |-> 0, past |-> {},
   cancel |-> FALSE, passport |-> NoPassport, next |-> NoJob, awaiting |-> FALSE,
   by |-> NoPassport, log |-> {}]

-----------------------------------------------------------------------------
(* What the row says. *)

Held(p) == p.next # NoJob

AwaitsSource(p) == p.state = "processing" /\ p.awaiting

\* Mutation: a job whose next step is held still counts as running.
RunsWhileHeld(p) == p.state = "processing" /\ ~p.awaiting

(* A job runs: neither reported done with the next step held, nor a first
   step that waits for its source. *)
IsRunning(p) == p.state = "processing" /\ ~Held(p) /\ ~p.awaiting

(* The two reasons a chain cannot go on under its stored Passport. *)
PassportReason(stored) ==
  IF stored = NoPassport THEN "passport_missing" ELSE "passport_unreadable"

-----------------------------------------------------------------------------
(* The methods that change it. *)

Push(p, event, job) == [p EXCEPT !.log = @ \cup {[event |-> event, job |-> job]}]

\* Mutation: the nil id of a file never processed is retired like a job.
RetireNilToo(p) ==
  [p EXCEPT !.past = @ \cup {p.job}, !.error = "none", !.cancel = FALSE]

\* Mutation: a retired job is forgotten.
RetireForgetting(p) == [p EXCEPT !.error = "none", !.cancel = FALSE]

RetireCurrentJob(p) ==
  [p EXCEPT !.past = IF p.job = NoJob THEN @ ELSE @ \cup {p.job},
            !.error = "none",
            !.cancel = FALSE]

(* The person who starts a chain is its initiator, and lends it a Passport. *)
StartChain(p, person) == [p EXCEPT !.passport = person, !.by = person]

CreateJob(p, job, step, passport) ==
  LET current == IF p.job = job THEN p ELSE RetireCurrentJob(p)
  IN Push([current EXCEPT !.passport = passport, !.next = NoJob, !.awaiting = FALSE,
                          !.state = "processing", !.job = job, !.step = step],
          "JobCreated", job)

AwaitSource(p, job) ==
  [RetireCurrentJob(p) EXCEPT !.next = NoJob, !.awaiting = TRUE,
                              !.state = "processing", !.job = job, !.step = 0]

\* Mutation: a chain that ended keeps its Passport.
EndKeepingPassport(p, error) ==
  [p EXCEPT !.next = NoJob, !.awaiting = FALSE,
            !.state = IF error = "none" THEN "ready" ELSE "failed",
            !.error = error]

(* The chain is over: READY without an error, else FAILED with it. *)
End(p, error) ==
  [p EXCEPT !.passport = NoPassport, !.next = NoJob, !.awaiting = FALSE,
            !.state = IF error = "none" THEN "ready" ELSE "failed",
            !.error = error]

ReportDone(p) == Push(End(p, "none"), "JobReportedDone", p.job)

ReportDoneHolding(p, next) == Push([p EXCEPT !.next = next], "JobReportedDone", p.job)

ReportFailed(p) == Push(End(p, "reported"), "JobReportedFailed", p.job)

SkipStep(p) == Push(End(p, "cancelled"), "StepSkipped", p.job)

AbandonStep(p, reason) == Push(End(p, reason), "StepAbandoned", p.job)

DropAwaitedStep(p, reason) == Push(End(p, reason), "AwaitedStepDropped", p.job)

RequestCancel(p) == [p EXCEPT !.cancel = TRUE]

CancelOnFreeze(p) ==
  Push(End(RequestCancel(p), "cancelled"), "JobCancelledOnFreeze", p.job)

-----------------------------------------------------------------------------
(* A fact of Jobs about `job`, one of the file's jobs. *)

JobFact == {"completed", "failed", "cancelled", "creation_rejected"}

EndEventOf(fact) ==
  CASE fact = "failed"    -> "JobFailed"
    [] fact = "cancelled" -> "JobCancelled"
    [] OTHER              -> "JobCreationRejected"

ErrorOf(fact) == IF fact = "cancelled" THEN "cancelled" ELSE "reported"

\* Mutation: a refused creation is noted and nothing more.
RefusalOnlyNoted(p, job, fact) ==
  CASE job # p.job -> "ignored"
    [] job = p.job /\ Held(p) -> "released"
    [] job = p.job /\ fact \in {"failed", "cancelled"} /\ IsRunning(p) -> "ended"
    [] OTHER -> "ignored"

(* What the fact does: "ignored" (or only noted), "ended" the running job, or
   "released" the held next step. *)
Applied(p, job, fact) ==
  CASE job # p.job          -> "ignored"
    [] job = p.job /\ Held(p) -> "released"
    [] job = p.job /\ ~Held(p) /\ fact # "completed" /\ IsRunning(p) -> "ended"
    [] OTHER                -> "ignored"

Receive(p, job, fact) ==
  IF Applied(p, job, fact) = "ended"
    THEN Push(End(p, ErrorOf(fact)), EndEventOf(fact), job)
    ELSE p
=============================================================================
