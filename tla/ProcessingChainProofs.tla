------------------------ MODULE ProcessingChainProofs ------------------------
(***************************************************************************)
(* Proofs about ProcessingChain, for any persons, number of jobs and       *)
(* number of steps.                                                        *)
(*                                                                         *)
(* First, what each method of the aggregate makes of a row, field by       *)
(* field: the form in which the provers use the methods, which stay opaque *)
(* elsewhere.                                                              *)
(*                                                                         *)
(* The safety properties of a chain are not inductive one by one: that a   *)
(* job ends once rests on the ids being minted in order and on what the    *)
(* log may already say of the current job, that no job is asked before the *)
(* promotion rests on what the open gesture read.  IInv gathers them.      *)
(*                                                                         *)
(* Then what a step can make of the chain, and what follows: a cancel      *)
(* sticks, and the row implements the contract of a chain.                 *)
(*                                                                         *)
(* Then the row against Jobs, which no property of the row alone can tell: *)
(* JobsInv gathers what the commands on their way, the jobs Jobs holds and *)
(* the facts it published say of each other.  Last, who a chain acts for   *)
(* once a person is erased.                                                *)
(***************************************************************************)
EXTENDS ProcessingChain, TLAPS

(* The row p, field by field. *)
Row(p, state, error, job, step, past, cancel, passport, next, awaiting, log) ==
  /\ p \in Processing
  /\ p.state = state
  /\ p.error = error
  /\ p.job = job
  /\ p.step = step
  /\ p.past = past
  /\ p.cancel = cancel
  /\ p.passport = passport
  /\ p.next = next
  /\ p.awaiting = awaiting
  /\ p.log = log

(* The row of a file never processed is a row. *)
LEMMA BlankRow == Blank \in Processing
  BY DEF Blank, Processing, Passport, ErrorCode, NoJob, JobId, Event

(* Push records one more event and changes nothing else. *)
LEMMA PushRow ==
  ASSUME NEW p \in Processing, NEW event \in EndEvent \cup StopEvent \cup {"JobCreated"},
         NEW job \in JobId
  PROVE  Row(Push(p, event, job), p.state, p.error, p.job, p.step, p.past, p.cancel,
             p.passport, p.next, p.awaiting, p.log \cup {[event |-> event, job |-> job]})
<1>1. Push(p, event, job) \in Processing
  BY DEF Push, Processing, Event
<1> QED
  BY <1>1 DEF Push, Processing, Row

(* The current job joins the past ones, without its error and its cancel. *)
LEMMA RetireCurrentJobRow ==
  ASSUME NEW p \in Processing
  PROVE  Row(RetireCurrentJob(p), p.state, "none", p.job, p.step,
             IF p.job = NoJob THEN p.past ELSE p.past \cup {p.job}, FALSE,
             p.passport, p.next, p.awaiting, p.log)
<1>1. RetireCurrentJob(p) \in Processing
  BY DEF RetireCurrentJob, Processing, JobId, NoJob, ErrorCode
<1> QED
  BY <1>1 DEF RetireCurrentJob, Processing, Row

(* The chain keeps who started it, and the Passport it acts under. *)
LEMMA StartChainRow ==
  ASSUME NEW p \in Processing, NEW person \in Person
  PROVE  Row(StartChain(p, person), p.state, p.error, p.job, p.step, p.past, p.cancel,
             person, p.next, p.awaiting, p.log)
<1>1. StartChain(p, person) \in Processing
  BY DEF StartChain, Processing, Passport
<1> QED
  BY <1>1 DEF StartChain, Processing, Row

(* A stored Passport is replaced, and nothing else changes. *)
LEMMA PassportReplacedRow ==
  ASSUME NEW p \in Processing, NEW passport \in Passport
  PROVE  Row([p EXCEPT !.passport = passport], p.state, p.error, p.job, p.step, p.past, p.cancel,
             passport, p.next, p.awaiting, p.log)
<1>1. [p EXCEPT !.passport = passport] \in Processing
  BY DEF Processing
<1> QED
  BY <1>1 DEF Processing, Row

(* An erase takes the person's name and Passport off the row, and nothing else. *)
LEMMA RedactRow ==
  ASSUME NEW p \in Processing, NEW person \in Person
  PROVE  Row(Redact(p, person), p.state, p.error, p.job, p.step, p.past, p.cancel,
             IF p.passport = person THEN NoPassport ELSE p.passport, p.next, p.awaiting, p.log)
<1>1. Redact(p, person) \in Processing
  BY DEF Redact, Processing, Passport
<1> QED
  BY <1>1 DEF Redact, Processing, Row

(* A row that was never written names nobody. *)
LEMMA RedactBlank ==
  ASSUME NEW person \in Person
  PROVE  Redact(Blank, person) = Blank
  BY PassportAssumption DEF Redact, Blank

(* Another job becomes the current one, or the awaited job is asked at last;
   `current` is the row with the previous job retired, if there is one. *)
LEMMA CreateJobRow ==
  ASSUME NEW p \in Processing, NEW job \in JobId, NEW step \in Nat, NEW passport \in Passport,
         NEW current \in Processing,
         current = (IF p.job = job THEN p ELSE RetireCurrentJob(p)),
         current.log = p.log
  PROVE  Row(CreateJob(p, job, step, passport), "processing", current.error, job, step,
             current.past, current.cancel, passport, NoJob, FALSE,
             p.log \cup {[event |-> "JobCreated", job |-> job]})
<1> DEFINE row == [current EXCEPT !.passport = passport, !.next = NoJob, !.awaiting = FALSE,
                                  !.state = "processing", !.job = job, !.step = step]
<1>1. CreateJob(p, job, step, passport) = Push(row, "JobCreated", job)
  BY DEF CreateJob
<1>2. row \in Processing
  BY DEF Processing, JobId, NoJob
<1>3. Row(row, "processing", current.error, job, step, current.past, current.cancel,
          passport, NoJob, FALSE, current.log)
  BY <1>2 DEF Processing, Row
<1>4. "JobCreated" \in EndEvent \cup StopEvent \cup {"JobCreated"}
  OBVIOUS
<1> HIDE DEF row
<1> QED
  BY <1>1, <1>2, <1>3, <1>4, PushRow DEF Row

(* A new job: the previous one is retired. *)
LEMMA CreateNextJobRow ==
  ASSUME NEW p \in Processing, NEW job \in JobId, NEW step \in Nat, NEW passport \in Passport,
         p.job # job
  PROVE  Row(CreateJob(p, job, step, passport), "processing", "none", job, step,
             RetireCurrentJob(p).past, RetireCurrentJob(p).cancel, passport, NoJob, FALSE,
             p.log \cup {[event |-> "JobCreated", job |-> job]})
<1> DEFINE current == RetireCurrentJob(p)
<1>1. current \in Processing /\ current.error = "none" /\ current.log = p.log
  BY RetireCurrentJobRow DEF Row
<1>2. current = IF p.job = job THEN p ELSE RetireCurrentJob(p)
  OBVIOUS
<1> HIDE DEF current
<1>3. Row(CreateJob(p, job, step, passport), "processing", current.error, job, step,
          current.past, current.cancel, passport, NoJob, FALSE,
          p.log \cup {[event |-> "JobCreated", job |-> job]})
  BY <1>1, <1>2, CreateJobRow
<1> QED
  BY <1>1, <1>3 DEF current

(* The awaited job, asked at last: nothing is retired. *)
LEMMA CreateAwaitedJobRow ==
  ASSUME NEW p \in Processing, NEW step \in Nat, NEW passport \in Passport, p.job \in JobId
  PROVE  Row(CreateJob(p, p.job, step, passport), "processing", p.error, p.job, step,
             p.past, p.cancel, passport, NoJob, FALSE,
             p.log \cup {[event |-> "JobCreated", job |-> p.job]})
<1>1. p = IF p.job = p.job THEN p ELSE RetireCurrentJob(p)
  OBVIOUS
<1> QED
  BY <1>1, CreateJobRow

(* A new chain's first job waits for the source. *)
LEMMA AwaitSourceRow ==
  ASSUME NEW p \in Processing, NEW job \in JobId
  PROVE  Row(AwaitSource(p, job), "processing", "none", job, 0, RetireCurrentJob(p).past,
             FALSE, p.passport, NoJob, TRUE, p.log)
<1> DEFINE current == RetireCurrentJob(p)
           row == [current EXCEPT !.next = NoJob, !.awaiting = TRUE,
                                  !.state = "processing", !.job = job, !.step = 0]
<1>1. /\ current \in Processing
      /\ current.error = "none" /\ current.cancel = FALSE
      /\ current.passport = p.passport /\ current.log = p.log
  BY RetireCurrentJobRow DEF Row
<1>2. AwaitSource(p, job) = row
  BY DEF AwaitSource
<1> HIDE DEF current
<1>3. row \in Processing
  BY <1>1 DEF Processing, JobId, NoJob
<1>4. Row(row, "processing", current.error, job, 0, current.past,
          current.cancel, current.passport, NoJob, TRUE, current.log)
  BY <1>1, <1>3 DEF Processing, Row
<1> HIDE DEF row
<1>5. Row(AwaitSource(p, job), "processing", current.error, job, 0, current.past,
          current.cancel, current.passport, NoJob, TRUE, current.log)
  BY <1>2, <1>4 DEF Row
<1> QED
  BY <1>1, <1>5 DEF current

(* The chain is over: no Passport, nothing held, nothing awaited. *)
LEMMA EndRow ==
  ASSUME NEW p \in Processing, NEW error \in ErrorCode
  PROVE  Row(End(p, error), IF error = "none" THEN "ready" ELSE "failed", error, p.job,
             p.step, p.past, p.cancel, NoPassport, NoJob, FALSE, p.log)
<1>1. End(p, error) \in Processing
  BY DEF End, Processing, Passport, NoJob
<1> QED
  BY <1>1 DEF End, Processing, Row

(* The same, with the event that ended it. *)
LEMMA EndedRow ==
  ASSUME NEW p \in Processing, NEW error \in ErrorCode,
         NEW event \in EndEvent \cup StopEvent, NEW job \in JobId
  PROVE  Row(Push(End(p, error), event, job),
             IF error = "none" THEN "ready" ELSE "failed", error, p.job, p.step, p.past,
             p.cancel, NoPassport, NoJob, FALSE, p.log \cup {[event |-> event, job |-> job]})
<1>1. Row(End(p, error), IF error = "none" THEN "ready" ELSE "failed", error, p.job,
          p.step, p.past, p.cancel, NoPassport, NoJob, FALSE, p.log)
  BY EndRow
<1>2. End(p, error) \in Processing
  BY <1>1 DEF Row
<1>3. event \in EndEvent \cup StopEvent \cup {"JobCreated"}
  OBVIOUS
<1> QED
  BY <1>1, <1>2, <1>3, PushRow DEF Row

(* The job is reported done and the next one's id reserved. *)
LEMMA ReportDoneHoldingRow ==
  ASSUME NEW p \in Processing, NEW next \in JobId, p.job \in JobId
  PROVE  Row(ReportDoneHolding(p, next), p.state, p.error, p.job, p.step, p.past, p.cancel,
             p.passport, next, p.awaiting,
             p.log \cup {[event |-> "JobReportedDone", job |-> p.job]})
<1> DEFINE row == [p EXCEPT !.next = next]
<1>1. row \in Processing
  BY DEF Processing, JobId
<1>2. Row(row, p.state, p.error, p.job, p.step, p.past, p.cancel, p.passport, next,
          p.awaiting, p.log)
  BY <1>1 DEF Processing, Row
<1>3. ReportDoneHolding(p, next) = Push(row, "JobReportedDone", p.job)
  BY DEF ReportDoneHolding
<1>4. "JobReportedDone" \in EndEvent \cup StopEvent \cup {"JobCreated"}
  BY DEF EndEvent
<1> HIDE DEF row
<1> QED
  BY <1>1, <1>2, <1>3, <1>4, PushRow DEF Row

(* A cancel is noted and changes nothing else. *)
LEMMA RequestCancelRow ==
  ASSUME NEW p \in Processing
  PROVE  Row(RequestCancel(p), p.state, p.error, p.job, p.step, p.past, TRUE, p.passport,
             p.next, p.awaiting, p.log)
<1>1. RequestCancel(p) \in Processing
  BY DEF RequestCancel, Processing
<1> QED
  BY <1>1 DEF RequestCancel, Processing, Row

-----------------------------------------------------------------------------
(* A chain runs on a committed file only, and a row that is no file's is
   blank. *)
RowOfFile ==
  /\ proc.state = "processing" => file = "committed" /\ proc.job # NoJob
  /\ file # "committed" => proc = Blank

(* What a gesture that starts a chain found under the file's lock still holds
   when it commits. *)
GestureHolds ==
  gesture # Closed =>
    /\ gesture.by \in Person
    /\ gesture.steps # 0
    /\ file # "gone"
    /\ proc.state # "processing"
    /\ minted + gesture.steps <= MaxJobs
    /\ ~gesture.pending => blob # "pending"

(* Ids are minted in order: nothing speaks of an id not minted yet, and the id
   of a held step is the last one, of which nothing was said. *)
MintedInOrder ==
  /\ proc.job <= minted
  /\ \A e \in proc.log : e.job <= minted
  /\ \A j \in Job : WasAsked(j) => j <= minted
  /\ Held(proc) =>
       /\ proc.next = minted
       /\ proc.job < minted
       /\ \A e \in proc.log : e.job < minted

(* A running chain still affords the ids of its steps to come. *)
StepsAfforded ==
  proc.state = "processing" =>
    minted + steps <= MaxJobs + proc.step + (IF Held(proc) THEN 2 ELSE 1)

(* The current job has not ended, or only as reported done with the next step
   held. *)
CurrentJobOpen ==
  proc.state = "processing" =>
    \A e \in proc.log :
      e.job = proc.job /\ e.event \in EndEvent => Held(proc) /\ e.event = "JobReportedDone"

(* Whatever lets a job be asked came after the promotion. *)
AskedAfterPromotion ==
  /\ NoJobBeforePromotion
  /\ proc.state = "processing" /\ ~proc.awaiting => blob # "pending"
  /\ promotions => blob # "pending"

NothingAskedWhilePending == file = "pending" => \A j \in Job : ~WasAsked(j)

IInv ==
  /\ TypeOK
  /\ RowOfFile
  /\ GestureHolds
  /\ MintedInOrder
  /\ StepsAfforded
  /\ RowConstraints
  /\ HeldNotCancelled
  /\ CurrentJobOpen
  /\ OneEndPerJob
  /\ AskedAfterPromotion
  /\ NothingAskedWhilePending
  /\ EveryAskedJobKnown

(* The types of the row and of what the invariant says of it. *)
LEMMA RowTypes ==
  ASSUME TypeOK
  PROVE  /\ proc \in Processing
         /\ proc.state \in {"processing", "ready", "failed"}
         /\ proc.error \in ErrorCode
         /\ proc.job \in Nat /\ proc.step \in Nat /\ proc.next \in Nat
         /\ proc.past \in SUBSET JobId
         /\ proc.cancel \in BOOLEAN
         /\ proc.passport \in Passport
         /\ proc.awaiting \in BOOLEAN
         /\ proc.log \in SUBSET Event
  BY DEF TypeOK, Processing

(* The invariant holds at first. *)
LEMMA InitIInv == Init => IInv
<1> SUFFICES ASSUME Init PROVE IInv
  OBVIOUS
<1>1. TypeOK
  <2>1. asked \in [Job -> [step : Nat, passport : Passport]]
    <3>1. NotAsked \in [step : Nat, passport : Passport]
      BY DEF NotAsked, Passport
    <3> QED
      BY <3>1 DEF Init
  <2>2. proc \in Processing
    BY BlankRow DEF Init
  <2>3. gesture \in [by : Person \cup {NoPassport}, steps : 0..MaxSteps, pending : BOOLEAN]
    BY ChainAssumption DEF Init, Closed
  <2>4. jobs \in [Job -> JobState]
    BY DEF Init, JobState
  <2>5. promotions \in BOOLEAN
    BY DEF Init
  <2>6. /\ file \in {"pending", "committed", "gone"}
        /\ steps \in 0..MaxSteps /\ minted \in 0..MaxJobs
        /\ blob \in {"pending", "uploaded", "failed"}
        /\ outbox \subseteq Command /\ facts \subseteq FactMessage
        /\ erased \subseteq Person /\ lost \subseteq Job
    BY ChainAssumption DEF Init
  <2> QED
    BY <2>1, <2>2, <2>3, <2>4, <2>5, <2>6 DEF TypeOK
<1> USE DEF Init, Blank, NoJob, WasAsked, NotAsked
<1>2. RowOfFile /\ GestureHolds
  BY DEF RowOfFile, GestureHolds
<1>3. MintedInOrder /\ StepsAfforded
  BY DEF MintedInOrder, StepsAfforded, Held
<1>4. RowConstraints /\ HeldNotCancelled
  BY DEF RowConstraints, HeldNotCancelled, Held
<1>5. CurrentJobOpen /\ OneEndPerJob
  BY DEF CurrentJobOpen, OneEndPerJob
<1>6. AskedAfterPromotion /\ NothingAskedWhilePending /\ EveryAskedJobKnown
  BY DEF AskedAfterPromotion, NoJobBeforePromotion, NothingAskedWhilePending, EveryAskedJobKnown
<1> QED
  BY <1>1, <1>2, <1>3, <1>4, <1>5, <1>6 DEF IInv

(* A step that leaves the row, the file and the jobs asked alone keeps the
   invariant: the source only ever becomes readable. *)
LEMMA RowUntouched ==
  ASSUME IInv, TypeOK',
         UNCHANGED <<file, steps, proc, minted, asked>>,
         gesture' \in {gesture, Closed},
         blob # "pending" => blob' # "pending",
         promotions' => blob' # "pending"
  PROVE  IInv'
<1> USE DEF IInv
<1>1. RowOfFile' /\ MintedInOrder' /\ StepsAfforded'
  BY DEF RowOfFile, MintedInOrder, StepsAfforded, Held, WasAsked
<1>2. GestureHolds'
  BY DEF GestureHolds
<1>3. RowConstraints' /\ HeldNotCancelled'
  BY DEF RowConstraints, HeldNotCancelled, Held, Logged, WasAsked
<1>4. CurrentJobOpen' /\ OneEndPerJob'
  BY DEF CurrentJobOpen, OneEndPerJob, Held
<1>5. AskedAfterPromotion' /\ NothingAskedWhilePending' /\ EveryAskedJobKnown'
  BY DEF AskedAfterPromotion, NoJobBeforePromotion, NothingAskedWhilePending,
         EveryAskedJobKnown, WasAsked
<1> QED
  BY <1>1, <1>2, <1>3, <1>4, <1>5

(* Every way a chain ends keeps the invariant. *)
LEMMA ChainEnds ==
  ASSUME IInv, TypeOK', proc.state = "processing",
         NEW error \in ErrorCode, NEW cancel \in BOOLEAN, NEW events \in SUBSET Event,
         Row(proc', IF error = "none" THEN "ready" ELSE "failed", error, proc.job,
             proc.step, proc.past, cancel, NoPassport, NoJob, FALSE, proc.log \cup events),
         \A e \in events : e.job = proc.job /\ (Held(proc) => e.event \notin EndEvent),
         \A e, f \in events : {e.event, f.event} \subseteq EndEvent => e = f,
         UNCHANGED <<file, steps, gesture, minted, asked, blob>>,
         promotions' => blob' # "pending"
  PROVE  IInv'
<1> USE DEF IInv, Row
<1>0. file = "committed"
  BY DEF RowOfFile
<1>1. RowOfFile' /\ GestureHolds'
  BY <1>0 DEF RowOfFile, GestureHolds
<1>2. MintedInOrder' /\ StepsAfforded'
  BY RowTypes DEF MintedInOrder, StepsAfforded, Held, WasAsked
<1>3. RowConstraints' /\ HeldNotCancelled'
  BY DEF RowConstraints, HeldNotCancelled, Held
<1>4. CurrentJobOpen'
  BY DEF CurrentJobOpen
<1>5. OneEndPerJob'
  <2>1. ASSUME NEW e \in proc.log, NEW f \in events, e.job = f.job,
               {e.event, f.event} \subseteq EndEvent
        PROVE  FALSE
    BY <2>1 DEF CurrentJobOpen
  <2>2. ASSUME NEW e \in proc'.log, NEW f \in proc'.log, e.job = f.job,
               {e.event, f.event} \subseteq EndEvent
        PROVE  e = f
    BY <2>1, <2>2 DEF OneEndPerJob
  <2> QED
    BY <2>2 DEF OneEndPerJob
<1>6. AskedAfterPromotion' /\ NothingAskedWhilePending' /\ EveryAskedJobKnown'
  BY DEF AskedAfterPromotion, NoJobBeforePromotion, NothingAskedWhilePending,
         EveryAskedJobKnown, WasAsked
<1> QED
  BY <1>1, <1>2, <1>3, <1>4, <1>5, <1>6

(* A job is asked of Jobs: the first of a chain once the source is promoted,
   the awaited one, or the held one. *)
LEMMA StepLaunched ==
  ASSUME IInv, TypeOK',
         NEW job \in Job, NEW step \in Nat, NEW passport \in Person,
         NEW past \in SUBSET JobId, NEW cancel \in BOOLEAN,
         Row(proc', "processing", "none", job, step, past, cancel, passport, NoJob, FALSE,
             proc.log \cup {[event |-> "JobCreated", job |-> job]}),
         asked' = [asked EXCEPT ![job] = [step |-> step, passport |-> passport]],
         proc.past \subseteq past,
         proc.job = job \/ proc.job = NoJob \/ proc.job \in past,
         minted <= minted', job <= minted',
         \A e \in proc.log : e.job = job => e.event \notin EndEvent,
         minted' + steps' <= MaxJobs + step + 1,
         file # "gone", file' = "committed", gesture' = Closed, blob # "pending", blob' # "pending"
  PROVE  IInv'
<1> USE DEF IInv, Row
<1>0. /\ minted \in Nat /\ minted' \in Nat
      /\ \A j \in Job : asked'[j] = IF j = job THEN [step |-> step, passport |-> passport]
                                                ELSE asked[j]
  BY ChainAssumption DEF TypeOK
<1>1. RowOfFile' /\ GestureHolds'
  BY DEF RowOfFile, GestureHolds, Job, NoJob
<1>2. MintedInOrder'
  <2>1. \A e \in proc'.log : e.job <= minted'
    BY <1>0, RowTypes DEF MintedInOrder, Event, JobId
  <2>2. \A j \in Job : WasAsked(j)' => j <= minted'
    BY <1>0 DEF MintedInOrder, WasAsked, Job
  <2> QED
    BY <2>1, <2>2 DEF MintedInOrder, Held
<1>3. StepsAfforded' /\ HeldNotCancelled'
  BY DEF StepsAfforded, HeldNotCancelled, Held
<1>4. RowConstraints'
  BY DEF RowConstraints, Held
<1>5. CurrentJobOpen'
  BY DEF CurrentJobOpen, EndEvent
<1>6. OneEndPerJob'
  BY DEF OneEndPerJob, EndEvent
<1>7. AskedAfterPromotion' /\ NothingAskedWhilePending'
  BY DEF AskedAfterPromotion, NoJobBeforePromotion, NothingAskedWhilePending
<1>8. EveryAskedJobKnown'
  <2>1. ASSUME NEW j \in Job, WasAsked(j)' PROVE j \in proc'.past \cup {proc'.job}
    <3>1. CASE j = job
      BY <3>1
    <3>2. CASE j # job
      <4>1. WasAsked(j)
        BY <1>0, <2>1, <3>2 DEF WasAsked
      <4>2. file = "committed"
        BY <4>1 DEF NothingAskedWhilePending, TypeOK
      <4>3. j \in proc.past \cup {proc.job}
        BY <4>1, <4>2 DEF EveryAskedJobKnown
      <4>4. j # NoJob
        BY ChainAssumption DEF Job, NoJob
      <4> QED
        BY <3>2, <4>3, <4>4
    <3> QED
      BY <3>1, <3>2
  <2> QED
    BY <2>1 DEF EveryAskedJobKnown
<1> QED
  BY <1>1, <1>2, <1>3, <1>4, <1>5, <1>6, <1>7, <1>8

(* The row is removed with its file. *)
LEMMA FileRemoved ==
  ASSUME IInv, TypeOK', RemoveFile, gesture = Closed
  PROVE  IInv'
<1> USE DEF IInv, RemoveFile
<1>0. proc' = Blank /\ file' = "gone" /\ asked' = asked /\ minted' = minted /\ blob' = blob
      /\ promotions' = promotions /\ gesture' = Closed
  BY DEF sourceVars, jobsVars
<1>1. RowOfFile' /\ GestureHolds'
  BY <1>0 DEF RowOfFile, GestureHolds, Blank
<1>2. MintedInOrder' /\ StepsAfforded'
  BY <1>0 DEF MintedInOrder, StepsAfforded, Held, WasAsked, Blank, TypeOK, NoJob
<1>3. RowConstraints' /\ HeldNotCancelled'
  BY <1>0 DEF RowConstraints, HeldNotCancelled, Held, Blank, NoJob
<1>4. CurrentJobOpen' /\ OneEndPerJob'
  BY <1>0 DEF CurrentJobOpen, OneEndPerJob, Blank
<1>5. AskedAfterPromotion' /\ NothingAskedWhilePending' /\ EveryAskedJobKnown'
  BY <1>0 DEF AskedAfterPromotion, NoJobBeforePromotion, NothingAskedWhilePending,
              EveryAskedJobKnown, WasAsked, Blank
<1> QED
  BY <1>1, <1>2, <1>3, <1>4, <1>5

(* A step that only notes a cancel, or drops or spoils the Passport, keeps the
   invariant. *)
LEMMA RowAnnotated ==
  ASSUME IInv, TypeOK',
         NEW cancel \in BOOLEAN, NEW passport \in Passport,
         Row(proc', proc.state, proc.error, proc.job, proc.step, proc.past, cancel,
             passport, proc.next, proc.awaiting, proc.log),
         Held(proc) => ~cancel,
         passport # NoPassport => proc.passport # NoPassport,
         UNCHANGED <<file, steps, gesture, minted, asked, blob, promotions>>,
         file # "committed" => proc' = proc
  PROVE  IInv'
<1> USE DEF IInv, Row
<1>1. RowOfFile' /\ GestureHolds'
  BY DEF RowOfFile, GestureHolds
<1>2. MintedInOrder' /\ StepsAfforded'
  BY DEF MintedInOrder, StepsAfforded, Held, WasAsked
<1>3. RowConstraints' /\ HeldNotCancelled'
  BY DEF RowConstraints, HeldNotCancelled, Held, Logged, WasAsked
<1>4. CurrentJobOpen' /\ OneEndPerJob'
  BY DEF CurrentJobOpen, OneEndPerJob, Held
<1>5. AskedAfterPromotion' /\ NothingAskedWhilePending' /\ EveryAskedJobKnown'
  BY DEF AskedAfterPromotion, NoJobBeforePromotion, NothingAskedWhilePending,
         EveryAskedJobKnown, WasAsked
<1> QED
  BY <1>1, <1>2, <1>3, <1>4, <1>5

-----------------------------------------------------------------------------
(* What a handler does to the row, case by case, in the terms of the lemmas
   above. *)

(* The current job of a running chain is one of the jobs minted. *)
LEMMA CurrentJob ==
  ASSUME IInv, proc.state = "processing"
  PROVE  /\ proc.job \in Job /\ proc.job \in JobId
         /\ file = "committed"
         /\ proc.step + 1 < steps => minted + 1 \in Job \/ Held(proc)
         /\ Held(proc) => proc.next \in Job /\ proc.next \in JobId
<1> USE DEF IInv
<1>1. proc.job \in Nat /\ proc.next \in Nat /\ minted \in 0..MaxJobs /\ MaxJobs \in Nat
      /\ proc.step \in Nat /\ steps \in Nat
  BY RowTypes, ChainAssumption DEF TypeOK
<1>2. proc.job <= minted /\ proc.job # 0 /\ file = "committed"
  BY DEF RowOfFile, MintedInOrder, NoJob
<1>3. Held(proc) => proc.next = minted /\ proc.next # 0
  BY DEF MintedInOrder, Held, NoJob
<1>4. ~Held(proc) => minted + steps <= MaxJobs + proc.step + 1
  BY DEF StepsAfforded
<1> QED
  BY <1>1, <1>2, <1>3, <1>4 DEF Job, JobId, NoJob

(* The staged commands are commands. *)
LEMMA CommandTypes ==
  ASSUME NEW job \in Job
  PROVE  \A command \in {"create", "finish", "fail", "cancel"} : Cmd(command, job) \in Command
  BY DEF Cmd, Command

(* A chain that stops by one event: between two jobs, before its first one, or
   with its current job.  `p` is the loaded row, a cancel noted on it or not. *)
LEMMA StopsByEvent ==
  ASSUME IInv, proc.state = "processing",
         NEW p \in {proc, RequestCancel(proc)},
         NEW error \in ErrorCode, NEW event \in EndEvent \cup StopEvent,
         Held(proc) => event \in StopEvent,
         proc' = Push(End(p, error), event, proc.job),
         NEW staged \in SUBSET Command,
         outbox' = outbox \cup staged,
         UNCHANGED <<file, steps, gesture, minted, asked, blob, jobs, erased, lost>>,
         promotions' \in BOOLEAN, promotions' => promotions,
         facts' \subseteq facts
  PROVE  IInv'
<1> USE DEF IInv
<1>1. proc \in Processing /\ proc.job \in JobId /\ proc.cancel \in BOOLEAN
  BY CurrentJob, RowTypes
<1>2. /\ p \in Processing /\ p.cancel \in BOOLEAN /\ p.job = proc.job /\ p.step = proc.step
      /\ p.past = proc.past /\ p.log = proc.log
  <2>1. /\ RequestCancel(proc) \in Processing /\ RequestCancel(proc).job = proc.job
        /\ RequestCancel(proc).step = proc.step /\ RequestCancel(proc).past = proc.past
        /\ RequestCancel(proc).log = proc.log
    BY <1>1, RequestCancelRow DEF Row
  <2>2. p \in Processing
    BY <1>1, <2>1
  <2>3. p.cancel \in BOOLEAN
    BY <2>2 DEF Processing
  <2> QED
    BY <2>1, <2>2, <2>3
<1> DEFINE cancel == p.cancel
           events == {[event |-> event, job |-> proc.job]}
<1>3. Row(proc', IF error = "none" THEN "ready" ELSE "failed", error, proc.job, proc.step,
          proc.past, cancel, NoPassport, NoJob, FALSE, proc.log \cup events)
  BY <1>1, <1>2, EndedRow
<1>4. TypeOK'
  BY <1>3 DEF TypeOK, Row
<1>5. [event |-> event, job |-> proc.job] \in Event
  BY <1>1 DEF Event
<1>6. event \in StopEvent => event \notin EndEvent
  BY DEF StopEvent, EndEvent
<1>7. promotions' => blob' # "pending"
  BY DEF AskedAfterPromotion
<1>8. /\ events \in SUBSET Event /\ cancel \in BOOLEAN
      /\ \A e \in events : e.job = proc.job /\ (Held(proc) => e.event \notin EndEvent)
  BY <1>2, <1>5, <1>6
<1>9. \A e, f \in events : {e.event, f.event} \subseteq EndEvent => e = f
  OBVIOUS
<1> HIDE DEF IInv, events, cancel
<1> QED
  BY <1>3, <1>4, <1>7, <1>8, <1>9, ChainEnds

(* A final report whose chain goes no further: the job is reported done, and
   the next step skipped or abandoned for `error`. *)
LEMMA DoneThenStops ==
  ASSUME IInv, IsRunning(proc),
         NEW error \in ErrorCode, error # "none", NEW event \in StopEvent,
         proc' = Push(End(ReportDone(proc), error), event, proc.job),
         NEW staged \in SUBSET Command,
         outbox' = outbox \cup staged,
         UNCHANGED <<file, steps, gesture, minted, asked, blob, promotions, jobs, facts,
                     erased, lost>>
  PROVE  IInv'
<1> USE DEF IInv
<1>1. /\ proc \in Processing /\ proc.job \in JobId /\ proc.cancel \in BOOLEAN
      /\ proc.state = "processing" /\ ~Held(proc)
  BY CurrentJob, RowTypes DEF IsRunning
<1> DEFINE done == [event |-> "JobReportedDone", job |-> proc.job]
           stop == [event |-> event, job |-> proc.job]
           events == {done, stop}
           cancel == proc.cancel
<1>2. /\ ReportDone(proc) \in Processing
      /\ ReportDone(proc).job = proc.job /\ ReportDone(proc).step = proc.step
      /\ ReportDone(proc).past = proc.past /\ ReportDone(proc).cancel = proc.cancel
      /\ ReportDone(proc).log = proc.log \cup {done}
  <2>1. "none" \in ErrorCode /\ "JobReportedDone" \in EndEvent \cup StopEvent
    BY DEF ErrorCode, EndEvent
  <2>2. Row(Push(End(proc, "none"), "JobReportedDone", proc.job),
            IF "none" = "none" THEN "ready" ELSE "failed", "none", proc.job, proc.step,
            proc.past, proc.cancel, NoPassport, NoJob, FALSE,
            proc.log \cup {[event |-> "JobReportedDone", job |-> proc.job]})
    BY <1>1, <2>1, EndedRow
  <2> QED
    BY <2>2 DEF ReportDone, Row
<1>3. Row(proc', IF error = "none" THEN "ready" ELSE "failed", error, ReportDone(proc).job,
          ReportDone(proc).step, ReportDone(proc).past, ReportDone(proc).cancel, NoPassport,
          NoJob, FALSE, ReportDone(proc).log \cup {stop})
  BY <1>1, <1>2, EndedRow
<1>4. Row(proc', IF error = "none" THEN "ready" ELSE "failed", error, proc.job, proc.step,
          proc.past, cancel, NoPassport, NoJob, FALSE, proc.log \cup events)
  <2>1. ReportDone(proc).log \cup {stop} = proc.log \cup events
    BY <1>2
  <2> QED
    BY <1>2, <1>3, <2>1
<1>5. TypeOK'
  BY <1>4 DEF TypeOK, Row
<1>6. done \in Event /\ stop \in Event
  BY <1>1 DEF Event, EndEvent
<1>7. event \notin EndEvent
  BY DEF StopEvent, EndEvent
<1>8. promotions' => blob' # "pending"
  BY DEF AskedAfterPromotion
<1>9. /\ events \in SUBSET Event /\ cancel \in BOOLEAN
      /\ \A e \in events : e.job = proc.job /\ (Held(proc) => e.event \notin EndEvent)
      /\ \A e, f \in events : {e.event, f.event} \subseteq EndEvent => e = f
  BY <1>1, <1>6, <1>7
<1> HIDE DEF IInv, events, cancel
<1> QED
  BY <1>1, <1>4, <1>5, <1>8, <1>9, ChainEnds

(* The held step is asked of Jobs. *)
LEMMA HeldStepLaunched ==
  ASSUME IInv, proc.state = "processing", Held(proc), proc.passport \in Person,
         LaunchStep(proc, proc.next, proc.step + 1, proc.passport, {}),
         gesture = Closed,
         UNCHANGED <<file, steps, gesture, minted, blob, promotions, jobs, erased, lost>>,
         facts' \subseteq facts
  PROVE  IInv'
<1> USE DEF IInv
<1> DEFINE job == proc.next
           step == proc.step + 1
<1>1. /\ proc \in Processing /\ proc.step \in Nat /\ proc.past \in SUBSET JobId
      /\ proc.cancel \in BOOLEAN /\ proc.passport \in Passport
      /\ job \in Job /\ job \in JobId /\ file = "committed"
  BY CurrentJob, RowTypes
<1>2. /\ job = minted /\ proc.job # job /\ minted \in Nat
      /\ \A e \in proc.log : e.job # job
  BY RowTypes DEF MintedInOrder, TypeOK, Event, JobId
<1>3. Row(RetireCurrentJob(proc), proc.state, "none", proc.job, proc.step,
          IF proc.job = NoJob THEN proc.past ELSE proc.past \cup {proc.job}, FALSE,
          proc.passport, proc.next, proc.awaiting, proc.log)
  BY <1>1, RetireCurrentJobRow
<1> DEFINE past == RetireCurrentJob(proc).past
           cancel == RetireCurrentJob(proc).cancel
<1>4. /\ past \in SUBSET JobId /\ proc.past \subseteq past /\ cancel \in BOOLEAN
      /\ proc.job = NoJob \/ proc.job \in past
  BY <1>3 DEF Row, Processing
<1>5. Row(proc', "processing", "none", job, step, past, cancel, proc.passport, NoJob, FALSE,
          proc.log \cup {[event |-> "JobCreated", job |-> job]})
  <2>1. proc' = CreateJob(proc, job, step, proc.passport)
    BY DEF LaunchStep
  <2>2. step \in Nat
    BY <1>1
  <2> HIDE DEF job, step
  <2>3. Row(CreateJob(proc, job, step, proc.passport), "processing", "none", job, step, past,
            cancel, proc.passport, NoJob, FALSE,
            proc.log \cup {[event |-> "JobCreated", job |-> job]})
    BY <1>1, <1>2, <2>2, CreateNextJobRow
  <2> QED
    BY <2>1, <2>3
<1>6. TypeOK'
  <2>1. Cmd("create", job) \in Command
    BY <1>1, CommandTypes
  <2>2. asked' \in [Job -> [step : Nat, passport : Passport]]
    BY <1>1 DEF TypeOK, LaunchStep
  <2> QED
    BY <1>5, <2>1, <2>2 DEF TypeOK, LaunchStep, Row
<1>7. minted' + steps' <= MaxJobs + step + 1
  BY <1>1, ChainAssumption DEF StepsAfforded, TypeOK
<1>8. blob # "pending"
  BY DEF AskedAfterPromotion, RowConstraints
<1>9. asked' = [asked EXCEPT ![job] = [step |-> step, passport |-> proc.passport]]
  BY DEF LaunchStep
<1>10. step \in Nat /\ minted' = minted /\ job <= minted'
  BY <1>1, <1>2
<1>11. minted <= minted' /\ (\A e \in proc.log : e.job = job => e.event \notin EndEvent)
  BY <1>2
<1> HIDE DEF IInv, job, step, past, cancel
<1> QED
  BY <1>1, <1>4, <1>5, <1>6, <1>7, <1>8, <1>9, <1>10, <1>11, StepLaunched

(* The awaited first step is asked of Jobs. *)
LEMMA AwaitedStepLaunched ==
  ASSUME IInv, AwaitsSource(proc), proc.passport \in Person, blob # "pending",
         LaunchStep(proc, proc.job, proc.step, proc.passport, {}),
         gesture = Closed,
         UNCHANGED <<file, steps, gesture, minted, blob, jobs, facts, erased, lost>>,
         promotions' \in BOOLEAN
  PROVE  IInv'
<1> USE DEF IInv
<1> DEFINE job == proc.job
           step == proc.step
<1>1. /\ proc \in Processing /\ step \in Nat /\ proc.past \in SUBSET JobId
      /\ proc.cancel \in BOOLEAN /\ proc.passport \in Passport /\ minted \in Nat
      /\ proc.state = "processing" /\ job \in Job /\ job \in JobId /\ file = "committed"
  BY CurrentJob, RowTypes DEF AwaitsSource, TypeOK
<1>2. /\ job <= minted /\ ~Held(proc) /\ proc.error = "none"
      /\ \A e \in proc.log : e.job = job => e.event \notin EndEvent
  BY <1>1 DEF MintedInOrder, RowConstraints, AwaitsSource, CurrentJobOpen
<1>3. Row(proc', "processing", "none", job, step, proc.past, proc.cancel, proc.passport, NoJob,
          FALSE, proc.log \cup {[event |-> "JobCreated", job |-> job]})
  <2>1. Row(CreateJob(proc, job, step, proc.passport), "processing", proc.error, job, step,
            proc.past, proc.cancel, proc.passport, NoJob, FALSE,
            proc.log \cup {[event |-> "JobCreated", job |-> job]})
    BY <1>1, CreateAwaitedJobRow
  <2> QED
    BY <1>2, <2>1 DEF LaunchStep
<1>4. TypeOK'
  <2>1. Cmd("create", job) \in Command
    BY <1>1, CommandTypes
  <2>2. asked' \in [Job -> [step : Nat, passport : Passport]]
    BY <1>1 DEF TypeOK, LaunchStep
  <2> QED
    BY <1>3, <2>1, <2>2 DEF TypeOK, LaunchStep, Row
<1>5. minted' + steps' <= MaxJobs + step + 1
  BY <1>1, <1>2 DEF StepsAfforded
<1>6. asked' = [asked EXCEPT ![job] = [step |-> step, passport |-> proc.passport]]
  BY DEF LaunchStep
<1>7. minted <= minted' /\ job <= minted'
  BY <1>1, <1>2
<1> HIDE DEF IInv, step
<1> QED
  BY <1>1, <1>2, <1>3, <1>4, <1>5, <1>6, <1>7, StepLaunched

(* The gesture commits: a new chain begins. *)
LEMMA GestureCommits ==
  ASSUME IInv, CommitGesture
  PROVE  IInv'
<1> USE DEF IInv
<1> DEFINE p == StartChain(proc, gesture.by)
           job == minted + 1
<1>1. /\ gesture.by \in Person /\ gesture.steps \in Nat \ {0} /\ file # "gone"
      /\ proc.state # "processing" /\ minted + gesture.steps <= MaxJobs
      /\ ~gesture.pending => blob # "pending"
      /\ gesture.steps \in 0..MaxSteps
  BY ChainAssumption DEF CommitGesture, Unlocked, GestureHolds, TypeOK
<1>2. /\ proc \in Processing /\ proc.past \in SUBSET JobId /\ proc.job \in Nat
      /\ minted \in Nat /\ gesture.by \in Passport /\ MaxJobs \in Nat
  BY <1>1, RowTypes, ChainAssumption DEF TypeOK, Passport
<1>3. job \in Job /\ job \in JobId /\ job \in 0..MaxJobs
  BY <1>1, <1>2 DEF Job, JobId, NoJob
<1>4. /\ proc.job # job
      /\ \A e \in proc.log : e.job # job
      /\ \A j \in Job : WasAsked(j) => j # job
  BY <1>2, RowTypes DEF MintedInOrder, Event, JobId, Job
<1>5. Row(p, proc.state, proc.error, proc.job, proc.step, proc.past, proc.cancel, gesture.by,
          proc.next, proc.awaiting, proc.log)
  BY <1>1, <1>2, StartChainRow
<1>6. Row(RetireCurrentJob(p), p.state, "none", p.job, p.step,
          IF p.job = NoJob THEN p.past ELSE p.past \cup {p.job}, FALSE,
          p.passport, p.next, p.awaiting, p.log)
  BY <1>5, RetireCurrentJobRow DEF Row
<1> DEFINE past == RetireCurrentJob(p).past
           cancel == RetireCurrentJob(p).cancel
<1>7. /\ past \in SUBSET JobId /\ proc.past \subseteq past /\ cancel \in BOOLEAN
      /\ proc.job = NoJob \/ proc.job \in past
  BY <1>5, <1>6 DEF Row, Processing
<1>8. p \in Processing /\ p.job # job /\ p.log = proc.log /\ p.passport = gesture.by
  BY <1>4, <1>5 DEF Row
<1>9. file' = "committed" /\ steps' = gesture.steps /\ minted' = job /\ gesture' = Closed
      /\ blob' = blob /\ promotions' = promotions /\ jobs' = jobs /\ facts' = facts
      /\ lost' = lost /\ erased' = erased
  BY DEF CommitGesture, sourceVars, jobsVars
<1>10. gesture' \in [by : Person \cup {NoPassport}, steps : 0..MaxSteps, pending : BOOLEAN]
  BY <1>9, ChainAssumption DEF Closed
<1>11. CASE gesture.pending
  <2>1. proc' = AwaitSource(p, job) /\ outbox' = outbox /\ asked' = asked
    BY <1>11 DEF CommitGesture, Save
  <2>2. Row(proc', "processing", "none", job, 0, past, FALSE, gesture.by, NoJob, TRUE, proc.log)
    BY <1>3, <1>8, <2>1, AwaitSourceRow
  <2> HIDE DEF past, p, cancel
  <2> USE DEF Row
  <2>3. TypeOK'
    BY <1>1, <1>3, <1>9, <1>10, <2>1, <2>2 DEF TypeOK
  <2>4. RowOfFile' /\ GestureHolds'
    BY <1>2, <1>9, <2>2 DEF RowOfFile, GestureHolds, NoJob
  <2>5. MintedInOrder'
    BY <1>2, <1>9, <2>1, <2>2, RowTypes DEF MintedInOrder, Held, WasAsked, Event, JobId, Job
  <2>6. StepsAfforded' /\ HeldNotCancelled'
    BY <1>1, <1>2, <1>9, <2>2 DEF StepsAfforded, HeldNotCancelled, Held
  <2>7. RowConstraints'
    BY <1>4, <1>9, <2>1, <2>2 DEF RowConstraints, Held, WasAsked
  <2>8. CurrentJobOpen' /\ OneEndPerJob'
    BY <1>4, <2>2 DEF CurrentJobOpen, OneEndPerJob
  <2>9. AskedAfterPromotion' /\ NothingAskedWhilePending'
    BY <1>9, <2>1, <2>2 DEF AskedAfterPromotion, NoJobBeforePromotion,
                            NothingAskedWhilePending, WasAsked
  <2>10. EveryAskedJobKnown'
    <3>1. ASSUME NEW j \in Job, WasAsked(j) PROVE j \in past
      <4>1. file = "committed"
        BY <1>1, <3>1 DEF NothingAskedWhilePending, TypeOK
      <4>2. j \in proc.past \cup {proc.job} /\ j # NoJob
        BY <1>2, <3>1, <4>1 DEF EveryAskedJobKnown, Job, NoJob
      <4> QED
        BY <1>7, <4>2
    <3> QED
      BY <2>1, <2>2, <3>1 DEF EveryAskedJobKnown, WasAsked
  <2> QED
    BY <2>3, <2>4, <2>5, <2>6, <2>7, <2>8, <2>9, <2>10
<1>12. CASE ~gesture.pending
  <2>1. /\ proc' = CreateJob(p, job, 0, gesture.by)
        /\ asked' = [asked EXCEPT ![job] = [step |-> 0, passport |-> gesture.by]]
        /\ outbox' = outbox \cup {} \cup {Cmd("create", job)}
    BY <1>12 DEF CommitGesture, LaunchStep
  <2>2. Row(CreateJob(p, job, 0, gesture.by), "processing", "none", job, 0, past, cancel,
            gesture.by, NoJob, FALSE, p.log \cup {[event |-> "JobCreated", job |-> job]})
    BY <1>2, <1>3, <1>8, CreateNextJobRow
  <2> HIDE DEF past, p, cancel
  <2>3. Row(proc', "processing", "none", job, 0, past, cancel, gesture.by, NoJob, FALSE,
            proc.log \cup {[event |-> "JobCreated", job |-> job]})
    BY <1>8, <2>1, <2>2
  <2>4. TypeOK'
    <3>1. Cmd("create", job) \in Command
      BY <1>3, CommandTypes
    <3>2. asked' \in [Job -> [step : Nat, passport : Passport]]
      BY <1>2, <1>3, <2>1 DEF TypeOK
    <3> QED
      BY <1>1, <1>3, <1>9, <1>10, <2>1, <2>3, <3>1, <3>2 DEF TypeOK, Row
  <2>5. minted' + steps' <= MaxJobs + 0 + 1 /\ minted <= minted' /\ job <= minted' /\ 0 \in Nat
    BY <1>1, <1>2, <1>9
  <2>6. blob # "pending" /\ blob' # "pending"
    BY <1>1, <1>9, <1>12
  <2>7. \A e \in proc.log : e.job = job => e.event \notin EndEvent
    BY <1>4
  <2> HIDE DEF IInv, job
  <2> QED
    BY <1>1, <1>3, <1>7, <1>9, <2>1, <2>3, <2>4, <2>5, <2>6, <2>7, StepLaunched
<1> QED
  BY <1>11, <1>12

(* A final report that holds the next step. *)
LEMMA NextStepHeld ==
  ASSUME IInv, IsRunning(proc), HasNextStep, ~proc.cancel,
         NEW staged \in SUBSET Command,
         Save(ReportDoneHolding(proc, minted + 1), staged),
         minted' = minted + 1,
         UNCHANGED <<file, steps, gesture, blob, promotions, jobs, facts, erased, lost>>
  PROVE  IInv'
<1> USE DEF IInv
<1>1. /\ proc \in Processing /\ proc.job \in JobId /\ proc.job \in Nat /\ minted \in Nat
      /\ proc.state = "processing" /\ ~Held(proc) /\ ~proc.awaiting /\ file = "committed"
      /\ minted + 1 \in Job /\ steps \in Nat /\ proc.step \in Nat /\ MaxJobs \in Nat
  BY CurrentJob, RowTypes, ChainAssumption DEF IsRunning, HasNextStep, NextIndex, TypeOK
<1>2. minted + 1 \in JobId /\ minted + 1 \in 0..MaxJobs
  BY <1>1 DEF Job, JobId, NoJob
<1> DEFINE done == [event |-> "JobReportedDone", job |-> proc.job]
<1>3. Row(proc', proc.state, proc.error, proc.job, proc.step, proc.past, proc.cancel,
          proc.passport, minted + 1, proc.awaiting, proc.log \cup {done})
  BY <1>1, <1>2, ReportDoneHoldingRow DEF Save
<1>4. asked' = asked /\ outbox' = outbox \cup staged
  BY DEF Save
<1>5. TypeOK'
  BY <1>2, <1>3, <1>4 DEF TypeOK, Row
<1> USE DEF Row
<1>6. RowOfFile' /\ GestureHolds'
  BY <1>1, <1>3 DEF RowOfFile, GestureHolds
<1>7. MintedInOrder'
  <2>1. proc.job <= minted /\ (\A e \in proc.log : e.job <= minted /\ e.job \in Nat)
    BY RowTypes DEF MintedInOrder, Event, JobId
  <2> QED
    BY <1>1, <1>3, <1>4, <2>1 DEF MintedInOrder, Held, WasAsked, Job
<1>8. StepsAfforded' /\ HeldNotCancelled'
  BY <1>1, <1>2, <1>3 DEF StepsAfforded, HeldNotCancelled, Held, NoJob, JobId
<1>9. RowConstraints'
  BY <1>1, <1>3, <1>4 DEF RowConstraints, Held, Logged, WasAsked
<1>10. CurrentJobOpen' /\ OneEndPerJob'
  BY <1>1, <1>2, <1>3 DEF CurrentJobOpen, OneEndPerJob, Held, NoJob, JobId
<1>11. AskedAfterPromotion' /\ NothingAskedWhilePending' /\ EveryAskedJobKnown'
  BY <1>3, <1>4 DEF AskedAfterPromotion, NoJobBeforePromotion, NothingAskedWhilePending,
                    EveryAskedJobKnown, WasAsked
<1> QED
  BY <1>5, <1>6, <1>7, <1>8, <1>9, <1>10, <1>11

-----------------------------------------------------------------------------
(* The actions. *)

LEMMA CancelProcessingIInv == IInv /\ CancelProcessing => IInv'
<1> SUFFICES ASSUME IInv, CancelProcessing PROVE IInv'
  OBVIOUS
<1> DEFINE nothing == {}
<1>0. nothing \in SUBSET Command
  OBVIOUS
<1>1. /\ proc.state = "processing" /\ proc.job \in Job /\ proc \in Processing
      /\ gesture = Closed
      /\ UNCHANGED <<file, steps, gesture, minted, blob, promotions, jobs, facts, erased, lost>>
      /\ promotions \in BOOLEAN
  BY CurrentJob DEF CancelProcessing, Unlocked, sourceVars, jobsVars, IInv, TypeOK
<1>2. Cmd("cancel", proc.job) \in Command
  BY <1>1, CommandTypes
<1>3. /\ "cancelled" \in ErrorCode /\ "StepSkipped" \in StopEvent
      /\ "AwaitedStepDropped" \in EndEvent
  BY DEF ErrorCode, StopEvent, EndEvent
<1>4. CASE AwaitsSource(proc) /\ DropAwaited(proc, "cancelled")
  <2>1. /\ proc' = Push(End(proc, "cancelled"), "AwaitedStepDropped", proc.job)
        /\ outbox' = outbox \cup nothing /\ asked' = asked
    BY <1>4 DEF DropAwaited, Save, DropAwaitedStep
  <2>2. ~Held(proc)
    BY <1>4 DEF AwaitsSource, IInv, RowConstraints
  <2> HIDE DEF nothing
  <2> QED
    BY <1>0, <1>1, <1>3, <2>1, <2>2, StopsByEvent
<1>5. CASE Held(proc) /\ SkipNextStep(RequestCancel(proc), {Cmd("cancel", proc.job)})
  <2>1. RequestCancel(proc).job = proc.job
    BY <1>1, RequestCancelRow DEF Row
  <2>2. /\ proc' = Push(End(RequestCancel(proc), "cancelled"), "StepSkipped", proc.job)
        /\ outbox' = outbox \cup {Cmd("cancel", proc.job)} /\ asked' = asked
    BY <1>5, <2>1 DEF SkipNextStep, Save, SkipStep
  <2> QED
    BY <1>1, <1>2, <1>3, <2>2, StopsByEvent
<1>6. CASE ~Held(proc) /\ Save(RequestCancel(proc), {Cmd("cancel", proc.job)})
  <2> DEFINE cancel == RequestCancel(proc).cancel
             passport == proc.passport
  <2>1. proc' = RequestCancel(proc) /\ outbox' = outbox \cup {Cmd("cancel", proc.job)}
        /\ asked' = asked
    BY <1>6 DEF Save
  <2>2. /\ Row(proc', proc.state, proc.error, proc.job, proc.step, proc.past, cancel,
               passport, proc.next, proc.awaiting, proc.log)
        /\ cancel \in BOOLEAN /\ passport \in Passport
    BY <1>1, <2>1, RequestCancelRow DEF Row, Processing
  <2>3. TypeOK'
    BY <1>1, <1>2, <2>1, <2>2 DEF IInv, TypeOK, Row
  <2>4. file = "committed"
    BY <1>1, CurrentJob
  <2> HIDE DEF cancel, passport
  <2>5. (Held(proc) => ~cancel) /\ (passport # NoPassport => proc.passport # NoPassport)
    BY <1>6 DEF passport
  <2> QED
    BY <1>1, <2>1, <2>2, <2>3, <2>4, <2>5, RowAnnotated
<1> QED
  BY <1>4, <1>5, <1>6 DEF CancelProcessing

LEMMA FreezeFileIInv == IInv /\ FreezeFile => IInv'
<1> SUFFICES ASSUME IInv, FreezeFile PROVE IInv'
  OBVIOUS
<1> DEFINE nothing == {}
<1>0. nothing \in SUBSET Command
  OBVIOUS
<1>1. /\ proc.state = "processing" /\ proc.job \in Job /\ proc \in Processing
      /\ UNCHANGED <<file, steps, gesture, minted, blob, promotions, jobs, facts, erased, lost>>
      /\ promotions \in BOOLEAN
  BY CurrentJob DEF FreezeFile, sourceVars, jobsVars, IInv, TypeOK
<1>2. Cmd("cancel", proc.job) \in Command
  BY <1>1, CommandTypes
<1>3. /\ "cancelled" \in ErrorCode /\ "StepSkipped" \in StopEvent
      /\ {"AwaitedStepDropped", "JobCancelledOnFreeze"} \subseteq EndEvent
  BY DEF ErrorCode, StopEvent, EndEvent
<1>4. CASE AwaitsSource(proc) /\ DropAwaited(proc, "cancelled")
  <2>1. /\ proc' = Push(End(proc, "cancelled"), "AwaitedStepDropped", proc.job)
        /\ outbox' = outbox \cup nothing /\ asked' = asked
    BY <1>4 DEF DropAwaited, Save, DropAwaitedStep
  <2>2. ~Held(proc)
    BY <1>4 DEF AwaitsSource, IInv, RowConstraints
  <2> HIDE DEF nothing
  <2> QED
    BY <1>0, <1>1, <1>3, <2>1, <2>2, StopsByEvent
<1>5. CASE Held(proc) /\ SkipNextStep(proc, {})
  <2>1. /\ proc' = Push(End(proc, "cancelled"), "StepSkipped", proc.job)
        /\ outbox' = outbox \cup nothing /\ asked' = asked
    BY <1>5 DEF SkipNextStep, Save, SkipStep
  <2> HIDE DEF nothing
  <2> QED
    BY <1>0, <1>1, <1>3, <2>1, StopsByEvent
<1>6. CASE ~Held(proc) /\ Save(CancelOnFreeze(proc), {Cmd("cancel", proc.job)})
  <2>1. /\ proc' = Push(End(RequestCancel(proc), "cancelled"), "JobCancelledOnFreeze", proc.job)
        /\ outbox' = outbox \cup {Cmd("cancel", proc.job)} /\ asked' = asked
    BY <1>6 DEF CancelOnFreeze, Save
  <2> QED
    BY <1>1, <1>2, <1>3, <1>6, <2>1, StopsByEvent
<1> QED
  BY <1>4, <1>5, <1>6 DEF FreezeFile

LEMMA RemovalsIInv == IInv /\ (DeleteFile \/ AbandonUpload) => IInv'
<1> SUFFICES ASSUME IInv, DeleteFile \/ AbandonUpload PROVE IInv'
  OBVIOUS
<1>1. RemoveFile /\ gesture = Closed /\ erased' = erased
  BY DEF DeleteFile, AbandonUpload, Unlocked
<1>2. outbox' \in SUBSET Command
  <2>1. CASE DeleteFile
    BY <2>1, CommandTypes DEF DeleteFile, IInv, TypeOK
  <2>2. CASE AbandonUpload
    BY <2>2 DEF AbandonUpload, IInv, TypeOK
  <2> QED
    BY <2>1, <2>2
<1>3. TypeOK'
  BY <1>1, <1>2, BlankRow, ChainAssumption DEF RemoveFile, sourceVars, jobsVars, IInv, TypeOK
<1> QED
  BY <1>1, <1>3, FileRemoved

LEMMA OpenGestureIInv ==
  ASSUME IInv, NEW person \in Person, NEW n \in 1..MaxSteps, OpenGesture(person, n)
  PROVE  IInv'
<1> USE DEF IInv
<1>1. /\ UNCHANGED <<file, steps, proc, minted, blob, promotions, asked, outbox, jobs, facts,
                     lost, erased>>
      /\ gesture' = [by |-> person, steps |-> n, pending |-> (blob = "pending")]
      /\ file \in {"pending", "committed"} /\ proc.state # "processing"
      /\ minted + n <= MaxJobs
  BY DEF OpenGesture, Settled, RowOfFile, sourceVars, jobsVars
<1>2. n \in Nat /\ n # 0 /\ n \in 0..MaxSteps
  BY ChainAssumption
<1>3. gesture' \in [by : Person \cup {NoPassport}, steps : 0..MaxSteps, pending : BOOLEAN]
  BY <1>1, <1>2
<1>4. gesture'.by = person /\ gesture'.steps = n /\ (~gesture'.pending => blob # "pending")
  BY <1>1
<1>5. TypeOK'
  BY <1>1, <1>3 DEF TypeOK
<1>6. GestureHolds'
  BY <1>1, <1>2, <1>4 DEF GestureHolds
<1>7. RowOfFile' /\ MintedInOrder' /\ StepsAfforded' /\ RowConstraints'
  BY <1>1 DEF RowOfFile, MintedInOrder, StepsAfforded, RowConstraints, Held, Logged, WasAsked
<1>8. /\ HeldNotCancelled' /\ CurrentJobOpen' /\ OneEndPerJob' /\ AskedAfterPromotion'
      /\ NothingAskedWhilePending' /\ EveryAskedJobKnown'
  BY <1>1 DEF HeldNotCancelled, CurrentJobOpen, OneEndPerJob, AskedAfterPromotion,
              NoJobBeforePromotion, NothingAskedWhilePending, EveryAskedJobKnown, Held, WasAsked
<1> QED
  BY <1>5, <1>6, <1>7, <1>8

LEMMA CommitStoredOnlyIInv == IInv /\ CommitStoredOnly => IInv'
<1> SUFFICES ASSUME IInv, CommitStoredOnly PROVE IInv'
  OBVIOUS
<1> USE DEF IInv
<1>1. /\ UNCHANGED <<steps, proc, gesture, minted, blob, promotions, asked, outbox, jobs, facts,
                     lost, erased>>
      /\ file = "pending" /\ file' = "committed" /\ gesture = Closed
      /\ proc = Blank
  BY DEF CommitStoredOnly, Unlocked, RowOfFile, sourceVars, jobsVars
<1>2. TypeOK'
  BY <1>1 DEF TypeOK
<1>3. RowOfFile' /\ GestureHolds'
  BY <1>1 DEF RowOfFile, GestureHolds, Blank
<1>4. MintedInOrder' /\ StepsAfforded' /\ RowConstraints'
  BY <1>1 DEF MintedInOrder, StepsAfforded, RowConstraints, Held, Logged, WasAsked
<1>5. HeldNotCancelled' /\ CurrentJobOpen' /\ OneEndPerJob'
  BY <1>1 DEF HeldNotCancelled, CurrentJobOpen, OneEndPerJob, Held
<1>6. AskedAfterPromotion' /\ NothingAskedWhilePending' /\ EveryAskedJobKnown'
  BY <1>1 DEF AskedAfterPromotion, NoJobBeforePromotion, NothingAskedWhilePending,
              EveryAskedJobKnown, WasAsked
<1> QED
  BY <1>2, <1>3, <1>4, <1>5, <1>6

(* The Passport of a row spoils. *)
LEMMA PassportChanges ==
  ASSUME IInv, proc.passport \in Person,
         proc' = [proc EXCEPT !.passport = UnreadablePassport],
         UNCHANGED <<file, steps, gesture, minted, asked, blob, promotions, outbox, jobs, facts,
                     lost>>,
         erased' \subseteq Person
  PROVE  IInv'
<1> DEFINE cancel == proc.cancel
<1>1. /\ proc \in Processing /\ UnreadablePassport \in Passport /\ cancel \in BOOLEAN
      /\ proc.passport # NoPassport
  BY RowTypes, PassportAssumption DEF IInv, Passport
<1>3. Row(proc', proc.state, proc.error, proc.job, proc.step, proc.past, cancel,
          UnreadablePassport, proc.next, proc.awaiting, proc.log)
  BY <1>1, PassportReplacedRow
<1>4. TypeOK'
  BY <1>3 DEF IInv, TypeOK, Row
<1>5. file = "committed"
  BY <1>1 DEF IInv, RowOfFile, RowConstraints
<1>6. Held(proc) => ~cancel
  BY DEF IInv, HeldNotCancelled
<1> HIDE DEF cancel
<1> QED
  BY <1>1, <1>3, <1>4, <1>5, <1>6, RowAnnotated

LEMMA ErasePersonIInv ==
  ASSUME IInv, NEW person \in Person, ErasePerson(person)
  PROVE  IInv'
<1>1. erased' \subseteq Person
  BY DEF ErasePerson, IInv, TypeOK
<1>2. CASE RemoveFile /\ gesture = Closed /\ outbox' = outbox
  <2>1. TypeOK'
    BY <1>1, <1>2, BlankRow, ChainAssumption DEF RemoveFile, sourceVars, jobsVars, IInv, TypeOK
  <2> QED
    BY <1>2, <2>1, FileRemoved
<1>3. CASE /\ proc' = Redact(proc, person)
           /\ UNCHANGED <<file, steps, gesture, minted, sourceVars, asked, outbox, jobsVars>>
  <2> DEFINE cancel == proc.cancel
             passport == IF proc.passport = person THEN NoPassport ELSE proc.passport
  <2>1. UNCHANGED <<file, steps, gesture, minted, blob, promotions, asked, outbox, jobs, facts, lost>>
    BY <1>3 DEF sourceVars, jobsVars
  <2>2. /\ proc \in Processing /\ passport \in Passport /\ cancel \in BOOLEAN
        /\ passport # NoPassport => proc.passport # NoPassport
    BY RowTypes DEF IInv, Passport
  <2>3. Row(proc', proc.state, proc.error, proc.job, proc.step, proc.past, cancel,
            passport, proc.next, proc.awaiting, proc.log)
    BY <1>3, <2>2, RedactRow
  <2>4. TypeOK'
    BY <1>1, <2>1, <2>3 DEF IInv, TypeOK, Row
  <2>5. file # "committed" => proc' = proc
    BY <1>3, RedactBlank DEF IInv, RowOfFile, TypeOK
  <2>6. Held(proc) => ~cancel
    BY DEF IInv, HeldNotCancelled
  <2> HIDE DEF cancel, passport
  <2> QED
    BY <2>1, <2>2, <2>3, <2>4, <2>5, <2>6, RowAnnotated
<1>4. file # "gone" /\ person = Uploader => gesture = Closed
  BY DEF ErasePerson, Names, Unlocked
<1> QED
  BY <1>2, <1>3, <1>4 DEF ErasePerson

LEMMA PassportSpoilsIInv == IInv /\ PassportSpoils => IInv'
<1> SUFFICES ASSUME IInv, PassportSpoils PROVE IInv'
  OBVIOUS
<1>1. /\ UNCHANGED <<file, steps, gesture, minted, blob, promotions, asked, outbox, jobs, facts, lost>>
      /\ erased' = erased /\ proc.passport \in Person
      /\ proc' = [proc EXCEPT !.passport = UnreadablePassport]
  BY DEF PassportSpoils, sourceVars, jobsVars
<1>2. erased' \subseteq Person
  BY <1>1 DEF IInv, TypeOK
<1> QED
  BY <1>1, <1>2, PassportChanges

(* A rollback, the source's verdict, a step of Jobs: the row is not touched. *)
LEMMA ElsewhereIInv ==
  ASSUME IInv,
         \/ RollBackGesture
         \/ Promote \/ SourceFails
         \/ \E job \in Job : \/ JobsJudgesCreate(job) \/ JobsFinishes(job) \/ JobsFails(job)
                             \/ JobsCancels(job) \/ JobsBackstop(job)
  PROVE  IInv'
<1> USE DEF IInv
<1>1. CASE RollBackGesture
  <2>1. /\ UNCHANGED <<file, steps, proc, minted, blob, promotions, asked, outbox, jobs, facts,
                       lost, erased>>
        /\ gesture' = Closed
    BY <1>1 DEF RollBackGesture, sourceVars, jobsVars
  <2>2. gesture' \in [by : Person \cup {NoPassport}, steps : 0..MaxSteps, pending : BOOLEAN]
    BY <2>1, ChainAssumption DEF Closed
  <2>3. TypeOK' /\ (promotions' => blob' # "pending")
    BY <2>1, <2>2 DEF TypeOK, AskedAfterPromotion
  <2> QED
    BY <2>1, <2>3, RowUntouched
<1>2. CASE Promote
  <2>1. /\ UNCHANGED <<file, steps, proc, gesture, minted, asked, outbox, jobs, facts, lost, erased>>
        /\ blob' = "uploaded" /\ promotions' \in BOOLEAN
    BY <1>2 DEF Promote, rowVars, jobsVars
  <2>2. TypeOK'
    BY <2>1 DEF TypeOK
  <2> QED
    BY <2>1, <2>2, RowUntouched
<1>3. CASE SourceFails
  <2>1. /\ UNCHANGED <<file, steps, proc, gesture, minted, promotions, asked, outbox, jobs, facts,
                       lost, erased>>
        /\ blob' = "failed"
    BY <1>3 DEF SourceFails, rowVars, jobsVars
  <2>2. TypeOK'
    BY <2>1 DEF TypeOK
  <2> QED
    BY <2>1, <2>2, RowUntouched
<1>4. ASSUME NEW job \in Job,
             \/ JobsJudgesCreate(job) \/ JobsFinishes(job) \/ JobsFails(job)
             \/ JobsCancels(job) \/ JobsBackstop(job)
      PROVE  IInv'
  <2>1. /\ UNCHANGED <<file, steps, proc, gesture, minted, blob, promotions, asked, erased>>
        /\ outbox' \subseteq outbox
        /\ lost' \subseteq Job
    BY <1>4 DEF JobsJudgesCreate, JobsFinishes, JobsFails, JobsCancels, JobsBackstop, Consume,
                rowVars, sourceVars, TypeOK
  <2>2. jobs' \in [Job -> JobState]
    BY <1>4 DEF JobsJudgesCreate, JobsFinishes, JobsFails, JobsCancels, JobsBackstop, Settle,
                TypeOK, JobState
  <2>3. facts' \subseteq FactMessage
    <3>1. \A fact \in JobFact : FactOf(fact, job) \in FactMessage
      BY DEF FactOf, FactMessage
    <3>2. {"completed", "failed", "cancelled", "creation_rejected"} = JobFact
      BY DEF JobFact
    <3>3. \A active \in Job :
            [fact |-> "creation_rejected", job |-> job, active |-> active] \in FactMessage
      BY DEF FactMessage
    <3>4. CASE JobsJudgesCreate(job)
      BY <3>1, <3>2, <3>3, <3>4 DEF JobsJudgesCreate, Publish, TypeOK, Live
    <3>5. CASE JobsFinishes(job) \/ JobsFails(job) \/ JobsCancels(job) \/ JobsBackstop(job)
      BY <3>1, <3>2, <3>5 DEF JobsFinishes, JobsFails, JobsCancels, JobsBackstop, Publish, TypeOK
    <3> QED
      BY <1>4, <3>4, <3>5
  <2>4. TypeOK' /\ (promotions' => blob' # "pending")
    BY <2>1, <2>2, <2>3 DEF TypeOK, AskedAfterPromotion
  <2> QED
    BY <2>1, <2>4, RowUntouched
<1> QED
  BY <1>1, <1>2, <1>3, <1>4

(* A chain stopped for want of a Passport that reads. *)
LEMMA ReasonIsError ==
  ASSUME NEW stored
  PROVE  PassportReason(stored) \in ErrorCode /\ PassportReason(stored) # "none"
  BY DEF PassportReason, ErrorCode

LEMMA RunnerReportsDoneIInv ==
  ASSUME IInv, NEW job \in Job, RunnerReportsDone(job)
  PROVE  IInv'
<1> DEFINE staged == {Cmd("finish", job)}
<1>1. /\ IsRunning(proc) /\ proc.job = job /\ proc.state = "processing" /\ ~Held(proc)
      /\ UNCHANGED <<file, steps, gesture, blob, promotions, jobs, facts, erased, lost>>
      /\ proc \in Processing /\ promotions \in BOOLEAN
  BY DEF RunnerReportsDone, IsActive, IsRunning, sourceVars, jobsVars, IInv, TypeOK
<1>2. staged \in SUBSET Command
  BY CommandTypes
<1>3. ReportDone(proc).passport = NoPassport /\ ReportDone(proc).job = job
  <2>1. "none" \in ErrorCode /\ "JobReportedDone" \in EndEvent \cup StopEvent /\ job \in JobId
    BY <1>1, CurrentJob DEF ErrorCode, EndEvent
  <2>2. Row(ReportDone(proc), IF "none" = "none" THEN "ready" ELSE "failed", "none", proc.job,
            proc.step, proc.past, proc.cancel, NoPassport, NoJob, FALSE,
            proc.log \cup {[event |-> "JobReportedDone", job |-> proc.job]})
    BY <1>1, <2>1, EndedRow DEF ReportDone
  <2> QED
    BY <1>1, <2>2 DEF Row
<1>4. /\ "none" \in ErrorCode /\ "cancelled" \in ErrorCode /\ "cancelled" # "none"
      /\ "JobReportedDone" \in EndEvent /\ {"StepSkipped", "StepAbandoned"} \subseteq StopEvent
  BY DEF ErrorCode, EndEvent, StopEvent
<1>5. CASE Save(ReportDone(proc), staged) /\ UNCHANGED minted
  <2>1. /\ proc' = Push(End(proc, "none"), "JobReportedDone", proc.job)
        /\ outbox' = outbox \cup staged /\ asked' = asked
    BY <1>5 DEF Save, ReportDone
  <2> HIDE DEF staged
  <2> QED
    BY <1>1, <1>2, <1>4, <1>5, <2>1, StopsByEvent
<1>6. CASE SkipNextStep(ReportDone(proc), staged) /\ UNCHANGED minted
  <2>1. /\ proc' = Push(End(ReportDone(proc), "cancelled"), "StepSkipped", proc.job)
        /\ outbox' = outbox \cup staged /\ asked' = asked
    BY <1>1, <1>3, <1>6 DEF SkipNextStep, Save, SkipStep
  <2> HIDE DEF staged
  <2> QED
    BY <1>1, <1>2, <1>4, <1>6, <2>1, DoneThenStops
<1>7. CASE Save(AbandonStep(ReportDone(proc), PassportReason(proc.passport)), staged)
           /\ UNCHANGED minted
  <2> DEFINE reason == PassportReason(proc.passport)
  <2>1. /\ proc' = Push(End(ReportDone(proc), reason), "StepAbandoned", proc.job)
        /\ outbox' = outbox \cup staged /\ asked' = asked
    BY <1>1, <1>3, <1>7 DEF AbandonStep, Save
  <2>2. reason \in ErrorCode /\ reason # "none"
    BY ReasonIsError
  <2> HIDE DEF staged, reason
  <2> QED
    BY <1>1, <1>2, <1>4, <1>7, <2>1, <2>2, DoneThenStops
<1>8. CASE /\ HasNextStep /\ ~proc.cancel
           /\ Save(ReportDoneHolding(proc, minted + 1), staged)
           /\ minted' = minted + 1
  <2> HIDE DEF staged
  <2> QED
    BY <1>1, <1>2, <1>8, NextStepHeld
<1> QED
  BY <1>5, <1>6, <1>7, <1>8 DEF RunnerReportsDone

LEMMA RunnerReportsFailureIInv ==
  ASSUME IInv, NEW job \in Job, RunnerReportsFailure(job)
  PROVE  IInv'
<1> DEFINE staged == {Cmd("fail", job)}
<1>1. /\ proc.state = "processing" /\ ~Held(proc)
      /\ UNCHANGED <<file, steps, gesture, minted, blob, promotions, jobs, facts, erased, lost>>
      /\ proc \in Processing /\ promotions \in BOOLEAN
  BY DEF RunnerReportsFailure, IsActive, IsRunning, sourceVars, jobsVars, IInv, TypeOK
<1>2. staged \in SUBSET Command
  BY CommandTypes
<1>3. "reported" \in ErrorCode /\ "JobReportedFailed" \in EndEvent
  BY DEF ErrorCode, EndEvent
<1>4. /\ proc' = Push(End(proc, "reported"), "JobReportedFailed", proc.job)
      /\ outbox' = outbox \cup staged /\ asked' = asked
  BY DEF RunnerReportsFailure, Save, ReportFailed
<1> HIDE DEF staged
<1> QED
  BY <1>1, <1>2, <1>3, <1>4, StopsByEvent

(* A handler that finds nothing to do. *)
LEMMA NothingToDo ==
  ASSUME IInv,
         UNCHANGED <<file, steps, proc, gesture, minted, blob, asked, outbox, jobs, erased, lost>>,
         promotions' \in BOOLEAN, promotions' => promotions,
         facts' \subseteq facts
  PROVE  IInv'
<1>1. TypeOK' /\ (promotions' => blob' # "pending")
  BY DEF IInv, TypeOK, AskedAfterPromotion
<1> QED
  BY <1>1, RowUntouched DEF IInv

LEMMA SourcePromotedIInv == IInv /\ SourcePromoted => IInv'
<1> SUFFICES ASSUME IInv, SourcePromoted PROVE IInv'
  OBVIOUS
<1> DEFINE nothing == {}
<1>1. /\ UNCHANGED <<file, steps, gesture, minted, blob, jobs, facts, erased, lost>>
      /\ gesture = Closed /\ promotions' \in BOOLEAN /\ promotions
      /\ blob # "pending" /\ proc \in Processing /\ facts' \subseteq facts
      /\ nothing \in SUBSET Command
  BY ChainAssumption DEF SourcePromoted, Unlocked, jobsVars, IInv, AskedAfterPromotion, TypeOK
<1>2. CASE UNCHANGED <<proc, asked, outbox>>
  BY <1>1, <1>2, NothingToDo
<1>3. CASE AwaitsSource(proc) /\ proc.passport \in Person
           /\ LaunchStep(proc, proc.job, proc.step, proc.passport, {})
  BY <1>1, <1>3, AwaitedStepLaunched
<1>4. CASE AwaitsSource(proc) /\ DropAwaited(proc, PassportReason(proc.passport))
  <2> DEFINE reason == PassportReason(proc.passport)
  <2>1. /\ proc' = Push(End(proc, reason), "AwaitedStepDropped", proc.job)
        /\ outbox' = outbox \cup nothing /\ asked' = asked
    BY <1>4 DEF DropAwaited, Save, DropAwaitedStep
  <2>2. reason \in ErrorCode /\ "AwaitedStepDropped" \in EndEvent
    BY ReasonIsError DEF EndEvent
  <2>3. ~Held(proc) /\ proc.state = "processing"
    BY <1>4 DEF AwaitsSource, IInv, RowConstraints
  <2> HIDE DEF nothing, reason
  <2> QED
    BY <1>1, <2>1, <2>2, <2>3, StopsByEvent
<1> QED
  BY <1>2, <1>3, <1>4 DEF SourcePromoted, ReleaseAwaitedStep

LEMMA ReceiveFactIInv ==
  ASSUME IInv, NEW m \in facts, ReceiveFact(m)
  PROVE  IInv'
<1> DEFINE nothing == {}
<1>1. /\ UNCHANGED <<file, steps, gesture, minted, blob, promotions, jobs, erased, lost>>
      /\ gesture = Closed /\ promotions \in BOOLEAN
      /\ facts' \subseteq facts /\ proc \in Processing /\ m \in FactMessage
      /\ nothing \in SUBSET Command
  BY DEF ReceiveFact, Unlocked, sourceVars, IInv, TypeOK
<1>2. CASE UNCHANGED <<proc, asked, outbox>>
  BY <1>1, <1>2, NothingToDo
<1>3. CASE Applied(proc, m.job, m.fact) = "released" /\ ReleaseNextStep(proc)
  <2>1. Held(proc) /\ proc.state = "processing"
    BY <1>3 DEF Applied, IInv, RowConstraints
  <2>2. CASE proc.passport \in Person /\ LaunchStep(proc, proc.next, proc.step + 1, proc.passport, {})
    BY <1>1, <2>1, <2>2, HeldStepLaunched
  <2>3. CASE SkipNextStep(proc, {})
    <3>1. /\ proc' = Push(End(proc, "cancelled"), "StepSkipped", proc.job)
          /\ outbox' = outbox \cup nothing /\ asked' = asked
      BY <2>3 DEF SkipNextStep, Save, SkipStep
    <3>2. "cancelled" \in ErrorCode /\ "StepSkipped" \in StopEvent
      BY DEF ErrorCode, StopEvent
    <3> HIDE DEF nothing
    <3> QED
      BY <1>1, <2>1, <3>1, <3>2, StopsByEvent
  <2>4. CASE AbandonNextStep(proc, {})
    <3> DEFINE reason == PassportReason(proc.passport)
    <3>1. /\ proc' = Push(End(proc, reason), "StepAbandoned", proc.job)
          /\ outbox' = outbox \cup nothing /\ asked' = asked
      BY <2>4 DEF AbandonNextStep, Save, AbandonStep
    <3>2. reason \in ErrorCode /\ "StepAbandoned" \in StopEvent
      BY ReasonIsError DEF StopEvent
    <3> HIDE DEF nothing, reason
    <3> QED
      BY <1>1, <2>1, <3>1, <3>2, StopsByEvent
  <2> QED
    BY <1>3, <2>2, <2>3, <2>4 DEF ReleaseNextStep
<1>4. CASE /\ Applied(proc, m.job, m.fact) # "released"
           /\ Save(Receive(proc, m.job, m.fact), RecoveryCancel(m))
  <2> DEFINE staged == RecoveryCancel(m)
  <2>1. staged \in SUBSET Command
    <3>1. m.active # NoJob => m.active \in Job
      BY <1>1 DEF FactMessage
    <3> QED
      BY <3>1, CommandTypes DEF RecoveryCancel
  <2>2. CASE Applied(proc, m.job, m.fact) = "ended"
    <3>1. m.job = proc.job /\ IsRunning(proc) /\ ~Held(proc) /\ proc.state = "processing"
      BY <2>2 DEF Applied, IsRunning
    <3> DEFINE error == ErrorOf(m.fact)
               event == EndEventOf(m.fact)
    <3>2. /\ proc' = Push(End(proc, error), event, proc.job)
          /\ outbox' = outbox \cup staged /\ asked' = asked
      BY <1>4, <2>2, <3>1 DEF Save, Receive
    <3>3. error \in ErrorCode /\ event \in EndEvent
      BY DEF ErrorOf, EndEventOf, ErrorCode, EndEvent
    <3> HIDE DEF staged, error, event
    <3> QED
      BY <1>1, <2>1, <3>1, <3>2, <3>3, StopsByEvent
  <2>3. CASE Applied(proc, m.job, m.fact) # "ended"
    <3>1. proc' = proc /\ outbox' = outbox /\ asked' = asked
      BY <1>4, <2>3 DEF Save, Receive, RecoveryCancel
    <3> QED
      BY <1>1, <3>1, NothingToDo
  <2> QED
    BY <2>2, <2>3
<1> QED
  BY <1>2, <1>3, <1>4 DEF ReceiveFact

(* Every step keeps the invariant. *)
LEMMA NextIInv == IInv /\ [Next]_vars => IInv'
<1> SUFFICES ASSUME IInv, [Next]_vars PROVE IInv'
  OBVIOUS
<1>1. CASE Gestures
  <2>1. ASSUME NEW person \in Person, NEW n \in 1..MaxSteps, OpenGesture(person, n) PROVE IInv'
    BY <2>1, OpenGestureIInv
  <2>2. ASSUME NEW person \in Person, ErasePerson(person) PROVE IInv'
    BY <2>2, ErasePersonIInv
  <2> QED
    BY <1>1, <2>1, <2>2, GestureCommits, ElsewhereIInv, CommitStoredOnlyIInv,
       CancelProcessingIInv, FreezeFileIInv, RemovalsIInv, PassportSpoilsIInv DEF Gestures
<1>2. CASE Runner
  BY <1>2, RunnerReportsDoneIInv, RunnerReportsFailureIInv DEF Runner
<1>3. CASE Source
  BY <1>3, ElsewhereIInv, SourcePromotedIInv DEF Source
<1>4. CASE Jobs
  BY <1>4, ElsewhereIInv DEF Jobs
<1>5. CASE Facts
  BY <1>5, ReceiveFactIInv DEF Facts
<1>6. CASE UNCHANGED vars
  <2>1. /\ UNCHANGED <<file, steps, proc, gesture, minted, blob, asked, outbox, jobs, erased, lost>>
        /\ promotions' = promotions /\ facts' = facts
    BY <1>6 DEF vars
  <2>2. promotions \in BOOLEAN
    BY DEF IInv, TypeOK
  <2> QED
    BY <2>1, <2>2, NothingToDo
<1> QED
  BY <1>1, <1>2, <1>3, <1>4, <1>5, <1>6 DEF Next

(* The invariant of a chain: it holds in every state, for any persons and any
   number of jobs and steps. *)
THEOREM ChainInvariant == Spec => []IInv
  BY InitIInv, NextIInv, PTL DEF Spec

(* The rows and the log of the table never break the types. *)
THEOREM TypesHold == Spec => []TypeOK
  BY ChainInvariant, PTL DEF IInv

(* No transaction of a chain ever breaks a CHECK of drive.file_processing, and
   an awaited first step was never asked of Jobs. *)
THEOREM RowConstraintsHold == Spec => []RowConstraints
  BY ChainInvariant, PTL DEF IInv

(* Each job of a file ends once in the recorded facts, whatever the order and
   the repetition of the reports and of Jobs' facts. *)
THEOREM JobsEndOnce == Spec => []OneEndPerJob
  BY ChainInvariant, PTL DEF IInv

(* No job of the file is ever forgotten while the file exists. *)
THEOREM JobsStayKnown == Spec => []EveryAskedJobKnown
  BY ChainInvariant, PTL DEF IInv

(* No job is asked of Jobs before its source is promoted, although the gesture
   reads the source's state without locking it. *)
THEOREM PromotionComesFirst == Spec => []NoJobBeforePromotion
  BY ChainInvariant, PTL DEF IInv, AskedAfterPromotion

(* A cancel never waits beside a held step. *)
THEOREM CancelReleasesHeldStep == Spec => []HeldNotCancelled
  BY ChainInvariant, PTL DEF IInv

-----------------------------------------------------------------------------
(* What a step makes of the chain: the nine things that can happen to it. *)

Untouched == UNCHANGED <<file, steps>>

Kept ==
  /\ Untouched
  /\ proc'.state = proc.state /\ proc'.job = proc.job /\ proc'.step = proc.step
  /\ proc'.next = proc.next /\ proc'.awaiting = proc.awaiting

Stored == file = "pending" /\ file' = "committed" /\ UNCHANGED <<steps, proc>>

Started ==
  /\ proc.state # "processing" /\ file # "gone"
  /\ file' = "committed" /\ steps' \in 1..MaxSteps
  /\ proc'.state = "processing" /\ proc'.step = 0 /\ proc'.next = NoJob

AwaitedLaunched ==
  /\ Untouched
  /\ AwaitsSource(proc) /\ ~Held(proc)
  /\ proc'.state = "processing" /\ proc'.job = proc.job /\ proc'.step = proc.step
  /\ proc'.next = NoJob /\ ~proc'.awaiting

NextHeld ==
  /\ Untouched
  /\ IsRunning(proc) /\ HasNextStep /\ ~proc.cancel
  /\ proc'.state = "processing" /\ proc'.job = proc.job /\ proc'.step = proc.step
  /\ proc'.next # NoJob /\ ~proc'.awaiting

NextLaunched ==
  /\ Untouched
  /\ proc.state = "processing" /\ Held(proc) /\ ~proc.awaiting
  /\ proc'.state = "processing" /\ proc'.step = proc.step + 1
  /\ proc'.next = NoJob /\ ~proc'.awaiting

Finished ==
  /\ Untouched
  /\ IsRunning(proc) /\ ~HasNextStep
  /\ proc'.state = "ready" /\ proc'.job = proc.job /\ proc'.step = proc.step
  /\ proc'.next = NoJob /\ ~proc'.awaiting

Stopped ==
  /\ Untouched
  /\ proc.state = "processing"
  /\ proc'.state = "failed" /\ proc'.job = proc.job /\ proc'.step = proc.step
  /\ proc'.next = NoJob /\ ~proc'.awaiting

Removed == file # "gone" /\ file' = "gone" /\ steps' = 0 /\ proc' = Blank

ChainStep ==
  \/ Kept \/ Stored \/ Started \/ AwaitedLaunched \/ NextHeld \/ NextLaunched
  \/ Finished \/ Stopped \/ Removed

(* A row ended for an error is one of a stopped chain. *)
LEMMA EndedStops ==
  ASSUME IInv, proc.state = "processing", Untouched,
         NEW p \in Processing, p.job = proc.job, p.step = proc.step,
         NEW error \in ErrorCode, error # "none", NEW event \in EndEvent \cup StopEvent,
         proc' = Push(End(p, error), event, proc.job)
  PROVE  Stopped
<1>1. proc.job \in JobId
  BY CurrentJob
<1>2. Row(proc', IF error = "none" THEN "ready" ELSE "failed", error, p.job, p.step, p.past,
          p.cancel, NoPassport, NoJob, FALSE,
          p.log \cup {[event |-> event, job |-> proc.job]})
  BY <1>1, EndedRow
<1> QED
  BY <1>2 DEF Row, Stopped

(* The row once the job is reported done and nothing is left to run. *)
LEMMA ReportDoneRow ==
  ASSUME IInv, proc.state = "processing"
  PROVE  /\ ReportDone(proc) \in Processing
         /\ ReportDone(proc).state = "ready" /\ ReportDone(proc).job = proc.job
         /\ ReportDone(proc).step = proc.step /\ ReportDone(proc).next = NoJob
         /\ ~ReportDone(proc).awaiting /\ ReportDone(proc).passport = NoPassport
<1>1. proc \in Processing /\ proc.job \in JobId
  BY CurrentJob, RowTypes DEF IInv
<1>2. "none" \in ErrorCode /\ "JobReportedDone" \in EndEvent \cup StopEvent
  BY DEF ErrorCode, EndEvent
<1>3. Row(ReportDone(proc), IF "none" = "none" THEN "ready" ELSE "failed", "none", proc.job,
          proc.step, proc.past, proc.cancel, NoPassport, NoJob, FALSE,
          proc.log \cup {[event |-> "JobReportedDone", job |-> proc.job]})
  BY <1>1, <1>2, EndedRow DEF ReportDone
<1> QED
  BY <1>3 DEF Row

LEMMA CommitGestureStep == IInv /\ CommitGesture => Started
<1> SUFFICES ASSUME IInv, CommitGesture PROVE Started
  OBVIOUS
<1> DEFINE p == StartChain(proc, gesture.by)
           job == minted + 1
<1>1. /\ gesture.by \in Person /\ gesture.steps \in 1..MaxSteps /\ file # "gone"
      /\ proc.state # "processing" /\ proc \in Processing /\ minted \in Nat
      /\ gesture.by \in Passport
  BY RowTypes, ChainAssumption DEF CommitGesture, Unlocked, IInv, GestureHolds, TypeOK, Passport
<1>2. p \in Processing /\ p.job = proc.job
  BY <1>1, StartChainRow DEF Row
<1>3. job \in JobId /\ p.job # job
  BY <1>1, <1>2, RowTypes DEF IInv, MintedInOrder, JobId, NoJob
<1>4. /\ Row(AwaitSource(p, job), "processing", "none", job, 0, RetireCurrentJob(p).past, FALSE,
             p.passport, NoJob, TRUE, p.log)
      /\ Row(CreateJob(p, job, 0, gesture.by), "processing", "none", job, 0,
             RetireCurrentJob(p).past, RetireCurrentJob(p).cancel, gesture.by, NoJob, FALSE,
             p.log \cup {[event |-> "JobCreated", job |-> job]})
  BY <1>1, <1>2, <1>3, AwaitSourceRow, CreateNextJobRow
<1>5. proc' \in {AwaitSource(p, job), CreateJob(p, job, 0, gesture.by)}
  BY DEF CommitGesture, Save, LaunchStep
<1> HIDE DEF p, job
<1>6. proc'.state = "processing" /\ proc'.step = 0 /\ proc'.next = NoJob
  BY <1>4, <1>5 DEF Row
<1> QED
  BY <1>1, <1>6 DEF CommitGesture, Started

LEMMA StopsByGesture ==
  ASSUME IInv, CancelProcessing \/ FreezeFile
  PROVE  Kept \/ Stopped
<1>1. /\ proc.state = "processing" /\ proc \in Processing /\ Untouched
      /\ RequestCancel(proc) \in Processing
      /\ Row(RequestCancel(proc), proc.state, proc.error, proc.job, proc.step, proc.past, TRUE,
             proc.passport, proc.next, proc.awaiting, proc.log)
  BY RowTypes, RequestCancelRow DEF CancelProcessing, FreezeFile, Untouched, IInv, Row
<1>2. RequestCancel(proc).job = proc.job /\ RequestCancel(proc).step = proc.step
  BY <1>1 DEF Row
<1>3. /\ "cancelled" \in ErrorCode /\ "cancelled" # "none"
      /\ {"AwaitedStepDropped", "JobCancelledOnFreeze", "StepSkipped"} \subseteq EndEvent \cup StopEvent
  BY DEF ErrorCode, EndEvent, StopEvent
<1>4. CASE proc' = RequestCancel(proc)
  BY <1>1, <1>4 DEF Row, Kept
<1>5. CASE \/ proc' = Push(End(proc, "cancelled"), "AwaitedStepDropped", proc.job)
           \/ proc' = Push(End(proc, "cancelled"), "StepSkipped", proc.job)
           \/ proc' = Push(End(RequestCancel(proc), "cancelled"), "StepSkipped", proc.job)
           \/ proc' = Push(End(RequestCancel(proc), "cancelled"), "JobCancelledOnFreeze", proc.job)
  BY <1>1, <1>2, <1>3, <1>5, EndedStops
<1> QED
  BY <1>2, <1>4, <1>5 DEF CancelProcessing, FreezeFile, DropAwaited, SkipNextStep, Save,
                          DropAwaitedStep, SkipStep, CancelOnFreeze

LEMMA RunnerStep ==
  ASSUME IInv, NEW job \in Job, RunnerReportsDone(job) \/ RunnerReportsFailure(job)
  PROVE  NextHeld \/ Finished \/ Stopped
<1>1. /\ IsRunning(proc) /\ proc.state = "processing" /\ proc \in Processing /\ Untouched
      /\ proc.job \in JobId /\ ~proc.awaiting
  BY RowTypes, CurrentJob DEF RunnerReportsDone, RunnerReportsFailure, IsActive, IsRunning,
                              Untouched, IInv
<1>2. /\ ReportDone(proc) \in Processing /\ ReportDone(proc).job = proc.job
      /\ ReportDone(proc).step = proc.step
  BY <1>1, ReportDoneRow
<1>3. /\ "cancelled" \in ErrorCode /\ "cancelled" # "none" /\ "reported" \in ErrorCode
      /\ "reported" # "none"
      /\ {"JobReportedFailed", "StepSkipped", "StepAbandoned"} \subseteq EndEvent \cup StopEvent
  BY DEF ErrorCode, EndEvent, StopEvent
<1>4. CASE RunnerReportsFailure(job)
  <2>1. proc' = Push(End(proc, "reported"), "JobReportedFailed", proc.job)
    BY <1>4 DEF RunnerReportsFailure, Save, ReportFailed
  <2> QED
    BY <1>1, <1>3, <2>1, EndedStops
<1>5. CASE ~HasNextStep /\ proc' = ReportDone(proc)
  BY <1>1, <1>5, ReportDoneRow DEF Finished
<1>6. CASE proc' = SkipStep(ReportDone(proc))
  <2>1. proc' = Push(End(ReportDone(proc), "cancelled"), "StepSkipped", proc.job)
    BY <1>2, <1>6 DEF SkipStep
  <2> QED
    BY <1>1, <1>2, <1>3, <2>1, EndedStops
<1>7. CASE proc' = AbandonStep(ReportDone(proc), PassportReason(proc.passport))
  <2> DEFINE reason == PassportReason(proc.passport)
  <2>1. proc' = Push(End(ReportDone(proc), reason), "StepAbandoned", proc.job)
    BY <1>2, <1>7 DEF AbandonStep
  <2>2. reason \in ErrorCode /\ reason # "none"
    BY ReasonIsError
  <2> HIDE DEF reason
  <2> QED
    BY <1>1, <1>2, <1>3, <2>1, <2>2, EndedStops
<1>8. CASE HasNextStep /\ ~proc.cancel /\ proc' = ReportDoneHolding(proc, minted + 1)
  <2>1. minted + 1 \in JobId
    BY DEF IInv, TypeOK, JobId, NoJob
  <2>2. Row(proc', proc.state, proc.error, proc.job, proc.step, proc.past, proc.cancel,
            proc.passport, minted + 1, proc.awaiting,
            proc.log \cup {[event |-> "JobReportedDone", job |-> proc.job]})
    BY <1>1, <1>8, <2>1, ReportDoneHoldingRow
  <2> QED
    BY <1>1, <1>8, <2>1, <2>2 DEF Row, NextHeld, JobId
<1> QED
  BY <1>4, <1>5, <1>6, <1>7, <1>8 DEF RunnerReportsDone, SkipNextStep, Save

LEMMA SourcePromotedStep ==
  ASSUME IInv, SourcePromoted
  PROVE  Kept \/ AwaitedLaunched \/ Stopped
<1>1. Untouched /\ proc \in Processing
  BY DEF SourcePromoted, Untouched, IInv, TypeOK
<1>2. CASE proc' = proc
  BY <1>1, <1>2 DEF Kept
<1>3. CASE AwaitsSource(proc) /\ ReleaseAwaitedStep(proc)
  <2>1. proc.state = "processing" /\ proc.job \in JobId /\ ~Held(proc) /\ proc.step \in Nat
    BY <1>3, CurrentJob, RowTypes DEF AwaitsSource, IInv, RowConstraints
  <2>2. CASE proc.passport \in Person /\ proc' = CreateJob(proc, proc.job, proc.step, proc.passport)
    <3>1. proc.passport \in Passport
      BY <2>2 DEF Passport
    <3>2. Row(proc', "processing", proc.error, proc.job, proc.step, proc.past, proc.cancel,
              proc.passport, NoJob, FALSE,
              proc.log \cup {[event |-> "JobCreated", job |-> proc.job]})
      BY <1>1, <2>1, <2>2, <3>1, CreateAwaitedJobRow
    <3> QED
      BY <1>1, <1>3, <2>1, <3>2 DEF Row, AwaitedLaunched
  <2>3. CASE proc' = DropAwaitedStep(proc, PassportReason(proc.passport))
    <3> DEFINE reason == PassportReason(proc.passport)
    <3>1. proc' = Push(End(proc, reason), "AwaitedStepDropped", proc.job)
      BY <2>3 DEF DropAwaitedStep
    <3>2. /\ reason \in ErrorCode /\ reason # "none"
          /\ "AwaitedStepDropped" \in EndEvent \cup StopEvent
      BY ReasonIsError DEF EndEvent
    <3> HIDE DEF reason
    <3> QED
      BY <1>1, <2>1, <3>1, <3>2, EndedStops
  <2> QED
    BY <1>3, <2>2, <2>3 DEF ReleaseAwaitedStep, LaunchStep, DropAwaited, Save
<1> QED
  BY <1>2, <1>3 DEF SourcePromoted

LEMMA ReceiveFactStep ==
  ASSUME IInv, NEW m \in facts, ReceiveFact(m)
  PROVE  Kept \/ NextLaunched \/ Stopped
<1>1. Untouched /\ proc \in Processing
  BY DEF ReceiveFact, Untouched, IInv, TypeOK
<1>2. CASE proc' = proc
  BY <1>1, <1>2 DEF Kept
<1>3. CASE Applied(proc, m.job, m.fact) = "released" /\ ReleaseNextStep(proc)
  <2>1. /\ proc.state = "processing" /\ Held(proc) /\ proc.next \in JobId /\ proc.step \in Nat
        /\ proc.next # proc.job /\ ~proc.awaiting
    BY <1>3, CurrentJob, RowTypes DEF Applied, IInv, RowConstraints, MintedInOrder
  <2>2. CASE /\ proc.passport \in Person
             /\ proc' = CreateJob(proc, proc.next, proc.step + 1, proc.passport)
    <3>1. proc.passport \in Passport /\ proc.step + 1 \in Nat
      BY <2>1, <2>2 DEF Passport
    <3>2. Row(proc', "processing", "none", proc.next, proc.step + 1, RetireCurrentJob(proc).past,
              RetireCurrentJob(proc).cancel, proc.passport, NoJob, FALSE,
              proc.log \cup {[event |-> "JobCreated", job |-> proc.next]})
      BY <1>1, <2>1, <2>2, <3>1, CreateNextJobRow
    <3> QED
      BY <1>1, <2>1, <3>2 DEF Row, NextLaunched
  <2>3. CASE proc' = SkipStep(proc)
    <3>1. /\ proc' = Push(End(proc, "cancelled"), "StepSkipped", proc.job)
          /\ "cancelled" \in ErrorCode /\ "cancelled" # "none"
          /\ "StepSkipped" \in EndEvent \cup StopEvent
      BY <2>3 DEF SkipStep, ErrorCode, StopEvent
    <3> QED
      BY <1>1, <2>1, <3>1, EndedStops
  <2>4. CASE proc' = AbandonStep(proc, PassportReason(proc.passport))
    <3> DEFINE reason == PassportReason(proc.passport)
    <3>1. proc' = Push(End(proc, reason), "StepAbandoned", proc.job)
      BY <2>4 DEF AbandonStep
    <3>2. /\ reason \in ErrorCode /\ reason # "none"
          /\ "StepAbandoned" \in EndEvent \cup StopEvent
      BY ReasonIsError DEF StopEvent
    <3> HIDE DEF reason
    <3> QED
      BY <1>1, <2>1, <3>1, <3>2, EndedStops
  <2> QED
    BY <1>3, <2>2, <2>3, <2>4 DEF ReleaseNextStep, LaunchStep, SkipNextStep, AbandonNextStep, Save
<1>4. CASE Applied(proc, m.job, m.fact) = "ended" /\ proc' = Receive(proc, m.job, m.fact)
  <2>1. m.job = proc.job /\ proc.state = "processing"
    BY <1>4 DEF Applied, IsRunning
  <2> DEFINE error == ErrorOf(m.fact)
             event == EndEventOf(m.fact)
  <2>2. proc' = Push(End(proc, error), event, proc.job)
    BY <1>4, <2>1 DEF Receive
  <2>3. error \in ErrorCode /\ error # "none" /\ event \in EndEvent \cup StopEvent
    BY DEF ErrorOf, EndEventOf, ErrorCode, EndEvent
  <2> HIDE DEF error, event
  <2> QED
    BY <1>1, <2>1, <2>2, <2>3, EndedStops
<1> QED
  BY <1>2, <1>3, <1>4 DEF ReceiveFact, Save, Receive

(* Every step is one of the nine, or leaves the chain where it is. *)
LEMMA NextChainStep == IInv /\ [Next]_vars => ChainStep
<1> SUFFICES ASSUME IInv, [Next]_vars PROVE ChainStep
  OBVIOUS
<1>1. CASE UNCHANGED <<file, steps, proc>>
  BY <1>1 DEF Kept, Untouched, ChainStep
<1>2. ASSUME RemoveFile, file # "gone" PROVE ChainStep
  BY <1>2 DEF RemoveFile, Removed, ChainStep
<1>3. CASE Gestures
  <2>1. ASSUME NEW person \in Person, NEW n \in 1..MaxSteps, OpenGesture(person, n)
        PROVE  ChainStep
    BY <1>1, <2>1 DEF OpenGesture
  <2>2. CASE CommitGesture
    BY <2>2, CommitGestureStep DEF ChainStep
  <2>3. CASE RollBackGesture
    BY <1>1, <2>3 DEF RollBackGesture
  <2>4. CASE CommitStoredOnly
    BY <2>4 DEF CommitStoredOnly, Stored, ChainStep
  <2>5. CASE CancelProcessing \/ FreezeFile
    BY <2>5, StopsByGesture DEF ChainStep
  <2>6. CASE DeleteFile \/ AbandonUpload
    BY <1>2, <2>6 DEF DeleteFile, AbandonUpload
  <2>7. proc \in Processing /\ UnreadablePassport \in Passport
    BY RowTypes DEF IInv, Passport
  <2>8. ASSUME NEW person \in Person, ErasePerson(person) PROVE ChainStep
    <3>1. CASE proc' = Redact(proc, person) /\ UNCHANGED <<file, steps>>
      <4>1. Row(proc', proc.state, proc.error, proc.job, proc.step, proc.past, proc.cancel,
                IF proc.passport = person THEN NoPassport ELSE proc.passport, proc.next,
                proc.awaiting, proc.log)
        BY <2>7, <3>1, RedactRow
      <4> QED
        BY <3>1, <4>1 DEF Row, Kept, Untouched, ChainStep
    <3> QED
      BY <1>2, <2>8, <3>1 DEF ErasePerson
  <2>9. CASE PassportSpoils
    <3>1. Row(proc', proc.state, proc.error, proc.job, proc.step, proc.past, proc.cancel,
              UnreadablePassport, proc.next, proc.awaiting, proc.log)
      BY <2>7, <2>9, PassportReplacedRow DEF PassportSpoils
    <3> QED
      BY <2>9, <3>1 DEF PassportSpoils, Row, Kept, Untouched, ChainStep
  <2> QED
    BY <1>3, <2>1, <2>2, <2>3, <2>4, <2>5, <2>6, <2>8, <2>9 DEF Gestures
<1>4. CASE Runner
  BY <1>4, RunnerStep DEF Runner, ChainStep
<1>5. CASE Source
  BY <1>1, <1>5, SourcePromotedStep DEF Source, Promote, SourceFails, rowVars, ChainStep
<1>6. CASE Jobs
  BY <1>1, <1>6 DEF Jobs, JobsJudgesCreate, JobsFinishes, JobsFails, JobsCancels, JobsBackstop,
                    Consume, rowVars
<1>7. CASE Facts
  BY <1>7, ReceiveFactStep DEF Facts, ChainStep
<1>8. CASE UNCHANGED vars
  BY <1>1, <1>8 DEF vars
<1> QED
  BY <1>3, <1>4, <1>5, <1>6, <1>7, <1>8 DEF Next

(* A user's cancel sticks: from there the chain starts no other job, and ends
   READY only if nothing was left to run. *)
THEOREM CancelsStick == Spec => CancelSticks
<1> DEFINE Sticks ==
      proc.state = "processing" /\ proc.cancel /\ file' = "committed" =>
        /\ proc'.job = proc.job
        /\ ~Held(proc')
        /\ proc'.state = "ready" => ~HasNextStep
<1>1. IInv /\ [Next]_vars => [Sticks]_vars
  <2> SUFFICES ASSUME IInv, [Next]_vars, proc.state = "processing", proc.cancel,
                      file' = "committed"
               PROVE  Sticks
    OBVIOUS
  <2>1. ~Held(proc) /\ file = "committed"
    BY DEF IInv, HeldNotCancelled, RowOfFile
  <2> QED
    BY <2>1, NextChainStep DEF ChainStep, Kept, Stored, Started, AwaitedLaunched, NextHeld,
       NextLaunched, Finished, Stopped, Removed, Held
<1> QED
  BY <1>1, ChainInvariant, PTL DEF Spec, CancelSticks

-----------------------------------------------------------------------------
(* The refinement. *)

(* The initial states are initial states of the contract. *)
LEMMA ContractInitially == Init => Contract!ContractInit
<1> SUFFICES ASSUME Init PROVE Contract!ContractInit
  OBVIOUS
<1>1. file = "pending" /\ proc.state = "ready" /\ proc.step = 0 /\ steps = 0
  BY DEF Init, Blank
<1>2. Phase = "idle" /\ Outcome = "ready"
  BY <1>1 DEF Phase, Outcome, AwaitsSource
<1> QED
  BY <1>1, <1>2 DEF Contract!ContractInit

(* Every step is a step of the contract or leaves it where it is. *)
LEMMA ContractStep == IInv /\ [Next]_vars => [Contract!ContractNext]_(Contract!contractVars)
<1> SUFFICES ASSUME IInv, [Next]_vars
             PROVE  [Contract!ContractNext]_(Contract!contractVars)
  OBVIOUS
<1> USE DEF Phase, Outcome, AwaitsSource, Held, IsRunning, Untouched, Contract!contractVars
<1>1. /\ proc.state \in {"processing", "ready", "failed"}
      /\ proc.state = "processing" => file = "committed"
      /\ file \in {"pending", "committed", "gone"}
      /\ proc.state = "processing" /\ proc.awaiting => proc.next = NoJob
  BY RowTypes DEF IInv, RowOfFile, TypeOK, RowConstraints
<1>2. CASE Kept \/ Stored
  BY <1>1, <1>2 DEF Kept, Stored
<1>3. CASE Started
  BY <1>1, <1>3 DEF Started, Contract!ContractNext, Contract!Start
<1>4. CASE AwaitedLaunched
  BY <1>1, <1>4 DEF AwaitedLaunched, Contract!ContractNext, Contract!SourceReady
<1>5. CASE NextHeld
  BY <1>1, <1>5 DEF NextHeld, HasNextStep, NextIndex, Contract!ContractNext, Contract!StepDone
<1>6. CASE NextLaunched
  BY <1>1, <1>6 DEF NextLaunched, Contract!ContractNext, Contract!NextStep
<1>7. CASE Finished
  BY <1>1, <1>7, RowTypes DEF IInv, TypeOK, Finished, HasNextStep, NextIndex,
     Contract!ContractNext, Contract!LastStepDone
<1>8. CASE Stopped
  BY <1>1, <1>8 DEF Stopped, Contract!ContractNext, Contract!Stop
<1>9. CASE Removed
  BY <1>1, <1>9 DEF Removed, Blank, Contract!ContractNext, Contract!Remove
<1> QED
  BY <1>2, <1>3, <1>4, <1>5, <1>6, <1>7, <1>8, <1>9, NextChainStep DEF ChainStep

(* The row of a file, whatever its jobs, messages and gestures do to it, goes
   through its steps as the contract of a chain says. *)
THEOREM ChainImplementsContract == Spec => ImplementsContract
  BY ContractInitially, ContractStep, ChainInvariant, PTL
     DEF Spec, ImplementsContract, Contract!ContractSpec

-----------------------------------------------------------------------------
(* Jobs and the library.  Of a job the library asked for, the create is on
   its way or Jobs has judged it: nothing else makes Jobs know a job. *)
CreatesJudged ==
  \A j \in Job : /\ Cmd("create", j) \in outbox <=> WasAsked(j) /\ jobs[j] = "unknown"
                 /\ jobs[j] # "unknown" => WasAsked(j)

(* Jobs judges the creates in the order of the ids, and accepts one when no
   other job is live: an older job is over once a younger one was accepted. *)
JudgedInOrder ==
  \A j, k \in Job : j < k =>
    /\ WasAsked(j) /\ jobs[k] # "unknown" => jobs[j] # "unknown"
    /\ Dispatched(k) => jobs[j] # "live"

(* No job asked is younger than a running chain's, and a job reported done
   ran. *)
ChainIsNewest ==
  /\ proc.state = "processing" => \A j \in Job : WasAsked(j) => j <= proc.job
  /\ proc.awaiting => proc.step = 0
  /\ Held(proc) => Dispatched(proc.job)

(* The create of a next step is alone: no job is live, none waits before it. *)
HandoffAlone ==
  \A j \in Job : Cmd("create", j) \in outbox /\ asked[j].step > 0 =>
    /\ Live = {}
    /\ \A k \in Job : Cmd("create", k) \in outbox => j <= k

(* A fact is about a job that is over, its only one; a refusal names a job
   Jobs knows. *)
FactsAreEnds ==
  /\ \A m \in facts :
       /\ m.fact = "creation_rejected" => jobs[m.job] = "rejected"
       /\ m.fact # "creation_rejected" => jobs[m.job] \in {"completed", "failed", "cancelled"}
       /\ m.active # NoJob => jobs[m.active] # "unknown"
  /\ \A m, n \in facts : m.job = n.job => m = n
  /\ \A j \in Job : Logged("JobCreationRejected", j) => jobs[j] = "rejected"

(* Only a job that ran is finished, or failed. *)
OnlyRunIsEnded ==
  \A j \in Job : Cmd("finish", j) \in outbox \/ Cmd("fail", j) \in outbox => Dispatched(j)

JobsInv ==
  /\ CreatesJudged
  /\ JudgedInOrder
  /\ ChainIsNewest
  /\ HandoffAlone
  /\ FactsAreEnds
  /\ OnlyRunIsEnded
  /\ NoJobForgotten
  /\ RefusalFreesTheFile

(* Nobody erased is named by the chain, nor by an open gesture, unless an
   erase may cross a gesture. *)
NobodyErased ==
  ~CrossingErase => proc.passport \notin erased /\ gesture.by \notin erased

(* None holds of jobs at first. *)
LEMMA InitJobsInv == Init => JobsInv
<1> SUFFICES ASSUME Init PROVE JobsInv
  OBVIOUS
<1>1. /\ \A j \in Job : asked[j] = NotAsked /\ jobs[j] = "unknown" /\ ~WasAsked(j)
      /\ outbox = {} /\ facts = {} /\ proc = Blank
  BY DEF Init, WasAsked, NotAsked
<1> QED
  BY <1>1 DEF JobsInv, CreatesJudged, JudgedInOrder, ChainIsNewest, HandoffAlone, FactsAreEnds,
     OnlyRunIsEnded, NoJobForgotten, RefusalFreesTheFile, Dispatched, Blank, Held, Logged, NoJob

(* A command tells what it asks, and of which job. *)
LEMMA CommandsApart ==
  \A c, d, j, k : Cmd(c, j) = Cmd(d, k) => c = d /\ j = k
  BY DEF Cmd

(* A handler that asks no job of Jobs: it stages commands about jobs asked
   before, one of them for the job it leaves. *)
LEMMA OnlyStages ==
  ASSUME IInv, JobsInv, IInv',
         UNCHANGED <<asked, jobs, lost>>, facts' \subseteq facts, erased \subseteq erased',
         NEW staged, outbox' = outbox \cup staged,
         \A j \in Job : Cmd("create", j) \notin staged,
         \A j \in Job : Cmd("finish", j) \in staged \/ Cmd("fail", j) \in staged => Dispatched(j),
         proc'.state = "processing" =>
           (proc.state = "processing" /\ proc'.job = proc.job) \/ proc'.job > minted,
         proc'.awaiting => proc'.step = 0,
         Held(proc') => Dispatched(proc'.job),
         \A j \in Job : IsActive(j) /\ ~IsActive(j)' =>
           \/ \E command \in {"finish", "fail", "cancel"} : Cmd(command, j) \in staged
           \/ jobs[j] \notin {"unknown", "live"}
           \/ EraseDeletes /\ Uploader \in erased',
         \A j \in Job : Logged("JobCreationRejected", j)' /\ ~Logged("JobCreationRejected", j) =>
           /\ jobs[j] = "rejected"
           /\ \A m \in facts : m.job = j /\ m.active # NoJob => Cmd("cancel", m.active) \in staged
  PROVE  JobsInv'
<1>1. /\ \A j \in Job : WasAsked(j)' <=> WasAsked(j)
      /\ \A j \in Job : Cmd("create", j) \in outbox' <=> Cmd("create", j) \in outbox
      /\ \A j : Dispatched(j)' <=> Dispatched(j)
      /\ outbox \subseteq outbox' /\ Live' = Live
  BY DEF WasAsked, Dispatched, Live
<1>2. CreatesJudged' /\ JudgedInOrder' /\ HandoffAlone'
  BY <1>1 DEF JobsInv, CreatesJudged, JudgedInOrder, HandoffAlone
<1>3. ChainIsNewest'
  <2>1. \A j \in Job : WasAsked(j) => j <= minted
    BY DEF IInv, MintedInOrder
  <2>2. minted \in Nat /\ proc'.job \in Nat
    BY ChainAssumption, RowTypes DEF IInv, TypeOK, Processing
  <2> QED
    BY <1>1, <2>1, <2>2 DEF JobsInv, ChainIsNewest, Job
<1>4. FactsAreEnds' /\ OnlyRunIsEnded'
  BY <1>1 DEF JobsInv, FactsAreEnds, OnlyRunIsEnded
<1>5. NoJobForgotten'
  <2> SUFFICES ASSUME NEW j \in Job, jobs[j] = "live" \/ Cmd("create", j) \in outbox, ~IsActive(j)'
               PROVE  \/ \E command \in {"finish", "fail", "cancel"} : Cmd(command, j) \in outbox'
                      \/ j \in lost
                      \/ EraseDeletes /\ Uploader \in erased'
    BY <1>1 DEF NoJobForgotten
  <2>1. jobs[j] \in {"unknown", "live"}
    BY DEF JobsInv, CreatesJudged
  <2> QED
    BY <1>1, <2>1 DEF JobsInv, NoJobForgotten
<1>6. RefusalFreesTheFile'
  <2> SUFFICES ASSUME NEW m \in facts', m.fact = "creation_rejected", m.active # NoJob,
                      Logged("JobCreationRejected", m.job)'
               PROVE  jobs[m.active] # "live" \/ Cmd("cancel", m.active) \in outbox'
    BY DEF RefusalFreesTheFile
  <2>1. m \in facts /\ m.job \in Job
    BY DEF IInv, TypeOK, FactMessage
  <2> QED
    BY <1>1, <2>1 DEF JobsInv, RefusalFreesTheFile
<1> QED
  BY <1>2, <1>3, <1>4, <1>5, <1>6 DEF JobsInv

(* A job is asked of Jobs: younger than all asked before. *)
LEMMA JobAsked ==
  ASSUME IInv, JobsInv, IInv',
         NEW job \in Job, NEW step \in Nat, NEW passport \in Person,
         asked' = [asked EXCEPT ![job] = [step |-> step, passport |-> passport]],
         outbox' = outbox \cup {Cmd("create", job)},
         UNCHANGED <<jobs, lost, erased>>, facts' \subseteq facts,
         \A j \in Job : WasAsked(j) => j < job,
         \A j \in Job : ~IsActive(j),
         file' = "committed", proc'.state = "processing", proc'.job = job,
         proc'.next = NoJob, ~proc'.awaiting,
         proc'.log = proc.log \cup {[event |-> "JobCreated", job |-> job]},
         step > 0 => Live = {} /\ \A k \in Job : Cmd("create", k) \notin outbox
  PROVE  JobsInv'
<1>1. /\ \A j \in Job : asked'[j] = IF j = job THEN [step |-> step, passport |-> passport]
                                               ELSE asked[j]
      /\ \A j \in Job : WasAsked(j)' <=> j = job \/ WasAsked(j)
      /\ ~WasAsked(job) /\ jobs[job] = "unknown"
  <2>1. \A j \in Job : asked'[j] = IF j = job THEN [step |-> step, passport |-> passport]
                                              ELSE asked[j]
    BY DEF IInv, TypeOK
  <2>2. ~WasAsked(job)
    BY DEF Job
  <2> QED
    BY <2>1, <2>2, PassportAssumption DEF WasAsked, JobsInv, CreatesJudged
<1>2. /\ \A j \in Job : Cmd("create", j) \in outbox' <=> j = job \/ Cmd("create", j) \in outbox
      /\ \A j \in Job, c \in {"finish", "fail", "cancel"} :
           Cmd(c, j) \in outbox' <=> Cmd(c, j) \in outbox
      /\ \A j : Dispatched(j)' <=> Dispatched(j)
      /\ Live' = Live
      /\ \A j \in Job : Logged("JobCreationRejected", j)' <=> Logged("JobCreationRejected", j)
  BY CommandsApart DEF Dispatched, Live, Logged
<1>3. CreatesJudged'
  BY <1>1, <1>2 DEF JobsInv, CreatesJudged
<1>4. JudgedInOrder'
  <2>1. \A k \in Job : job < k => jobs[k] = "unknown"
    BY DEF JobsInv, CreatesJudged, Job
  <2> QED
    BY <1>1, <1>2, <2>1 DEF JobsInv, JudgedInOrder
<1>5. ChainIsNewest'
  BY <1>1 DEF ChainIsNewest, Held, Job
<1>6. HandoffAlone'
  <2> SUFFICES ASSUME NEW j \in Job, Cmd("create", j) \in outbox', asked'[j].step > 0
               PROVE  Live = {} /\ \A k \in Job : Cmd("create", k) \in outbox' => j <= k
    BY <1>2 DEF HandoffAlone
  <2>1. CASE j = job
    BY <1>1, <1>2, <2>1 DEF Job
  <2>2. CASE j # job
    <3>1. Cmd("create", j) \in outbox /\ asked[j].step > 0 /\ j < job
      BY <1>1, <1>2, <2>2 DEF JobsInv, CreatesJudged
    <3> QED
      BY <1>2, <3>1 DEF JobsInv, HandoffAlone, Job
  <2> QED
    BY <2>1, <2>2
<1>7. FactsAreEnds' /\ OnlyRunIsEnded'
  BY <1>1, <1>2 DEF JobsInv, FactsAreEnds, OnlyRunIsEnded
<1>8. NoJobForgotten'
  <2> SUFFICES ASSUME NEW j \in Job, jobs[j] = "live" \/ Cmd("create", j) \in outbox', ~IsActive(j)'
               PROVE  \/ \E command \in {"finish", "fail", "cancel"} : Cmd(command, j) \in outbox'
                      \/ j \in lost
                      \/ EraseDeletes /\ Uploader \in erased'
    BY DEF NoJobForgotten
  <2>1. j # job
    BY DEF IsActive, IsRunning, Held
  <2> QED
    BY <1>1, <1>2, <2>1 DEF JobsInv, NoJobForgotten
<1>9. RefusalFreesTheFile'
  <2>1. \A m \in facts : m.job \in Job /\ (m.active # NoJob => m.active \in Job)
    BY DEF IInv, TypeOK, FactMessage
  <2> QED
    BY <1>2, <2>1 DEF JobsInv, RefusalFreesTheFile
<1> QED
  BY <1>3, <1>4, <1>5, <1>6, <1>7, <1>8, <1>9 DEF JobsInv

(* Jobs judges a create: it comes first of those on their way, so every job
   asked before is judged. *)
LEMMA JobsJudgesCreateJobsInv ==
  ASSUME IInv, JobsInv, NEW job \in Job, JobsJudgesCreate(job)
  PROVE  JobsInv'
<1> USE DEF JobsInv
<1>1. /\ Cmd("create", job) \in outbox /\ outbox' = outbox \ {Cmd("create", job)}
      /\ \A k \in Job : Cmd("create", k) \in outbox => job <= k
      /\ UNCHANGED <<rowVars, asked, erased, lost>>
  BY DEF JobsJudgesCreate, Consume
<1>2. /\ jobs'[job] \in {"live", "rejected"}
      /\ jobs'[job] = "live" => Live = {}
      /\ \A j \in Job : j # job => jobs'[j] = jobs[j]
  BY DEF JobsJudgesCreate, Settle, IInv, TypeOK
<1>3. jobs[job] = "unknown" /\ WasAsked(job)
  BY <1>1 DEF CreatesJudged
<1>4. /\ \A j \in Job : WasAsked(j)' <=> WasAsked(j)
      /\ \A j \in Job : IsActive(j)' <=> IsActive(j)
      /\ \A j : Logged("JobCreationRejected", j)' <=> Logged("JobCreationRejected", j)
      /\ proc' = proc
  BY <1>1 DEF WasAsked, IsActive, rowVars, Logged
<1>5. /\ \A j \in Job : Cmd("create", j) \in outbox' <=> j # job /\ Cmd("create", j) \in outbox
      /\ \A j \in Job, c \in {"finish", "fail", "cancel"} :
           Cmd(c, j) \in outbox' <=> Cmd(c, j) \in outbox
  BY <1>1, CommandsApart
<1>6. \A j \in Job : Dispatched(j) => Dispatched(j)' /\ j # job
  BY <1>2, <1>3 DEF Dispatched
<1>7. CreatesJudged'
  BY <1>2, <1>3, <1>4, <1>5 DEF CreatesJudged
<1>8. JudgedInOrder'
  <2> SUFFICES ASSUME NEW j \in Job, NEW k \in Job, j < k
               PROVE  /\ WasAsked(j) /\ jobs'[k] # "unknown" => jobs'[j] # "unknown"
                      /\ Dispatched(k)' => jobs'[j] # "live"
    BY <1>4 DEF JudgedInOrder
  <2>1. CASE k = job
    <3>1. j # job /\ (WasAsked(j) => jobs[j] # "unknown")
      BY <1>1, <2>1 DEF CreatesJudged, Job
    <3>2. Dispatched(k)' => Live = {}
      BY <1>2, <2>1 DEF Dispatched
    <3> QED
      BY <1>2, <3>1, <3>2 DEF Live
  <2>2. CASE j = job
    <3>1. k # job /\ jobs[k] = "unknown"
      BY <1>3, <2>2 DEF JudgedInOrder, Job
    <3> QED
      BY <1>2, <2>2, <3>1 DEF Dispatched
  <2>3. CASE j # job /\ k # job
    BY <1>2, <2>3 DEF JudgedInOrder, Dispatched
  <2> QED
    BY <2>1, <2>2, <2>3
<1>9. ChainIsNewest'
  <2>1. Held(proc) => proc.job \in Job
    BY CurrentJob DEF IInv, RowConstraints
  <2> QED
    BY <1>4, <1>6, <2>1 DEF ChainIsNewest
<1>10. HandoffAlone'
  <2> SUFFICES ASSUME NEW j \in Job, Cmd("create", j) \in outbox', asked[j].step > 0 PROVE FALSE
    BY <1>1 DEF HandoffAlone
  <2>1. j <= job /\ job <= j /\ j # job
    BY <1>1, <1>5 DEF HandoffAlone
  <2> QED
    BY <2>1 DEF Job
<1>11. FactsAreEnds'
  <2>1. \A m \in facts : m.job \in Job /\ (m.active # NoJob => m.active \in Job)
    BY DEF IInv, TypeOK, FactMessage
  <2>2. /\ \A m \in facts : m.job # job /\ (m.active # NoJob => m.active # job)
        /\ ~Logged("JobCreationRejected", job)
    BY <1>3 DEF FactsAreEnds
  <2>3. CASE UNCHANGED facts
    BY <1>2, <1>4, <2>1, <2>2, <2>3 DEF FactsAreEnds
  <2>4. ASSUME NEW n, n.fact = "creation_rejected", n.job = job,
               n.active # NoJob => jobs'[n.active] # "unknown", facts' = facts \cup {n},
               jobs'[job] = "rejected"
        PROVE  FactsAreEnds'
    BY <1>2, <1>4, <2>1, <2>2, <2>4 DEF FactsAreEnds
  <2>5. ASSUME NEW active \in Live \cup {NoJob}, Settle(job, "rejected"),
               Publish([fact |-> "creation_rejected", job |-> job, active |-> active])
        PROVE  FactsAreEnds'
    <3> DEFINE n == [fact |-> "creation_rejected", job |-> job, active |-> active]
    <3>1. n.fact = "creation_rejected" /\ n.job = job /\ n.active = active
      OBVIOUS
    <3>2. active # NoJob => jobs'[active] # "unknown"
      BY <1>2 DEF Live
    <3>3. facts' = facts \cup {n} /\ jobs'[job] = "rejected"
      BY <2>5 DEF Publish, Settle, IInv, TypeOK
    <3> HIDE DEF n
    <3> QED
      BY <2>4, <3>1, <3>2, <3>3
  <2> QED
    BY <2>3, <2>5 DEF JobsJudgesCreate, FactOf
<1>12. OnlyRunIsEnded'
  BY <1>5, <1>6 DEF OnlyRunIsEnded
<1>13. NoJobForgotten'
  <2>1. \A j \in Job : jobs'[j] = "live" \/ Cmd("create", j) \in outbox'
                       => jobs[j] = "live" \/ Cmd("create", j) \in outbox
    BY <1>1, <1>2, <1>5
  <2> QED
    BY <1>1, <1>4, <1>5, <2>1 DEF NoJobForgotten
<1>14. RefusalFreesTheFile'
  <2> SUFFICES ASSUME NEW m \in facts', m.fact = "creation_rejected", m.active # NoJob,
                      Logged("JobCreationRejected", m.job)
               PROVE  jobs'[m.active] # "live" \/ Cmd("cancel", m.active) \in outbox'
    BY <1>4 DEF RefusalFreesTheFile
  <2>1. m.job # job
    BY <1>3 DEF FactsAreEnds
  <2>2. m \in facts
    BY <2>1 DEF JobsJudgesCreate, Publish, FactOf
  <2>3. m.active \in Job /\ m.active # job
    BY <1>3, <2>2 DEF FactsAreEnds, IInv, TypeOK, FactMessage
  <2> QED
    BY <1>2, <1>5, <2>2, <2>3 DEF RefusalFreesTheFile
<1> QED
  BY <1>7, <1>8, <1>9, <1>10, <1>11, <1>12, <1>13, <1>14

(* Jobs ends a live job, of itself or by a command it consumes; a command
   about any other job is dropped. *)
LEMMA JobEnds ==
  ASSUME IInv, JobsInv, NEW job \in Job, NEW command \in {"finish", "fail", "cancel"},
         NEW fact \in {"completed", "failed", "cancelled"},
         UNCHANGED <<rowVars, asked, erased>>,
         outbox' \in {outbox, outbox \ {Cmd(command, job)}},
         outbox' # outbox => Cmd(command, job) \in outbox,
         IF jobs[job] = "live"
           THEN Settle(job, fact) /\ Publish(FactOf(fact, job))
           ELSE UNCHANGED <<jobs, facts>>,
         lost \subseteq lost',
         command = "cancel" /\ jobs[job] = "unknown" => job \in lost'
  PROVE  JobsInv'
<1> USE DEF JobsInv
<1>1. /\ jobs'[job] # "live"
      /\ jobs[job] # "live" => jobs'[job] = jobs[job]
      /\ jobs[job] = "live" => jobs'[job] = fact
      /\ \A j \in Job : j # job => jobs'[j] = jobs[j]
  BY DEF Settle, IInv, TypeOK
<1>2. /\ \A j \in Job : WasAsked(j)' <=> WasAsked(j)
      /\ \A j \in Job : IsActive(j)' <=> IsActive(j)
      /\ \A j : Logged("JobCreationRejected", j)' <=> Logged("JobCreationRejected", j)
      /\ proc' = proc
  BY DEF WasAsked, IsActive, rowVars, Logged
<1>3. /\ \A j \in Job : Cmd("create", j) \in outbox' <=> Cmd("create", j) \in outbox
      /\ \A j \in Job, c \in {"finish", "fail", "cancel"} :
           /\ Cmd(c, j) \in outbox' => Cmd(c, j) \in outbox
           /\ j # job => (Cmd(c, j) \in outbox' <=> Cmd(c, j) \in outbox)
  BY CommandsApart
<1>4. \A j \in Job : /\ jobs'[j] = "unknown" <=> jobs[j] = "unknown"
                     /\ jobs'[j] = "rejected" <=> jobs[j] = "rejected"
                     /\ jobs'[j] = "live" => jobs[j] = "live"
                     /\ jobs[j] \in {"completed", "failed", "cancelled"} => jobs'[j] = jobs[j]
  BY <1>1
<1>5. (\A j \in Job : Dispatched(j)' <=> Dispatched(j)) /\ Live' \subseteq Live
  BY <1>4 DEF Dispatched, Live
<1>6. CreatesJudged' /\ JudgedInOrder' /\ OnlyRunIsEnded'
  BY <1>2, <1>3, <1>4, <1>5 DEF CreatesJudged, JudgedInOrder, OnlyRunIsEnded
<1>7. ChainIsNewest'
  <2>1. Held(proc) => proc.job \in Job
    BY CurrentJob DEF IInv, RowConstraints
  <2> QED
    BY <1>2, <1>5, <2>1 DEF ChainIsNewest
<1>8. HandoffAlone'
  BY <1>3, <1>5 DEF HandoffAlone
<1>9. /\ \A m \in facts : m.job \in Job /\ (m.active # NoJob => m.active \in Job)
      /\ \A m \in facts' : m \in facts \/ (m = FactOf(fact, job) /\ jobs[job] = "live")
  BY DEF IInv, TypeOK, FactMessage, Publish
<1>10. /\ FactOf(fact, job).fact = fact /\ FactOf(fact, job).job = job
       /\ FactOf(fact, job).active = NoJob
  BY DEF FactOf
<1>11. jobs[job] = "live" => \A m \in facts : m.job # job
  BY DEF FactsAreEnds
<1>12. FactsAreEnds'
  <2>1. \A m \in facts' :
          /\ m.fact = "creation_rejected" => jobs'[m.job] = "rejected"
          /\ m.fact # "creation_rejected" => jobs'[m.job] \in {"completed", "failed", "cancelled"}
          /\ m.active # NoJob => jobs'[m.active] # "unknown"
    BY <1>1, <1>4, <1>9, <1>10 DEF FactsAreEnds
  <2>2. \A m, n \in facts' : m.job = n.job => m = n
    BY <1>9, <1>10, <1>11 DEF FactsAreEnds
  <2>3. \A j \in Job : Logged("JobCreationRejected", j) => jobs'[j] = "rejected"
    BY <1>4 DEF FactsAreEnds
  <2> QED
    BY <1>2, <2>1, <2>2, <2>3 DEF FactsAreEnds
<1>13. NoJobForgotten'
  <2> SUFFICES ASSUME NEW j \in Job, jobs'[j] = "live" \/ Cmd("create", j) \in outbox', ~IsActive(j)
               PROVE  \/ \E c \in {"finish", "fail", "cancel"} : Cmd(c, j) \in outbox'
                      \/ j \in lost'
                      \/ EraseDeletes /\ Uploader \in erased'
    BY <1>2 DEF NoJobForgotten
  <2>1. \/ \E c \in {"finish", "fail", "cancel"} : Cmd(c, j) \in outbox
        \/ j \in lost
        \/ EraseDeletes /\ Uploader \in erased
    BY <1>3, <1>4 DEF NoJobForgotten
  <2>2. CASE j # job \/ outbox' = outbox
    BY <1>3, <2>1, <2>2
  <2>3. CASE j = job /\ outbox' # outbox
    <3>1. jobs[job] = "unknown"
      BY <1>1, <1>3, <2>3 DEF CreatesJudged
    <3>2. command = "cancel"
      BY <2>3, <3>1 DEF OnlyRunIsEnded, Dispatched
    <3> QED
      BY <2>3, <3>1, <3>2
  <2> QED
    BY <2>2, <2>3
<1>14. RefusalFreesTheFile'
  <2> SUFFICES ASSUME NEW m \in facts', m.fact = "creation_rejected", m.active # NoJob,
                      Logged("JobCreationRejected", m.job)
               PROVE  jobs'[m.active] # "live" \/ Cmd("cancel", m.active) \in outbox'
    BY <1>2 DEF RefusalFreesTheFile
  <2>1. m \in facts /\ m.active \in Job
    BY <1>9, <1>10
  <2> QED
    BY <1>1, <1>3, <2>1 DEF RefusalFreesTheFile
<1> QED
  BY <1>6, <1>7, <1>8, <1>12, <1>13, <1>14

(* Jobs' steps. *)
LEMMA JobsStepsJobsInv == IInv /\ JobsInv /\ Jobs => JobsInv'
<1> SUFFICES ASSUME IInv, JobsInv, NEW job \in Job,
                    \/ JobsJudgesCreate(job) \/ JobsFinishes(job) \/ JobsFails(job)
                    \/ JobsCancels(job) \/ JobsBackstop(job)
             PROVE  JobsInv'
  BY DEF Jobs
<1>1. CASE JobsJudgesCreate(job)
  BY <1>1, JobsJudgesCreateJobsInv
<1>2. CASE JobsFinishes(job)
  BY <1>2, JobEnds DEF JobsFinishes, Consume
<1>3. CASE JobsFails(job)
  BY <1>3, JobEnds DEF JobsFails, Consume
<1>4. CASE JobsCancels(job)
  BY <1>4, JobEnds DEF JobsCancels, Consume
<1>5. CASE JobsBackstop(job)
  BY <1>5, JobEnds DEF JobsBackstop
<1> QED
  BY <1>1, <1>2, <1>3, <1>4, <1>5

(* A chain that stops by one event: its job, if it ran, is finished, failed or
   cancelled by a staged command, or Jobs already ended it; a refusal that
   stops it has the job in the way cancelled. *)
LEMMA StopStages ==
  ASSUME IInv, JobsInv, IInv', proc.state = "processing",
         NEW p \in Processing, p.job = proc.job,
         p.log \subseteq proc.log \cup {[event |-> "JobReportedDone", job |-> proc.job]},
         NEW error \in ErrorCode, NEW event \in EndEvent \cup StopEvent,
         proc' = Push(End(p, error), event, proc.job),
         UNCHANGED <<file, asked, jobs, lost, erased>>, facts' \subseteq facts,
         NEW staged, outbox' = outbox \cup staged,
         \A j \in Job : Cmd("create", j) \notin staged,
         \A j \in Job : Cmd("finish", j) \in staged \/ Cmd("fail", j) \in staged => Dispatched(j),
         IsRunning(proc) =>
           \/ \E command \in {"finish", "fail", "cancel"} : Cmd(command, proc.job) \in staged
           \/ jobs[proc.job] \notin {"unknown", "live"},
         event = "JobCreationRejected" =>
           /\ jobs[proc.job] = "rejected"
           /\ \A m \in facts : m.job = proc.job /\ m.active # NoJob
                                => Cmd("cancel", m.active) \in staged
  PROVE  JobsInv'
<1>1. proc.job \in JobId
  BY CurrentJob
<1>2. Row(proc', IF error = "none" THEN "ready" ELSE "failed", error, p.job, p.step, p.past,
          p.cancel, NoPassport, NoJob, FALSE,
          p.log \cup {[event |-> event, job |-> proc.job]})
  BY <1>1, EndedRow
<1>3. /\ proc'.state # "processing" /\ ~Held(proc') /\ ~proc'.awaiting
      /\ proc'.log = p.log \cup {[event |-> event, job |-> proc.job]}
  BY <1>2 DEF Row, Held
<1>4. \A j : Logged("JobCreationRejected", j)' /\ ~Logged("JobCreationRejected", j)
             => event = "JobCreationRejected" /\ j = proc.job
  BY <1>3 DEF Logged
<1>5. \A j \in Job : IsActive(j) => IsRunning(proc) /\ j = proc.job
  BY DEF IsActive
<1> HIDE DEF JobsInv, IInv
<1> QED
  BY <1>3, <1>4, <1>5, OnlyStages

(* A step that leaves the chain where it is, whatever it changes of the
   Passport or notes of a cancel: nothing is asked of Jobs. *)
LEMMA ChainStays ==
  ASSUME IInv, JobsInv, IInv',
         proc'.state = proc.state, proc'.job = proc.job, proc'.step = proc.step,
         proc'.next = proc.next, proc'.awaiting = proc.awaiting, proc'.log = proc.log,
         file = "committed" => file' = "committed",
         UNCHANGED <<asked, jobs, lost>>, facts' \subseteq facts, erased \subseteq erased',
         NEW staged, outbox' = outbox \cup staged,
         \A j \in Job, c \in {"create", "finish", "fail"} : Cmd(c, j) \notin staged
  PROVE  JobsInv'
<1>1. /\ \A j \in Job : IsActive(j) => IsActive(j)'
      /\ \A j : Logged("JobCreationRejected", j)' <=> Logged("JobCreationRejected", j)
      /\ Held(proc') <=> Held(proc)
  BY DEF IsActive, IsRunning, Held, Logged
<1>2. /\ proc'.awaiting => proc'.step = 0
      /\ Held(proc') => Dispatched(proc'.job)
  BY <1>1 DEF JobsInv, ChainIsNewest
<1>3. \A j \in Job : /\ Cmd("create", j) \notin staged
                     /\ Cmd("finish", j) \in staged \/ Cmd("fail", j) \in staged => Dispatched(j)
  OBVIOUS
<1> HIDE DEF JobsInv, IInv
<1> QED
  BY <1>1, <1>2, <1>3, OnlyStages

(* A gesture commits: its job, the first of a new chain, is younger than all
   others, whether it waits for its source or is asked at once. *)
LEMMA CommitGestureJobsInv == IInv /\ JobsInv /\ IInv' /\ CommitGesture => JobsInv'
<1> SUFFICES ASSUME IInv, JobsInv, IInv', CommitGesture PROVE JobsInv'
  OBVIOUS
<1> DEFINE p == StartChain(proc, gesture.by)
           job == minted + 1
<1>1. /\ gesture.by \in Person /\ gesture.steps \in Nat \ {0} /\ proc.state # "processing"
      /\ minted + gesture.steps <= MaxJobs /\ proc \in Processing /\ minted \in Nat
      /\ gesture.by \in Passport
  BY RowTypes, ChainAssumption DEF CommitGesture, Unlocked, IInv, GestureHolds, TypeOK, Passport
<1>2. /\ Row(p, proc.state, proc.error, proc.job, proc.step, proc.past, proc.cancel,
             gesture.by, proc.next, proc.awaiting, proc.log)
      /\ p \in Processing
  BY <1>1, StartChainRow DEF Row
<1>3. job \in JobId /\ p.job # job /\ job \in Job
  BY <1>1, <1>2, RowTypes, ChainAssumption DEF IInv, MintedInOrder, JobId, NoJob, Row, Job
<1>4. /\ \A j \in Job : WasAsked(j) => j < job
      /\ \A j \in Job : ~IsActive(j)
      /\ file' = "committed" /\ UNCHANGED <<jobs, facts, lost, erased>>
  BY <1>1 DEF IInv, MintedInOrder, Job, IsActive, IsRunning, CommitGesture, jobsVars
<1>5. CASE gesture.pending
  <2>1. proc' = AwaitSource(p, job) /\ UNCHANGED <<asked, outbox>>
    BY <1>5 DEF CommitGesture, Save
  <2> HIDE DEF p, job
  <2>2. Row(proc', "processing", "none", job, 0, RetireCurrentJob(p).past, FALSE, p.passport,
            NoJob, TRUE, p.log)
    BY <1>2, <1>3, <2>1, AwaitSourceRow
  <2>3. /\ proc'.job = job /\ proc'.step = 0 /\ proc'.log = proc.log /\ ~Held(proc')
    BY <1>2, <2>2 DEF Row, Held
  <2>4. job > minted
    BY <1>1 DEF job
  <2>5. \A j : Logged("JobCreationRejected", j)' <=> Logged("JobCreationRejected", j)
    BY <2>3 DEF Logged
  <2> DEFINE none == {}
  <2>6. /\ outbox' = outbox \cup none
        /\ \A j \in Job, c \in {"create", "finish", "fail"} : Cmd(c, j) \notin none
    BY <2>1
  <2> HIDE DEF none
  <2> QED
    BY <1>4, <2>1, <2>3, <2>4, <2>5, <2>6, OnlyStages
<1>6. CASE ~gesture.pending
  <2>1. /\ proc' = CreateJob(p, job, 0, gesture.by)
        /\ asked' = [asked EXCEPT ![job] = [step |-> 0, passport |-> gesture.by]]
        /\ outbox' = outbox \cup {Cmd("create", job)}
    BY <1>6 DEF CommitGesture, LaunchStep
  <2> HIDE DEF p, job
  <2>2. Row(proc', "processing", "none", job, 0, RetireCurrentJob(p).past,
            RetireCurrentJob(p).cancel, gesture.by, NoJob, FALSE,
            p.log \cup {[event |-> "JobCreated", job |-> job]})
    BY <1>1, <1>2, <1>3, <2>1, CreateNextJobRow
  <2>3. /\ proc'.state = "processing" /\ proc'.job = job /\ proc'.next = NoJob /\ ~proc'.awaiting
        /\ proc'.log = proc.log \cup {[event |-> "JobCreated", job |-> job]}
    BY <1>2, <2>2 DEF Row
  <2>4. 0 \in Nat /\ ~(0 > 0)
    OBVIOUS
  <2> QED
    BY <1>1, <1>3, <1>4, <2>1, <2>3, <2>4, JobAsked
<1> QED
  BY <1>5, <1>6

(* A user's cancel, and a freeze. *)
LEMMA StopsByGestureJobsInv ==
  IInv /\ JobsInv /\ IInv' /\ (CancelProcessing \/ FreezeFile) => JobsInv'
<1> SUFFICES ASSUME IInv, JobsInv, IInv', CancelProcessing \/ FreezeFile PROVE JobsInv'
  OBVIOUS
<1>1. /\ proc.state = "processing" /\ proc \in Processing /\ proc.job \in Job
      /\ UNCHANGED <<file, asked, jobs, facts, lost, erased>>
  BY RowTypes, CurrentJob
     DEF CancelProcessing, FreezeFile, IInv, jobsVars, DropAwaited, SkipNextStep, Save
<1>2. Row(RequestCancel(proc), proc.state, proc.error, proc.job, proc.step, proc.past, TRUE,
          proc.passport, proc.next, proc.awaiting, proc.log)
  BY <1>1, RequestCancelRow
<1>3. /\ RequestCancel(proc) \in Processing /\ RequestCancel(proc).job = proc.job
      /\ RequestCancel(proc).log = proc.log
  BY <1>2 DEF Row
<1>4. /\ "cancelled" \in ErrorCode
      /\ {"AwaitedStepDropped", "JobCancelledOnFreeze", "StepSkipped"} \subseteq EndEvent \cup StopEvent
  BY DEF ErrorCode, EndEvent, StopEvent
<1>5. \A j \in Job, c \in {"create", "finish", "fail"} : Cmd(c, j) # Cmd("cancel", proc.job)
  BY CommandsApart
<1>6. CASE proc' = RequestCancel(proc) /\ outbox' = outbox \cup {Cmd("cancel", proc.job)}
  <2> DEFINE staged == {Cmd("cancel", proc.job)}
  <2>1. /\ proc'.state = proc.state /\ proc'.job = proc.job /\ proc'.step = proc.step
        /\ proc'.next = proc.next /\ proc'.awaiting = proc.awaiting /\ proc'.log = proc.log
    BY <1>2, <1>6 DEF Row
  <2>2. outbox' = outbox \cup staged /\ \A j \in Job, c \in {"create", "finish", "fail"} : Cmd(c, j) \notin staged
    BY <1>5, <1>6
  <2> HIDE DEF staged
  <2> QED
    BY <1>1, <2>1, <2>2, ChainStays
<1>7. ASSUME NEW p \in {proc, RequestCancel(proc)},
             NEW event \in {"AwaitedStepDropped", "JobCancelledOnFreeze", "StepSkipped"},
             proc' = Push(End(p, "cancelled"), event, proc.job),
             NEW staged \in {{}, {Cmd("cancel", proc.job)}}, outbox' = outbox \cup staged,
             IsRunning(proc) => Cmd("cancel", proc.job) \in staged
      PROVE  JobsInv'
  <2>1. /\ p \in Processing /\ p.job = proc.job /\ p.log = proc.log
        /\ event \in EndEvent \cup StopEvent /\ event # "JobCreationRejected"
    BY <1>1, <1>3, <1>4, <1>7
  <2>2. \A j \in Job : /\ Cmd("create", j) \notin staged
                       /\ Cmd("finish", j) \notin staged /\ Cmd("fail", j) \notin staged
    BY <1>5
  <2> QED
    BY <1>1, <1>4, <1>7, <2>1, <2>2, StopStages
<1>8. outbox \cup {} = outbox
  OBVIOUS
<1>9. CASE AwaitsSource(proc) /\ DropAwaited(proc, "cancelled")
  BY <1>7, <1>9 DEF DropAwaited, Save, DropAwaitedStep, IsRunning, AwaitsSource
<1>10. CASE Held(proc) /\ SkipNextStep(RequestCancel(proc), {Cmd("cancel", proc.job)})
  BY <1>3, <1>7, <1>10 DEF SkipNextStep, Save, SkipStep
<1>11. CASE Held(proc) /\ SkipNextStep(proc, {})
  BY <1>7, <1>11 DEF SkipNextStep, Save, SkipStep, IsRunning
<1>12. CASE Save(CancelOnFreeze(proc), {Cmd("cancel", proc.job)})
  BY <1>3, <1>7, <1>12 DEF Save, CancelOnFreeze
<1> QED
  BY <1>6, <1>9, <1>10, <1>11, <1>12 DEF CancelProcessing, FreezeFile, Save

(* A file that goes: its running job is cancelled, unless an erase took it. *)
LEMMA FileRemovedJobsInv ==
  ASSUME IInv, JobsInv, IInv', RemoveFile, UNCHANGED lost, erased \subseteq erased',
         NEW staged, outbox' = outbox \cup staged,
         \A j \in Job, c \in {"create", "finish", "fail"} : Cmd(c, j) \notin staged,
         \A j \in Job : IsActive(j) =>
           Cmd("cancel", j) \in staged \/ (EraseDeletes /\ Uploader \in erased')
  PROVE  JobsInv'
<1>1. /\ proc' = Blank /\ UNCHANGED <<asked, jobs, facts>>
  BY DEF RemoveFile, jobsVars
<1>2. /\ proc'.state # "processing" /\ ~proc'.awaiting /\ ~Held(proc')
      /\ \A j : ~Logged("JobCreationRejected", j)'
  BY <1>1 DEF Blank, Held, Logged, NoJob
<1>3. \A j \in Job : /\ Cmd("create", j) \notin staged
                     /\ Cmd("finish", j) \in staged \/ Cmd("fail", j) \in staged => Dispatched(j)
  OBVIOUS
<1> QED
  BY <1>1, <1>2, <1>3, OnlyStages

(* The other gestures. *)
LEMMA GesturesJobsInv == IInv /\ JobsInv /\ IInv' /\ Gestures => JobsInv'
<1> SUFFICES ASSUME IInv, JobsInv, IInv', Gestures PROVE JobsInv'
  OBVIOUS
<1> DEFINE none == {}
<1>1. /\ outbox \cup none = outbox
      /\ \A j \in Job, c \in {"create", "finish", "fail"} : Cmd(c, j) \notin none
  OBVIOUS
<1> HIDE DEF none
<1>2. ASSUME UNCHANGED <<proc, asked, outbox, jobs, facts, lost>>, erased \subseteq erased',
             file = "committed" => file' = "committed"
      PROVE  JobsInv'
  <2>1. /\ proc'.state = proc.state /\ proc'.job = proc.job /\ proc'.step = proc.step
        /\ proc'.next = proc.next /\ proc'.awaiting = proc.awaiting /\ proc'.log = proc.log
    BY <1>2
  <2> QED
    BY <1>1, <1>2, <2>1, ChainStays
<1>3. ASSUME NEW passport, proc' = [proc EXCEPT !.passport = passport],
             UNCHANGED <<file, asked, outbox, jobs, facts, lost>>, erased \subseteq erased'
      PROVE  JobsInv'
  <2>1. /\ proc'.state = proc.state /\ proc'.job = proc.job /\ proc'.step = proc.step
        /\ proc'.next = proc.next /\ proc'.awaiting = proc.awaiting /\ proc'.log = proc.log
    BY <1>3, RowTypes DEF IInv, Processing
  <2> QED
    BY <1>1, <1>3, <2>1, ChainStays
<1>4. ASSUME NEW person \in Person, NEW n \in 1..MaxSteps, OpenGesture(person, n)
      PROVE  JobsInv'
  BY <1>2, <1>4 DEF OpenGesture, jobsVars
<1>5. CASE CommitGesture
  BY <1>5, CommitGestureJobsInv
<1>6. CASE RollBackGesture \/ CommitStoredOnly
  BY <1>2, <1>6 DEF RollBackGesture, CommitStoredOnly, jobsVars
<1>7. CASE CancelProcessing \/ FreezeFile
  BY <1>7, StopsByGestureJobsInv
<1>8. CASE DeleteFile
  <2> DEFINE staged == {Cmd("cancel", j) : j \in {i \in Job : IsActive(i)}}
  <2>1. \A j \in Job, c \in {"create", "finish", "fail"} : Cmd(c, j) \notin staged
    BY CommandsApart
  <2>2. outbox' = outbox \cup staged /\ RemoveFile /\ UNCHANGED <<lost, erased>>
    BY <1>8 DEF DeleteFile, RemoveFile, jobsVars
  <2>3. \A j \in Job : IsActive(j) => Cmd("cancel", j) \in staged
    OBVIOUS
  <2> HIDE DEF staged
  <2> QED
    BY <2>1, <2>2, <2>3, FileRemovedJobsInv
<1>9. CASE AbandonUpload
  <2>1. outbox' = outbox \cup none /\ RemoveFile /\ UNCHANGED <<lost, erased>>
        /\ \A j \in Job : ~IsActive(j)
    BY <1>1, <1>9 DEF AbandonUpload, RemoveFile, jobsVars, IsActive
  <2> QED
    BY <1>1, <2>1, FileRemovedJobsInv
<1>10. ASSUME NEW person \in Person, ErasePerson(person) PROVE JobsInv'
  <2>1. CASE EraseDeletes /\ person = Uploader /\ RemoveFile /\ UNCHANGED outbox
    <3>1. erased \subseteq erased' /\ Uploader \in erased' /\ outbox' = outbox \cup none
          /\ UNCHANGED lost
      BY <1>1, <1>10, <2>1 DEF ErasePerson, RemoveFile, jobsVars
    <3> QED
      BY <1>1, <2>1, <3>1, FileRemovedJobsInv
  <2>2. CASE /\ proc' = Redact(proc, person)
             /\ UNCHANGED <<file, asked, outbox, jobs, facts, lost>>
    <3>1. erased \subseteq erased'
      BY <1>10 DEF ErasePerson
    <3>2. Row(proc', proc.state, proc.error, proc.job, proc.step, proc.past, proc.cancel,
              IF proc.passport = person THEN NoPassport ELSE proc.passport, proc.next,
              proc.awaiting, proc.log)
      BY <2>2, RowTypes, RedactRow DEF IInv
    <3>3. /\ proc'.state = proc.state /\ proc'.job = proc.job /\ proc'.step = proc.step
          /\ proc'.next = proc.next /\ proc'.awaiting = proc.awaiting /\ proc'.log = proc.log
      BY <3>2 DEF Row
    <3> QED
      BY <1>1, <2>2, <3>1, <3>3, ChainStays
  <2> QED
    BY <1>10, <2>1, <2>2 DEF ErasePerson, jobsVars
<1>11. CASE PassportSpoils
  BY <1>3, <1>11 DEF PassportSpoils, jobsVars
<1> QED
  BY <1>4, <1>5, <1>6, <1>7, <1>8, <1>9, <1>10, <1>11 DEF Gestures

(* The runner's final report: the job that ran is finished, or failed. *)
LEMMA RunnerJobsInv == IInv /\ JobsInv /\ IInv' /\ Runner => JobsInv'
<1> SUFFICES ASSUME IInv, JobsInv, IInv', NEW job \in Job,
                    RunnerReportsDone(job) \/ RunnerReportsFailure(job)
             PROVE  JobsInv'
  BY DEF Runner
<1>1. /\ IsRunning(proc) /\ proc.state = "processing" /\ proc \in Processing /\ proc.job = job
      /\ proc.job \in JobId /\ Dispatched(job) /\ ~Held(proc) /\ ~proc.awaiting
      /\ UNCHANGED <<file, asked, jobs, facts, lost, erased>>
  BY RowTypes, CurrentJob
     DEF RunnerReportsDone, RunnerReportsFailure, IsActive, IsRunning, IInv, jobsVars, Save,
         SkipNextStep
<1>2. Row(ReportDone(proc), IF "none" = "none" THEN "ready" ELSE "failed", "none", proc.job,
          proc.step, proc.past, proc.cancel, NoPassport, NoJob, FALSE,
          proc.log \cup {[event |-> "JobReportedDone", job |-> proc.job]})
  <2>1. "none" \in ErrorCode /\ "JobReportedDone" \in EndEvent \cup StopEvent
    BY DEF ErrorCode, EndEvent
  <2> QED
    BY <1>1, <2>1, EndedRow DEF ReportDone
<1>3. /\ ReportDone(proc) \in Processing /\ ReportDone(proc).job = proc.job
      /\ ReportDone(proc).log = proc.log \cup {[event |-> "JobReportedDone", job |-> proc.job]}
  BY <1>2 DEF Row
<1>4. /\ {"none", "cancelled", "reported"} \subseteq ErrorCode
      /\ {"JobReportedDone", "JobReportedFailed", "StepSkipped", "StepAbandoned"}
           \subseteq EndEvent \cup StopEvent
  BY DEF ErrorCode, EndEvent, StopEvent
<1>5. \A j \in Job, c \in {"finish", "fail"} :
        /\ Cmd("create", j) # Cmd(c, job)
        /\ \A d \in {"finish", "fail"} : Cmd(d, j) = Cmd(c, job) => Dispatched(j)
  BY <1>1, CommandsApart
<1>6. ASSUME NEW p \in {proc, ReportDone(proc)}, NEW error \in ErrorCode,
             NEW event \in {"JobReportedDone", "JobReportedFailed", "StepSkipped", "StepAbandoned"},
             proc' = Push(End(p, error), event, proc.job),
             NEW c \in {"finish", "fail"}, outbox' = outbox \cup {Cmd(c, job)}
      PROVE  JobsInv'
  <2> DEFINE staged == {Cmd(c, job)}
  <2>1. /\ p \in Processing /\ p.job = proc.job
        /\ p.log \subseteq proc.log \cup {[event |-> "JobReportedDone", job |-> proc.job]}
        /\ event \in EndEvent \cup StopEvent /\ event # "JobCreationRejected"
    BY <1>1, <1>3, <1>4, <1>6
  <2>2. /\ \A j \in Job : Cmd("create", j) \notin staged
        /\ \A j \in Job : Cmd("finish", j) \in staged \/ Cmd("fail", j) \in staged => Dispatched(j)
        /\ Cmd(c, proc.job) \in staged /\ outbox' = outbox \cup staged
        /\ c \in {"finish", "fail", "cancel"}
    BY <1>1, <1>5, <1>6
  <2> HIDE DEF staged
  <2> QED
    BY <1>1, <1>6, <2>1, <2>2, StopStages
<1>7. CASE RunnerReportsFailure(job)
  BY <1>1, <1>4, <1>6, <1>7 DEF RunnerReportsFailure, Save, ReportFailed
<1>8. CASE Save(ReportDone(proc), {Cmd("finish", job)})
  BY <1>4, <1>6, <1>8 DEF Save, ReportDone
<1>9. CASE SkipNextStep(ReportDone(proc), {Cmd("finish", job)})
  BY <1>3, <1>4, <1>6, <1>9 DEF SkipNextStep, Save, SkipStep
<1>10. CASE Save(AbandonStep(ReportDone(proc), PassportReason(proc.passport)), {Cmd("finish", job)})
  <2>1. PassportReason(proc.passport) \in ErrorCode
    BY ReasonIsError
  <2> QED
    BY <1>3, <1>6, <1>10, <2>1 DEF Save, AbandonStep
<1>11. CASE Save(ReportDoneHolding(proc, minted + 1), {Cmd("finish", job)})
  <2> DEFINE staged == {Cmd("finish", job)}
  <2>1. minted + 1 \in JobId /\ proc' = ReportDoneHolding(proc, minted + 1)
    BY <1>11 DEF IInv, TypeOK, JobId, NoJob, Save
  <2>2. Row(proc', proc.state, proc.error, proc.job, proc.step, proc.past, proc.cancel,
            proc.passport, minted + 1, proc.awaiting,
            proc.log \cup {[event |-> "JobReportedDone", job |-> proc.job]})
    BY <1>1, <2>1, ReportDoneHoldingRow
  <2>3. /\ proc'.job = proc.job /\ ~proc'.awaiting
        /\ \A j : Logged("JobCreationRejected", j)' <=> Logged("JobCreationRejected", j)
    BY <1>1, <2>2 DEF Row, Logged
  <2>4. /\ \A j \in Job : Cmd("create", j) \notin staged
        /\ \A j \in Job : Cmd("finish", j) \in staged \/ Cmd("fail", j) \in staged => Dispatched(j)
        /\ \A j \in Job : IsActive(j) => Cmd("finish", j) \in staged
        /\ outbox' = outbox \cup staged
    BY <1>1, <1>5, <1>11 DEF Save, IsActive
  <2>5. "finish" \in {"finish", "fail", "cancel"}
    OBVIOUS
  <2> HIDE DEF staged
  <2> QED
    BY <1>1, <2>3, <2>4, <2>5, OnlyStages
<1> QED
  BY <1>7, <1>8, <1>9, <1>10, <1>11 DEF RunnerReportsDone

(* The reaper's verdict, and its news reaching the library. *)
LEMMA SourceJobsInv == IInv /\ JobsInv /\ IInv' /\ Source => JobsInv'
<1> SUFFICES ASSUME IInv, JobsInv, IInv', Source PROVE JobsInv'
  OBVIOUS
<1> DEFINE none == {}
<1>1. /\ outbox \cup none = outbox
      /\ \A j \in Job, c \in {"create", "finish", "fail"} : Cmd(c, j) \notin none
  OBVIOUS
<1> HIDE DEF none
<1>2. UNCHANGED <<file, jobs, facts, lost, erased>>
  BY DEF Source, Promote, SourceFails, SourcePromoted, rowVars, jobsVars
<1>3. CASE UNCHANGED <<proc, asked, outbox>>
  <2>1. /\ proc'.state = proc.state /\ proc'.job = proc.job /\ proc'.step = proc.step
        /\ proc'.next = proc.next /\ proc'.awaiting = proc.awaiting /\ proc'.log = proc.log
    BY <1>3
  <2> QED
    BY <1>1, <1>2, <1>3, <2>1, ChainStays
<1>4. CASE AwaitsSource(proc) /\ ReleaseAwaitedStep(proc)
  <2>1. /\ proc.state = "processing" /\ proc.awaiting /\ proc.job \in JobId /\ proc.job \in Job
        /\ proc.step = 0 /\ proc \in Processing /\ file = "committed" /\ ~IsRunning(proc)
    BY <1>4, CurrentJob, RowTypes DEF AwaitsSource, IInv, JobsInv, ChainIsNewest, IsRunning
  <2>2. CASE /\ proc.passport \in Person
             /\ LaunchStep(proc, proc.job, proc.step, proc.passport, {})
    <3> DEFINE job == proc.job
               passport == proc.passport
    <3>1. /\ proc' = CreateJob(proc, proc.job, 0, passport)
          /\ asked' = [asked EXCEPT ![job] = [step |-> 0, passport |-> passport]]
          /\ outbox' = outbox \cup {Cmd("create", job)}
          /\ passport \in Passport /\ passport \in Person /\ job \in Job
      BY <2>1, <2>2 DEF LaunchStep, Passport
    <3> HIDE DEF passport
    <3>2. Row(proc', "processing", proc.error, proc.job, 0, proc.past, proc.cancel, passport,
              NoJob, FALSE, proc.log \cup {[event |-> "JobCreated", job |-> proc.job]})
      <4>1. proc \in Processing /\ 0 \in Nat /\ passport \in Passport /\ proc.job \in JobId
        BY <2>1, <3>1
      <4>2. proc' = CreateJob(proc, proc.job, 0, passport)
        BY <3>1
      <4>3. Row(CreateJob(proc, proc.job, 0, passport), "processing", proc.error, proc.job, 0,
                proc.past, proc.cancel, passport, NoJob, FALSE,
                proc.log \cup {[event |-> "JobCreated", job |-> proc.job]})
        BY <4>1, CreateAwaitedJobRow
      <4> QED
        BY <4>2, <4>3
    <3>3. /\ proc'.state = "processing" /\ proc'.job = job /\ proc'.next = NoJob /\ ~proc'.awaiting
          /\ proc'.log = proc.log \cup {[event |-> "JobCreated", job |-> job]}
      BY <3>2 DEF Row
    <3>4. \A j \in Job : WasAsked(j) => j < job
      <4>1. ~WasAsked(job) /\ \A j \in Job : WasAsked(j) => j <= job
        BY <2>1 DEF IInv, RowConstraints, JobsInv, ChainIsNewest
      <4> HIDE DEF job
      <4> QED
        BY <3>1, <4>1 DEF Job
    <3>5. \A j \in Job : ~IsActive(j)
      BY <2>1 DEF IsActive
    <3>6. 0 \in Nat /\ ~(0 > 0)
      OBVIOUS
    <3> HIDE DEF job
    <3> QED
      BY <1>2, <2>1, <3>1, <3>3, <3>4, <3>5, <3>6, JobAsked
  <2>3. CASE DropAwaited(proc, PassportReason(proc.passport))
    <3> DEFINE reason == PassportReason(proc.passport)
    <3>1. /\ proc' = Push(End(proc, reason), "AwaitedStepDropped", proc.job)
          /\ outbox' = outbox \cup none /\ UNCHANGED asked
      BY <1>1, <2>3 DEF DropAwaited, Save, DropAwaitedStep
    <3>2. /\ reason \in ErrorCode /\ "AwaitedStepDropped" \in EndEvent \cup StopEvent
          /\ "AwaitedStepDropped" # "JobCreationRejected"
      BY ReasonIsError DEF EndEvent
    <3>3. \A j \in Job : /\ Cmd("create", j) \notin none
                         /\ Cmd("finish", j) \notin none /\ Cmd("fail", j) \notin none
      BY <1>1
    <3> HIDE DEF reason
    <3> QED
      BY <1>2, <2>1, <3>1, <3>2, <3>3, StopStages
  <2> QED
    BY <1>4, <2>2, <2>3 DEF ReleaseAwaitedStep
<1> QED
  BY <1>3, <1>4 DEF Source, Promote, SourceFails, SourcePromoted, rowVars

(* Jobs' fact about a job reported done: it was the last asked, and Jobs has
   nothing left of the file, neither alive nor on its way. *)
LEMMA PreviousOver ==
  ASSUME IInv, JobsInv, proc.state = "processing", Held(proc),
         NEW m \in facts, m.job = proc.job
  PROVE  /\ Live = {}
         /\ \A k \in Job : Cmd("create", k) \notin outbox
         /\ \A j \in Job : WasAsked(j) => j < proc.next
<1>1. /\ proc.job \in Job /\ proc.next \in Job /\ proc.job < proc.next
      /\ \A j \in Job : WasAsked(j) => j <= proc.job
  BY CurrentJob DEF JobsInv, ChainIsNewest, IInv, MintedInOrder
<1>2. Dispatched(proc.job) /\ jobs[proc.job] # "live" /\ jobs[proc.job] # "unknown"
  BY DEF JobsInv, ChainIsNewest, FactsAreEnds, Dispatched
<1>3. \A j \in Job : jobs[j] # "unknown" => WasAsked(j)
  BY DEF JobsInv, CreatesJudged
<1>4. \A j \in Job : WasAsked(j) => jobs[j] # "live" /\ jobs[j] # "unknown"
  <2> SUFFICES ASSUME NEW j \in Job, WasAsked(j) PROVE jobs[j] # "live" /\ jobs[j] # "unknown"
    OBVIOUS
  <2>1. j = proc.job \/ j < proc.job
    BY <1>1 DEF Job
  <2> QED
    BY <1>1, <1>2, <2>1 DEF JobsInv, JudgedInOrder
<1>5. Live = {}
  BY <1>3, <1>4 DEF Live
<1>6. \A k \in Job : Cmd("create", k) \notin outbox
  BY <1>4 DEF JobsInv, CreatesJudged
<1>7. \A j \in Job : WasAsked(j) => j < proc.next
  BY <1>1 DEF Job
<1> QED
  BY <1>5, <1>6, <1>7

(* A fact reaches the library: the held step is asked of Jobs, the running job
   is ended, or nothing happens. *)
LEMMA FactsJobsInv == IInv /\ JobsInv /\ IInv' /\ Facts => JobsInv'
<1> SUFFICES ASSUME IInv, JobsInv, IInv', NEW m \in facts, ReceiveFact(m) PROVE JobsInv'
  BY DEF Facts
<1> DEFINE none == {}
<1>1. /\ outbox \cup none = outbox
      /\ \A j \in Job, c \in {"create", "finish", "fail"} : Cmd(c, j) \notin none
      /\ \A j \in Job : /\ Cmd("create", j) \notin none
                        /\ Cmd("finish", j) \notin none /\ Cmd("fail", j) \notin none
  OBVIOUS
<1> HIDE DEF none
<1>2. UNCHANGED <<file, jobs, lost, erased>> /\ facts' \subseteq facts
  BY DEF ReceiveFact
<1>3. CASE UNCHANGED <<proc, asked, outbox>>
  <2>1. /\ proc'.state = proc.state /\ proc'.job = proc.job /\ proc'.step = proc.step
        /\ proc'.next = proc.next /\ proc'.awaiting = proc.awaiting /\ proc'.log = proc.log
    BY <1>3
  <2> QED
    BY <1>1, <1>2, <1>3, <2>1, ChainStays
<1>4. CASE Applied(proc, m.job, m.fact) = "released" /\ ReleaseNextStep(proc)
  <2>1. /\ proc.state = "processing" /\ Held(proc) /\ m.job = proc.job /\ ~IsRunning(proc)
        /\ proc \in Processing /\ proc.next \in JobId /\ proc.next \in Job
        /\ proc.step \in Nat /\ file = "committed" /\ proc.next # proc.job
    BY <1>4, CurrentJob, RowTypes DEF Applied, IInv, RowConstraints, IsRunning, MintedInOrder
  <2>2. CASE /\ proc.passport \in Person
             /\ LaunchStep(proc, proc.next, proc.step + 1, proc.passport, {})
    <3> DEFINE job == proc.next
               step == proc.step + 1
               passport == proc.passport
    <3>1. /\ proc' = CreateJob(proc, job, step, passport)
          /\ asked' = [asked EXCEPT ![job] = [step |-> step, passport |-> passport]]
          /\ outbox' = outbox \cup {Cmd("create", job)}
          /\ passport \in Passport /\ passport \in Person /\ job \in Job /\ job \in JobId
          /\ step \in Nat /\ job # proc.job
      BY <2>1, <2>2 DEF LaunchStep, Passport
    <3>2. /\ Live = {} /\ \A k \in Job : Cmd("create", k) \notin outbox
          /\ \A j \in Job : WasAsked(j) => j < job
      BY <2>1, PreviousOver
    <3>3. \A j \in Job : ~IsActive(j)
      BY <2>1 DEF IsActive
    <3> HIDE DEF job, step, passport
    <3>4. Row(proc', "processing", "none", job, step, RetireCurrentJob(proc).past,
              RetireCurrentJob(proc).cancel, passport, NoJob, FALSE,
              proc.log \cup {[event |-> "JobCreated", job |-> job]})
      BY <2>1, <3>1, CreateNextJobRow
    <3>5. /\ proc'.state = "processing" /\ proc'.job = job /\ proc'.next = NoJob /\ ~proc'.awaiting
          /\ proc'.log = proc.log \cup {[event |-> "JobCreated", job |-> job]}
      BY <3>4 DEF Row
    <3> QED
      BY <1>2, <2>1, <3>1, <3>2, <3>3, <3>5, JobAsked
  <2>3. ASSUME NEW error \in ErrorCode, NEW event \in StopEvent,
               proc' = Push(End(proc, error), event, proc.job),
               UNCHANGED <<asked, outbox>>
        PROVE  JobsInv'
    <3>1. event \in EndEvent \cup StopEvent /\ event # "JobCreationRejected"
      BY <2>3 DEF StopEvent
    <3> QED
      BY <1>1, <1>2, <2>1, <2>3, <3>1, StopStages
  <2>4. CASE SkipNextStep(proc, {})
    <3>1. "cancelled" \in ErrorCode /\ "StepSkipped" \in StopEvent
      BY DEF ErrorCode, StopEvent
    <3> QED
      BY <2>3, <2>4, <3>1 DEF SkipNextStep, Save, SkipStep
  <2>5. CASE AbandonNextStep(proc, {})
    <3>1. PassportReason(proc.passport) \in ErrorCode /\ "StepAbandoned" \in StopEvent
      BY ReasonIsError DEF StopEvent
    <3> QED
      BY <2>3, <2>5, <3>1 DEF AbandonNextStep, Save, AbandonStep
  <2> QED
    BY <1>4, <2>2, <2>4, <2>5 DEF ReleaseNextStep
<1>5. CASE Applied(proc, m.job, m.fact) = "ended" /\ Save(Receive(proc, m.job, m.fact), RecoveryCancel(m))
  <2>1. m.job = proc.job /\ proc.state = "processing" /\ m.fact # "completed"
        /\ proc \in Processing /\ proc.job \in Job
    BY <1>5, CurrentJob DEF Applied, IsRunning, IInv, TypeOK
  <2> DEFINE error == ErrorOf(m.fact)
             event == EndEventOf(m.fact)
             staged == RecoveryCancel(m)
  <2>2. /\ proc' = Push(End(proc, error), event, proc.job)
        /\ outbox' = outbox \cup staged /\ UNCHANGED asked
    BY <1>5, <2>1 DEF Receive, Save
  <2>3. error \in ErrorCode /\ event \in EndEvent \cup StopEvent
    BY DEF ErrorOf, EndEventOf, ErrorCode, EndEvent
  <2>4. event = "JobCreationRejected" => m.fact = "creation_rejected"
    BY <2>1 DEF EndEventOf, IInv, TypeOK, FactMessage, JobFact
  <2>5. \A j \in Job, c \in {"create", "finish", "fail"} : Cmd(c, j) \notin staged
    BY CommandsApart DEF RecoveryCancel
  <2>6. jobs[proc.job] \notin {"unknown", "live"}
    BY <2>1 DEF JobsInv, FactsAreEnds
  <2>7. event = "JobCreationRejected" =>
          /\ jobs[proc.job] = "rejected"
          /\ \A n \in facts : n.job = proc.job /\ n.active # NoJob => Cmd("cancel", n.active) \in staged
    BY <1>5, <2>1, <2>4 DEF JobsInv, FactsAreEnds, RecoveryCancel
  <2>8. \A j \in Job : /\ Cmd("create", j) \notin staged
                       /\ Cmd("finish", j) \notin staged /\ Cmd("fail", j) \notin staged
    BY <2>5
  <2> HIDE DEF error, event, staged
  <2> QED
    BY <1>2, <2>1, <2>2, <2>3, <2>6, <2>7, <2>8, StopStages
<1>6. CASE /\ Applied(proc, m.job, m.fact) \notin {"released", "ended"}
           /\ Save(Receive(proc, m.job, m.fact), RecoveryCancel(m))
  <2>1. UNCHANGED <<proc, asked, outbox>>
    BY <1>6 DEF Save, Receive, RecoveryCancel
  <2> QED
    BY <1>3, <2>1
<1> QED
  BY <1>3, <1>4, <1>5, <1>6 DEF ReceiveFact

(* Every step keeps what Jobs and the library hold of each other. *)
LEMMA NextJobsInv == IInv /\ JobsInv /\ [Next]_vars => JobsInv'
<1> SUFFICES ASSUME IInv, JobsInv, [Next]_vars PROVE JobsInv'
  OBVIOUS
<1>1. IInv'
  BY NextIInv
<1>2. CASE UNCHANGED vars
  BY <1>2 DEF vars, JobsInv, CreatesJudged, JudgedInOrder, ChainIsNewest, HandoffAlone,
     FactsAreEnds, OnlyRunIsEnded, NoJobForgotten, RefusalFreesTheFile, WasAsked, Dispatched,
     Live, Logged, IsActive
<1> QED
  BY <1>1, <1>2, GesturesJobsInv, RunnerJobsInv, SourceJobsInv, JobsStepsJobsInv, FactsJobsInv
     DEF Next

(* What the library and Jobs hold of the file's jobs always agrees. *)
THEOREM JobsInvariant == Spec => []JobsInv
<1>1. Init => IInv /\ JobsInv
  BY InitIInv, InitJobsInv
<1>2. IInv /\ JobsInv /\ [Next]_vars => (IInv /\ JobsInv)'
  BY NextIInv, NextJobsInv
<1> QED
  BY <1>1, <1>2, PTL DEF Spec

(* A job the library asked for and no longer counts as running is being ended
   in Jobs, or was never created there: whatever the order of gestures,
   reports, facts and Jobs' own consumers. *)
THEOREM NoJobIsForgotten == Spec => []NoJobForgotten
  BY JobsInvariant, PTL DEF JobsInv

(* The create of a next step never finds another live job of the file, so
   Jobs' rule of one live job per source never refuses a hand-off. *)
THEOREM HandoffsNeverRefused == Spec => []HandoffNeverRefused
<1>1. JobsInv => HandoffNeverRefused
  BY DEF JobsInv, HandoffAlone, HandoffNeverRefused
<1> QED
  BY <1>1, JobsInvariant, PTL

(* The live job that made Jobs refuse another, and the file fail for it, is
   being cancelled: a reprocess gets through. *)
THEOREM RefusalsFreeTheFile == Spec => []RefusalFreesTheFile
  BY JobsInvariant, PTL DEF JobsInv

-----------------------------------------------------------------------------
(* Erased persons.  The Passport a step leaves on the row is the one that was
   there, the open gesture's, or nobody's; a job is asked under one of the
   first two. *)
ActsUnderOneOfTwo ==
  /\ proc'.passport \in {proc.passport, gesture.by, NoPassport, UnreadablePassport}
  /\ asked' = asked \/ \E j \in Job, step \in Nat, by \in {proc.passport, gesture.by} :
       asked' = [asked EXCEPT ![j] = [step |-> step, passport |-> by]]

(* A chain that stops by one event acts for nobody any more. *)
LEMMA StopsActingUnder ==
  ASSUME IInv, proc.state = "processing", NEW p \in {proc, RequestCancel(proc), ReportDone(proc)},
         NEW error \in ErrorCode, NEW event \in EndEvent \cup StopEvent,
         proc' = Push(End(p, error), event, proc.job), UNCHANGED asked
  PROVE  ActsUnderOneOfTwo
<1>1. proc.job \in JobId /\ proc \in Processing
  BY CurrentJob, RowTypes DEF IInv
<1>2. p \in Processing
  BY <1>1, ReportDoneRow, RequestCancelRow DEF Row
<1>3. Row(proc', IF error = "none" THEN "ready" ELSE "failed", error, p.job, p.step, p.past,
          p.cancel, NoPassport, NoJob, FALSE,
          p.log \cup {[event |-> event, job |-> proc.job]})
  BY <1>1, <1>2, EndedRow
<1> QED
  BY <1>3 DEF Row, ActsUnderOneOfTwo

(* Every step acts so. *)
LEMMA NextActsUnder == IInv /\ [Next]_vars => ActsUnderOneOfTwo
<1> SUFFICES ASSUME IInv, [Next]_vars PROVE ActsUnderOneOfTwo
  OBVIOUS
<1>1. /\ proc \in Processing /\ proc.step \in Nat /\ minted \in Nat
      /\ proc.state = "processing" => proc.job \in Job /\ proc.job \in JobId
      /\ proc.state = "processing" /\ Held(proc) =>
           proc.next \in Job /\ proc.next \in JobId /\ proc.next # proc.job
  BY RowTypes, CurrentJob, ChainAssumption DEF IInv, TypeOK, MintedInOrder
<1>2. /\ {"none", "cancelled", "reported"} \subseteq ErrorCode
      /\ \A passport : PassportReason(passport) \in ErrorCode
      /\ {"JobReportedDone", "JobReportedFailed", "JobCancelledOnFreeze", "StepSkipped",
          "StepAbandoned", "AwaitedStepDropped"} \subseteq EndEvent \cup StopEvent
  BY ReasonIsError DEF ErrorCode, EndEvent, StopEvent
<1>3. CASE UNCHANGED <<proc, asked>>
  BY <1>3 DEF ActsUnderOneOfTwo
<1>4. CASE proc' = Blank /\ UNCHANGED asked
  BY <1>4 DEF Blank, ActsUnderOneOfTwo
<1>5. CASE proc' = [proc EXCEPT !.passport = UnreadablePassport] /\ UNCHANGED asked
  BY <1>1, <1>5 DEF Processing, ActsUnderOneOfTwo
<1>6. CASE Gestures
  <2>1. CASE CommitGesture
    <3> DEFINE p == StartChain(proc, gesture.by)
               job == minted + 1
    <3>1. /\ gesture.by \in Person /\ gesture.by \in Passport /\ proc.job # job /\ job \in JobId /\ job \in Job
      BY <2>1, RowTypes, ChainAssumption
         DEF IInv, GestureHolds, TypeOK, Passport, MintedInOrder, JobId, NoJob, Job,
             CommitGesture, Unlocked
    <3>2. p \in Processing /\ p.job # job /\ p.passport = gesture.by
      BY <1>1, <3>1, StartChainRow DEF Row
    <3> HIDE DEF p
    <3>3. CASE proc' = AwaitSource(p, job) /\ UNCHANGED asked
      BY <3>1, <3>2, <3>3, AwaitSourceRow DEF Row, ActsUnderOneOfTwo
    <3>4. CASE /\ proc' = CreateJob(p, job, 0, gesture.by)
               /\ asked' = [asked EXCEPT ![job] = [step |-> 0, passport |-> gesture.by]]
      <4>1. proc'.passport = gesture.by
        <5>1. Row(proc', "processing", "none", job, 0, RetireCurrentJob(p).past,
                  RetireCurrentJob(p).cancel, gesture.by, NoJob, FALSE,
                  p.log \cup {[event |-> "JobCreated", job |-> job]})
          BY <3>1, <3>2, <3>4, CreateNextJobRow
        <5> QED
          BY <5>1 DEF Row
      <4> QED
        BY <3>1, <3>4, <4>1 DEF ActsUnderOneOfTwo
    <3> QED
      BY <2>1, <3>3, <3>4 DEF CommitGesture, Save, LaunchStep, p
  <2>2. CASE CancelProcessing \/ FreezeFile
    <3>1. CASE proc' = RequestCancel(proc) /\ UNCHANGED asked
      BY <1>1, <3>1, RequestCancelRow DEF Row, ActsUnderOneOfTwo
    <3>2. RequestCancel(proc).job = proc.job /\ proc.state = "processing"
      BY <1>1, <2>2, RequestCancelRow DEF Row, CancelProcessing, FreezeFile
    <3> QED
      BY <1>2, <2>2, <3>1, <3>2, StopsActingUnder
         DEF CancelProcessing, FreezeFile, DropAwaited, SkipNextStep, Save, DropAwaitedStep,
             SkipStep, CancelOnFreeze
  <2>3. ASSUME NEW person \in Person, ErasePerson(person) PROVE ActsUnderOneOfTwo
    <3>1. CASE proc' = Redact(proc, person) /\ UNCHANGED asked
      BY <1>1, <3>1, RedactRow DEF Row, ActsUnderOneOfTwo
    <3> QED
      BY <1>4, <2>3, <3>1 DEF ErasePerson, RemoveFile
  <2>4. CASE PassportSpoils
    BY <1>5, <2>4 DEF PassportSpoils
  <2> QED
    BY <1>3, <1>4, <1>6, <2>1, <2>2, <2>3, <2>4
       DEF Gestures, OpenGesture, RollBackGesture, CommitStoredOnly, DeleteFile, AbandonUpload,
           RemoveFile
<1>7. ASSUME NEW job \in Job, RunnerReportsDone(job) \/ RunnerReportsFailure(job)
      PROVE  ActsUnderOneOfTwo
  <2>1. proc.state = "processing"
    BY <1>7 DEF RunnerReportsDone, RunnerReportsFailure, IsActive, IsRunning
  <2>2. ReportDone(proc).job = proc.job
    BY <2>1, ReportDoneRow
  <2>3. CASE proc' = ReportDoneHolding(proc, minted + 1) /\ UNCHANGED asked
    <3>1. minted + 1 \in JobId
      BY <1>1 DEF JobId, NoJob
    <3> QED
      BY <1>1, <2>1, <2>3, <3>1, ReportDoneHoldingRow DEF Row, ActsUnderOneOfTwo
  <2> QED
    BY <1>2, <1>7, <2>1, <2>2, <2>3, StopsActingUnder
       DEF RunnerReportsDone, RunnerReportsFailure, SkipNextStep, Save, ReportDone, ReportFailed,
           SkipStep, AbandonStep
<1>8. CASE SourcePromoted
  <2>1. CASE AwaitsSource(proc) /\ LaunchStep(proc, proc.job, proc.step, proc.passport, {})
    <3>1. proc.job \in JobId /\ proc.job \in Job /\ proc.passport \in Passport
      BY <1>1, <2>1, RowTypes DEF AwaitsSource, IInv
    <3>2. proc'.passport = proc.passport
      <4>1. Row(proc', "processing", proc.error, proc.job, proc.step, proc.past, proc.cancel,
                proc.passport, NoJob, FALSE,
                proc.log \cup {[event |-> "JobCreated", job |-> proc.job]})
        BY <1>1, <2>1, <3>1, CreateAwaitedJobRow DEF LaunchStep
      <4> QED
        BY <4>1 DEF Row
    <3> QED
      BY <1>1, <2>1, <3>1, <3>2 DEF LaunchStep, ActsUnderOneOfTwo
  <2>2. CASE AwaitsSource(proc) /\ DropAwaited(proc, PassportReason(proc.passport))
    BY <1>2, <2>2, StopsActingUnder DEF AwaitsSource, DropAwaited, Save, DropAwaitedStep
  <2> QED
    BY <1>3, <1>8, <2>1, <2>2 DEF SourcePromoted, ReleaseAwaitedStep
<1>9. ASSUME NEW m \in facts, ReceiveFact(m) PROVE ActsUnderOneOfTwo
  <2>1. CASE /\ proc.state = "processing" /\ Held(proc)
             /\ LaunchStep(proc, proc.next, proc.step + 1, proc.passport, {})
    <3>1. proc.passport \in Passport /\ proc.step + 1 \in Nat
      BY <1>1 DEF Processing
    <3>2. proc'.passport = proc.passport
      <4>1. Row(proc', "processing", "none", proc.next, proc.step + 1,
                RetireCurrentJob(proc).past, RetireCurrentJob(proc).cancel, proc.passport,
                NoJob, FALSE, proc.log \cup {[event |-> "JobCreated", job |-> proc.next]})
        BY <1>1, <2>1, <3>1, CreateNextJobRow DEF LaunchStep
      <4> QED
        BY <4>1 DEF Row
    <3> QED
      BY <1>1, <2>1, <3>1, <3>2 DEF LaunchStep, ActsUnderOneOfTwo
  <2>2. CASE proc.state = "processing" /\ (SkipNextStep(proc, {}) \/ AbandonNextStep(proc, {}))
    BY <1>2, <2>2, StopsActingUnder DEF SkipNextStep, AbandonNextStep, Save, SkipStep, AbandonStep
  <2>3. Applied(proc, m.job, m.fact) = "released" => proc.state = "processing" /\ Held(proc)
    BY DEF Applied, IInv, RowConstraints
  <2>4. CASE /\ Applied(proc, m.job, m.fact) = "ended"
             /\ proc' = Receive(proc, m.job, m.fact) /\ UNCHANGED asked
    <3>1. m.job = proc.job /\ proc.state = "processing"
      BY <2>4 DEF Applied, IsRunning
    <3>2. /\ ErrorOf(m.fact) \in ErrorCode /\ EndEventOf(m.fact) \in EndEvent \cup StopEvent
          /\ proc' = Push(End(proc, ErrorOf(m.fact)), EndEventOf(m.fact), proc.job)
      BY <2>4, <3>1 DEF ErrorOf, EndEventOf, ErrorCode, EndEvent, Receive
    <3> QED
      BY <2>4, <3>1, <3>2, StopsActingUnder
  <2> QED
    BY <1>3, <1>9, <2>1, <2>2, <2>3, <2>4 DEF ReceiveFact, ReleaseNextStep, Save, Receive
<1> QED
  BY <1>3, <1>6, <1>7, <1>8, <1>9
     DEF Next, Runner, Source, Promote, SourceFails, rowVars, Jobs, JobsJudgesCreate, JobsFinishes,
         JobsFails, JobsCancels, JobsBackstop, Consume, Facts, vars

(* Once no erase may cross an open gesture of the person erased, no job is
   ever asked under the Passport of someone erased: an erase drops the
   Passport from the row in the transaction that records it, and no later
   gesture is theirs. *)
THEOREM ErasedNeverCarriedOn == ~CrossingErase => (Spec => ErasedNotCarriedOn)
<1> SUFFICES ASSUME ~CrossingErase PROVE Spec => ErasedNotCarriedOn
  OBVIOUS
<1> DEFINE NotCarried == \A j \in Job : asked'[j] # asked[j] => asked'[j].passport \notin erased
<1>1. Init => NobodyErased
  BY DEF Init, NobodyErased
<1>2. IInv /\ NobodyErased /\ [Next]_vars => NobodyErased'
  <2> SUFFICES ASSUME IInv, NobodyErased, [Next]_vars PROVE NobodyErased'
    OBVIOUS
  <2>1. /\ erased \subseteq Person /\ proc.passport \notin erased /\ gesture.by \notin erased
        /\ NoPassport \notin Person /\ UnreadablePassport \notin Person
        /\ proc \in Processing
    BY PassportAssumption DEF IInv, TypeOK, NobodyErased
  <2>2. ActsUnderOneOfTwo
    BY NextActsUnder
  <2>3. CASE \E person \in Person : ErasePerson(person)
    <3> PICK person \in Person : ErasePerson(person)
      BY <2>3
    <3>1. erased' = erased \cup {person} /\ gesture' = gesture /\ gesture.by # person
      BY DEF ErasePerson, RemoveFile
    <3>2. proc'.passport \notin erased'
      <4>1. CASE proc' = Blank
        BY <2>1, <3>1, <4>1 DEF Blank
      <4>2. CASE proc' = Redact(proc, person)
        BY <2>1, <3>1, <4>2, RedactRow DEF Row
      <4> QED
        BY <4>1, <4>2 DEF ErasePerson, RemoveFile
    <3> QED
      BY <2>1, <3>1, <3>2 DEF NobodyErased
  <2>4. CASE ~\E person \in Person : ErasePerson(person)
    <3>1. erased' = erased /\ gesture'.by \in {gesture.by, NoPassport} \cup (Person \ erased)
      <4>1. CASE Gestures
        <5>1. ASSUME NEW person \in Person, NEW n \in 1..MaxSteps, OpenGesture(person, n)
              PROVE  erased' = erased /\ gesture'.by \in Person \ erased
          BY <5>1 DEF OpenGesture
        <5>2. CASE CommitGesture \/ RollBackGesture
          BY <5>2 DEF CommitGesture, RollBackGesture, Closed
        <5> QED
          BY <2>4, <4>1, <5>1, <5>2
             DEF Gestures, CommitStoredOnly, CancelProcessing, FreezeFile, DeleteFile,
                 AbandonUpload, RemoveFile, PassportSpoils
      <4>2. CASE Runner \/ Source \/ Facts
        BY <4>2 DEF Runner, RunnerReportsDone, RunnerReportsFailure, Source, Promote, SourceFails,
                    SourcePromoted, rowVars, Facts, ReceiveFact
      <4>3. CASE Jobs
        BY <4>3 DEF Jobs, JobsJudgesCreate, JobsFinishes, JobsFails, JobsCancels, JobsBackstop,
                    Consume, rowVars
      <4> QED
        BY <4>1, <4>2, <4>3 DEF Next, vars
    <3> QED
      BY <2>1, <2>2, <3>1 DEF ActsUnderOneOfTwo, NobodyErased
  <2> QED
    BY <2>3, <2>4
<1>3. IInv /\ NobodyErased /\ [Next]_vars => [NotCarried]_vars
  <2> SUFFICES ASSUME IInv, NobodyErased, ActsUnderOneOfTwo PROVE NotCarried
    BY NextActsUnder
  <2> QED
    BY DEF ActsUnderOneOfTwo, NobodyErased, IInv, TypeOK
<1> QED
  BY <1>1, <1>2, <1>3, ChainInvariant, PTL DEF Spec, ErasedNotCarriedOn
=============================================================================
