------------------------------- MODULE Engine -------------------------------
(***************************************************************************)
(* The dispatch engine of VoidSend (core/engine/dispatcher.go, worker.go   *)
(* and the shutdown half of main.go): HTTP handlers call Dispatch, workers *)
(* take jobs from a bounded channel, one goroutine processes the results,  *)
(* retry timers put failed jobs back, and Stop tears all of it down while  *)
(* handlers and timers may still be running.                               *)
(*                                                                         *)
(* One job is one DispatchJob value; its ID is taken to be unique, as the  *)
(* activeJobs map does.  The two buffered channels are sequences.          *)
(***************************************************************************)
EXTENDS Integers, Sequences, FiniteSets

CONSTANTS Jobs,           \* the jobs the handlers dispatch
          Workers,        \* the goroutines Start creates (MaxWorkers)
          Scheduled,      \* the jobs that carry a ScheduledAt
          QueueSize,      \* capacity of the queue and of the results channel
          RetryAttempts,  \* MaxRetries of every job: no handler sets it
          NoJob           \* the nil job pointer

ASSUME EngineAssumption ==
    /\ Scheduled \subseteq Jobs
    /\ NoJob \notin Jobs
    /\ QueueSize \in Nat \ {0}
    /\ RetryAttempts \in Nat
    /\ IsFiniteSet(Workers)

VARIABLES
    phase,        \* [Jobs -> Phases]: where the Dispatch call of the job is
    activeJobs,   \* the keys of the activeJobs map
    schedStore,   \* what scheduleJob has written: <<store, job>> pairs
    queue,        \* the queue channel
    worker,       \* [Workers -> WorkerState]
    results,      \* the results channel
    proc,         \* the goroutine running processResults
    timers,       \* the jobs with a time.AfterFunc pending or blocked
    retryCount,   \* [Jobs -> Nat]: job.RetryCount
    metrics,      \* TotalJobs, SuccessJobs, FailedJobs
    history,      \* the job_history rows: <<job, status>>
    stage,        \* how far the shutdown of the process has come
    \* Observations, read by no action:
    attempts,     \* [Jobs -> Nat]: provider calls made for the job
    delivered,    \* the jobs a provider call returned success for
    outcome,      \* [Jobs -> Outcomes]: what the metrics counted the job as
    discarded     \* the jobs of which a result was thrown away

jobVars  == <<phase, activeJobs, schedStore>>
ghosts   == <<attempts, delivered, outcome, discarded>>
records  == <<metrics, history>>
vars == <<phase, activeJobs, schedStore, queue, worker, results, proc, timers,
          retryCount, metrics, history, stage, attempts, delivered, outcome,
          discarded>>

Phases == {"new", "registered", "counting", "accepted", "removing", "refused",
           "storing", "scheduled", "unscheduled", "panicked"}
Stages == {"running", "cancelled", "queueClosed", "stopped", "exited",
           "killed", "crashed"}
Outcomes == {"none", "completed", "failed"}
JobOrNone == Jobs \cup {NoJob}
Result == [job : Jobs, ok : BOOLEAN]
WorkerState == [st : {"idle", "sending", "reporting", "exited"},
                job : JobOrNone, ok : BOOLEAN]
ProcState == [st : {"waiting", "handling", "recording", "forgetting", "ended"},
              job : JobOrNone, ok : BOOLEAN]

Idle    == [st |-> "idle", job |-> NoJob, ok |-> FALSE]
Gone    == [st |-> "exited", job |-> NoJob, ok |-> FALSE]
Waiting == [st |-> "waiting", job |-> NoJob, ok |-> FALSE]
Ended   == [st |-> "ended", job |-> NoJob, ok |-> FALSE]

Alive         == stage \notin {"exited", "killed", "crashed"}
Cancelled     == stage # "running"                 \* e.ctx is done
QueueClosed   == stage \notin {"running", "cancelled"}
ResultsClosed == QueueClosed /\ stage # "queueClosed"

(* NewUltraEngine and Start: the channels are empty, the workers idle.     *)
Init ==
    /\ phase = [j \in Jobs |-> "new"]
    /\ activeJobs = {}
    /\ schedStore = {}
    /\ queue = <<>>
    /\ worker = [w \in Workers |-> Idle]
    /\ results = <<>>
    /\ proc = Waiting
    /\ timers = {}
    /\ retryCount = [j \in Jobs |-> 0]
    /\ metrics = [total |-> 0, success |-> 0, failed |-> 0]
    /\ history = {}
    /\ stage = "running"
    /\ attempts = [j \in Jobs |-> 0]
    /\ delivered = {}
    /\ outcome = [j \in Jobs |-> "none"]
    /\ discarded = {}

-----------------------------------------------------------------------------
(* Dispatch, run by the handler goroutine of job j.                        *)

SetPhase(j, from, to) ==
    /\ phase[j] = from
    /\ phase' = [phase EXCEPT ![j] = to]

(* checkRateLimit says no.                                                 *)
RateLimited(j) ==
    /\ SetPhase(j, "new", "refused")
    /\ UNCHANGED <<activeJobs, schedStore, queue, worker, results, proc,
                   timers, retryCount, records, stage, ghosts>>

(* checkRateLimit says yes and the job enters activeJobs.                  *)
Register(j) ==
    /\ SetPhase(j, "new", "registered")
    /\ activeJobs' = activeJobs \cup {j}
    /\ UNCHANGED <<schedStore, queue, worker, results, proc, timers,
                   retryCount, records, stage, ghosts>>

(* scheduleJob, first the Redis SET, then the INSERT.  Either can fail, and *)
(* does fail once e.ctx is cancelled, with or without having taken effect; *)
(* activeJobs keeps the entry.                                             *)
Store(j, from, to, store) ==
    /\ j \in Scheduled
    /\ \/ /\ ~Cancelled
          /\ SetPhase(j, from, to)
          /\ schedStore' = schedStore \cup {<<store, j>>}
       \/ /\ SetPhase(j, from, "unscheduled")
          /\ schedStore' \in {schedStore, schedStore \cup {<<store, j>>}}
    /\ UNCHANGED <<activeJobs, queue, worker, results, proc, timers,
                   retryCount, records, stage, ghosts>>

ScheduleInRedis(j)    == Store(j, "registered", "storing", "redis")
ScheduleInPostgres(j) == Store(j, "storing", "scheduled", "postgres")

(* The select sends.  A job with a ScheduledAt gets here when that time    *)
(* has passed before Dispatch compares it with time.Now().                 *)
Enqueue(j) ==
    /\ ~QueueClosed
    /\ Len(queue) < QueueSize
    /\ SetPhase(j, "registered", "counting")
    /\ queue' = Append(queue, j)
    /\ UNCHANGED <<activeJobs, schedStore, worker, results, proc, timers,
                   retryCount, records, stage, ghosts>>

(* Mutant of CountTotal: Dispatch removes its entry on every return.       *)
CountTotalForgets(j) ==
    /\ SetPhase(j, "counting", "accepted")
    /\ metrics' = [metrics EXCEPT !.total = @ + 1]
    /\ activeJobs' = activeJobs \ {j}
    /\ UNCHANGED <<schedStore, queue, worker, results, proc, timers,
                   retryCount, history, stage, ghosts>>

(* TotalJobs++ follows the send: workers may already hold the job.         *)
CountTotal(j) ==
    /\ SetPhase(j, "counting", "accepted")
    /\ metrics' = [metrics EXCEPT !.total = @ + 1]
    /\ UNCHANGED <<activeJobs, schedStore, queue, worker, results, proc,
                   timers, retryCount, history, stage, ghosts>>

(* The select takes its default branch.                                    *)
QueueFull(j) ==
    /\ ~QueueClosed
    /\ Len(queue) = QueueSize
    /\ SetPhase(j, "registered", "removing")
    /\ UNCHANGED <<activeJobs, schedStore, queue, worker, results, proc,
                   timers, retryCount, records, stage, ghosts>>

RemoveRefused(j) ==
    /\ SetPhase(j, "removing", "refused")
    /\ activeJobs' = activeJobs \ {j}
    /\ UNCHANGED <<schedStore, queue, worker, results, proc, timers,
                   retryCount, records, stage, ghosts>>

(* A send on the closed queue panics; gin.Recovery answers 500 and the     *)
(* process lives on.                                                       *)
SendOnClosedQueue(j) ==
    /\ QueueClosed
    /\ SetPhase(j, "registered", "panicked")
    /\ UNCHANGED <<activeJobs, schedStore, queue, worker, results, proc,
                   timers, retryCount, records, stage, ghosts>>

HandlerStarts(j) == Alive /\ (RateLimited(j) \/ Register(j))

HandlerStep(j) ==
    Alive /\ \/ ScheduleInRedis(j) \/ ScheduleInPostgres(j)
             \/ Enqueue(j)         \/ CountTotal(j)
             \/ QueueFull(j)       \/ RemoveRefused(j)
             \/ SendOnClosedQueue(j)

-----------------------------------------------------------------------------
(* A worker goroutine.                                                     *)

Take(w) ==
    /\ worker[w] = Idle
    /\ queue # <<>>
    /\ worker' = [worker EXCEPT ![w] =
                    [st |-> "sending", job |-> Head(queue), ok |-> FALSE]]
    /\ queue' = Tail(queue)
    /\ UNCHANGED <<jobVars, results, proc, timers, retryCount, records,
                   stage, ghosts>>

(* The provider call of process returns, with a messageID or an error.     *)
Send(w) ==
    /\ worker[w].st = "sending"
    /\ \E ok \in BOOLEAN :
         /\ worker' = [worker EXCEPT ![w] =
                         [st |-> "reporting", job |-> @.job, ok |-> ok]]
         /\ delivered' = IF ok THEN delivered \cup {worker[w].job}
                               ELSE delivered
    /\ attempts' = [attempts EXCEPT ![worker[w].job] = @ + 1]
    /\ UNCHANGED <<jobVars, queue, results, proc, timers, retryCount,
                   records, stage, outcome, discarded>>

(* w.results <- ...: blocks while the channel is full.                     *)
Report(w) ==
    /\ worker[w].st = "reporting"
    /\ Len(results) < QueueSize
    /\ results' = Append(results,
                         [job |-> worker[w].job, ok |-> worker[w].ok])
    /\ worker' = [worker EXCEPT ![w] = Idle]
    /\ UNCHANGED <<jobVars, queue, proc, timers, retryCount, records, stage,
                   ghosts>>

(* ctx.Done() is ready; the select may still prefer the queue to it.       *)
WorkerExit(w) ==
    /\ Cancelled
    /\ worker[w] = Idle
    /\ worker' = [worker EXCEPT ![w] = Gone]
    /\ UNCHANGED <<jobVars, queue, results, proc, timers, retryCount,
                   records, stage, ghosts>>

WorkerStep(w) == Alive /\ (Take(w) \/ Send(w) \/ Report(w) \/ WorkerExit(w))

-----------------------------------------------------------------------------
(* processResults.                                                         *)

(* Mutant of PickResult: the loop also stops once e.ctx is done.           *)
PickResultUntilCancel ==
    /\ proc = Waiting
    /\ results # <<>>
    /\ ~Cancelled
    /\ results' = Tail(results)
    /\ LET r == Head(results) IN
         IF r.job \in activeJobs
           THEN /\ proc' = [st |-> "handling", job |-> r.job, ok |-> r.ok]
                /\ UNCHANGED discarded
           ELSE /\ discarded' = discarded \cup {r.job}
                /\ UNCHANGED proc
    /\ UNCHANGED <<jobVars, queue, worker, timers, retryCount, records,
                   stage, attempts, delivered, outcome>>

(* Receive a result and look its job up in activeJobs.  Only this          *)
(* goroutine removes a job that has been enqueued, so the two are one step.*)
PickResult ==
    /\ proc = Waiting
    /\ results # <<>>
    /\ results' = Tail(results)
    /\ LET r == Head(results) IN
         IF r.job \in activeJobs
           THEN /\ proc' = [st |-> "handling", job |-> r.job, ok |-> r.ok]
                /\ UNCHANGED discarded
           ELSE /\ discarded' = discarded \cup {r.job}
                /\ UNCHANGED proc
    /\ UNCHANGED <<jobVars, queue, worker, timers, retryCount, records,
                   stage, attempts, delivered, outcome>>

CountSuccess ==
    /\ proc.st = "handling"
    /\ proc.ok
    /\ metrics' = [metrics EXCEPT !.success = @ + 1]
    /\ outcome' = [outcome EXCEPT ![proc.job] = "completed"]
    /\ proc' = [proc EXCEPT !.st = "recording"]
    /\ UNCHANGED <<jobVars, queue, worker, results, timers, retryCount,
                   history, stage, attempts, delivered, discarded>>

(* Mutant of StartRetry: a retried job is counted as failed as well.       *)
StartRetryCountsFailure ==
    /\ proc.st = "handling"
    /\ ~proc.ok
    /\ retryCount[proc.job] < RetryAttempts
    /\ retryCount' = [retryCount EXCEPT ![proc.job] = @ + 1]
    /\ timers' = timers \cup {proc.job}
    /\ metrics' = [metrics EXCEPT !.failed = @ + 1]
    /\ outcome' = [outcome EXCEPT ![proc.job] = "failed"]
    /\ proc' = [proc EXCEPT !.st = "forgetting"]
    /\ UNCHANGED <<jobVars, queue, worker, results, history, stage, attempts,
                   delivered, discarded>>

(* RetryCount++ and time.AfterFunc; the entry in activeJobs goes next.     *)
StartRetry ==
    /\ proc.st = "handling"
    /\ ~proc.ok
    /\ retryCount[proc.job] < RetryAttempts
    /\ retryCount' = [retryCount EXCEPT ![proc.job] = @ + 1]
    /\ timers' = timers \cup {proc.job}
    /\ proc' = [proc EXCEPT !.st = "forgetting"]
    /\ UNCHANGED <<jobVars, queue, worker, results, records, stage, ghosts>>

CountFailure ==
    /\ proc.st = "handling"
    /\ ~proc.ok
    /\ retryCount[proc.job] >= RetryAttempts
    /\ metrics' = [metrics EXCEPT !.failed = @ + 1]
    /\ outcome' = [outcome EXCEPT ![proc.job] = "failed"]
    /\ proc' = [proc EXCEPT !.st = "recording"]
    /\ UNCHANGED <<jobVars, queue, worker, results, timers, retryCount,
                   history, stage, attempts, delivered, discarded>>

(* Mutant of RecordHistory: every row says completed.                      *)
RecordHistoryCompleted ==
    /\ proc.st = "recording"
    /\ \/ history' = history \cup {<<proc.job, "completed">>}
       \/ UNCHANGED history
    /\ proc' = [proc EXCEPT !.st = "forgetting"]
    /\ UNCHANGED <<jobVars, queue, worker, results, timers, retryCount,
                   metrics, stage, ghosts>>

(* updateJobStatus: the INSERT runs under e.ctx and an error is only logged.*)
RecordHistory ==
    /\ proc.st = "recording"
    /\ \/ /\ ~Cancelled
          /\ history' = history \cup
               {<<proc.job, IF proc.ok THEN "completed" ELSE "failed">>}
       \/ UNCHANGED history
    /\ proc' = [proc EXCEPT !.st = "forgetting"]
    /\ UNCHANGED <<jobVars, queue, worker, results, timers, retryCount,
                   metrics, stage, ghosts>>

(* Mutant of Forget: only a completed job is deleted.                      *)
ForgetCompleted ==
    /\ proc.st = "forgetting"
    /\ activeJobs' = IF proc.ok THEN activeJobs \ {proc.job} ELSE activeJobs
    /\ proc' = Waiting
    /\ UNCHANGED <<phase, schedStore, queue, worker, results, timers,
                   retryCount, records, stage, ghosts>>

(* delete(e.activeJobs, result.JobID), whatever branch was taken.          *)
Forget ==
    /\ proc.st = "forgetting"
    /\ activeJobs' = activeJobs \ {proc.job}
    /\ proc' = Waiting
    /\ UNCHANGED <<phase, schedStore, queue, worker, results, timers,
                   retryCount, records, stage, ghosts>>

(* The range loop ends: results is closed and drained.                     *)
ProcEnd ==
    /\ proc = Waiting
    /\ ResultsClosed
    /\ results = <<>>
    /\ proc' = Ended
    /\ UNCHANGED <<jobVars, queue, worker, results, timers, retryCount,
                   records, stage, ghosts>>

ProcStep ==
    Alive /\ \/ PickResult    \/ CountSuccess \/ StartRetry \/ CountFailure
             \/ RecordHistory \/ Forget       \/ ProcEnd

-----------------------------------------------------------------------------
(* The goroutine of a retry timer: a blocking send on the queue.           *)

(* Mutant of RetryEnqueue: a ticker where the code has a one-shot timer.   *)
RetryEnqueueRepeats(j) ==
    /\ j \in timers
    /\ ~QueueClosed
    /\ Len(queue) < QueueSize
    /\ queue' = Append(queue, j)
    /\ UNCHANGED <<jobVars, worker, results, proc, timers, retryCount,
                   records, stage, ghosts>>

(* Mutant of RetryEnqueue: it does not wait for room in the channel.       *)
RetryEnqueueOverfills(j) ==
    /\ j \in timers
    /\ ~QueueClosed
    /\ queue' = Append(queue, j)
    /\ timers' = timers \ {j}
    /\ UNCHANGED <<jobVars, worker, results, proc, retryCount, records,
                   stage, ghosts>>

(* Mutant of RetryEnqueue: Dispatch's non-blocking send.                   *)
RetryEnqueueOrDrop(j) ==
    /\ j \in timers
    /\ ~QueueClosed
    /\ queue' = IF Len(queue) < QueueSize THEN Append(queue, j) ELSE queue
    /\ timers' = timers \ {j}
    /\ UNCHANGED <<jobVars, worker, results, proc, retryCount, records,
                   stage, ghosts>>

(* Mutant of RetryEnqueue: a retry is counted as a new job.                *)
RetryEnqueueCounts(j) ==
    /\ j \in timers
    /\ ~QueueClosed
    /\ Len(queue) < QueueSize
    /\ queue' = Append(queue, j)
    /\ timers' = timers \ {j}
    /\ metrics' = [metrics EXCEPT !.total = @ + 1]
    /\ UNCHANGED <<jobVars, worker, results, proc, retryCount, history,
                   stage, ghosts>>

RetryEnqueue(j) ==
    /\ j \in timers
    /\ ~QueueClosed
    /\ Len(queue) < QueueSize
    /\ queue' = Append(queue, j)
    /\ timers' = timers \ {j}
    /\ UNCHANGED <<jobVars, worker, results, proc, retryCount, records,
                   stage, ghosts>>

(* Fired, or still blocked, when the queue is closed: nothing recovers the *)
(* panic, the process dies.                                                *)
RetryPanics(j) ==
    /\ j \in timers
    /\ QueueClosed
    /\ stage' = "crashed"
    /\ timers' = timers \ {j}
    /\ UNCHANGED <<jobVars, queue, worker, results, proc, retryCount,
                   records, ghosts>>

TimerStep(j) == Alive /\ (RetryEnqueue(j) \/ RetryPanics(j))

-----------------------------------------------------------------------------
(* main after SIGTERM: Stop (cancel, wg.Wait, close, close), and only then *)
(* srv.Shutdown, which waits for the handlers or gives up.                 *)

SetStage(from, to) ==
    /\ stage = from
    /\ stage' = to
    /\ UNCHANGED <<jobVars, queue, worker, results, proc, timers,
                   retryCount, records, ghosts>>

Cancel       == SetStage("running", "cancelled")
CloseQueue   == /\ \A w \in Workers : worker[w] = Gone
                /\ SetStage("cancelled", "queueClosed")
CloseResults == SetStage("queueClosed", "stopped")

InHandler(j) == phase[j] \in {"registered", "counting", "removing", "storing"}

ExitGracefully == /\ \A j \in Jobs : ~InHandler(j)
                  /\ SetStage("stopped", "exited")
ExitForced     == /\ \E j \in Jobs : InHandler(j)
                  /\ SetStage("stopped", "killed")

StopStep == CloseQueue \/ CloseResults \/ ExitGracefully \/ ExitForced

-----------------------------------------------------------------------------
Dead == ~Alive /\ UNCHANGED vars

Next ==
    \/ \E j \in Jobs : HandlerStarts(j) \/ HandlerStep(j) \/ TimerStep(j)
    \/ \E w \in Workers : WorkerStep(w)
    \/ ProcStep
    \/ Cancel
    \/ StopStep
    \/ Dead

Spec == Init /\ [][Next]_vars

(* Go runs every goroutine that can move: provider calls, database calls   *)
(* and timers return, a handler that has begun goes on.  Requests and the  *)
(* signal need never come.                                                 *)
Fairness ==
    /\ \A j \in Jobs : WF_vars(HandlerStep(j)) /\ WF_vars(TimerStep(j))
    /\ \A w \in Workers : WF_vars(WorkerStep(w))
    /\ WF_vars(ProcStep)
    /\ WF_vars(StopStep)

FairSpec == Spec /\ Fairness

-----------------------------------------------------------------------------
(* Correctness.                                                            *)

(* The variables hold values of their types; the channels respect their    *)
(* capacity and a goroutine holds a job exactly when its state says so.    *)
TypeOK ==
    /\ phase \in [Jobs -> Phases]
    /\ activeJobs \in SUBSET Jobs
    /\ schedStore \in SUBSET ({"redis", "postgres"} \X Jobs)
    /\ queue \in Seq(Jobs) /\ Len(queue) <= QueueSize
    /\ worker \in [Workers -> WorkerState]
    /\ \A w \in Workers :
         worker[w].job = NoJob <=> worker[w].st \in {"idle", "exited"}
    /\ results \in Seq(Result) /\ Len(results) <= QueueSize
    /\ proc \in ProcState
    /\ proc.job = NoJob <=> proc.st \in {"waiting", "ended"}
    /\ timers \in SUBSET Jobs
    /\ retryCount \in [Jobs -> 0 .. RetryAttempts]
    /\ metrics \in [total : Nat, success : Nat, failed : Nat]
    /\ history \in SUBSET (Jobs \X {"completed", "failed"})
    /\ stage \in Stages
    /\ attempts \in [Jobs -> Nat]
    /\ delivered \in SUBSET Jobs
    /\ outcome \in [Jobs -> Outcomes]
    /\ discarded \in SUBSET Jobs

QueuedJobs   == {queue[i] : i \in DOMAIN queue}
HeldJobs     == {worker[w].job : w \in Workers} \ {NoJob}
ReportedJobs == {results[i].job : i \in DOMAIN results}
HandledJobs  == IF proc.st = "handling" THEN {proc.job} ELSE {}
InFlight     == QueuedJobs \cup HeldJobs \cup ReportedJobs \cup HandledJobs
                \cup timers

(* A job is in one place: two goroutines never work on the same job, no    *)
(* matter how retry timers, workers and the result loop interleave.        *)
SingleCustody ==
    /\ \A i, k \in DOMAIN queue : queue[i] = queue[k] => i = k
    /\ \A i, k \in DOMAIN results : results[i].job = results[k].job => i = k
    /\ \A w, v \in Workers :
         worker[w].job = worker[v].job => w = v \/ worker[w].job = NoJob
    /\ QueuedJobs \cap (HeldJobs \cup ReportedJobs \cup HandledJobs \cup timers)
         = {}
    /\ HeldJobs \cap (ReportedJobs \cup HandledJobs \cup timers) = {}
    /\ ReportedJobs \cap (HandledJobs \cup timers) = {}
    /\ HandledJobs \cap timers = {}

(* The map and the channels agree: as long as the first attempt of a job is *)
(* under way activeJobs knows it, so a result that processResults throws   *)
(* away belongs to a retry.                                                *)
TrackedUntilHandled ==
    /\ \A j \in InFlight : retryCount[j] = 0 => j \in activeJobs
    /\ \A j \in discarded : retryCount[j] > 0

(* TotalJobs is the number of dispatched jobs, however often they are      *)
(* retried, SuccessJobs and FailedJobs count no job twice.                 *)
CountersAddUp ==
    /\ metrics.total = Cardinality({j \in Jobs : phase[j] = "accepted"})
    /\ metrics.success = Cardinality({j \in Jobs : outcome[j] = "completed"})
    /\ metrics.failed = Cardinality({j \in Jobs : outcome[j] = "failed"})
    /\ \A j \in Jobs :
         outcome[j] # "none" => phase[j] \in {"counting", "accepted"}

(* A job_history row tells what happened: one row at most per job, of the  *)
(* counted outcome, and "completed" if and only if a provider took it.     *)
HistoryTruthful ==
    \A row \in history :
        /\ outcome[row[1]] = row[2]
        /\ row[2] = "completed" <=> row[1] \in delivered

(* Once a job is counted as completed or failed no provider is called for  *)
(* it again and the verdict stays.                                         *)
ConcludedForGood ==
    [][\A j \in Jobs : outcome[j] # "none" =>
          attempts'[j] = attempts[j] /\ outcome'[j] = outcome[j]]_vars

(* Stop closes the channels only when every worker has returned: no worker *)
(* can send on the closed results or spin on the closed queue.             *)
ChannelsOutliveWorkers == QueueClosed => \A w \in Workers : worker[w] = Gone

Settled ==
    /\ queue = <<>> /\ results = <<>> /\ timers = {} /\ proc = Waiting
    /\ \A w \in Workers : worker[w].job = NoJob
    /\ \A j \in Jobs : ~InHandler(j)

(* When nothing is in flight, activeJobs has let go of every job that was  *)
(* refused or sent; what stays are jobs scheduleJob kept or a panic left.  *)
OnlyUnsentStayActive ==
    Settled => \A j \in activeJobs :
                  phase[j] \in {"scheduled", "unscheduled", "panicked"}

(* Stop returns from wg.Wait: no worker blocks for ever on the results     *)
(* channel while the engine shuts down.                                    *)
StopReturns == (stage = "cancelled") ~> QueueClosed

(* While the engine is not told to stop, the first result of every         *)
(* accepted job is looked at and a retry, if one is due, is run.           *)
AcceptedIsHandled ==
    \A j \in Jobs : (phase[j] = "accepted") ~>
        (outcome[j] # "none" \/ j \in discarded \/ Cancelled)

(* The engine implements the life of a job stated in JobLifecycle.         *)
JobStatus(j) ==
    CASE outcome[j] # "none" -> outcome[j]
      [] outcome[j] = "none" /\ phase[j] \in {"counting", "accepted"} -> "pending"
      [] OTHER -> "waiting"

Lifecycle == INSTANCE JobLifecycle WITH
    status <- [j \in Jobs |-> JobStatus(j)],
    tries <- attempts,
    taken <- delivered,
    MaxTries <- RetryAttempts + 1

ImplementsLifecycle == Lifecycle!Spec

-----------------------------------------------------------------------------
(* What the documentation says and the code does not do.                   *)

(* "VoidSend Engine gracefully stopped": stopping does not crash.          *)
StopDoesNotCrash == stage # "crashed"

=============================================================================
